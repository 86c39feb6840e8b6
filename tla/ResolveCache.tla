---------------------------- MODULE ResolveCache ----------------------------
(***************************************************************************)
(* The two-layer resolve cache: requests that resolve one config, while    *)
(* clients publish, move tags, delete and re-create what it depends on.    *)
(*                                                                         *)
(* Layer 1 (res) holds a resolution before it is cast, layer 2 (art) the   *)
(* artifacts of one cast.  An entry is filled from reads that happened one *)
(* after the other and revalidated by reads that happen one after the      *)
(* other; the tree may change between any two of them.                     *)
(*                                                                         *)
(* A path stands for the reference by which it is used (path@tag), and its *)
(* content for the version that reference names now.  All requests share   *)
(* the parameters and no_creds = false, which are part of both keys.       *)
(***************************************************************************)
EXTENDS Naturals, Sequences

CONSTANTS
    Requests,     \* concurrent resolve requests
    Casts,        \* output formats a request may ask for
    Paths,        \* the items a resolution may consult
    Root,         \* the config the requests resolve
    Optional,     \* paths that are only extended with skip_missing
    Secrets,      \* paths that are secrets
    Extends,      \* the references of a content, in the document's order
    Permitted,    \* the paths the caller of a request may resolve
    MaxVersion,   \* bound: versions of one item
    MaxLives,     \* bound: how often one path is created
    MaxEvents     \* bound: changes of the tree and expiries

\* What a reference names: a version of one life of its path.  A re-created
\* item numbers its versions from 1 again.
Contents == [path : Paths, life : 1 .. MaxLives, ver : 1 .. MaxVersion]

ASSUME ConstantsAssumption ==
    /\ Root \in Paths
    /\ Optional \subseteq Paths \ {Root}
    /\ Secrets \subseteq Paths \ {Root}
    /\ Extends \in [Contents -> Seq(Paths)]
    /\ Permitted \in [Requests -> SUBSET Paths]
    /\ MaxVersion \in Nat \ {0} /\ MaxLives \in Nat \ {0} /\ MaxEvents \in Nat

VARIABLES
    tree,       \* for each path its life (0: never created) and version (0: missing)
    events,     \* number of changes of the tree and expiries
    res,        \* layer 1: key -> entry
    art,        \* layer 2: key and cast -> entry
    artifacts,  \* the artifacts that are stored
    req,        \* what each request holds in memory
    seen        \* history: what each path has named since a request started

vars == <<tree, events, res, art, artifacts, req, seen>>

\* content_version and the fingerprint of the root's extend list
KeyOf(c) == [cv |-> c.ver, ext |-> Extends[c]]
Keys     == {KeyOf(c) : c \in {d \in Contents : d.path = Root}}

\* Participants, and the optional sources that were missing.  The root is a
\* participant of every resolution: an entry without any is no entry.
Entry   == [parts : SUBSET Contents, skips : SUBSET Paths]
NoEntry == [parts |-> {}, skips |-> {}]

\* an artifact is named by the hash of its bytes
ArtifactOf(cast, parts) == <<cast, parts>>

PC == {"artifact", "checkArtifact", "resolution", "checkResolution",
       "pipeline", "store", "fillArtifact", "fillResolution", "done"}

\* how: where the answer comes from (the X-Cache status).  watch and left are
\* the skipped sources and participants of an entry still to be revalidated,
\* todo the references the pipeline has still to read.
Held == [pc : PC, how : {"miss", "cast", "hit"}, cast : Casts, key : Keys,
         root : Contents, parts : SUBSET Contents, skips : SUBSET Paths,
         left : SUBSET Contents, watch : SUBSET Paths, todo : Seq(Paths)]
Idle == [pc |-> "idle"]

\* what p names now; ver = 0 when it names nothing
Named(p)   == [path |-> p, life |-> tree[p].life, ver |-> tree[p].ver]
Missing(p) == tree[p].ver = 0
Busy(r)    == req[r] # Idle

-----------------------------------------------------------------------------
(* The tree, changed by other requests *)

Event == events < MaxEvents /\ events' = events + 1

\* Every request that is running has now seen what p names.
Change(p, to) ==
    /\ Event
    /\ tree' = [tree EXCEPT ![p] = to]
    /\ seen' = [r \in Requests |->
                  IF Busy(r) THEN seen[r] \cup {[path |-> p, life |-> to.life,
                                                 ver |-> to.ver]}
                  ELSE seen[r]]
    /\ UNCHANGED <<res, art, artifacts, req>>

\* A publication moves latest, a client moves a tag, a version or the item is
\* deleted: the reference names another version of the item, or none.
Retarget(p, v) ==
    /\ tree[p].life > 0
    /\ tree[p].ver # v
    /\ Change(p, [life |-> tree[p].life, ver |-> v])

\* an item is created, perhaps where another one was deleted
Create(p) ==
    /\ Missing(p)
    /\ tree[p].life < MaxLives
    /\ Change(p, [life |-> tree[p].life + 1, ver |-> 1])

-----------------------------------------------------------------------------
(* Requests *)

Update(r, held) ==
    /\ req' = [req EXCEPT ![r] = held]
    /\ UNCHANGED <<tree, events, seen>>

Go(r, held) == Update(r, held) /\ UNCHANGED <<res, art, artifacts>>

\* _resolve_cache_context reads the root to compute the cache keys.
Start(r, cast) ==
    /\ ~Busy(r)
    /\ Root \in Permitted[r]
    /\ ~Missing(Root)
    /\ req' = [req EXCEPT ![r] =
                  [pc |-> "artifact", how |-> "miss", cast |-> cast,
                   key |-> KeyOf(Named(Root)), root |-> Named(Root),
                   parts |-> {}, skips |-> {}, left |-> {}, watch |-> {},
                   todo |-> <<>>]]
    /\ seen' = [seen EXCEPT ![r] = {Named(p) : p \in Paths}]
    /\ UNCHANGED <<tree, events, res, art, artifacts>>

\* Mutant of Load: the sources that were missing are not looked at again.
LoadUnwatched(r, entry, how, to) ==
    Go(r, [req[r] EXCEPT !.pc = to, !.how = how, !.parts = entry.parts,
                         !.skips = entry.skips, !.left = entry.parts,
                         !.watch = {}, !.todo = <<>>])

\* revalidation of an entry found in the cache begins
Load(r, entry, how, to) ==
    Go(r, [req[r] EXCEPT !.pc = to, !.how = how, !.parts = entry.parts,
                         !.skips = entry.skips, !.left = entry.parts,
                         !.watch = entry.skips, !.todo = <<>>])

\* layer 2 has nothing usable
TryResolution(r) == Go(r, [req[r] EXCEPT !.pc = "resolution"])

\* layer 1 has nothing usable either: run the pipeline, the root first
RunPipeline(r) ==
    Go(r, [req[r] EXCEPT !.pc = "pipeline", !.how = "miss", !.parts = {},
                         !.skips = {}, !.left = {}, !.watch = {},
                         !.todo = <<Root>>])

\* A cache that fails is a cache without the entry; a request that bypasses
\* the cache (mark-stable) misses both layers and fills neither.
LookupArtifact(r) ==
    LET entry == art[<<req[r].key, req[r].cast>>] IN
    /\ req[r].pc = "artifact"
    /\ \/ TryResolution(r)
       \/ entry # NoEntry /\ Load(r, entry, "hit", "checkArtifact")

LookupResolution(r) ==
    LET entry == res[req[r].key] IN
    /\ req[r].pc = "resolution"
    /\ \/ RunPipeline(r)
       \/ entry # NoEntry /\ Load(r, entry, "cast", "checkResolution")

\* An invalid entry of layer 2 sends the request to layer 1, one of layer 1 to
\* the pipeline.
Invalid(r) == IF req[r].pc = "checkArtifact" THEN TryResolution(r) ELSE RunPipeline(r)

Checking(r) == req[r].pc \in {"checkArtifact", "checkResolution"}

\* skipped_optional_extend_valid looks at one skipped source after the other.
CheckSkipped(r, p) ==
    /\ Checking(r)
    /\ p \in req[r].watch
    /\ \/ Missing(p) /\ Go(r, [req[r] EXCEPT !.watch = @ \ {p}])
       \/ ~Missing(p) /\ Invalid(r)

\* Mutant of StillNamed: the participant only has to exist.
StillExists(c) == ~Missing(c.path)

\* _check_participant compares version numbers.
StillNamed(c) == tree[c.path].ver = c.ver

CheckParticipant(r, c) ==
    /\ Checking(r)
    /\ req[r].watch = {}
    /\ c \in req[r].left
    /\ \/ StillNamed(c) /\ Go(r, [req[r] EXCEPT !.left = @ \ {c}])
       \/ ~StillNamed(c) /\ Invalid(r)

Revalidated(r) == Checking(r) /\ req[r].watch = {} /\ req[r].left = {}

\* Mutant of MayUse: whoever may resolve the root may have the entry.
MayUseRoot(r, parts) == Root \in Permitted[r]

\* require_resolve_participants: the caller may resolve every participant
MayUse(r, parts) == \A c \in parts : c.path \in Permitted[r]

\* The last check of layer 2 is that the artifacts are still stored.
ServeArtifact(r) ==
    /\ req[r].pc = "checkArtifact"
    /\ Revalidated(r)
    /\ \/ /\ ArtifactOf(req[r].cast, req[r].parts) \in artifacts
          /\ MayUse(r, req[r].parts)
          /\ Go(r, [req[r] EXCEPT !.pc = "done"])
       \/ /\ ArtifactOf(req[r].cast, req[r].parts) \notin artifacts
          /\ Invalid(r)

CastResolution(r) ==
    /\ req[r].pc = "checkResolution"
    /\ Revalidated(r)
    /\ MayUse(r, req[r].parts)
    /\ Go(r, [req[r] EXCEPT !.pc = "store"])

\* The pipeline reads a reference that names c, then what c refers to, before
\* it goes on with the rest.
ReadNamed(r, c) ==
    /\ c.path \in Permitted[r]
    /\ Go(r, [req[r] EXCEPT !.parts = @ \cup {c},
                            !.todo = Extends[c] \o Tail(@)])

\* A folder resolution passes the config row it listed, whose tags may be old.
ReadSource(r) ==
    /\ req[r].pc = "pipeline"
    /\ req[r].todo # <<>>
    /\ LET p == Head(req[r].todo) IN
       \/ ~Missing(p) /\ ReadNamed(r, Named(p))
       \/ p = Root /\ ReadNamed(r, req[r].root)

\* Mutant of SkipSource: records the tag where the path belongs.
SkipTag(r) ==
    /\ req[r].pc = "pipeline"
    /\ req[r].todo # <<>>
    /\ LET p == Head(req[r].todo) IN
       /\ p \in Optional
       /\ Missing(p)
       /\ Go(r, [req[r] EXCEPT !.skips = @ \cup {"latest"}, !.todo = Tail(@)])

SkipSource(r) ==
    /\ req[r].pc = "pipeline"
    /\ req[r].todo # <<>>
    /\ LET p == Head(req[r].todo) IN
       /\ p \in Optional
       /\ Missing(p)
       /\ Go(r, [req[r] EXCEPT !.skips = @ \cup {p}, !.todo = Tail(@)])

Resolved(r) ==
    /\ req[r].pc = "pipeline"
    /\ req[r].todo = <<>>
    /\ Go(r, [req[r] EXCEPT !.pc = "store"])

StoreArtifact(r) ==
    /\ req[r].pc = "store"
    /\ artifacts' = artifacts \cup {ArtifactOf(req[r].cast, req[r].parts)}
    /\ Update(r, [req[r] EXCEPT !.pc = "fillArtifact"])
    /\ UNCHANGED <<res, art>>

\* A layer 2 entry made from a layer 1 entry is written without the sources
\* the resolution had skipped.
ArtifactEntry(r) ==
    [parts |-> req[r].parts,
     skips |-> IF req[r].how = "cast" THEN {} ELSE req[r].skips]

\* The cache may be down: a failed set is logged and the answer goes out.  A
\* resolution without outputs is not stored at all.
FillArtifact(r) ==
    /\ req[r].pc = "fillArtifact"
    /\ \/ art' = [art EXCEPT ![<<req[r].key, req[r].cast>>] = ArtifactEntry(r)]
       \/ UNCHANGED art
    /\ Update(r, [req[r] EXCEPT !.pc = IF req[r].how = "cast" THEN "done"
                                       ELSE "fillResolution"])
    /\ UNCHANGED <<res, artifacts>>

\* Plaintext of a secret is never written to layer 1.
FillResolution(r) ==
    /\ req[r].pc = "fillResolution"
    /\ \/ /\ \A c \in req[r].parts : c.path \notin Secrets
          /\ res' = [res EXCEPT ![req[r].key] = [parts |-> req[r].parts,
                                                 skips |-> req[r].skips]]
       \/ UNCHANGED res
    /\ Update(r, [req[r] EXCEPT !.pc = "done"])
    /\ UNCHANGED <<art, artifacts>>

\* The answer goes out; or, at any point, the request ends with an error (a
\* required source is missing, a permission, a document) or its worker dies.
End(r) ==
    /\ Busy(r)
    /\ req' = [req EXCEPT ![r] = Idle]
    /\ seen' = [seen EXCEPT ![r] = {}]
    /\ UNCHANGED <<tree, events, res, art, artifacts>>

-----------------------------------------------------------------------------
(* Entries and artifacts expire *)

EvictResolution(k) ==
    /\ Event
    /\ res[k] # NoEntry
    /\ res' = [res EXCEPT ![k] = NoEntry]
    /\ UNCHANGED <<tree, art, artifacts, req, seen>>

EvictArtifact(k, cast) ==
    /\ Event
    /\ art[<<k, cast>>] # NoEntry
    /\ art' = [art EXCEPT ![<<k, cast>>] = NoEntry]
    /\ UNCHANGED <<tree, res, artifacts, req, seen>>

Sweep(a) ==
    /\ Event
    /\ artifacts' = artifacts \ {a}
    /\ UNCHANGED <<tree, res, art, req, seen>>

-----------------------------------------------------------------------------
Init ==
    /\ tree \in [Paths -> {[life |-> 0, ver |-> 0], [life |-> 1, ver |-> 1]}]
    /\ events = 0
    /\ res = [k \in Keys |-> NoEntry]
    /\ art = [e \in Keys \X Casts |-> NoEntry]
    /\ artifacts = {}
    /\ req = [r \in Requests |-> Idle]
    /\ seen = [r \in Requests |-> {}]

Step(r) ==
    \/ \E cast \in Casts : Start(r, cast)
    \/ LookupArtifact(r) \/ LookupResolution(r)
    \/ \E p \in Paths : CheckSkipped(r, p)
    \/ \E c \in Contents : CheckParticipant(r, c)
    \/ ServeArtifact(r) \/ CastResolution(r)
    \/ ReadSource(r) \/ SkipSource(r) \/ Resolved(r)
    \/ StoreArtifact(r) \/ FillArtifact(r) \/ FillResolution(r)
    \/ End(r)

Edit ==
    \E p \in Paths : Create(p) \/ \E v \in 0 .. MaxVersion : Retarget(p, v)

Expire ==
    \/ \E k \in Keys : EvictResolution(k)
    \/ \E k \in Keys, cast \in Casts : EvictArtifact(k, cast)
    \/ \E a \in artifacts : Sweep(a)

Next == (\E r \in Requests : Step(r)) \/ Edit \/ Expire

Spec == Init /\ [][Next]_vars

-----------------------------------------------------------------------------
(* Properties *)

\* Every variable and every field of a request holds a value of its kind.
TypeOK ==
    /\ tree \in [Paths -> {t \in [life : 0 .. MaxLives, ver : 0 .. MaxVersion] :
                            t.life = 0 => t.ver = 0}]
    /\ events \in 0 .. MaxEvents
    /\ res \in [Keys -> Entry]
    /\ art \in [Keys \X Casts -> Entry]
    /\ artifacts \subseteq Casts \X SUBSET Contents
    /\ req \in [Requests -> Held \cup {Idle}]
    /\ seen \in [Requests -> SUBSET [path : Paths, life : 0 .. MaxLives,
                                     ver : 0 .. MaxVersion]]

Answered(r) == Busy(r) /\ req[r].pc = "done"

\* "each participant still resolves to its stored version": whichever layer
\* answers, and whatever changed between filling, revalidating and answering,
\* every reference of the answer named the version used at some moment of the
\* request.
ServedVersionsWereNamed ==
    \A r \in Requests : Answered(r) =>
        \A c \in req[r].parts :
            \E d \in seen[r] : d.path = c.path /\ d.ver = c.ver

\* "Updating the config content (even to the same version string) also busts
\* the cache": every content of the answer is one its reference named at some
\* moment of the request, not one of an earlier life of the path.
ServedContentsWereNamed ==
    \A r \in Requests : Answered(r) => req[r].parts \subseteq seen[r]

WasMissing(r, p) == \E d \in seen[r] : d.path = p /\ d.ver = 0

\* "creating that config later invalidates the cache": every optional source
\* left out of an answer was missing at some moment of the request.  Overlooked
\* is the source an answer leaves out: it is extended by a participant and is
\* not a participant itself.
LeftOut(r) ==
    {p \in Paths : /\ \A c \in req[r].parts : c.path # p
                   /\ \E c \in req[r].parts : \E i \in 1 .. Len(Extends[c]) :
                          Extends[c][i] = p}

SkippedSourcesWereMissing ==
    \A r \in Requests : Answered(r) => \A p \in LeftOut(r) : WasMissing(r, p)

\* The same of the answers layer 2 does not give: the pipeline's own, and those
\* cast from a layer 1 entry.  It also says that no required source is left out.
CastsSkipOnlyMissingSources ==
    \A r \in Requests : Answered(r) /\ req[r].how # "hit" =>
        \A p \in LeftOut(r) : p \in Optional /\ WasMissing(r, p)

\* "caller holds the same actions as on a full pipeline": no layer answers with
\* something the caller may not resolve, though one entry serves all callers.
ServedOnlyPermitted ==
    \A r \in Requests : Answered(r) => \A c \in req[r].parts : c.path \in Permitted[r]
=============================================================================
