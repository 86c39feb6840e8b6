----------------------------- MODULE Resolution -----------------------------
(***************************************************************************)
(* Resolving configs: a config extends others, each of which is resolved   *)
(* in turn, and the outputs are merged.  The recursion is a stack of       *)
(* frames; between any two reads of the database others edit, delete and   *)
(* promote configs.  A request resolves one config, or the configs of a    *)
(* folder one after the other, and may then promote their stable tags.  A  *)
(* behaviour is of one request, which leaves nothing to the next.          *)
(*                                                                         *)
(* A document is data (a value for each key), what it extends, the patch   *)
(* that its extend block selects with `by', and its name template, which   *)
(* is the key it substitutes.  A value is a sequence, so that a numeric    *)
(* suffix is one more element and "a-1" may come from a document too.      *)
(***************************************************************************)
EXTENDS Integers, FiniteSets, Sequences, SequencesExt

CONSTANTS
    ConfigPaths,
    DataKeys,
    ConfigDocs,         \* documents that users save
    FirstDocs,          \* the documents of version 1: a set of [ConfigPaths -> ConfigDocs]
    Requested,          \* what requests resolve: the configs of a folder, or one
    RequestRefs,        \* the references they give
    MaxDepth,           \* OCMO_MAX_CONFIG_RESOLVE_DEPTH
    MaxConfigEdits      \* bound: edits and deletions in a behaviour

ASSUME ResolutionAssumption ==
    /\ MaxDepth \in Nat \ {0} /\ MaxConfigEdits \in Nat

RefNames == {"latest", "stable", "1"}

Docs == ConfigDocs \cup {first[p] : first \in FirstDocs, p \in ConfigPaths}

ASSUME RequestsAssumption ==
    /\ RequestRefs \subseteq RefNames
    /\ \A asked \in Requested : asked.folder \in BOOLEAN /\ asked.paths \in Seq(ConfigPaths)

IsTuple(s) == Len(s) \in Nat /\ s = [i \in 1 .. Len(s) |-> s[i]]

\* ConfigExtendSchema; a broadcast applies one value, the others a list of them
ASSUME DocumentsAssumption ==
    \A doc \in Docs :
        /\ doc.extend \in Seq([path : ConfigPaths, ref : RefNames, skip : BOOLEAN])
        /\ doc.mode \in {"stack", "broadcast", "zip", "replicate"}
        /\ doc.name \in DataKeys \cup {"none"}
        /\ \A k \in DataKeys : IsTuple(doc.body[k])
        /\ IsTuple(doc.patch) /\ (doc.mode = "broadcast" => doc.patch # <<>>)
        /\ \A i \in 1 .. Len(doc.patch) : \A k \in DataKeys : IsTuple(doc.patch[i][k])

VARIABLES
    configs,        \* each config: is it there, its versions, its stable tag
    request,        \* the request in flight
    frames,         \* its stack: configs that wait for the ones they extend
    consulted,      \* _participants of the config being resolved
    skipped,        \* _skipped_optional_extend
    outcome,        \* of the config resolved last
    disturbed,      \* history: a config has changed since its first was read
    configEdits     \* edits so far

resolutionVars ==
    <<configs, request, frames, consulted, skipped, outcome, disturbed, configEdits>>

Absent  == <<>>
Failed  == [ok |-> FALSE, outs |-> <<>>]
Gave(s) == [ok |-> TRUE, outs |-> s]

\* resolve_version on the item as it is in db; 0 when there is no such version
VersionIn(db, path, ref) ==
    LET n == IF ref = "latest" THEN Len(db[path].docs)
             ELSE IF ref = "stable" THEN db[path].stable ELSE 1
    IN  IF db[path].there /\ n \in 1 .. Len(db[path].docs) THEN n ELSE 0

Version(path, ref) == VersionIn(configs, path, ref)

-----------------------------------------------------------------------------
(* Merging *)

\* deep_merge: the second document wins
Merge(a, b) == [k \in DataKeys |-> IF b[k] # Absent THEN b[k] ELSE a[k]]

Sources(bases) == FlattenSeq(bases)

\* The sources of a stack, each over those before it
Overlaid(srcs) ==
    LET over[i \in 0 .. Len(srcs)] ==
            IF i = 0 THEN [k \in DataKeys |-> Absent] ELSE Merge(over[i - 1], srcs[i].data)
    IN  over[Len(srcs)]

\* zip is refused before a source is read when its patches are not one for each
ZipRefused(doc) ==
    doc.mode = "zip" /\ ~(doc.list /\ Len(doc.patch) = Len(doc.extend))

\* _apply_extend: bases holds for each source its outputs, <<>> when skipped (a
\* source that gives no output at all is refused by zip)
Extended(doc, owner, version, bases, skips) ==
    LET srcs == Sources(bases)
    IN  CASE doc.mode = "stack" ->
               Gave(<<[data |-> Merge(Overlaid(srcs), doc.body), name |-> doc.name,
                       owner |-> owner, version |-> version]>>)
          [] doc.mode = "broadcast" ->
               Gave([i \in DOMAIN srcs |-> [srcs[i] EXCEPT !.data = Merge(@, doc.patch[1])]])
          [] doc.mode = "zip" ->
               IF \E i \in DOMAIN bases : i \notin skips /\ Len(bases[i]) # 1 THEN Failed
               ELSE Gave(FlattenSeq([i \in DOMAIN bases |->
                        IF i \in skips THEN <<>>
                        ELSE <<[bases[i][1] EXCEPT !.data = Merge(@, doc.patch[i])]>>]))
          [] doc.mode = "replicate" ->
               IF Len(srcs) # 1 \/ ~doc.list THEN Failed
               ELSE Gave([i \in DOMAIN doc.patch |->
                        [srcs[1] EXCEPT !.data = Merge(@, doc.patch[i])]])

\* As a source its outputs carry its version, whatever config they come from
AsSource(version, outs) == [i \in DOMAIN outs |-> [outs[i] EXCEPT !.version = version]]

-----------------------------------------------------------------------------
(* Names, of the outputs of the config that was asked for *)

PlainName(out) == IF out.name = "none" THEN <<out.owner>> ELSE out.data[out.name]

\* Mutant: every duplicate gets the first suffix
FirstSuffix(names, i) == IF \E j \in 1 .. (i - 1) : names[j] = names[i] THEN <<1>> ELSE <<>>

\* deduplicate_output_names: the n-th further output of a name gets -n
Suffix(names, i) ==
    LET n == Cardinality({j \in 1 .. (i - 1) : names[j] = names[i]})
    IN  IF n = 0 THEN <<>> ELSE <<n>>

\* A placeholder without a value fails the resolve
WithNames(res) ==
    LET names == [i \in DOMAIN res.outs |-> PlainName(res.outs[i])]
    IN  IF ~res.ok \/ \E i \in DOMAIN names : names[i] = Absent THEN Failed
        ELSE Gave([i \in DOMAIN names |->
                [data |-> res.outs[i].data, plain |-> names[i],
                 as |-> names[i] \o Suffix(names, i), version |-> res.outs[i].version]])
-----------------------------------------------------------------------------
(* A resolve *)

Top      == frames[Len(frames)]
Doc(f)   == configs[f.path].docs[f.version]
Source   == Doc(Top).extend[Len(Top.bases) + 1]
Kept     == UNCHANGED <<configs, configEdits>>
Undisturbed == UNCHANGED disturbed

\* The config asked for has been resolved, or has failed with all the request
Conclude(res) ==
    /\ frames' = <<>>
    /\ outcome' = [path |-> Head(request.todo).path, ref |-> request.ref, res |-> WithNames(res),
                   version |-> IF frames = <<>> THEN 0 ELSE frames[1].version]
    /\ request' = IF WithNames(res).ok THEN [request EXCEPT !.pc = "resolved"]
                  ELSE [request EXCEPT !.pc = "failed"]

\* Mutant: a config must not extend another version of itself
PathInChain(path, version) == \E i \in DOMAIN frames : frames[i].path = path

\* The key of a config in the chain is path@version
InChain(path, version) ==
    \E i \in DOMAIN frames : frames[i].path = path /\ frames[i].version = version

Consulted(path, ref, version) ==
    (IF frames = <<>> THEN {} ELSE consulted)
        \cup {[path |-> path, ref |-> ref, version |-> version]}

\* ResolvePipelineManager and _resolve_recursive down to the extend block, of
\* version v of a config
Enter(path, ref, v) ==
    LET doc == configs[path].docs[v]
    IN  IF v = 0 \/ Len(frames) >= MaxDepth \/ InChain(path, v) \/ ZipRefused(doc)
        THEN Conclude(Failed) /\ UNCHANGED consulted
        ELSE /\ consulted' = Consulted(path, ref, v)
             /\ frames' = Append(frames, [path |-> path, version |-> v, bases |-> <<>>, skips |-> {},
                             pc |-> IF doc.mode = "replicate" /\ Len(doc.extend) = 1 THEN "peek" ELSE "source"])
             /\ UNCHANGED <<request, outcome>>

\* Its outputs go to the config that extends it, or to the caller
Return(res) ==
    IF ~res.ok \/ Len(frames) = 1 THEN Conclude(res)
    ELSE LET below == SubSeq(frames, 1, Len(frames) - 1)
         IN  /\ frames' = [below EXCEPT ![Len(below)].pc = "source",
                    ![Len(below)].bases = Append(@, AsSource(Top.version, res.outs))]
             /\ UNCHANGED <<request, outcome>>

Fresh == -1

\* The rows of a folder are listed once, with the versions their tags name then,
\* all of them or those whose version exists; a single config is not loaded yet
Listed(asked, ref, ignore) ==
    LET seen(path)   == IF asked.folder THEN Version(path, ref) ELSE Fresh
        absent(path) == IF ignore THEN Version(path, ref) = 0 ELSE ~configs[path].there
        rows[i \in 0 .. Len(asked.paths)] ==
            IF i = 0 THEN <<>>
            ELSE IF asked.folder /\ absent(asked.paths[i]) THEN rows[i - 1]
            ELSE Append(rows[i - 1], [path |-> asked.paths[i], seen |-> seen(asked.paths[i])])
    IN  rows[Len(asked.paths)]

BeginRequest(asked, ref, mark, ignore) ==
    /\ request.pc = "waiting" /\ (ignore => asked.folder)
    /\ request' = [pc |-> "next", todo |-> Listed(asked, ref, ignore), ref |-> ref, mark |-> mark,
                   promotions |-> <<>>]
    /\ disturbed' = FALSE
    /\ Kept /\ UNCHANGED <<frames, consulted, skipped, outcome>>

\* resolve_at_path of the next config: one of a folder has its tags as listed
BeginConfig ==
    /\ request.pc = "next" /\ request.todo # <<>> /\ frames = <<>>
    /\ LET c == Head(request.todo)
           v == IF c.seen = Fresh THEN Version(c.path, request.ref)
                ELSE IF configs[c.path].there THEN c.seen ELSE 0
       IN  /\ disturbed' = (c.seen # Fresh /\ disturbed)
           /\ Enter(c.path, request.ref, v)
    /\ skipped' = {} /\ Kept

Skippable(src) == Version(src.path, src.ref) = 0 /\ src.skip

\* Mutant: a source that is skipped leaves no record
SkippedNot(src) == skipped

Skipped(src) == skipped \cup {[path |-> src.path, ref |-> src.ref]}

\* replicate looks at its one source before all else: without it there is no output
PeekReplicated ==
    /\ frames # <<>> /\ Top.pc = "peek"
    /\ IF Skippable(Source) THEN Return(Gave(<<>>)) /\ skipped' = Skipped(Source)
       ELSE /\ frames' = [frames EXCEPT ![Len(frames)].pc = "source"]
            /\ UNCHANGED <<request, outcome, skipped>>
    /\ Kept /\ Undisturbed /\ UNCHANGED consulted

\* classify_extend_source: a missing source is skipped, or fails the resolve
ClassifySource ==
    /\ frames # <<>> /\ Top.pc = "source" /\ Len(Top.bases) < Len(Doc(Top).extend)
    /\ IF Skippable(Source)
       THEN /\ frames' = [frames EXCEPT ![Len(frames)].bases = Append(@, <<>>),
                                     ![Len(frames)].skips = @ \cup {Len(Top.bases) + 1}]
            /\ skipped' = Skipped(Source) /\ UNCHANGED <<request, outcome>>
       ELSE /\ UNCHANGED skipped
            /\ IF Version(Source.path, Source.ref) = 0 THEN Conclude(Failed)
               ELSE /\ frames' = [frames EXCEPT ![Len(frames)].pc = "enter"]
                    /\ UNCHANGED <<request, outcome>>
    /\ Kept /\ Undisturbed /\ UNCHANGED consulted

\* Then it is read again, and resolved
EnterSource ==
    /\ frames # <<>> /\ Top.pc = "enter"
    /\ Enter(Source.path, Source.ref, Version(Source.path, Source.ref))
    /\ Kept /\ Undisturbed /\ UNCHANGED skipped

MergeSources ==
    /\ frames # <<>> /\ Top.pc = "source" /\ Len(Top.bases) = Len(Doc(Top).extend)
    /\ Return(Extended(Doc(Top), Top.path, Top.version, Top.bases, Top.skips))
    /\ Kept /\ Undisturbed /\ UNCHANGED <<consulted, skipped>>

\* What is to be promoted: the version of the first output, when there is one
\* (resolved is history: the version that was resolved)
NextInRequest ==
    /\ request.pc = "resolved"
    /\ LET outs == outcome.res.outs
       IN  request' = [request EXCEPT !.pc = "next", !.todo = Tail(@), !.promotions =
              IF request.mark /\ outs # <<>>
              THEN Append(@, [path |-> outcome.path, version |-> outs[1].version,
                              resolved |-> outcome.version])
              ELSE @]
    /\ Kept /\ Undisturbed /\ UNCHANGED <<frames, consulted, skipped, outcome>>

\* _promote_stable_tags, in one transaction: all of them, or an error and none
Promoted(db, promotions) ==
    [p \in ConfigPaths |->
        LET mine == {i \in DOMAIN promotions : promotions[i].path = p}
        IN  IF mine = {} THEN db[p]
            ELSE [db[p] EXCEPT !.stable = promotions[CHOOSE i \in mine : TRUE].version]]

EndRequest ==
    /\ request.pc = "next" /\ request.todo = <<>>
    /\ LET valid == \A i \in DOMAIN request.promotions :
                        LET p == request.promotions[i]
                        IN  configs[p.path].there /\ p.version \in 1 .. Len(configs[p.path].docs)
       IN  /\ configs' = IF valid THEN Promoted(configs, request.promotions) ELSE configs
           /\ request' = [request EXCEPT !.pc = IF valid THEN "done" ELSE "failed"]
           /\ disturbed' = (disturbed \/ configs' # configs)
    /\ UNCHANGED <<frames, consulted, skipped, outcome, configEdits>>

-----------------------------------------------------------------------------
(* Others *)

Edit ==
    /\ configEdits < MaxConfigEdits
    /\ configEdits' = configEdits + 1
    /\ disturbed' = TRUE
    /\ UNCHANGED <<request, frames, consulted, skipped, outcome>>

UpdateConfig(p, doc) ==
    /\ configs[p].there /\ configs' = [configs EXCEPT ![p].docs = Append(@, doc)] /\ Edit

DeleteConfig(p) ==
    /\ configs[p].there /\ configs' = [configs EXCEPT ![p].there = FALSE] /\ Edit

\* Another request promotes
SetStable(p, v) ==
    /\ configs[p].there /\ v \in 1 .. Len(configs[p].docs) /\ v # configs[p].stable
    /\ configs' = [configs EXCEPT ![p].stable = v] /\ Edit

-----------------------------------------------------------------------------
NoOutcome == [path |-> "none", ref |-> "latest", res |-> Gave(<<>>), version |-> 0]

ResolutionInit ==
    /\ \E first \in FirstDocs :
          configs = [p \in ConfigPaths |-> [there |-> TRUE, docs |-> <<first[p]>>, stable |-> 0]]
    /\ request = [pc |-> "waiting", todo |-> <<>>, ref |-> "latest", mark |-> FALSE, promotions |-> <<>>]
    /\ frames = <<>> /\ consulted = {} /\ skipped = {}
    /\ outcome = NoOutcome
    /\ disturbed = FALSE /\ configEdits = 0

ResolutionNext ==
    \/ \E asked \in Requested, ref \in RequestRefs, mark, ignore \in BOOLEAN :
          BeginRequest(asked, ref, mark, ignore)
    \/ BeginConfig \/ PeekReplicated \/ ClassifySource \/ EnterSource \/ MergeSources
    \/ NextInRequest \/ EndRequest
    \/ \E p \in ConfigPaths : \/ DeleteConfig(p)
                              \/ \E doc \in ConfigDocs : UpdateConfig(p, doc)
                              \/ \E v \in 1 .. MaxConfigEdits + 1 : SetStable(p, v)

ResolutionSpec == ResolutionInit /\ [][ResolutionNext]_resolutionVars

-----------------------------------------------------------------------------
(* Properties *)

\* What a reference means: no chain, only a depth that each reference uses up
Meaning ==
    LET Refs == ConfigPaths \X {"latest", "stable", "1"}
        M[n \in 0 .. MaxDepth] ==
            [r \in Refs |->
                LET v       == Version(r[1], r[2])
                    doc     == configs[r[1]].docs[v]
                    missing == {i \in DOMAIN doc.extend : Version(doc.extend[i].path, doc.extend[i].ref) = 0}
                    sub(i)  == M[n - 1][<<doc.extend[i].path, doc.extend[i].ref>>]
                IN  IF n = 0 \/ v = 0 \/ ZipRefused(doc)
                       \/ (\E i \in missing : ~doc.extend[i].skip)
                       \/ (\E i \in DOMAIN doc.extend \ missing : ~sub(i).ok)
                    THEN Failed
                    ELSE IF doc.mode = "replicate" /\ Len(doc.extend) = 1 /\ missing # {} THEN Gave(<<>>)
                    ELSE Extended(doc, r[1], v,
                            [i \in DOMAIN doc.extend |->
                                IF i \in missing THEN <<>>
                                ELSE AsSource(Version(doc.extend[i].path, doc.extend[i].ref), sub(i).outs)],
                            missing)]
    IN  M[MaxDepth]

Resolved == outcome # NoOutcome /\ frames = <<>>
MeaningOfOutcome == WithNames(Meaning[<<outcome.path, outcome.ref>>])

\* When nobody edits anything from the first read for a config to the answer, it
\* is what the reference means: the chain refuses no config that can be resolved
\* within the depth, and the recursion ends on every one that cannot.
ResolvesAsDefined ==
    Resolved /\ ~disturbed => outcome.res = MeaningOfOutcome

\* Whatever was edited during a resolve or since: when every participant that it
\* recorded still is the version its reference names, and every source recorded
\* as skipped is still missing, resolving again gives the same outputs.  This is
\* what makes the cached result of a resolve right.
ParticipantsDecide ==
    /\ Resolved /\ outcome.res.ok
    /\ \A c \in consulted : Version(c.path, c.ref) = c.version
    /\ \A s \in skipped : Version(s.path, s.ref) = 0
    => outcome.res = MeaningOfOutcome

\* No two outputs have the same name, unless one is called by a document what
\* another is called with its suffix.
OutputNamesDiffer ==
    outcome.res.ok /\ (\A i \in DOMAIN outcome.res.outs : Len(outcome.res.outs[i].plain) = 1) =>
        \A i, j \in DOMAIN outcome.res.outs :
            outcome.res.outs[i].as = outcome.res.outs[j].as => i = j

\* "advance the reserved stable tag on resolved Config root(s) to the version that
\* was just resolved" (src/api/core/api/resolve.py:109)
PromotesResolvedVersion ==
    request.pc = "done" =>
        \A i \in DOMAIN request.promotions :
            request.promotions[i].version = request.promotions[i].resolved

=============================================================================
