------------------------ MODULE ResolveCache_proofs ------------------------
(***************************************************************************)
(* Proofs about ResolveCache: whichever layer answers, and whatever the    *)
(* tree does meanwhile, every version of an answer was named by its        *)
(* reference during the request, the caller may resolve all of it, and     *)
(* what is left out was missing, unless layer 2 answers.                   *)
(***************************************************************************)
EXTENDS ResolveCache, SequenceTheorems, TLAPS

\* The participants of h that are known to have been named during the request:
\* those already revalidated, or all of them once checking is over.
Confirmed(h) ==
    IF h.pc \in {"checkArtifact", "checkResolution"} THEN h.parts \ h.left
    ELSE IF h.pc \in {"artifact", "resolution"} THEN {}
    ELSE h.parts

WasNamed(c, S) == \E d \in S : d.path = c.path /\ d.ver = c.ver

Granting == {"pipeline", "store", "fillArtifact", "fillResolution", "done"}

\* what a request holds agrees with what it has seen, and with its caller
HeldOK(r, h, S) ==
    /\ h.root \in S
    /\ \A c \in Confirmed(h) : WasNamed(c, S)
    /\ h.pc \in Granting => \A c \in h.parts : c.path \in Permitted[r]

SeenOK ==
    \A r \in Requests : Busy(r) =>
        /\ \A p \in Paths : Named(p) \in seen[r]
        /\ HeldOK(r, req[r], seen[r])

\* The inductive invariant.
IInv == TypeOK /\ SeenOK

CacheTypes ==
    /\ res \in [Keys -> Entry]
    /\ art \in [Keys \X Casts -> Entry]
    /\ artifacts \subseteq Casts \X SUBSET Contents

-----------------------------------------------------------------------------
LEMMA NamedContent ==
    ASSUME TypeOK, NEW p \in Paths, ~Missing(p)
    PROVE  Named(p) \in Contents
  <1>1. tree[p] \in {t \in [life : 0 .. MaxLives, ver : 0 .. MaxVersion] :
                        t.life = 0 => t.ver = 0}
    BY DEF TypeOK
  <1>2. tree[p].life \in 1 .. MaxLives /\ tree[p].ver \in 1 .. MaxVersion
    BY <1>1, ConstantsAssumption DEF Missing
  <1> QED
    BY <1>2 DEF Named, Contents

LEMMA RootKey ==
    ASSUME NEW c \in Contents, c.path = Root
    PROVE  KeyOf(c) \in Keys
  BY DEF Keys

LEMMA BusyHeld ==
    ASSUME TypeOK, NEW r \in Requests, Busy(r)
    PROVE  req[r] \in Held /\ req[r].pc \in PC
  BY DEF TypeOK, Busy, Held

LEMMA PCBusy ==
    ASSUME TypeOK, NEW r \in Requests, req[r].pc \in PC
    PROVE  Busy(r) /\ req[r] \in Held
  <1>1. Busy(r)
    BY DEF Busy, Idle, PC
  <1> QED
    BY <1>1, BusyHeld

\* What a step of one running request may do without breaking the invariant.
LEMMA UpdateInv ==
    ASSUME IInv, NEW r \in Requests, NEW h, Update(r, h), Busy(r),
           h \in Held, HeldOK(r, h, seen[r]), CacheTypes'
    PROVE  IInv'
  <1>1. TypeOK'
    BY DEF IInv, TypeOK, Update, CacheTypes
  <1>2. SeenOK'
    <2> SUFFICES ASSUME NEW q \in Requests, Busy(q)'
                 PROVE  /\ \A p \in Paths : Named(p)' \in seen'[q]
                        /\ HeldOK(q, req'[q], seen'[q])
      BY DEF SeenOK, HeldOK, WasNamed, Confirmed
    <2>0. seen' = seen /\ tree' = tree /\ req' = [req EXCEPT ![r] = h]
      BY DEF Update
    <2>1. \A p \in Paths : Named(p)' = Named(p)
      BY <2>0 DEF Named
    <2>2. CASE q = r
      <3>1. req'[q] = h
        BY <2>0, <2>2 DEF IInv, TypeOK
      <3> QED
        BY <3>1, <2>0, <2>1, <2>2 DEF IInv, SeenOK
    <2>3. CASE q # r
      <3>1. req'[q] = req[q] /\ Busy(q)
        BY <2>0, <2>3 DEF IInv, TypeOK, Busy
      <3> QED
        BY <3>1, <2>0, <2>1 DEF IInv, SeenOK
    <2> QED
      BY <2>2, <2>3
  <1> QED
    BY <1>1, <1>2 DEF IInv

LEMMA GoInv ==
    ASSUME IInv, NEW r \in Requests, NEW h, Go(r, h), Busy(r),
           h \in Held, HeldOK(r, h, seen[r])
    PROVE  IInv'
  <1>1. Update(r, h) /\ CacheTypes'
    BY DEF Go, IInv, TypeOK, CacheTypes
  <1> QED
    BY <1>1, UpdateInv

\* Changes of the caches alone.
LEMMA CacheInv ==
    ASSUME IInv, CacheTypes', events' \in 0 .. MaxEvents,
           UNCHANGED <<tree, req, seen>>
    PROVE  IInv'
  <1>1. TypeOK'
    BY DEF IInv, TypeOK, CacheTypes
  <1>2. SeenOK'
    BY DEF IInv, SeenOK, Busy, Named, HeldOK, WasNamed, Confirmed
  <1> QED
    BY <1>1, <1>2 DEF IInv

-----------------------------------------------------------------------------
LEMMA InitInv == Init => IInv
  <1> SUFFICES ASSUME Init PROVE IInv
    OBVIOUS
  <1>1. tree \in [Paths -> {t \in [life : 0 .. MaxLives, ver : 0 .. MaxVersion] :
                               t.life = 0 => t.ver = 0}]
    BY ConstantsAssumption DEF Init
  <1>2. TypeOK
    BY <1>1, ConstantsAssumption DEF Init, TypeOK, Entry, NoEntry
  <1>3. SeenOK
    BY DEF Init, SeenOK, Busy
  <1> QED
    BY <1>2, <1>3 DEF IInv

LEMMA EventBound == IInv /\ Event => events' \in 0 .. MaxEvents
  BY ConstantsAssumption DEF IInv, TypeOK, Event

LEMMA ChangeInv ==
    ASSUME IInv, NEW p \in Paths,
           NEW to \in {t \in [life : 0 .. MaxLives, ver : 0 .. MaxVersion] :
                          t.life = 0 => t.ver = 0},
           Change(p, to)
    PROVE  IInv'
  <1> DEFINE now == [path |-> p, life |-> to.life, ver |-> to.ver]
  <1>0. now \in [path : Paths, life : 0 .. MaxLives, ver : 0 .. MaxVersion]
    OBVIOUS
  <1>1. /\ tree' = [tree EXCEPT ![p] = to]
        /\ req' = req /\ res' = res /\ art' = art /\ artifacts' = artifacts
        /\ seen' = [r \in Requests |-> IF Busy(r) THEN seen[r] \cup {now} ELSE seen[r]]
    BY DEF Change
  <1>2. TypeOK'
    <2>1. events' \in 0 .. MaxEvents
      BY EventBound DEF Change
    <2>2. seen' \in [Requests -> SUBSET [path : Paths, life : 0 .. MaxLives,
                                         ver : 0 .. MaxVersion]]
      BY <1>0, <1>1 DEF IInv, TypeOK
    <2> QED
      BY <1>1, <2>1, <2>2 DEF IInv, TypeOK
  <1>3. SeenOK'
    <2> SUFFICES ASSUME NEW r \in Requests, Busy(r)'
                 PROVE  /\ \A q \in Paths : Named(q)' \in seen'[r]
                        /\ HeldOK(r, req'[r], seen'[r])
      BY DEF SeenOK, HeldOK, WasNamed, Confirmed
    <2>1. Busy(r) /\ seen'[r] = seen[r] \cup {now} /\ req'[r] = req[r]
      BY <1>1 DEF Busy
    <2>2. \A q \in Paths : Named(q)' \in seen'[r]
      <3> SUFFICES ASSUME NEW q \in Paths PROVE Named(q)' \in seen'[r]
        OBVIOUS
      <3>1. CASE q = p
        BY <3>1, <1>1, <2>1 DEF Named, IInv, TypeOK
      <3>2. CASE q # p
        BY <3>2, <1>1, <2>1 DEF Named, IInv, TypeOK, SeenOK
      <3> QED
        BY <3>1, <3>2
    <2>3. HeldOK(r, req[r], seen[r])
      BY <2>1 DEF IInv, SeenOK
    <2>4. HeldOK(r, req[r], seen[r] \cup {now})
      BY <2>3 DEF HeldOK, WasNamed
    <2> QED
      BY <2>1, <2>2, <2>4
  <1> QED
    BY <1>2, <1>3 DEF IInv

LEMMA EditInv == IInv /\ Edit => IInv'
  <1> SUFFICES ASSUME IInv, NEW p \in Paths,
                      Create(p) \/ \E v \in 0 .. MaxVersion : Retarget(p, v)
               PROVE  IInv'
    BY DEF Edit
  <1>0. tree[p].life \in 0 .. MaxLives
    BY DEF IInv, TypeOK
  <1>1. CASE Create(p)
    <2>1. [life |-> tree[p].life + 1, ver |-> 1] \in
             {t \in [life : 0 .. MaxLives, ver : 0 .. MaxVersion] :
                 t.life = 0 => t.ver = 0}
      BY <1>0, <1>1, ConstantsAssumption DEF Create
    <2> QED
      BY <1>1, <2>1, ChangeInv DEF Create
  <1>2. ASSUME NEW v \in 0 .. MaxVersion, Retarget(p, v) PROVE IInv'
    <2>1. [life |-> tree[p].life, ver |-> v] \in
             {t \in [life : 0 .. MaxLives, ver : 0 .. MaxVersion] :
                 t.life = 0 => t.ver = 0}
      BY <1>0, <1>2 DEF Retarget
    <2> QED
      BY <1>2, <2>1, ChangeInv DEF Retarget
  <1> QED
    BY <1>1, <1>2

LEMMA ExpireInv == IInv /\ Expire => IInv'
  <1> SUFFICES ASSUME IInv, Expire PROVE IInv'
    OBVIOUS
  <1>0. NoEntry \in Entry
    BY DEF NoEntry, Entry
  <1>1. ASSUME NEW k \in Keys, EvictResolution(k) PROVE IInv'
    <2>1. CacheTypes'
      BY <1>0, <1>1 DEF EvictResolution, IInv, TypeOK, CacheTypes
    <2> QED
      BY <1>1, <2>1, EventBound, CacheInv DEF EvictResolution
  <1>2. ASSUME NEW k \in Keys, NEW cast \in Casts, EvictArtifact(k, cast) PROVE IInv'
    <2>1. CacheTypes'
      BY <1>0, <1>2 DEF EvictArtifact, IInv, TypeOK, CacheTypes
    <2> QED
      BY <1>2, <2>1, EventBound, CacheInv DEF EvictArtifact
  <1>3. ASSUME NEW a \in artifacts, Sweep(a) PROVE IInv'
    <2>1. CacheTypes'
      BY <1>3 DEF Sweep, IInv, TypeOK, CacheTypes
    <2> QED
      BY <1>3, <2>1, EventBound, CacheInv DEF Sweep
  <1> QED
    BY <1>1, <1>2, <1>3 DEF Expire

-----------------------------------------------------------------------------
(* Requests *)

LEMMA StartInv ==
    ASSUME IInv, NEW r \in Requests, NEW cast \in Casts, Start(r, cast)
    PROVE  IInv'
  <1> DEFINE h == [pc |-> "artifact", how |-> "miss", cast |-> cast,
                   key |-> KeyOf(Named(Root)), root |-> Named(Root),
                   parts |-> {}, skips |-> {}, left |-> {}, watch |-> {},
                   todo |-> <<>>]
             now == {Named(p) : p \in Paths}
  <1>0. Root \in Paths
    BY ConstantsAssumption
  <1>1. Named(Root) \in Contents
    BY <1>0, NamedContent DEF Start, IInv
  <1>2. KeyOf(Named(Root)) \in Keys
    BY <1>1, RootKey DEF Named
  <1>3. h \in Held
    <2>1. <<>> \in Seq(Paths)
      OBVIOUS
    <2> QED
      BY <1>1, <1>2, <2>1 DEF Held, PC
  <1>4. req' = [req EXCEPT ![r] = h] /\ seen' = [seen EXCEPT ![r] = now]
    BY DEF Start
  <1>5. now \subseteq [path : Paths, life : 0 .. MaxLives, ver : 0 .. MaxVersion]
    BY DEF Named, IInv, TypeOK
  <1>6. HeldOK(r, h, now)
    BY <1>0 DEF HeldOK, Confirmed, Granting
  <1>7. tree' = tree /\ UNCHANGED <<events, res, art, artifacts>>
    BY DEF Start
  <1> HIDE DEF h, now
  <1>8. TypeOK'
    BY <1>3, <1>4, <1>5, <1>7 DEF IInv, TypeOK
  <1>9. SeenOK'
    <2> SUFFICES ASSUME NEW q \in Requests, Busy(q)'
                 PROVE  /\ \A p \in Paths : Named(p)' \in seen'[q]
                        /\ HeldOK(q, req'[q], seen'[q])
      BY DEF SeenOK, HeldOK, WasNamed, Confirmed
    <2>1. \A p \in Paths : Named(p)' = Named(p)
      BY <1>7 DEF Named
    <2>2. CASE q = r
      <3>1. req'[q] = h /\ seen'[q] = now
        BY <1>4, <2>2 DEF IInv, TypeOK
      <3>2. \A p \in Paths : Named(p) \in now
        BY DEF now
      <3> QED
        BY <3>1, <3>2, <2>1, <2>2, <1>6
    <2>3. CASE q # r
      <3>1. req'[q] = req[q] /\ seen'[q] = seen[q] /\ Busy(q)
        BY <1>4, <2>3 DEF IInv, TypeOK, Busy
      <3> QED
        BY <3>1, <2>1 DEF IInv, SeenOK
    <2> QED
      BY <2>2, <2>3
  <1> QED
    BY <1>8, <1>9 DEF IInv

LEMMA EndInv ==
    ASSUME IInv, NEW r \in Requests, End(r)
    PROVE  IInv'
  <1>1. /\ req' = [req EXCEPT ![r] = Idle] /\ seen' = [seen EXCEPT ![r] = {}]
        /\ tree' = tree /\ UNCHANGED <<events, res, art, artifacts>>
    BY DEF End
  <1>2. TypeOK'
    BY <1>1 DEF IInv, TypeOK
  <1>3. SeenOK'
    <2> SUFFICES ASSUME NEW q \in Requests, Busy(q)'
                 PROVE  /\ \A p \in Paths : Named(p)' \in seen'[q]
                        /\ HeldOK(q, req'[q], seen'[q])
      BY DEF SeenOK, HeldOK, WasNamed, Confirmed
    <2>1. q # r
      BY <1>1 DEF Busy, IInv, TypeOK
    <2>2. req'[q] = req[q] /\ seen'[q] = seen[q] /\ Busy(q)
      BY <1>1, <2>1 DEF IInv, TypeOK, Busy
    <2>3. \A p \in Paths : Named(p)' = Named(p)
      BY <1>1 DEF Named
    <2> QED
      BY <2>2, <2>3 DEF IInv, SeenOK
  <1> QED
    BY <1>2, <1>3 DEF IInv

\* the record a request holds after Load
Loaded(h, entry, how, to) ==
    [h EXCEPT !.pc = to, !.how = how, !.parts = entry.parts,
              !.skips = entry.skips, !.left = entry.parts,
              !.watch = entry.skips, !.todo = <<>>]

LEMMA LoadInv ==
    ASSUME IInv, NEW r \in Requests, Busy(r), NEW entry \in Entry,
           NEW how \in {"hit", "cast"}, NEW to \in {"checkArtifact", "checkResolution"},
           Load(r, entry, how, to)
    PROVE  IInv'
  <1> DEFINE h == Loaded(req[r], entry, how, to)
  <1>1. req[r] \in Held
    BY BusyHeld DEF IInv
  <1>2. h \in Held
    <2>1. entry.parts \in SUBSET Contents /\ entry.skips \in SUBSET Paths
      BY DEF Entry
    <2>2. to \in PC /\ how \in {"miss", "cast", "hit"} /\ <<>> \in Seq(Paths)
      BY DEF PC
    <2> QED
      BY <1>1, <2>1, <2>2 DEF Held, Loaded
  <1>3. h.root = req[r].root /\ h.pc = to /\ h.parts = entry.parts /\ h.left = entry.parts
    BY <1>1 DEF Held, Loaded
  <1>4. HeldOK(r, h, seen[r])
    BY <1>3 DEF HeldOK, Confirmed, Granting, IInv, SeenOK
  <1>5. Go(r, h)
    BY DEF Load, Loaded
  <1> QED
    BY <1>2, <1>4, <1>5, GoInv

LEMMA TryResolutionInv ==
    ASSUME IInv, NEW r \in Requests, Busy(r), TryResolution(r)
    PROVE  IInv'
  <1> DEFINE h == [req[r] EXCEPT !.pc = "resolution"]
  <1>1. req[r] \in Held
    BY BusyHeld DEF IInv
  <1>2. h \in Held /\ h.root = req[r].root /\ h.pc = "resolution"
    BY <1>1 DEF Held, PC
  <1>3. HeldOK(r, h, seen[r])
    BY <1>2 DEF HeldOK, Confirmed, Granting, IInv, SeenOK
  <1> QED
    BY <1>2, <1>3, GoInv DEF TryResolution

LEMMA RunPipelineInv ==
    ASSUME IInv, NEW r \in Requests, Busy(r), RunPipeline(r)
    PROVE  IInv'
  <1> DEFINE h == [req[r] EXCEPT !.pc = "pipeline", !.how = "miss", !.parts = {},
                                 !.skips = {}, !.left = {}, !.watch = {},
                                 !.todo = <<Root>>]
  <1>1. req[r] \in Held /\ <<Root>> \in Seq(Paths)
    BY BusyHeld, ConstantsAssumption DEF IInv
  <1>2. h \in Held /\ h.root = req[r].root /\ h.parts = {} /\ h.pc = "pipeline"
    BY <1>1 DEF Held, PC
  <1>3. HeldOK(r, h, seen[r])
    BY <1>2 DEF HeldOK, Confirmed, IInv, SeenOK
  <1> QED
    BY <1>2, <1>3, GoInv DEF RunPipeline

LEMMA InvalidInv ==
    ASSUME IInv, NEW r \in Requests, Busy(r), Invalid(r)
    PROVE  IInv'
  BY TryResolutionInv, RunPipelineInv DEF Invalid

LEMMA LookupInv ==
    ASSUME IInv, NEW r \in Requests, LookupArtifact(r) \/ LookupResolution(r)
    PROVE  IInv'
  <1>1. Busy(r) /\ req[r].key \in Keys /\ req[r].cast \in Casts
    BY PCBusy DEF LookupArtifact, LookupResolution, IInv, PC, Held
  <1>2. art[<<req[r].key, req[r].cast>>] \in Entry /\ res[req[r].key] \in Entry
    BY <1>1 DEF IInv, TypeOK
  <1>3. CASE LookupArtifact(r)
    BY <1>1, <1>2, <1>3, TryResolutionInv, LoadInv DEF LookupArtifact
  <1>4. CASE LookupResolution(r)
    BY <1>1, <1>2, <1>4, RunPipelineInv, LoadInv DEF LookupResolution
  <1> QED
    BY <1>3, <1>4

LEMMA CheckSkippedInv ==
    ASSUME IInv, NEW r \in Requests, NEW p \in Paths, CheckSkipped(r, p)
    PROVE  IInv'
  <1> DEFINE h == [req[r] EXCEPT !.watch = @ \ {p}]
  <1>1. Busy(r) /\ req[r] \in Held
    BY PCBusy DEF CheckSkipped, Checking, IInv, PC
  <1>2. CASE Go(r, h)
    <2>1. /\ h \in Held /\ h.root = req[r].root /\ h.parts = req[r].parts
          /\ h.left = req[r].left /\ h.pc = req[r].pc
      BY <1>1 DEF Held
    <2>2. HeldOK(r, h, seen[r])
      BY <2>1, <1>1 DEF HeldOK, Confirmed, IInv, SeenOK
    <2> QED
      BY <1>1, <1>2, <2>1, <2>2, GoInv
  <1>3. CASE Invalid(r)
    BY <1>1, <1>3, InvalidInv
  <1> QED
    BY <1>2, <1>3 DEF CheckSkipped

LEMMA CheckParticipantInv ==
    ASSUME IInv, NEW r \in Requests, NEW c \in Contents, CheckParticipant(r, c)
    PROVE  IInv'
  <1> DEFINE h == [req[r] EXCEPT !.left = @ \ {c}]
  <1>1. Busy(r) /\ req[r] \in Held
    BY PCBusy DEF CheckParticipant, Checking, IInv, PC
  <1>2. CASE StillNamed(c) /\ Go(r, h)
    <2>1. /\ h \in Held /\ h.root = req[r].root /\ h.parts = req[r].parts
          /\ h.left = req[r].left \ {c} /\ h.pc = req[r].pc
      BY <1>1 DEF Held
    <2>2. c.path \in Paths
      BY DEF Contents
    <2>3. WasNamed(c, seen[r])
      <3>1. Named(c.path) \in seen[r]
        BY <1>1, <2>2 DEF IInv, SeenOK
      <3> QED
        BY <3>1, <1>2 DEF WasNamed, Named, StillNamed
    <2>4. HeldOK(r, h, seen[r])
      <3>1. Confirmed(h) \subseteq Confirmed(req[r]) \cup {c}
        BY <2>1 DEF Confirmed
      <3>2. HeldOK(r, req[r], seen[r])
        BY <1>1 DEF IInv, SeenOK
      <3> QED
        BY <2>1, <2>3, <3>1, <3>2 DEF HeldOK
    <2> QED
      BY <1>1, <1>2, <2>1, <2>4, GoInv
  <1>3. CASE Invalid(r)
    BY <1>1, <1>3, InvalidInv
  <1> QED
    BY <1>2, <1>3 DEF CheckParticipant

\* Serving an entry: everything is confirmed, and the caller may use it.
LEMMA ServeInv ==
    ASSUME IInv, NEW r \in Requests, ServeArtifact(r) \/ CastResolution(r)
    PROVE  IInv'
  <1>1. Busy(r) /\ req[r] \in Held
    BY PCBusy DEF ServeArtifact, CastResolution, IInv, PC
  <1>2. ASSUME NEW to \in {"done", "store"}, Revalidated(r), MayUse(r, req[r].parts),
               Go(r, [req[r] EXCEPT !.pc = to])
        PROVE  IInv'
    <2> DEFINE h == [req[r] EXCEPT !.pc = to]
    <2>1. h \in Held /\ h.root = req[r].root /\ h.parts = req[r].parts /\ h.pc = to
      BY <1>1 DEF Held, PC
    <2>2. Confirmed(req[r]) = req[r].parts
      BY <1>2 DEF Revalidated, Checking, Confirmed
    <2>3. HeldOK(r, h, seen[r])
      BY <1>1, <1>2, <2>1, <2>2 DEF HeldOK, Confirmed, MayUse, IInv, SeenOK
    <2> QED
      BY <1>1, <1>2, <2>1, <2>3, GoInv
  <1>3. CASE ServeArtifact(r)
    BY <1>1, <1>2, <1>3, InvalidInv DEF ServeArtifact
  <1>4. CASE CastResolution(r)
    BY <1>2, <1>4 DEF CastResolution
  <1> QED
    BY <1>3, <1>4

LEMMA ReadSourceInv ==
    ASSUME IInv, NEW r \in Requests, ReadSource(r)
    PROVE  IInv'
  <1> DEFINE p == Head(req[r].todo)
  <1>1. Busy(r) /\ req[r] \in Held /\ req[r].todo # <<>> /\ req[r].pc = "pipeline"
    BY PCBusy DEF ReadSource, IInv, PC
  <1>2. p \in Paths /\ Tail(req[r].todo) \in Seq(Paths)
    BY <1>1 DEF Held
  <1>3. ASSUME NEW c \in Contents, c \in seen[r], ReadNamed(r, c)
        PROVE  IInv'
    <2> DEFINE rest == Extends[c] \o Tail(req[r].todo)
               h == [req[r] EXCEPT !.parts = @ \cup {c}, !.todo = rest]
    <2>1. rest \in Seq(Paths)
      <3>1. Extends[c] \in Seq(Paths)
        BY ConstantsAssumption
      <3> QED
        BY <1>2, <3>1, ConcatProperties
    <2>2. Go(r, h) /\ c.path \in Permitted[r]
      BY <1>3 DEF ReadNamed
    <2> HIDE DEF rest
    <2>3. /\ h \in Held /\ h.root = req[r].root /\ h.parts = req[r].parts \cup {c}
          /\ h.pc = "pipeline"
      BY <1>1, <2>1 DEF Held
    <2>4. WasNamed(c, seen[r])
      BY <1>3 DEF WasNamed
    <2>5. HeldOK(r, h, seen[r])
      BY <1>1, <2>2, <2>3, <2>4 DEF HeldOK, Confirmed, Granting, IInv, SeenOK
    <2> HIDE DEF h
    <2> QED
      BY <1>1, <2>2, <2>3, <2>5, GoInv
  <1>4. CASE ~Missing(p) /\ ReadNamed(r, Named(p))
    <2>1. Named(p) \in Contents /\ Named(p) \in seen[r]
      BY <1>1, <1>2, <1>4, NamedContent DEF IInv, SeenOK
    <2> QED
      BY <1>3, <1>4, <2>1
  <1>5. CASE ReadNamed(r, req[r].root)
    <2>1. req[r].root \in Contents /\ req[r].root \in seen[r]
      BY <1>1 DEF Held, HeldOK, IInv, SeenOK
    <2> QED
      BY <1>3, <1>5, <2>1
  <1> QED
    BY <1>4, <1>5 DEF ReadSource

\* Steps of the pipeline and of filling that leave the participants alone.
LEMMA KeepPartsInv ==
    ASSUME IInv, NEW r \in Requests, Busy(r), NEW h \in Held,
           req[r].pc \in Granting, h.pc \in Granting,
           h.root = req[r].root, h.parts = req[r].parts,
           Update(r, h), CacheTypes'
    PROVE  IInv'
  <1>1. HeldOK(r, h, seen[r])
    BY DEF HeldOK, Confirmed, Granting, IInv, SeenOK
  <1> QED
    BY <1>1, UpdateInv

LEMMA SkipSourceInv ==
    ASSUME IInv, NEW r \in Requests, SkipSource(r)
    PROVE  IInv'
  <1> DEFINE p == Head(req[r].todo)
             h == [req[r] EXCEPT !.skips = @ \cup {p}, !.todo = Tail(@)]
  <1>1. Busy(r) /\ req[r] \in Held /\ req[r].todo # <<>> /\ req[r].pc = "pipeline"
    BY PCBusy DEF SkipSource, IInv, PC
  <1>2. p \in Paths /\ Tail(req[r].todo) \in Seq(Paths)
    BY <1>1 DEF Held
  <1>3. h \in Held /\ h.root = req[r].root /\ h.parts = req[r].parts /\ h.pc = "pipeline"
    BY <1>1, <1>2 DEF Held
  <1>4. Update(r, h) /\ CacheTypes'
    BY DEF SkipSource, Go, IInv, TypeOK, CacheTypes
  <1> QED
    BY <1>1, <1>3, <1>4, KeepPartsInv DEF Granting

LEMMA ResolvedInv ==
    ASSUME IInv, NEW r \in Requests, Resolved(r)
    PROVE  IInv'
  <1> DEFINE h == [req[r] EXCEPT !.pc = "store"]
  <1>1. Busy(r) /\ req[r] \in Held /\ req[r].pc = "pipeline"
    BY PCBusy DEF Resolved, IInv, PC
  <1>2. h \in Held /\ h.root = req[r].root /\ h.parts = req[r].parts /\ h.pc = "store"
    BY <1>1 DEF Held, PC
  <1>3. Update(r, h) /\ CacheTypes'
    BY DEF Resolved, Go, IInv, TypeOK, CacheTypes
  <1> QED
    BY <1>1, <1>2, <1>3, KeepPartsInv DEF Granting

LEMMA StoreArtifactInv ==
    ASSUME IInv, NEW r \in Requests, StoreArtifact(r)
    PROVE  IInv'
  <1> DEFINE h == [req[r] EXCEPT !.pc = "fillArtifact"]
  <1>1. Busy(r) /\ req[r] \in Held /\ req[r].pc = "store"
    BY PCBusy DEF StoreArtifact, IInv, PC
  <1>2. h \in Held /\ h.root = req[r].root /\ h.parts = req[r].parts /\ h.pc = "fillArtifact"
    BY <1>1 DEF Held, PC
  <1>3. ArtifactOf(req[r].cast, req[r].parts) \in Casts \X SUBSET Contents
    BY <1>1 DEF Held, ArtifactOf
  <1>4. Update(r, h) /\ CacheTypes'
    BY <1>3 DEF StoreArtifact, IInv, TypeOK, CacheTypes
  <1> QED
    BY <1>1, <1>2, <1>4, KeepPartsInv DEF Granting

LEMMA FillArtifactInv ==
    ASSUME IInv, NEW r \in Requests, FillArtifact(r)
    PROVE  IInv'
  <1> DEFINE to == IF req[r].how = "cast" THEN "done" ELSE "fillResolution"
             h == [req[r] EXCEPT !.pc = to]
  <1>1. Busy(r) /\ req[r] \in Held /\ req[r].pc = "fillArtifact"
    BY PCBusy DEF FillArtifact, IInv, PC
  <1>2. h \in Held /\ h.root = req[r].root /\ h.parts = req[r].parts /\ h.pc \in Granting
    BY <1>1 DEF Held, PC, Granting
  <1>3. ArtifactEntry(r) \in Entry
    BY <1>1 DEF Held, ArtifactEntry, Entry
  <1>4. Update(r, h) /\ CacheTypes'
    BY <1>3 DEF FillArtifact, IInv, TypeOK, CacheTypes
  <1> QED
    BY <1>1, <1>2, <1>4, KeepPartsInv DEF Granting

LEMMA FillResolutionInv ==
    ASSUME IInv, NEW r \in Requests, FillResolution(r)
    PROVE  IInv'
  <1> DEFINE h == [req[r] EXCEPT !.pc = "done"]
  <1>1. Busy(r) /\ req[r] \in Held /\ req[r].pc = "fillResolution"
    BY PCBusy DEF FillResolution, IInv, PC
  <1>2. h \in Held /\ h.root = req[r].root /\ h.parts = req[r].parts /\ h.pc = "done"
    BY <1>1 DEF Held, PC
  <1>3. [parts |-> req[r].parts, skips |-> req[r].skips] \in Entry
    BY <1>1 DEF Held, Entry
  <1>4. Update(r, h) /\ CacheTypes'
    BY <1>3 DEF FillResolution, IInv, TypeOK, CacheTypes
  <1> QED
    BY <1>1, <1>2, <1>4, KeepPartsInv DEF Granting

LEMMA StepInv ==
    ASSUME IInv, NEW r \in Requests, Step(r)
    PROVE  IInv'
  <1>1. CASE \E cast \in Casts : Start(r, cast)
    BY <1>1, StartInv
  <1>2. CASE LookupArtifact(r) \/ LookupResolution(r)
    BY <1>2, LookupInv
  <1>3. CASE \E p \in Paths : CheckSkipped(r, p)
    BY <1>3, CheckSkippedInv
  <1>4. CASE \E c \in Contents : CheckParticipant(r, c)
    BY <1>4, CheckParticipantInv
  <1>5. CASE ServeArtifact(r) \/ CastResolution(r)
    BY <1>5, ServeInv
  <1>6. CASE ReadSource(r)
    BY <1>6, ReadSourceInv
  <1>7. CASE SkipSource(r)
    BY <1>7, SkipSourceInv
  <1>8. CASE Resolved(r)
    BY <1>8, ResolvedInv
  <1>9. CASE StoreArtifact(r)
    BY <1>9, StoreArtifactInv
  <1>10. CASE FillArtifact(r)
    BY <1>10, FillArtifactInv
  <1>11. CASE FillResolution(r)
    BY <1>11, FillResolutionInv
  <1>12. CASE End(r)
    BY <1>12, EndInv
  <1> QED
    BY <1>1, <1>2, <1>3, <1>4, <1>5, <1>6, <1>7, <1>8, <1>9, <1>10, <1>11, <1>12,
       Zenon DEF Step

LEMMA NextInv == IInv /\ [Next]_vars => IInv'
  <1> SUFFICES ASSUME IInv, [Next]_vars PROVE IInv'
    OBVIOUS
  <1>1. CASE UNCHANGED vars
    BY <1>1 DEF vars, IInv, TypeOK, SeenOK, Busy, Named, HeldOK, WasNamed, Confirmed
  <1>2. CASE \E r \in Requests : Step(r)
    BY <1>2, StepInv
  <1>3. CASE Edit
    BY <1>3, EditInv
  <1>4. CASE Expire
    BY <1>4, ExpireInv
  <1> QED
    BY <1>1, <1>2, <1>3, <1>4 DEF Next

LEMMA Inductive == Spec => []IInv
  BY InitInv, NextInv, PTL DEF Spec

-----------------------------------------------------------------------------
(* What an answer leaves out: every reference of a participant is another   *)
(* participant, was skipped, or has still to be read                       *)

Lists(s, p) == \E i \in 1 .. Len(s) : s[i] = p

Closed(parts, skips, todo) ==
    \A c \in parts : \A i \in 1 .. Len(Extends[c]) :
        \/ Extends[c][i] \in skips \/ Lists(todo, Extends[c][i])
        \/ \E d \in parts : d.path = Extends[c][i]

EntryOK(e) == e.skips \subseteq Optional /\ Closed(e.parts, e.skips, <<>>)

WasMissingIn(S, p) == \E d \in S : d.path = p /\ d.ver = 0

HeldCovers(h, S) ==
    h.how # "hit" =>
        /\ h.skips \subseteq Optional /\ Closed(h.parts, h.skips, h.todo)
        /\ \A p \in h.skips \ h.watch : WasMissingIn(S, p)
        /\ h.pc # "pipeline" => h.todo = <<>>
        /\ h.pc \in Granting => h.watch = {}

CoverInv ==
    /\ \A k \in Keys : EntryOK(res[k])
    /\ \A r \in Requests : Busy(r) =>
          /\ req[r].root.path = Root
          /\ req[r].how = "hit" => req[r].pc \in {"checkArtifact", "resolution", "done"}
          /\ HeldCovers(req[r], seen[r])

RunOK(h, S) ==
    /\ h.root.path = Root
    /\ h.how = "hit" => h.pc \in {"checkArtifact", "resolution", "done"}
    /\ HeldCovers(h, S)

LEMMA NothingListed == \A p : ~Lists(<<>>, p)
  BY DEF Lists

LEMMA HeadOrTail ==
    ASSUME NEW s \in Seq(Paths), s # <<>>, NEW p, Lists(s, p)
    PROVE  p = Head(s) \/ Lists(Tail(s), p)
  <1>1. PICK i \in 1 .. Len(s) : s[i] = p
    BY DEF Lists
  <1>2. CASE i = 1
    BY <1>1, <1>2
  <1>3. CASE i # 1
    <2>1. i - 1 \in 1 .. Len(Tail(s)) /\ Tail(s)[i - 1] = s[i]
      BY <1>3
    <2> QED
      BY <1>1, <2>1 DEF Lists
  <1> QED
    BY <1>2, <1>3

LEMMA ListedInConcat ==
    ASSUME NEW s \in Seq(Paths), NEW t \in Seq(Paths), NEW p, Lists(s, p) \/ Lists(t, p)
    PROVE  Lists(s \o t, p)
  <1>1. ASSUME NEW i \in 1 .. Len(s), s[i] = p PROVE Lists(s \o t, p)
    <2>1. i \in 1 .. Len(s \o t) /\ (s \o t)[i] = s[i]
      BY ConcatProperties
    <2> QED
      BY <1>1, <2>1 DEF Lists
  <1>2. ASSUME NEW i \in 1 .. Len(t), t[i] = p PROVE Lists(s \o t, p)
    <2>1. Len(s) + i \in 1 .. Len(s \o t) /\ (s \o t)[Len(s) + i] = t[i]
      BY ConcatProperties
    <2> QED
      BY <1>2, <2>1 DEF Lists
  <1> QED
    BY <1>1, <1>2 DEF Lists

\* A step of one running request that fills layer 1 only with what is closed
LEMMA UpdateCovers ==
    ASSUME IInv, CoverInv, NEW r \in Requests, NEW h \in Held, Update(r, h), Busy(r),
           RunOK(h, seen[r]), \A k \in Keys : EntryOK(res'[k])
    PROVE  CoverInv'
  <1>1. seen' = seen /\ req' = [req EXCEPT ![r] = h] /\ req \in [Requests -> Held \cup {Idle}]
    BY DEF Update, IInv, TypeOK
  <1>2. ASSUME NEW q \in Requests, Busy(q)' PROVE RunOK(req'[q], seen'[q])
    <2>1. CASE q = r
      BY <1>1, <2>1
    <2>2. CASE q # r
      <3>1. req'[q] = req[q] /\ Busy(q)
        BY <1>1, <1>2, <2>2 DEF Busy
      <3> QED
        BY <1>1, <3>1 DEF CoverInv, RunOK
    <2> QED
      BY <2>1, <2>2
  <1>3. \A k \in Keys : EntryOK(res[k])'
    BY DEF EntryOK, Closed
  <1>4. ASSUME NEW q \in Requests, Busy(q)'
        PROVE  /\ (req[q].root.path = Root)'
               /\ (req[q].how = "hit" => req[q].pc \in {"checkArtifact", "resolution", "done"})'
               /\ HeldCovers(req[q], seen[q])'
    BY <1>2, <1>4 DEF RunOK, HeldCovers, Closed, WasMissingIn
  <1> QED
    BY <1>3, <1>4 DEF CoverInv

LEMMA GoCovers ==
    ASSUME IInv, CoverInv, NEW r \in Requests, NEW h \in Held, Go(r, h), Busy(r),
           RunOK(h, seen[r])
    PROVE  CoverInv'
  BY UpdateCovers DEF Go, CoverInv

\* What is left of an entry that is not valid does not matter
LEMMA PipelineCovers ==
    ASSUME IInv, CoverInv, NEW r \in Requests, Busy(r), RunPipeline(r)
    PROVE  CoverInv'
  <1> DEFINE h == [req[r] EXCEPT !.pc = "pipeline", !.how = "miss", !.parts = {},
                                 !.skips = {}, !.left = {}, !.watch = {},
                                 !.todo = <<Root>>]
  <1>1. req[r] \in Held /\ <<Root>> \in Seq(Paths) /\ req[r].root.path = Root
    BY BusyHeld, ConstantsAssumption DEF IInv, CoverInv
  <1>2. /\ h \in Held /\ h.root = req[r].root /\ h.parts = {} /\ h.skips = {} /\ h.watch = {}
        /\ h.pc = "pipeline" /\ h.how = "miss"
    BY <1>1 DEF Held, PC
  <1>3. RunOK(h, seen[r])
    BY <1>1, <1>2 DEF RunOK, HeldCovers, Closed
  <1> QED
    BY <1>2, <1>3, GoCovers DEF RunPipeline

LEMMA InvalidCovers ==
    ASSUME IInv, CoverInv, NEW r \in Requests, Checking(r), Invalid(r)
    PROVE  CoverInv'
  <1>1. Busy(r) /\ req[r] \in Held /\ RunOK(req[r], seen[r])
    BY PCBusy DEF Checking, IInv, PC, CoverInv, RunOK
  <1>2. CASE TryResolution(r)
    <2>1. PICK h \in Held : Go(r, h) /\ h = [req[r] EXCEPT !.pc = "resolution"]
      BY <1>1, <1>2 DEF TryResolution, Held, PC
    <2>2. RunOK(h, seen[r])
      BY <1>1, <2>1 DEF RunOK, HeldCovers, Granting, Checking, Held
    <2> QED
      BY <1>1, <2>1, <2>2, GoCovers
  <1>3. CASE RunPipeline(r)
    BY <1>1, <1>3, PipelineCovers
  <1> QED
    BY <1>2, <1>3 DEF Invalid

\* Entries are loaded with all that they skip still to be looked at
LEMMA LookupCovers ==
    ASSUME IInv, CoverInv, NEW r \in Requests, LookupArtifact(r) \/ LookupResolution(r)
    PROVE  CoverInv'
  <1>1. /\ Busy(r) /\ req[r] \in Held /\ req[r].key \in Keys /\ req[r].cast \in Casts
        /\ RunOK(req[r], seen[r])
    BY PCBusy DEF LookupArtifact, LookupResolution, IInv, PC, Held, CoverInv, RunOK
  <1>2. art[<<req[r].key, req[r].cast>>] \in Entry /\ res[req[r].key] \in Entry
    BY <1>1 DEF IInv, TypeOK
  <1>3. ASSUME NEW entry \in Entry, NEW how \in {"hit", "cast"},
               NEW to \in {"checkArtifact", "checkResolution"},
               how = "hit" => to = "checkArtifact", how = "cast" => EntryOK(entry),
               Load(r, entry, how, to)
        PROVE  CoverInv'
    <2>1. PICK h \in Held :
             /\ Go(r, h) /\ h.root = req[r].root /\ h.pc = to /\ h.how = how
             /\ h.parts = entry.parts /\ h.skips = entry.skips /\ h.watch = entry.skips /\ h.todo = <<>>
      <3>1. entry.parts \in SUBSET Contents /\ entry.skips \in SUBSET Paths /\ to \in PC /\ <<>> \in Seq(Paths)
        BY DEF Entry, PC
      <3>2. Loaded(req[r], entry, how, to) \in Held
        BY <1>1, <3>1 DEF Held, Loaded
      <3>3. Go(r, Loaded(req[r], entry, how, to))
        BY <1>3 DEF Load, Loaded
      <3> QED
        BY <1>1, <3>2, <3>3 DEF Held, Loaded
    <2>2. RunOK(h, seen[r])
      BY <1>1, <1>3, <2>1 DEF RunOK, HeldCovers, EntryOK, Granting
    <2> QED
      BY <1>1, <2>1, <2>2, GoCovers
  <1>4. CASE LookupArtifact(r) /\ ~TryResolution(r)
    BY <1>2, <1>3, <1>4 DEF LookupArtifact
  <1>5. CASE LookupArtifact(r) /\ TryResolution(r)
    <2>1. PICK h \in Held : Go(r, h) /\ h = [req[r] EXCEPT !.pc = "resolution"]
      BY <1>1, <1>5 DEF TryResolution, Held, PC
    <2>2. RunOK(h, seen[r])
      BY <1>1, <1>5, <2>1 DEF RunOK, HeldCovers, Granting, LookupArtifact, Held
    <2> QED
      BY <1>1, <2>1, <2>2, GoCovers
  <1>6. CASE LookupResolution(r) /\ ~RunPipeline(r)
    BY <1>1, <1>2, <1>3, <1>6 DEF LookupResolution, CoverInv
  <1>7. CASE LookupResolution(r) /\ RunPipeline(r)
    BY <1>1, <1>7, PipelineCovers
  <1> QED
    BY <1>4, <1>5, <1>6, <1>7

LEMMA CheckCovers ==
    ASSUME IInv, CoverInv, NEW r \in Requests,
           \/ \E p \in Paths : CheckSkipped(r, p)
           \/ \E c \in Contents : CheckParticipant(r, c)
    PROVE  CoverInv'
  <1>1. Busy(r) /\ req[r] \in Held /\ RunOK(req[r], seen[r]) /\ Checking(r)
    BY PCBusy DEF CheckSkipped, CheckParticipant, Checking, IInv, PC, CoverInv, RunOK
  <1>2. ASSUME NEW p \in Paths, Missing(p), Go(r, [req[r] EXCEPT !.watch = @ \ {p}])
        PROVE  CoverInv'
    <2>1. PICK h \in Held : Go(r, h) /\ h = [req[r] EXCEPT !.watch = req[r].watch \ {p}]
      BY <1>1, <1>2 DEF Held
    <2>2. /\ h.watch = req[r].watch \ {p} /\ h.skips = req[r].skips /\ h.parts = req[r].parts
          /\ h.todo = req[r].todo /\ h.pc = req[r].pc /\ h.how = req[r].how /\ h.root = req[r].root
      BY <1>1, <2>1 DEF Held
    <2>3. WasMissingIn(seen[r], p)
      <3>1. Named(p) \in seen[r]
        BY <1>1 DEF IInv, SeenOK
      <3> QED
        BY <1>2, <3>1 DEF WasMissingIn, Named, Missing
    <2>4. RunOK(h, seen[r])
      BY <1>1, <2>2, <2>3 DEF RunOK, HeldCovers, Granting, Checking
    <2> QED
      BY <1>1, <2>1, <2>4, GoCovers
  <1>3. ASSUME NEW c \in Contents, Go(r, [req[r] EXCEPT !.left = @ \ {c}])
        PROVE  CoverInv'
    <2>1. PICK h \in Held : Go(r, h) /\ h = [req[r] EXCEPT !.left = req[r].left \ {c}]
      BY <1>1, <1>3 DEF Held
    <2>2. /\ h.watch = req[r].watch /\ h.skips = req[r].skips /\ h.parts = req[r].parts
          /\ h.todo = req[r].todo /\ h.pc = req[r].pc /\ h.how = req[r].how /\ h.root = req[r].root
      BY <1>1, <2>1 DEF Held
    <2>3. RunOK(h, seen[r])
      BY <1>1, <2>2 DEF RunOK, HeldCovers
    <2> QED
      BY <1>1, <2>1, <2>3, GoCovers
  <1>4. CASE Invalid(r)
    BY <1>1, <1>4, InvalidCovers
  <1> QED
    BY <1>2, <1>3, <1>4 DEF CheckSkipped, CheckParticipant

\* Serving an entry, and going on when all references are read
LEMMA ServeCovers ==
    ASSUME IInv, CoverInv, NEW r \in Requests, ServeArtifact(r) \/ CastResolution(r) \/ Resolved(r)
    PROVE  CoverInv'
  <1>1. Busy(r) /\ req[r] \in Held /\ RunOK(req[r], seen[r])
    BY PCBusy DEF ServeArtifact, CastResolution, Resolved, IInv, PC, CoverInv, RunOK
  <1>2. ASSUME NEW to \in {"done", "store"}, Go(r, [req[r] EXCEPT !.pc = to]),
               req[r].how # "hit" => req[r].watch = {} /\ req[r].todo = <<>>,
               to = "store" => req[r].how # "hit"
        PROVE  CoverInv'
    <2>1. PICK h \in Held : Go(r, h) /\ h = [req[r] EXCEPT !.pc = to]
      BY <1>1, <1>2 DEF Held, PC
    <2>2. /\ h.watch = req[r].watch /\ h.skips = req[r].skips /\ h.parts = req[r].parts
          /\ h.todo = req[r].todo /\ h.pc = to /\ h.how = req[r].how /\ h.root = req[r].root
      BY <1>1, <2>1 DEF Held
    <2>3. RunOK(h, seen[r])
      BY <1>1, <1>2, <2>2 DEF RunOK, HeldCovers
    <2> QED
      BY <1>1, <2>1, <2>3, GoCovers
  <1>3. CASE ServeArtifact(r)
    <2>1. Checking(r) /\ req[r].watch = {} /\ (req[r].how # "hit" => req[r].todo = <<>>)
      BY <1>1, <1>3 DEF ServeArtifact, Revalidated, Checking, RunOK, HeldCovers
    <2> QED
      BY <1>2, <1>3, <2>1, InvalidCovers DEF ServeArtifact
  <1>4. CASE CastResolution(r)
    BY <1>1, <1>2, <1>4 DEF CastResolution, Revalidated, RunOK, HeldCovers
  <1>5. CASE Resolved(r)
    BY <1>1, <1>2, <1>5 DEF Resolved, RunOK, HeldCovers, Granting
  <1> QED
    BY <1>3, <1>4, <1>5

LEMMA ReadCovers ==
    ASSUME IInv, CoverInv, NEW r \in Requests, ReadSource(r)
    PROVE  CoverInv'
  <1> DEFINE p == Head(req[r].todo)
  <1>1. /\ Busy(r) /\ req[r] \in Held /\ req[r].todo # <<>> /\ req[r].pc = "pipeline"
        /\ RunOK(req[r], seen[r])
    BY PCBusy DEF ReadSource, IInv, PC, CoverInv, RunOK
  <1>2. p \in Paths /\ Tail(req[r].todo) \in Seq(Paths) /\ req[r].todo \in Seq(Paths)
    BY <1>1 DEF Held
  <1>3. ASSUME NEW c \in Contents, c.path = p, ReadNamed(r, c)
        PROVE  CoverInv'
    <2> DEFINE rest == Extends[c] \o Tail(req[r].todo)
    <2>1. rest \in Seq(Paths) /\ Extends[c] \in Seq(Paths)
      <3>1. Extends[c] \in Seq(Paths)
        BY ConstantsAssumption
      <3> QED
        BY <1>2, <3>1, ConcatProperties
    <2>2. PICK h \in Held : Go(r, h) /\ h = [req[r] EXCEPT !.parts = req[r].parts \cup {c}, !.todo = rest]
      <3> HIDE DEF rest
      <3>1. [req[r] EXCEPT !.parts = req[r].parts \cup {c}, !.todo = rest] \in Held
        BY <1>1, <2>1 DEF Held
      <3> QED
        BY <1>3, <3>1 DEF ReadNamed, rest
    <2>3. /\ h.watch = req[r].watch /\ h.skips = req[r].skips /\ h.parts = req[r].parts \cup {c}
          /\ h.todo = rest /\ h.pc = "pipeline" /\ h.how = req[r].how /\ h.root = req[r].root
      BY <1>1, <2>2 DEF Held
    <2>4. req[r].how # "hit" => Closed(h.parts, h.skips, h.todo)
      <3> SUFFICES ASSUME req[r].how # "hit", NEW d \in h.parts, NEW i \in 1 .. Len(Extends[d])
                   PROVE  \/ Extends[d][i] \in h.skips \/ Lists(h.todo, Extends[d][i])
                          \/ \E e \in h.parts : e.path = Extends[d][i]
        BY DEF Closed
      <3>1. CASE d = c
        <4>1. Lists(Extends[c], Extends[d][i])
          BY <3>1 DEF Lists
        <4> QED
          BY <1>2, <2>1, <2>3, <4>1, ListedInConcat
      <3>2. CASE d \in req[r].parts
        <4>1. \/ Extends[d][i] \in req[r].skips \/ Lists(req[r].todo, Extends[d][i])
              \/ \E e \in req[r].parts : e.path = Extends[d][i]
          BY <1>1, <3>2 DEF RunOK, HeldCovers, Closed
        <4>2. CASE Lists(req[r].todo, Extends[d][i])
          <5>1. Extends[d][i] = p \/ Lists(Tail(req[r].todo), Extends[d][i])
            BY <1>1, <1>2, <4>2, HeadOrTail
          <5>2. CASE Extends[d][i] = p
            BY <1>3, <2>3, <5>2
          <5>3. CASE Lists(Tail(req[r].todo), Extends[d][i])
            BY <1>2, <2>1, <2>3, <5>3, ListedInConcat
          <5> QED
            BY <5>1, <5>2, <5>3
        <4> QED
          BY <2>3, <4>1, <4>2
      <3> QED
        BY <2>3, <3>1, <3>2
    <2> HIDE DEF rest
    <2>5. RunOK(h, seen[r])
      BY <1>1, <2>3, <2>4 DEF RunOK, HeldCovers, Granting
    <2> QED
      BY <1>1, <2>2, <2>5, GoCovers
  <1>4. CASE ~Missing(p) /\ ReadNamed(r, Named(p))
    <2>1. Named(p) \in Contents /\ Named(p).path = p
      BY <1>2, <1>4, NamedContent DEF IInv, Named
    <2> QED
      BY <1>3, <1>4, <2>1
  <1>5. CASE p = Root /\ ReadNamed(r, req[r].root)
    <2>1. req[r].root \in Contents /\ req[r].root.path = p
      BY <1>1, <1>5 DEF Held, RunOK
    <2> QED
      BY <1>3, <1>5, <2>1
  <1> QED
    BY <1>4, <1>5 DEF ReadSource

LEMMA SkipCovers ==
    ASSUME IInv, CoverInv, NEW r \in Requests, SkipSource(r)
    PROVE  CoverInv'
  <1> DEFINE p == Head(req[r].todo)
  <1>1. /\ Busy(r) /\ req[r] \in Held /\ req[r].todo # <<>> /\ req[r].pc = "pipeline"
        /\ RunOK(req[r], seen[r]) /\ p \in Optional /\ Missing(p)
    BY PCBusy DEF SkipSource, IInv, PC, CoverInv, RunOK
  <1>2. p \in Paths /\ Tail(req[r].todo) \in Seq(Paths) /\ req[r].todo \in Seq(Paths)
    BY <1>1 DEF Held
  <1>3. PICK h \in Held : Go(r, h) /\ h = [req[r] EXCEPT !.skips = req[r].skips \cup {p},
                                                        !.todo = Tail(req[r].todo)]
    <2>1. [req[r] EXCEPT !.skips = req[r].skips \cup {p}, !.todo = Tail(req[r].todo)] \in Held
      BY <1>1, <1>2 DEF Held
    <2> QED
      BY <2>1 DEF SkipSource
  <1>4. /\ h.watch = req[r].watch /\ h.skips = req[r].skips \cup {p} /\ h.parts = req[r].parts
        /\ h.todo = Tail(req[r].todo) /\ h.pc = "pipeline" /\ h.how = req[r].how /\ h.root = req[r].root
    BY <1>1, <1>3 DEF Held
  <1>5. WasMissingIn(seen[r], p)
    <2>1. Named(p) \in seen[r]
      BY <1>1, <1>2 DEF IInv, SeenOK
    <2> QED
      BY <1>1, <2>1 DEF WasMissingIn, Named, Missing
  <1>6. req[r].how # "hit" => Closed(h.parts, h.skips, h.todo)
    <2> SUFFICES ASSUME req[r].how # "hit", NEW d \in h.parts, NEW i \in 1 .. Len(Extends[d])
                 PROVE  \/ Extends[d][i] \in h.skips \/ Lists(h.todo, Extends[d][i])
                        \/ \E e \in h.parts : e.path = Extends[d][i]
      BY DEF Closed
    <2>1. \/ Extends[d][i] \in req[r].skips \/ Lists(req[r].todo, Extends[d][i])
          \/ \E e \in req[r].parts : e.path = Extends[d][i]
      BY <1>1, <1>4 DEF RunOK, HeldCovers, Closed
    <2>2. Lists(req[r].todo, Extends[d][i]) => Extends[d][i] = p \/ Lists(Tail(req[r].todo), Extends[d][i])
      BY <1>1, <1>2, HeadOrTail
    <2> QED
      BY <1>4, <2>1, <2>2
  <1> HIDE DEF p
  <1>7. RunOK(h, seen[r])
    BY <1>1, <1>4, <1>5, <1>6 DEF RunOK, HeldCovers, Granting
  <1> QED
    BY <1>1, <1>3, <1>7, GoCovers

LEMMA FillCovers ==
    ASSUME IInv, CoverInv, NEW r \in Requests,
           StoreArtifact(r) \/ FillArtifact(r) \/ FillResolution(r)
    PROVE  CoverInv'
  <1>1. /\ Busy(r) /\ req[r] \in Held /\ RunOK(req[r], seen[r])
        /\ req[r].pc \in {"store", "fillArtifact", "fillResolution"}
    BY PCBusy DEF StoreArtifact, FillArtifact, FillResolution, IInv, PC, CoverInv, RunOK
  <1>2. req[r].key \in Keys /\ req[r].how # "hit" /\ req[r].todo = <<>> /\ req[r].watch = {}
    BY <1>1 DEF Held, RunOK, HeldCovers, Granting
  <1>3. PICK to \in {"fillArtifact", "fillResolution", "done"} : Update(r, [req[r] EXCEPT !.pc = to])
    BY DEF StoreArtifact, FillArtifact, FillResolution
  <1>4. PICK h \in Held : Update(r, h) /\ h = [req[r] EXCEPT !.pc = to]
    BY <1>1, <1>3 DEF Held, PC
  <1>5. /\ h.watch = req[r].watch /\ h.skips = req[r].skips /\ h.parts = req[r].parts
        /\ h.todo = req[r].todo /\ h.pc = to /\ h.how = req[r].how /\ h.root = req[r].root
    BY <1>1, <1>4 DEF Held
  <1>6. RunOK(h, seen[r])
    BY <1>1, <1>2, <1>5 DEF RunOK, HeldCovers
  <1>7. \A k \in Keys : EntryOK(res'[k])
    <2>1. CASE res' = res
      BY <2>1 DEF CoverInv
    <2>2. CASE res' = [res EXCEPT ![req[r].key] = [parts |-> req[r].parts, skips |-> req[r].skips]]
      <3>1. EntryOK([parts |-> req[r].parts, skips |-> req[r].skips])
        BY <1>1, <1>2 DEF EntryOK, RunOK, HeldCovers
      <3> QED
        BY <2>2, <3>1 DEF CoverInv, IInv, TypeOK
    <2> QED
      BY <2>1, <2>2 DEF StoreArtifact, FillArtifact, FillResolution
  <1> QED
    BY <1>1, <1>4, <1>6, <1>7, UpdateCovers

\* A request begins with nothing and ends with nothing
LEMMA BorderCovers ==
    ASSUME IInv, CoverInv, NEW r \in Requests, End(r) \/ \E cast \in Casts : Start(r, cast)
    PROVE  CoverInv'
  <1>1. /\ res' = res
        /\ \A q \in Requests \ {r} : req'[q] = req[q] /\ seen'[q] = seen[q]
        /\ \/ req'[r] = Idle
           \/ /\ req'[r].root = Named(Root) /\ req'[r].how = "miss" /\ req'[r].pc = "artifact"
              /\ req'[r].parts = {} /\ req'[r].skips = {} /\ req'[r].watch = {} /\ req'[r].todo = <<>>
    BY DEF End, Start, IInv, TypeOK
  <1>2. \A k \in Keys : EntryOK(res[k])'
    BY <1>1 DEF CoverInv, EntryOK, Closed
  <1>3. ASSUME NEW q \in Requests, Busy(q)'
        PROVE  /\ (req[q].root.path = Root)'
               /\ (req[q].how = "hit" => req[q].pc \in {"checkArtifact", "resolution", "done"})'
               /\ HeldCovers(req[q], seen[q])'
    <2>1. CASE q # r
      BY <1>1, <1>3, <2>1 DEF CoverInv, Busy, HeldCovers, Closed, WasMissingIn
    <2>2. CASE q = r
      BY <1>1, <1>3, <2>2 DEF Busy, Named, HeldCovers, Closed, WasMissingIn, Granting
    <2> QED
      BY <2>1, <2>2
  <1> QED
    BY <1>2, <1>3 DEF CoverInv

\* Changes of the tree, expiries and steps of nobody
LEMMA OthersCover ==
    ASSUME IInv, CoverInv, Edit \/ Expire \/ UNCHANGED vars
    PROVE  CoverInv'
  <1>1. /\ req' = req /\ \A r \in Requests : Busy(r) => seen[r] \subseteq seen'[r]
        /\ \A k \in Keys : EntryOK(res'[k])
    <2>0. EntryOK(NoEntry)
      BY DEF EntryOK, NoEntry, Closed
    <2>1. CASE Edit
      BY <2>1 DEF Edit, Create, Retarget, Change, CoverInv, IInv, TypeOK
    <2>2. CASE Expire
      BY <2>0, <2>2 DEF Expire, EvictResolution, EvictArtifact, Sweep, CoverInv, IInv, TypeOK
    <2>3. CASE UNCHANGED vars
      BY <2>3 DEF vars, CoverInv
    <2> QED
      BY <2>1, <2>2, <2>3
  <1>2. \A k \in Keys : EntryOK(res[k])'
    BY <1>1 DEF EntryOK, Closed
  <1>3. ASSUME NEW q \in Requests, Busy(q)'
        PROVE  /\ (req[q].root.path = Root)'
               /\ (req[q].how = "hit" => req[q].pc \in {"checkArtifact", "resolution", "done"})'
               /\ HeldCovers(req[q], seen[q])'
    <2>1. Busy(q) /\ req'[q] = req[q] /\ seen[q] \subseteq seen'[q]
      BY <1>1, <1>3 DEF Busy
    <2> QED
      BY <2>1 DEF CoverInv, HeldCovers, Closed, WasMissingIn
  <1> QED
    BY <1>2, <1>3 DEF CoverInv

LEMMA CoverInvariant == Spec => [](IInv /\ CoverInv)
  <1>1. Init => CoverInv
    BY DEF Init, CoverInv, Busy, EntryOK, NoEntry, Closed
  <1>2. IInv /\ CoverInv /\ [Next]_vars => CoverInv'
    <2> SUFFICES ASSUME IInv, CoverInv, [Next]_vars PROVE CoverInv'
      OBVIOUS
    <2>1. ASSUME NEW r \in Requests, Step(r) PROVE CoverInv'
      BY <2>1, BorderCovers, LookupCovers, CheckCovers, ServeCovers, ReadCovers, SkipCovers,
         FillCovers, Zenon DEF Step
    <2> QED
      BY <2>1, OthersCover DEF Next
  <1> QED
    BY <1>1, <1>2, Inductive, InitInv, NextInv, PTL DEF Spec

-----------------------------------------------------------------------------
(* Results *)

\* Every variable keeps its type, whatever the requests, the tree and the
\* expiries do.
THEOREM CacheTypeCorrect == Spec => []TypeOK
  <1>1. IInv => TypeOK
    BY DEF IInv
  <1> QED
    BY <1>1, Inductive, PTL

\* Revalidation is enough: no layer answers with a version its reference did
\* not name at some moment of the request (resolve_at_path).
THEOREM CacheServesNamedVersions == Spec => []ServedVersionsWereNamed
  <1>1. IInv => ServedVersionsWereNamed
    <2> SUFFICES ASSUME IInv, NEW r \in Requests, Answered(r), NEW c \in req[r].parts
                 PROVE  \E d \in seen[r] : d.path = c.path /\ d.ver = c.ver
      BY DEF ServedVersionsWereNamed
    <2>1. HeldOK(r, req[r], seen[r])
      BY DEF Answered, IInv, SeenOK
    <2>2. c \in Confirmed(req[r])
      BY DEF Answered, Confirmed
    <2> QED
      BY <2>1, <2>2 DEF HeldOK, WasNamed
  <1> QED
    BY <1>1, Inductive, PTL

\* Entries are shared by all callers, and still nobody is answered with a
\* participant he may not resolve (_require_cache_entry_permissions).
THEOREM CacheServesPermitted == Spec => []ServedOnlyPermitted
  <1>1. IInv => ServedOnlyPermitted
    BY DEF ServedOnlyPermitted, Answered, IInv, SeenOK, HeldOK, Granting
  <1> QED
    BY <1>1, Inductive, PTL

\* A source that is left out of an answer was optional, and missing at some moment
\* of the request (_resolve_extends with skip_missing), unless layer 2 answers.
THEOREM CastsSkipMissing == Spec => []CastsSkipOnlyMissingSources
  <1>1. IInv /\ CoverInv => CastsSkipOnlyMissingSources
    <2> SUFFICES ASSUME CoverInv, NEW r \in Requests, Answered(r), req[r].how # "hit",
                        NEW p \in LeftOut(r)
                 PROVE  p \in Optional /\ WasMissing(r, p)
      BY DEF CastsSkipOnlyMissingSources
    <2>1. HeldCovers(req[r], seen[r]) /\ req[r].pc = "done"
      BY DEF Answered, CoverInv
    <2>2. req[r].watch = {} /\ req[r].todo = <<>>
      BY <2>1 DEF HeldCovers, Granting
    <2>3. p \in req[r].skips
      BY <2>1, <2>2, NothingListed DEF HeldCovers, Closed, LeftOut
    <2> QED
      BY <2>1, <2>2, <2>3 DEF HeldCovers, WasMissingIn, WasMissing
  <1> QED
    BY <1>1, CoverInvariant, PTL
=============================================================================
