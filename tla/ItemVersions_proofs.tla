------------------------ MODULE ItemVersions_proofs ------------------------
(***************************************************************************)
(* Theorems about ItemVersions, for every set of requests, documents and   *)
(* tags and every bound.                                                   *)
(***************************************************************************)
EXTENDS ItemVersions, TLAPS

-----------------------------------------------------------------------------
(* Type correctness *)

\* The values every request starts from and returns to are well typed.
LEMMA IdleType ==
    /\ NoTags \in Tags
    /\ NoRow \in [pk : Nat, tags : Tags]
    /\ NoVersions \in [Numbers -> Docs \cup {Absent, Cleared}]
    /\ Idle \in Held
  <1>1. NoTags \in Tags
    BY ConstantsAssumption DEF NoTags, Tags
  <1>2. NoRow \in [pk : Nat, tags : Tags]
    BY <1>1 DEF NoRow
  <1>3. NoVersions \in [Numbers -> Docs \cup {Absent, Cleared}]
    BY DEF NoVersions
  <1>4. Idle \in Held
    BY <1>1, ConstantsAssumption DEF Idle, Held, PC
  <1> QED
    BY <1>1, <1>2, <1>3, <1>4

\* Moving a request one point ahead with well-typed data keeps the types.
LEMMA ProceedType ==
    ASSUME TypeOK, NEW r \in Requests, NEW to \in PC, NEW tags \in Tags,
           NEW d \in Docs \cup {Cleared}, NEW v \in 0 .. MaxVersion,
           Proceed(r, to, tags, d, v)
    PROVE  TypeOK'
  <1>1. req' \in [Requests -> Held]
    BY DEF Proceed, TypeOK, Held
  <1> QED
    BY <1>1 DEF Proceed, TypeOK

\* Ending a request keeps the types of what requests hold.
LEMMA FinishType ==
    ASSUME TypeOK, NEW r \in Requests, Finish(r)
    PROVE  req' \in [Requests -> Held]
  BY IdleType DEF Finish, TypeOK

\* One step of the system keeps every variable in its type.
LEMMA TypeStep == TypeOK /\ [Next]_vars => TypeOK'
  <1> SUFFICES ASSUME TypeOK, [Next]_vars PROVE TypeOK'
    OBVIOUS
  <1> USE ConstantsAssumption
  <1>1. ASSUME NEW r \in Requests, Load(r) \/ LoadSecret(r)
        PROVE  TypeOK'
    <2> DEFINE h(pc) == [Idle EXCEPT !.pc = pc, !.pk = row.pk, !.tags = row.tags,
                                     !.open = ~locked]
    <2>1. row.pk \in Nat /\ row.tags \in Tags
      BY DEF TypeOK
    <2>2. (~locked) \in BOOLEAN
      OBVIOUS
    <2>3. h("loaded") \in Held /\ h("secretLoaded") \in Held
      BY <2>1, <2>2, IdleType DEF Held, PC
    <2>4. req' = [req EXCEPT ![r] = h("loaded")] \/ req' = [req EXCEPT ![r] = h("secretLoaded")]
      BY <1>1 DEF Load, LoadSecret
    <2> HIDE DEF h
    <2> QED
      BY <1>1, <2>3, <2>4 DEF Load, LoadSecret, TypeOK
  <1>2. ASSUME NEW r \in Requests,
               Refuse(r) \/ InsertFails(r) \/ SaveFails(r) \/ SoftDeleteFails(r)
                 \/ InsertItemFails(r) \/ Respond(r) \/ Crash(r)
        PROVE  TypeOK'
    BY <1>2, FinishType DEF Refuse, InsertFails, SaveFails, SoftDeleteFails,
       InsertItemFails, Respond, Crash, TypeOK
  <1>3. ASSUME NEW r \in Requests, NEW d \in Docs,
               CompareUpdate(r, d) \/ CompareSecret(r, d)
        PROVE  TypeOK'
    <2>1. req[r].tags \in Tags
      BY DEF TypeOK, Held
    <2>2. PICK to \in PC : Proceed(r, to, req[r].tags, d, 0)
      BY <1>3 DEF CompareUpdate, CompareSecret, PC
    <2> QED
      BY <2>1, <2>2, ProceedType
  <1>4. ASSUME NEW r \in Requests, NumberVersion(r)
        PROVE  TypeOK'
    <2>1. /\ req[r].tags \in Tags
          /\ req[r].doc \in Docs \cup {Cleared}
      BY DEF TypeOK, Held
    <2>2. PICK n \in Numbers : Proceed(r, "insert", req[r].tags, req[r].doc, n)
      BY <1>4 DEF NumberVersion
    <2> QED
      BY <2>1, <2>2, ProceedType DEF PC, Numbers
  <1>5. ASSUME NEW r \in Requests, InsertVersion(r) \/ InsertSecretVersion(r) \/ ReviveSecret(r)
        PROVE  TypeOK'
    <2>1. [req[r].tags EXCEPT !["latest"] = req[r].ver] \in Tags
      BY DEF TypeOK, Held, Tags
    <2>2. req' \in [Requests -> Held]
      <3>1. PICK to \in PC : req' = [req EXCEPT ![r] = [@ EXCEPT !.pc = to,
                 !.tags = [req[r].tags EXCEPT !["latest"] = req[r].ver]]]
        BY <1>5 DEF InsertVersion, InsertSecretVersion, ReviveSecret, PC, TypeOK, Held
      <3> QED
        BY <2>1, <3>1 DEF TypeOK, Held
    <2>3. versions' \in [Numbers -> Docs \cup {Absent, Cleared}]
      BY <1>5 DEF InsertVersion, InsertSecretVersion, ReviveSecret, TypeOK, Held
    <2>4. row' \in [pk : Nat, tags : Tags]
      <3>1. CASE InsertVersion(r) \/ InsertSecretVersion(r)
        BY <3>1, <2>1 DEF InsertVersion, InsertSecretVersion, TypeOK
      <3>2. CASE ReviveSecret(r)
        BY <3>2, <2>1 DEF ReviveSecret, TypeOK, Held
      <3> QED
        BY <1>5, <3>1, <3>2
    <2>5. revived' \in BOOLEAN
      BY <1>5 DEF InsertVersion, InsertSecretVersion, ReviveSecret, TypeOK
    <2> QED
      BY <1>5, <2>2, <2>3, <2>4, <2>5 DEF InsertVersion, InsertSecretVersion, ReviveSecret, TypeOK
  <1>6. ASSUME NEW r \in Requests, SaveRow(r) \/ ReviveRow(r)
        PROVE  TypeOK'
    <2>1. req' \in [Requests -> Held]
      BY <1>6 DEF SaveRow, ReviveRow, TypeOK, Held, PC
    <2>2. row' \in [pk : Nat, tags : Tags]
      BY <1>6 DEF SaveRow, ReviveRow, TypeOK, Held
    <2>3. revived' \in BOOLEAN
      BY <1>6 DEF SaveRow, ReviveRow, TypeOK
    <2> QED
      BY <1>6, <2>1, <2>2, <2>3 DEF SaveRow, ReviveRow, TypeOK
  <1>7. ASSUME NEW r \in Requests, NEW t \in TagNames,
               DeleteTag(r, t) \/ \E v \in Numbers : SetTag(r, t, v)
        PROVE  TypeOK'
    <2>1. \A v \in 0 .. MaxVersion : [req[r].tags EXCEPT ![t] = v] \in Tags
      BY DEF TypeOK, Held, Tags
    <2>2. PICK v \in 0 .. MaxVersion :
             Proceed(r, "save", [req[r].tags EXCEPT ![t] = v], Cleared, 0)
      <3>1. CASE DeleteTag(r, t)
        BY <3>1 DEF DeleteTag
      <3>2. CASE \E v \in Numbers : SetTag(r, t, v)
        BY <3>2 DEF SetTag, Numbers
      <3> QED
        BY <1>7, <3>1, <3>2
    <2> QED
      BY <2>1, <2>2, ProceedType DEF PC
  <1>8. ASSUME NEW r \in Requests, SetDescription(r) \/ DeleteItem(r)
        PROVE  TypeOK'
    <2>1. req[r].tags \in Tags
      BY DEF TypeOK, Held
    <2>2. PICK to \in PC : Proceed(r, to, req[r].tags, Cleared, 0)
      BY <1>8 DEF SetDescription, DeleteItem, PC
    <2> QED
      BY <2>1, <2>2, ProceedType
  <1>9. ASSUME NEW r \in Requests, NEW v \in Numbers,
               PromoteStable(r, v) \/ DeleteVersion(r, v)
        PROVE  TypeOK'
    <2>1. /\ req[r].tags \in Tags
          /\ [req[r].tags EXCEPT !["stable"] = v] \in Tags
      BY DEF TypeOK, Held, Tags, Numbers, TagNames
    <2>2. PICK to \in PC, tags \in Tags : Proceed(r, to, tags, Cleared, v)
      BY <1>9, <2>1 DEF PromoteStable, DeleteVersion, PC
    <2> QED
      BY <2>2, ProceedType DEF Numbers
  <1>10. ASSUME NEW r \in Requests, SaveTags(r)
         PROVE  TypeOK'
    <2>1. row' \in [pk : Nat, tags : Tags]
      BY <1>10 DEF SaveTags, TypeOK, Held
    <2> QED
      BY <1>10, <2>1, FinishType DEF SaveTags, TypeOK
  <1>11. ASSUME NEW r \in Requests, SoftDelete(r)
         PROVE  TypeOK'
    <2>1. /\ req[r].tags \in Tags
          /\ req[r].ver \in 0 .. MaxVersion
          /\ \A n \in 0 .. MaxVersion : [req[r].tags EXCEPT !["latest"] = n] \in Tags
      BY DEF TypeOK, Held, Tags
    <2>2. PICK to \in PC, tags \in Tags : Proceed(r, to, tags, Cleared, req[r].ver)
      BY <1>11, <2>1 DEF SoftDelete, PC
    <2> QED
      BY <2>1, <2>2, ProceedType
  <1>12. ASSUME NEW r \in Requests, CommitDelete(r)
         PROVE  TypeOK'
    <2>1. row' \in [pk : Nat, tags : Tags]
      BY <1>12 DEF CommitDelete, TypeOK, Held
    <2>2. versions' \in [Numbers -> Docs \cup {Absent, Cleared}]
      BY <1>12 DEF CommitDelete, TypeOK, VersionKnown, Rows
    <2> QED
      BY <1>12, <2>1, <2>2, FinishType DEF CommitDelete, TypeOK
  <1>13. ASSUME NEW r \in Requests, RemoveRow(r)
         PROVE  TypeOK'
    BY <1>13, IdleType, FinishType DEF RemoveRow, TypeOK
  <1>14. ASSUME NEW r \in Requests, NEW d \in CreateDocs, CreateItem(r, d)
         PROVE  TypeOK'
    <2>1. req[r].tags \in Tags /\ d \in Docs \cup {Cleared}
      BY DEF TypeOK, Held
    <2> QED
      BY <1>14, <2>1, ProceedType DEF CreateItem, PC
  <1>15. ASSUME NEW r \in Requests, InsertItem(r)
         PROVE  TypeOK'
    <2>1. [NoTags EXCEPT !["latest"] = 1] \in Tags
      BY IdleType DEF Tags, TagNames
    <2>2. versions' \in [Numbers -> Docs \cup {Absent, Cleared}]
      BY <1>15, IdleType DEF InsertItem, TypeOK, Held
    <2>3. row' \in [pk : Nat, tags : Tags] /\ lastPk' \in Nat
      BY <1>15, <2>1 DEF InsertItem, TypeOK
    <2> QED
      BY <1>15, <2>2, <2>3, FinishType DEF InsertItem, TypeOK
  <1>16. ASSUME LockPath \/ UnlockPath
         PROVE  TypeOK'
    <2>1. req' \in [Requests -> Held]
      <3>1. \A r \in Requests : [req[r] EXCEPT !.open = TRUE] \in Held
        BY DEF TypeOK, Held
      <3> QED
        BY <1>16, <3>1, IdleType DEF LockPath, UnlockPath, TypeOK
    <2>2. locked' \in BOOLEAN
      BY <1>16 DEF LockPath, UnlockPath
    <2> QED
      BY <1>16, <2>1, <2>2 DEF LockPath, UnlockPath, TypeOK
  <1>17. CASE UNCHANGED vars
    BY <1>17 DEF vars, TypeOK
  <1>18. ASSUME NEW r \in Requests, Step(r)
         PROVE  TypeOK'
    BY <1>18, <1>1, <1>2, <1>3, <1>4, <1>5, <1>6, <1>7, <1>8, <1>9, <1>10, <1>11,
       <1>12, <1>13, <1>14, <1>15, Zenon DEF Step
  <1> QED
    BY <1>16, <1>17, <1>18 DEF Next

\* In every reachable state each variable, and each field of what a request
\* holds in memory, has a value of its kind: a tag is a version number in
\* range and never null, whatever the API calls store.
THEOREM TypeCorrect == Spec => []TypeOK
  <1>1. Init => TypeOK
    <2> SUFFICES ASSUME Init PROVE TypeOK
      OBVIOUS
    <2>1. locked \in BOOLEAN /\ revived \in BOOLEAN
      BY DEF Init
    <2> QED
      BY <2>1, IdleType DEF Init, TypeOK
  <1> QED
    BY <1>1, TypeStep, PTL DEF Spec

-----------------------------------------------------------------------------
(* Locks *)

\* The inductive form of LockRespected.  A request that found the path locked
\* when it loaded cannot pass its checks before an unlock, and every request
\* in flight remembers the unlock.
LockInv ==
    \A r \in Requests :
        /\ req[r].pc # "idle" /\ ~locked => req[r].open
        /\ req[r].pc \in Writing \cup {"secretLoaded"} => req[r].open

\* What Proceed does, field by field.
LEMMA ProceedFacts ==
    ASSUME TypeOK, NEW r \in Requests, NEW to, NEW tags, NEW d, NEW v,
           Proceed(r, to, tags, d, v)
    PROVE  /\ req'[r].pc = to
           /\ req'[r].tags = tags
           /\ req'[r].doc = d
           /\ req'[r].ver = v
           /\ req'[r].pk = req[r].pk
           /\ req'[r].open = req[r].open
           /\ \A q \in Requests \ {r} : req'[q] = req[q]
           /\ UNCHANGED <<row, versions, lastPk, kind, locked, revived>>
  BY DEF Proceed, TypeOK, Held

LEMMA LockStep == TypeOK /\ LockInv /\ [Next]_vars => LockInv'
  <1> SUFFICES ASSUME TypeOK, LockInv, [Next]_vars PROVE LockInv'
    OBVIOUS
  \* a request that is past its checks, or passes them now, moves on
  <1>1. ASSUME NEW r \in Requests, locked' = locked,
               \A q \in Requests \ {r} : req'[q] = req[q],
               req'[r].open = req[r].open,
               \/ req[r].pc = "loaded" /\ ~locked
               \/ req[r].pc \in Writing \cup {"secretLoaded"}
        PROVE  LockInv'
    BY <1>1 DEF LockInv, Writing, PC
  <1>2. ASSUME NEW r \in Requests, Finish(r), locked' = locked
        PROVE  LockInv'
    BY <1>2 DEF Finish, Idle, LockInv, TypeOK, Writing
  <1>3. ASSUME NEW r \in Requests, Load(r)
        PROVE  LockInv'
    <2>1. /\ req'[r].open = ~locked
          /\ req'[r].pc = "loaded"
          /\ \A q \in Requests \ {r} : req'[q] = req[q]
          /\ locked' = locked
      BY <1>3 DEF Load, Idle, TypeOK
    <2> QED
      BY <2>1 DEF LockInv, Writing
  <1>4. ASSUME NEW r \in Requests, LoadSecret(r)
        PROVE  LockInv'
    <2>1. /\ req'[r].open = ~locked
          /\ ~locked
          /\ \A q \in Requests \ {r} : req'[q] = req[q]
          /\ locked' = locked
      BY <1>4 DEF LoadSecret, EnsureWritable, Idle, TypeOK
    <2> QED
      BY <2>1 DEF LockInv
  <1>5. ASSUME NEW r \in Requests,
               Refuse(r) \/ InsertFails(r) \/ SaveFails(r) \/ SaveTags(r)
                 \/ SoftDeleteFails(r) \/ CommitDelete(r) \/ RemoveRow(r)
                 \/ InsertItem(r) \/ InsertItemFails(r) \/ Respond(r) \/ Crash(r)
        PROVE  LockInv'
    BY <1>2, <1>5 DEF Refuse, InsertFails, SaveFails, SaveTags, SoftDeleteFails,
       CommitDelete, RemoveRow, InsertItem, InsertItemFails, Respond, Crash
  <1>6. ASSUME NEW r \in Requests, NEW d \in Docs, CompareUpdate(r, d)
        PROVE  LockInv'
    BY <1>1, <1>6, ProceedFacts DEF CompareUpdate, Checked, EnsureWritable
  <1>7. ASSUME NEW r \in Requests, NEW d \in Docs, CompareSecret(r, d)
        PROVE  LockInv'
    BY <1>1, <1>7, ProceedFacts DEF CompareSecret
  <1>8. ASSUME NEW r \in Requests, NumberVersion(r)
        PROVE  LockInv'
    BY <1>1, <1>8, ProceedFacts DEF NumberVersion, Writing, PC
  <1>9. ASSUME NEW r \in Requests, InsertVersion(r) \/ SaveRow(r) \/ ReviveRow(r)
        PROVE  LockInv'
    <2>1. /\ req'[r].open = req[r].open
          /\ req[r].pc \in {"insert", "save"}
          /\ \A q \in Requests \ {r} : req'[q] = req[q]
          /\ locked' = locked
      <3>1. CASE InsertVersion(r)
        BY <3>1 DEF InsertVersion, TypeOK, Held
      <3>2. CASE SaveRow(r)
        BY <3>2 DEF SaveRow, TypeOK, Held
      <3>3. CASE ReviveRow(r)
        BY <3>3 DEF ReviveRow, TypeOK, Held
      <3> QED
        BY <1>9, <3>1, <3>2, <3>3
    <2> QED
      BY <1>1, <2>1 DEF Writing, PC
  <1>10. ASSUME NEW r \in Requests, InsertSecretVersion(r) \/ ReviveSecret(r)
         PROVE  LockInv'
    <2>1. /\ req'[r].open = req[r].open
          /\ req[r].pc = "insert"
          /\ \A q \in Requests \ {r} : req'[q] = req[q]
          /\ locked' = locked
      <3>1. CASE InsertSecretVersion(r)
        BY <3>1 DEF InsertSecretVersion, TypeOK, Held
      <3>2. CASE ReviveSecret(r)
        BY <3>2 DEF ReviveSecret, TypeOK, Held
      <3> QED
        BY <1>10, <3>1, <3>2
    <2> QED
      BY <1>1, <2>1 DEF Writing, PC
  <1>11. ASSUME NEW r \in Requests, NEW t \in TagNames,
                DeleteTag(r, t) \/ \E v \in Numbers : SetTag(r, t, v)
         PROVE  LockInv'
    BY <1>1, <1>11, ProceedFacts DEF DeleteTag, SetTag, Checked, EnsureWritable
  <1>12. ASSUME NEW r \in Requests, SetDescription(r) \/ DeleteItem(r)
         PROVE  LockInv'
    BY <1>1, <1>12, ProceedFacts DEF SetDescription, DeleteItem, Checked, EnsureWritable
  <1>13. ASSUME NEW r \in Requests, NEW v \in Numbers,
                PromoteStable(r, v) \/ DeleteVersion(r, v)
         PROVE  LockInv'
    BY <1>1, <1>13, ProceedFacts DEF PromoteStable, DeleteVersion, Checked, EnsureWritable
  <1>14. ASSUME NEW r \in Requests, SoftDelete(r)
         PROVE  LockInv'
    BY <1>1, <1>14, ProceedFacts DEF SoftDelete, Writing, PC
  <1>15. ASSUME NEW r \in Requests, NEW d \in CreateDocs, CreateItem(r, d)
         PROVE  LockInv'
    BY <1>1, <1>15, ProceedFacts DEF CreateItem, EnsureWritable
  <1>16. ASSUME LockPath \/ UnlockPath
         PROVE  LockInv'
    BY <1>16 DEF LockPath, UnlockPath, LockInv, TypeOK, Held, Idle, Writing
  <1>17. CASE UNCHANGED vars
    BY <1>17 DEF vars, LockInv
  <1>18. ASSUME NEW r \in Requests, Step(r)
         PROVE  LockInv'
    BY <1>18, <1>3, <1>4, <1>5, <1>6, <1>7, <1>8, <1>9, <1>10, <1>11, <1>12, <1>13,
       <1>14, <1>15, Zenon DEF Step
  <1> QED
    BY <1>16, <1>17, <1>18 DEF Next

\* Whatever takes and releases the lock while requests run, a request never
\* writes on the strength of checks made entirely under a lock.
THEOREM LocksRespected == Spec => []LockRespected
  <1>1. Init => LockInv
    <2> SUFFICES ASSUME Init PROVE LockInv
      OBVIOUS
    <2>1. \A r \in Requests : req[r] = Idle
      BY DEF Init
    <2>2. Idle.pc = "idle"
      BY DEF Idle
    <2> QED
      BY <2>1, <2>2 DEF LockInv, Writing
  <1>2. LockInv => LockRespected
    BY DEF LockInv, LockRespected
  <1> QED
    BY <1>1, <1>2, LockStep, TypeCorrect, PTL DEF Spec

-----------------------------------------------------------------------------
(* Version history *)

TagsKnown(tags) == \A t \in TagNames : tags[t] # 0 => tags[t] \in Rows(versions)

\* No two rows ever share a primary key, so a snapshot that carries the key of
\* the row in the table was taken from that row.
KeysInv ==
    /\ row.pk <= lastPk
    /\ row.pk = 0 => row.tags = NoTags /\ versions = NoVersions
    /\ \A r \in Requests :
          /\ req[r].pk <= lastPk
          /\ req[r].pk = 0 =>
                req[r].tags = NoTags /\ req[r].pc \in {"idle", "loaded", "create"}

\* The version numbers of the stored row are 1 .. n.
Contiguous == \A n \in Rows(versions) : \A m \in 1 .. n : m \in Rows(versions)

\* A snapshot of the stored row is stale in what it misses, never wrong in what
\* it names: version rows only grow under one primary key.
SnapshotInv(r) ==
    req[r].pk = row.pk /\ req[r].pc = "insert" =>
            /\ req[r].ver \in Numbers
            /\ \A m \in Numbers : m < req[r].ver => m \in Rows(versions)

HistoryInv == ~revived => Contiguous /\ \A r \in Requests : SnapshotInv(r)

\* Only nine actions write the database; every other one is a read, a
\* decision or the end of a request.
Writes(r) ==
    \/ InsertVersion(r) \/ InsertSecretVersion(r) \/ ReviveSecret(r)
    \/ SaveRow(r) \/ ReviveRow(r) \/ SaveTags(r) \/ CommitDelete(r) \/ RemoveRow(r) \/ InsertItem(r)

LEMMA OnlyWritesWrite ==
    ASSUME NEW r \in Requests, Step(r)
    PROVE  Writes(r) \/ UNCHANGED <<row, versions, lastPk, revived>>
  <1>1. ASSUME Load(r) \/ LoadSecret(r) \/ Refuse(r) \/ InsertFails(r) \/ SaveFails(r)
                 \/ SoftDeleteFails(r) \/ InsertItemFails(r) \/ Respond(r) \/ Crash(r)
        PROVE  UNCHANGED <<row, versions, lastPk, revived>>
    BY <1>1 DEF Load, LoadSecret, Refuse, InsertFails, SaveFails, SoftDeleteFails,
       InsertItemFails, Respond, Crash
  <1>2. ASSUME NEW to, NEW tags, NEW d, NEW v, Proceed(r, to, tags, d, v)
        PROVE  UNCHANGED <<row, versions, lastPk, revived>>
    BY <1>2 DEF Proceed
  <1>3. ASSUME NEW d, CompareUpdate(r, d) \/ CompareSecret(r, d) \/ CreateItem(r, d)
        PROVE  UNCHANGED <<row, versions, lastPk, revived>>
    BY <1>2, <1>3 DEF CompareUpdate, CompareSecret, CreateItem
  <1>4. ASSUME NEW t, NEW v, SetTag(r, t, v) \/ PromoteStable(r, v) \/ DeleteVersion(r, v)
        PROVE  UNCHANGED <<row, versions, lastPk, revived>>
    BY <1>2, <1>4 DEF SetTag, PromoteStable, DeleteVersion
  <1>5. ASSUME NEW t, DeleteTag(r, t)
        PROVE  UNCHANGED <<row, versions, lastPk, revived>>
    BY <1>2, <1>5 DEF DeleteTag
  <1>6. ASSUME NumberVersion(r) \/ SetDescription(r) \/ SoftDelete(r) \/ DeleteItem(r)
        PROVE  UNCHANGED <<row, versions, lastPk, revived>>
    BY <1>2, <1>6 DEF NumberVersion, SetDescription, SoftDelete, DeleteItem
  <1> QED
    BY <1>1, <1>3, <1>4, <1>5, <1>6, Zenon DEF Step, Writes

LEMMA KeysStep == TypeOK /\ KeysInv /\ [Next]_vars => KeysInv'
  <1> SUFFICES ASSUME TypeOK, KeysInv, [Next]_vars PROVE KeysInv'
    OBVIOUS
  <1> DEFINE Early == {"idle", "loaded", "create"}
             Keyed(pc, pk, tags) == pk = 0 => tags = NoTags /\ pc \in Early
  <1>0. /\ \A q \in Requests : req[q].pk \in Nat
        /\ row.pk \in Nat /\ lastPk \in Nat
    BY DEF TypeOK, Held
  \* what KeysInv' comes down to, for a step by one request
  <1>1. ASSUME NEW r \in Requests,
               \A q \in Requests \ {r} : req'[q] = req[q],
               lastPk <= lastPk', lastPk' \in Nat,
               row'.pk <= lastPk', req'[r].pk <= lastPk',
               row'.pk = 0 => row'.tags = NoTags /\ versions' = NoVersions,
               Keyed(req'[r].pc, req'[r].pk, req'[r].tags)
        PROVE  KeysInv'
    BY <1>0, <1>1 DEF KeysInv
  <1>2. ASSUME NEW r \in Requests, UNCHANGED <<row, versions, lastPk>>,
               \A q \in Requests \ {r} : req'[q] = req[q],
               req'[r].pk = req[r].pk, req[r].pk # 0
        PROVE  KeysInv'
    BY <1>0, <1>1, <1>2 DEF KeysInv
  \* a request past its checks holds a key
  <1>3. \A r \in Requests : req[r].pc \notin Early => req[r].pk # 0
    BY DEF KeysInv
  <1>4. ASSUME NEW r \in Requests, Finish(r), row'.pk <= lastPk', lastPk <= lastPk',
               lastPk' \in Nat,
               row'.pk = 0 => row'.tags = NoTags /\ versions' = NoVersions
        PROVE  KeysInv'
    <2>1. /\ req'[r].pk = 0 /\ req'[r].tags = NoTags /\ req'[r].pc = "idle"
          /\ \A q \in Requests \ {r} : req'[q] = req[q]
      BY <1>4 DEF Finish, Idle, TypeOK
    <2> QED
      BY <1>0, <1>1, <1>4, <2>1
  <1>5. ASSUME NEW r \in Requests, Load(r) \/ LoadSecret(r)
        PROVE  KeysInv'
    <2>1. /\ req'[r].pk = row.pk /\ req'[r].tags = row.tags
          /\ req'[r].pc = "loaded" \/ row.pk # 0
          /\ \A q \in Requests \ {r} : req'[q] = req[q]
          /\ UNCHANGED <<row, versions, lastPk>>
      <3>1. CASE Load(r)
        BY <3>1 DEF Load, Idle, TypeOK
      <3>2. CASE LoadSecret(r)
        BY <3>2 DEF LoadSecret, Idle, TypeOK
      <3> QED
        BY <1>5, <3>1, <3>2
    <2> QED
      BY <1>0, <1>1, <2>1 DEF KeysInv
  <1>6. ASSUME NEW r \in Requests,
               Refuse(r) \/ InsertFails(r) \/ SaveFails(r) \/ SoftDeleteFails(r)
                 \/ InsertItemFails(r) \/ Respond(r) \/ Crash(r)
        PROVE  KeysInv'
    <2>1. Finish(r) /\ UNCHANGED <<row, versions, lastPk>>
      BY <1>6 DEF Refuse, InsertFails, SaveFails, SoftDeleteFails, InsertItemFails,
         Respond, Crash
    <2> QED
      BY <1>0, <1>4, <2>1 DEF KeysInv
  <1>7. ASSUME NEW r \in Requests, NEW d \in Docs, CompareUpdate(r, d) \/ CompareSecret(r, d)
        PROVE  KeysInv'
    BY <1>2, <1>3, <1>7, ProceedFacts DEF CompareUpdate, CompareSecret, Checked
  <1>8. ASSUME NEW r \in Requests, NumberVersion(r)
        PROVE  KeysInv'
    BY <1>2, <1>3, <1>8, ProceedFacts DEF NumberVersion
  <1>9. ASSUME NEW r \in Requests, InsertVersion(r) \/ InsertSecretVersion(r)
        PROVE  KeysInv'
    <2>1. /\ req'[r].pk = req[r].pk
          /\ \A q \in Requests \ {r} : req'[q] = req[q]
          /\ row'.pk = row.pk /\ row.pk = req[r].pk
          /\ req[r].pc = "insert"
          /\ lastPk' = lastPk
      <3>1. CASE InsertVersion(r)
        BY <3>1 DEF InsertVersion, TypeOK, Held
      <3>2. CASE InsertSecretVersion(r)
        BY <3>2 DEF InsertSecretVersion, TypeOK, Held
      <3> QED
        BY <1>9, <3>1, <3>2
    <2> QED
      BY <1>0, <1>1, <1>3, <2>1 DEF KeysInv
  <1>10. ASSUME NEW r \in Requests, SaveRow(r) \/ ReviveRow(r) \/ ReviveSecret(r)
         PROVE  KeysInv'
    <2>1. /\ req'[r].pk = req[r].pk
          /\ \A q \in Requests \ {r} : req'[q] = req[q]
          /\ row'.pk = req[r].pk
          /\ req[r].pc \in {"save", "insert"}
          /\ lastPk' = lastPk
      <3>1. CASE SaveRow(r) \/ ReviveRow(r)
        BY <3>1 DEF SaveRow, ReviveRow, TypeOK, Held
      <3>2. CASE ReviveSecret(r)
        BY <3>2 DEF ReviveSecret, TypeOK, Held
      <3> QED
        BY <1>10, <3>1, <3>2
    <2> QED
      BY <1>0, <1>1, <1>3, <2>1 DEF KeysInv
  <1>11. ASSUME NEW r \in Requests, NEW t \in TagNames,
                DeleteTag(r, t) \/ \E v \in Numbers : SetTag(r, t, v)
         PROVE  KeysInv'
    BY <1>2, <1>11, ProceedFacts DEF DeleteTag, SetTag, Checked
  <1>12. ASSUME NEW r \in Requests, SetDescription(r) \/ DeleteItem(r)
         PROVE  KeysInv'
    BY <1>2, <1>12, ProceedFacts DEF SetDescription, DeleteItem, Checked
  <1>13. ASSUME NEW r \in Requests, NEW v \in Numbers,
                PromoteStable(r, v) \/ DeleteVersion(r, v)
         PROVE  KeysInv'
    BY <1>2, <1>13, ProceedFacts DEF PromoteStable, DeleteVersion, Checked
  <1>14. ASSUME NEW r \in Requests, SaveTags(r) \/ CommitDelete(r)
         PROVE  KeysInv'
    <2>1. /\ Finish(r)
          /\ row'.pk = row.pk
          /\ (row'.tags = row.tags /\ versions' = versions) \/ row.pk = req[r].pk
          /\ req[r].pc \notin Early
          /\ lastPk' = lastPk
      BY <1>14 DEF SaveTags, CommitDelete, TypeOK
    <2> QED
      BY <1>0, <1>3, <1>4, <2>1 DEF KeysInv
  <1>15. ASSUME NEW r \in Requests, SoftDelete(r)
         PROVE  KeysInv'
    BY <1>2, <1>3, <1>15, ProceedFacts DEF SoftDelete
  <1>16. ASSUME NEW r \in Requests, RemoveRow(r)
         PROVE  KeysInv'
    <2>1. NoRow.pk = 0 /\ NoRow.tags = NoTags
      BY DEF NoRow
    <2> QED
      BY <1>0, <1>4, <1>16, <2>1 DEF RemoveRow, KeysInv
  <1>17. ASSUME NEW r \in Requests, NEW d \in CreateDocs, CreateItem(r, d)
         PROVE  KeysInv'
    BY <1>0, <1>1, <1>17, ProceedFacts DEF CreateItem, KeysInv
  <1>18. ASSUME NEW r \in Requests, InsertItem(r)
         PROVE  KeysInv'
    <2>1. Finish(r) /\ lastPk' = lastPk + 1 /\ row'.pk = lastPk + 1
      BY <1>18 DEF InsertItem
    <2> QED
      BY <1>0, <1>4, <2>1
  <1>19. ASSUME LockPath \/ UnlockPath
         PROVE  KeysInv'
    <2>1. \A q \in Requests : \/ /\ req'[q].pk = req[q].pk
                                /\ req'[q].pc = req[q].pc
                                /\ req'[q].tags = req[q].tags
                             \/ req'[q] = Idle
      BY <1>19 DEF LockPath, UnlockPath, TypeOK, Held
    <2>2. Idle.pk = 0 /\ Idle.tags = NoTags /\ Idle.pc = "idle"
      BY DEF Idle
    <2>3. UNCHANGED <<row, versions, lastPk>>
      BY <1>19 DEF LockPath, UnlockPath
    <2> QED
      BY <1>0, <2>1, <2>2, <2>3 DEF KeysInv
  <1>20. CASE UNCHANGED vars
    BY <1>20 DEF vars, KeysInv
  <1>21. ASSUME NEW r \in Requests, Step(r)
         PROVE  KeysInv'
    BY <1>21, <1>5, <1>6, <1>7, <1>8, <1>9, <1>10, <1>11, <1>12, <1>13, <1>14, <1>15,
       <1>16, <1>17, <1>18, Zenon DEF Step
  <1> QED
    BY <1>19, <1>20, <1>21 DEF Next

\* One step never drops a version of a row that stays, and never changes its
\* content but to clear it.
LEMMA ImmutableStep ==
    TypeOK /\ KeysInv /\ [Next]_vars =>
        (row'.pk = row.pk =>
            \A n \in Rows(versions) : versions'[n] \in {versions[n], Cleared})
  <1> SUFFICES ASSUME TypeOK, KeysInv, [Next]_vars, row'.pk = row.pk,
                      NEW n \in Rows(versions)
               PROVE  versions'[n] \in {versions[n], Cleared}
    OBVIOUS
  <1>1. ASSUME NEW r \in Requests, InsertVersion(r) \/ InsertSecretVersion(r)
        PROVE  versions'[n] = versions[n]
    BY <1>1 DEF InsertVersion, InsertSecretVersion, NumberTaken, TypeOK, Rows
  <1>2. ASSUME NEW r \in Requests, SaveRow(r) \/ ReviveRow(r) \/ SaveTags(r)
        PROVE  versions' = versions
    BY <1>2 DEF SaveRow, ReviveRow, SaveTags
  <1>3. ASSUME NEW r \in Requests, CommitDelete(r)
        PROVE  versions'[n] \in {versions[n], Cleared}
    BY <1>3 DEF CommitDelete, TypeOK, Rows
  <1>4. ASSUME NEW r \in Requests, RemoveRow(r)
        PROVE  versions' = versions
    <2>1. req[r].pk # 0
      BY <1>4 DEF RemoveRow, KeysInv
    <2> QED
      BY <1>4, <2>1 DEF RemoveRow, NoRow
  <1>5. ASSUME NEW r \in Requests, InsertItem(r)
        PROVE  FALSE
    BY <1>5 DEF InsertItem, TypeOK
  <1>6. ASSUME LockPath \/ UnlockPath \/ UNCHANGED vars
        PROVE  versions' = versions
    BY <1>6 DEF LockPath, UnlockPath, vars
  <1>7. ASSUME NEW r \in Requests, ReviveSecret(r)
        PROVE  FALSE
    BY <1>7 DEF ReviveSecret, KeysInv
  <1> QED
    BY <1>1, <1>2, <1>3, <1>4, <1>5, <1>6, <1>7, OnlyWritesWrite DEF Next, Writes

\* Initially nothing is stored and nothing is held.
LEMMA KeysInit == Init => KeysInv
  <1>1. NoRow.pk = 0 /\ NoRow.tags = NoTags
    BY DEF NoRow
  <1>2. Idle.pk = 0 /\ Idle.tags = NoTags /\ Idle.pc = "idle"
    BY DEF Idle
  <1> QED
    BY <1>1, <1>2 DEF Init, KeysInv

\* A primary key identifies the row a request loaded, and a row that is gone
\* leaves nothing behind, in every reachable state.
THEOREM KeysIdentifyRows == Spec => []KeysInv
  BY KeysInit, KeysStep, TypeCorrect, PTL DEF Spec

\* Two requests that compute the same version number never overwrite each
\* other's content, whichever way their statements interleave.
THEOREM StoredVersionsAreImmutable == Spec => VersionsImmutable
  <1>1. TypeOK /\ KeysInv /\ [Next]_vars =>
          [row'.pk = row.pk =>
             \A n \in Rows(versions) : versions'[n] \in {versions[n], Cleared}]_vars
    BY ImmutableStep
  <1> QED
    BY <1>1, TypeCorrect, KeysIdentifyRows, PTL DEF Spec, VersionsImmutable

-----------------------------------------------------------------------------
(* No gaps in the version numbers, no tag on a number never stored *)

\* The row in the table changes its key only by being removed or created.
LEMMA KeyOfRowStep ==
    TypeOK /\ KeysInv /\ [Next]_vars /\ ~revived' =>
        ~revived /\ row'.pk \in {row.pk, 0, lastPk + 1}
  <1> SUFFICES ASSUME TypeOK, KeysInv, [Next]_vars, ~revived'
               PROVE  ~revived /\ row'.pk \in {row.pk, 0, lastPk + 1}
    OBVIOUS
  <1>1. ASSUME NEW r \in Requests,
               InsertVersion(r) \/ InsertSecretVersion(r) \/ SaveRow(r) \/ SaveTags(r)
                 \/ CommitDelete(r)
        PROVE  ~revived /\ row'.pk = row.pk
    BY <1>1 DEF InsertVersion, InsertSecretVersion, SaveRow, SaveTags, CommitDelete, TypeOK
  <1>2. ASSUME NEW r \in Requests, RemoveRow(r) \/ InsertItem(r)
        PROVE  ~revived /\ row'.pk \in {row.pk, 0, lastPk + 1}
    BY <1>2 DEF RemoveRow, InsertItem, NoRow
  <1>3. ASSUME NEW r \in Requests, ReviveRow(r) \/ ReviveSecret(r)
        PROVE  FALSE
    BY <1>3 DEF ReviveRow, ReviveSecret
  <1>4. ASSUME LockPath \/ UnlockPath \/ UNCHANGED vars
        PROVE  ~revived /\ row'.pk = row.pk
    BY <1>4 DEF LockPath, UnlockPath, vars
  <1> QED
    BY <1>1, <1>2, <1>3, <1>4, OnlyWritesWrite DEF Next, Writes

\* A request comes to the point of inserting only by numbering a version.
LEMMA InsertPoint ==
    ASSUME TypeOK, [Next]_vars, NEW q \in Requests, req'[q].pc = "insert"
    PROVE  /\ req'[q].pk = req[q].pk
           /\ \/ req[q].pc = "insert" /\ req'[q].ver = req[q].ver
              \/ /\ IsNextNumber(req'[q].ver, RowsOf(req[q].pk))
                 /\ req'[q].ver \in Numbers
                 /\ UNCHANGED <<row, versions>>
  <1> DEFINE Goal == /\ req'[q].pk = req[q].pk
                     /\ \/ req[q].pc = "insert" /\ req'[q].ver = req[q].ver
                        \/ /\ IsNextNumber(req'[q].ver, RowsOf(req[q].pk))
                           /\ req'[q].ver \in Numbers
                           /\ UNCHANGED <<row, versions>>
  <1>1. CASE req'[q] = req[q]
    BY <1>1
  <1>2. ASSUME NEW r \in Requests, Finish(r)
        PROVE  Goal
    <2>1. req'[r].pc = "idle" /\ \A p \in Requests \ {r} : req'[p] = req[p]
      BY <1>2 DEF Finish, Idle, TypeOK
    <2> QED
      BY <2>1, <1>1
  <1>3. ASSUME NEW r \in Requests, NEW to, NEW tags, NEW d, NEW v,
               Proceed(r, to, tags, d, v), to # "insert"
        PROVE  Goal
    <2>1. req'[r].pc # "insert" /\ \A p \in Requests \ {r} : req'[p] = req[p]
      BY <1>3, ProceedFacts
    <2> QED
      BY <2>1, <1>1
  <1> HIDE DEF Goal
  <1>4. ASSUME NEW r \in Requests, Load(r) \/ LoadSecret(r)
        PROVE  Goal
    <2>1. /\ req'[r].pc \in {"loaded", "secretLoaded"}
          /\ \A p \in Requests \ {r} : req'[p] = req[p]
      <3>1. CASE Load(r)
        BY <3>1 DEF Load, Idle, TypeOK
      <3>2. CASE LoadSecret(r)
        BY <3>2 DEF LoadSecret, Idle, TypeOK
      <3> QED
        BY <1>4, <3>1, <3>2
    <2> QED
      BY <2>1, <1>1 DEF Goal
  <1>5. ASSUME NEW r \in Requests,
               Refuse(r) \/ InsertFails(r) \/ SaveFails(r) \/ SaveTags(r)
                 \/ SoftDeleteFails(r) \/ CommitDelete(r) \/ RemoveRow(r)
                 \/ InsertItem(r) \/ InsertItemFails(r) \/ Respond(r) \/ Crash(r)
        PROVE  Goal
    BY <1>2, <1>5 DEF Refuse, InsertFails, SaveFails, SaveTags, SoftDeleteFails,
       CommitDelete, RemoveRow, InsertItem, InsertItemFails, Respond, Crash
  <1>6. ASSUME NEW r \in Requests, NEW d, CompareUpdate(r, d) \/ CompareSecret(r, d)
        PROVE  Goal
    BY <1>3, <1>6 DEF CompareUpdate, CompareSecret
  <1>7. ASSUME NEW r \in Requests, NumberVersion(r)
        PROVE  Goal
    <2>1. PICK n \in Numbers : /\ IsNextNumber(n, RowsOf(req[r].pk))
                               /\ Proceed(r, "insert", req[r].tags, req[r].doc, n)
      BY <1>7 DEF NumberVersion
    <2>2. /\ req'[r].ver = n /\ req'[r].pk = req[r].pk
          /\ \A p \in Requests \ {r} : req'[p] = req[p]
          /\ UNCHANGED <<row, versions>>
      BY <2>1, ProceedFacts
    <2> QED
      BY <2>1, <2>2, <1>1 DEF Goal
  <1>8. ASSUME NEW r \in Requests,
               InsertVersion(r) \/ InsertSecretVersion(r) \/ ReviveSecret(r)
                 \/ SaveRow(r) \/ ReviveRow(r)
        PROVE  Goal
    <2>1. /\ req'[r].pc # "insert"
          /\ \A p \in Requests \ {r} : req'[p] = req[p]
      <3>1. CASE InsertVersion(r)
        BY <3>1 DEF InsertVersion, TypeOK, Held
      <3>2. CASE InsertSecretVersion(r)
        BY <3>2 DEF InsertSecretVersion, TypeOK, Held
      <3>3. CASE SaveRow(r) \/ ReviveRow(r)
        BY <3>3 DEF SaveRow, ReviveRow, TypeOK, Held
      <3>4. CASE ReviveSecret(r)
        BY <3>4 DEF ReviveSecret, TypeOK, Held
      <3> QED
        BY <1>8, <3>1, <3>2, <3>3, <3>4
    <2> QED
      BY <2>1, <1>1 DEF Goal
  <1>9. ASSUME NEW r \in Requests, NEW t,
               DeleteTag(r, t) \/ \E v \in Numbers : SetTag(r, t, v)
        PROVE  Goal
    BY <1>3, <1>9 DEF DeleteTag, SetTag
  <1>10. ASSUME NEW r \in Requests, SetDescription(r) \/ DeleteItem(r) \/ SoftDelete(r)
         PROVE  Goal
    BY <1>3, <1>10 DEF SetDescription, DeleteItem, SoftDelete
  <1>11. ASSUME NEW r \in Requests, NEW v, PromoteStable(r, v) \/ DeleteVersion(r, v)
         PROVE  Goal
    BY <1>3, <1>11 DEF PromoteStable, DeleteVersion
  <1>12. ASSUME NEW r \in Requests, NEW d, CreateItem(r, d)
         PROVE  Goal
    BY <1>3, <1>12 DEF CreateItem
  <1>13. ASSUME LockPath \/ UnlockPath \/ UNCHANGED vars
         PROVE  Goal
    <2>1. CASE LockPath \/ UNCHANGED vars
      BY <2>1, <1>1 DEF LockPath, vars, Goal
    <2>2. CASE UnlockPath
      BY <2>2 DEF UnlockPath, Idle, TypeOK, Held, Goal
    <2> QED
      BY <1>13, <2>1, <2>2
  <1>14. ASSUME NEW r \in Requests, Step(r)
         PROVE  Goal
    BY <1>14, <1>4, <1>5, <1>6, <1>7, <1>8, <1>9, <1>10, <1>11, <1>12, Zenon DEF Step
  <1> QED
    BY <1>13, <1>14 DEF Next, Goal

\* The rows of a kept key only grow (from ImmutableStep).
LEMMA RowsGrow ==
    ASSUME TypeOK, KeysInv, [Next]_vars, row'.pk = row.pk
    PROVE  Rows(versions) \subseteq Rows(versions)'
  <1>1. \A n \in Rows(versions) : versions'[n] \in {versions[n], Cleared}
    BY ImmutableStep
  <1> QED
    BY <1>1, ConstantsAssumption DEF Rows

LEMMA SnapshotStep ==
    ASSUME TypeOK, KeysInv, [Next]_vars, ~revived',
           Contiguous, NEW q \in Requests, SnapshotInv(q)
    PROVE  SnapshotInv(q)'
  <1> SUFFICES ASSUME req'[q].pk = row'.pk, req'[q].pc = "insert"
               PROVE  /\ req'[q].ver \in Numbers
                      /\ \A m \in Numbers : m < req'[q].ver => m \in Rows(versions)'
    BY DEF SnapshotInv
  <1>1. /\ req'[q].pk = req[q].pk
        /\ \/ req[q].pc = "insert" /\ req'[q].ver = req[q].ver
           \/ /\ IsNextNumber(req'[q].ver, RowsOf(req[q].pk))
              /\ req'[q].ver \in Numbers
              /\ UNCHANGED <<row, versions>>
    BY InsertPoint
  <1>2. CASE req[q].pc = "insert" /\ req'[q].ver = req[q].ver
    <2>1. req[q].pk \in Nat /\ lastPk \in Nat /\ req[q].pk # 0 /\ req[q].pk <= lastPk
      BY <1>2 DEF TypeOK, Held, KeysInv
    <2>2. row'.pk = row.pk
      BY <1>1, <2>1, KeyOfRowStep
    <2>3. Rows(versions) \subseteq Rows(versions)'
      BY <2>2, RowsGrow
    <2> QED
      BY <1>1, <1>2, <2>2, <2>3 DEF SnapshotInv
  <1>3. CASE /\ IsNextNumber(req'[q].ver, RowsOf(req[q].pk))
             /\ req'[q].ver \in Numbers
             /\ UNCHANGED <<row, versions>>
    <2>1. RowsOf(req[q].pk) = versions /\ Rows(versions)' = Rows(versions)
      BY <1>1, <1>3 DEF RowsOf, Rows
    <2>2. PICK m \in 0 .. MaxVersion :
             IsHighest(m, Rows(versions)) /\ req'[q].ver = m + 1
      BY <1>3, <2>1 DEF IsNextNumber
    <2>3. \A k \in Numbers : k <= m => k \in Rows(versions)
      BY <2>2, ConstantsAssumption DEF IsHighest, Contiguous, Rows, Numbers
    <2> QED
      BY <1>3, <2>1, <2>2, <2>3, ConstantsAssumption DEF Numbers
  <1> QED
    BY <1>1, <1>2, <1>3

LEMMA ContiguousStep ==
    ASSUME TypeOK, KeysInv, Contiguous, \A r \in Requests : SnapshotInv(r),
           [Next]_vars, ~revived'
    PROVE  Contiguous'
  <1>1. ASSUME NEW r \in Requests, InsertVersion(r) \/ InsertSecretVersion(r)
        PROVE  Contiguous'
    <2>1. /\ row.pk = req[r].pk /\ req[r].pc = "insert"
          /\ versions' = [versions EXCEPT ![req[r].ver] = req[r].doc]
      BY <1>1 DEF InsertVersion, InsertSecretVersion
    <2>2. /\ req[r].ver \in Numbers
          /\ \A m \in Numbers : m < req[r].ver => m \in Rows(versions)
      BY <2>1 DEF SnapshotInv
    <2>3. req[r].doc # Absent
      BY ConstantsAssumption DEF TypeOK, Held
    <2>4. Rows(versions)' = Rows(versions) \cup {req[r].ver}
      BY <2>1, <2>2, <2>3 DEF Rows, TypeOK
    <2>5. \A m \in 1 .. req[r].ver : m \in Rows(versions)'
      BY <2>2, <2>4, ConstantsAssumption DEF Numbers
    <2> QED
      BY <2>4, <2>5 DEF Contiguous
  <1>2. ASSUME NEW r \in Requests, SaveRow(r) \/ SaveTags(r)
        PROVE  Contiguous'
    BY <1>2 DEF SaveRow, SaveTags, Contiguous, Rows
  <1>3. ASSUME NEW r \in Requests, CommitDelete(r)
        PROVE  Contiguous'
    <2>1. Rows(versions)' = Rows(versions)
      BY <1>3, ConstantsAssumption DEF CommitDelete, VersionKnown, Rows, TypeOK
    <2> QED
      BY <2>1 DEF Contiguous
  <1>4. ASSUME NEW r \in Requests, RemoveRow(r)
        PROVE  Contiguous'
    <2>1. Rows(NoVersions) = {}
      BY DEF Rows, NoVersions
    <2> QED
      BY <1>4, <2>1 DEF RemoveRow, Contiguous, Rows
  <1>5. ASSUME NEW r \in Requests, InsertItem(r)
        PROVE  Contiguous'
    <2>1. Rows(versions)' \subseteq {1}
      BY <1>5 DEF InsertItem, Rows, NoVersions, Numbers
    <2> QED
      BY <2>1 DEF Contiguous
  <1>6. ASSUME NEW r \in Requests, ReviveRow(r) \/ ReviveSecret(r)
        PROVE  FALSE
    BY <1>6 DEF ReviveRow, ReviveSecret
  <1>7. ASSUME versions' = versions
        PROVE  Contiguous'
    BY <1>7 DEF Contiguous, Rows
  <1>8. LockPath \/ UnlockPath \/ UNCHANGED vars => versions' = versions
    BY DEF LockPath, UnlockPath, vars
  <1> QED
    BY <1>1, <1>2, <1>3, <1>4, <1>5, <1>6, <1>7, <1>8, OnlyWritesWrite DEF Next, Writes

LEMMA HistoryStep == TypeOK /\ KeysInv /\ HistoryInv /\ [Next]_vars => HistoryInv'
  BY KeyOfRowStep, SnapshotStep, ContiguousStep DEF HistoryInv

\* Numbering, inserting, crashing and deleting in any order leave no gap in an
\* item's version numbers, unless a stale save() re-inserted a deleted row.
THEOREM VersionNumbersHaveNoGaps == Spec => []VersionsContiguous
  <1>1. Init => HistoryInv
    <2>1. Rows(NoVersions) = {}
      BY DEF Rows, NoVersions
    <2>2. Idle.pc # "insert"
      BY DEF Idle
    <2> QED
      BY <2>1, <2>2 DEF Init, HistoryInv, Contiguous, SnapshotInv
  <1>2. HistoryInv => VersionsContiguous
    BY DEF HistoryInv, Contiguous, VersionsContiguous
  <1> QED
    BY <1>1, <1>2, HistoryStep, TypeCorrect, KeysIdentifyRows, PTL DEF Spec

\* Every tag a request holds for the stored row names a stored version.
HeldTagsKnown(q) == req[q].pk = row.pk => TagsKnown(req[q].tags)

LEMMA HeldTagsStep ==
    ASSUME TypeOK, KeysInv, [Next]_vars, ~revived', TagsKnown(row.tags),
           NEW q \in Requests, HeldTagsKnown(q)
    PROVE  HeldTagsKnown(q)'
  <1> DEFINE Goal == req'[q].pk = row'.pk =>
                        \A t \in TagNames : req'[q].tags[t] # 0 =>
                            req'[q].tags[t] \in Rows(versions)'
  <1> SUFFICES Goal
    BY DEF HeldTagsKnown, TagsKnown
  \* a request that keeps what it holds: the stored rows have only grown
  <1>1. CASE req'[q].tags = req[q].tags /\ req'[q].pk = req[q].pk
    <2>1. /\ req[q].pk \in Nat /\ lastPk \in Nat /\ req[q].pk <= lastPk
          /\ req[q].pk = 0 => req[q].tags = NoTags
          /\ row'.pk \in {row.pk, 0, lastPk + 1}
      BY KeyOfRowStep DEF TypeOK, Held, KeysInv
    <2>2. ASSUME row'.pk = row.pk
          PROVE  Rows(versions) \subseteq Rows(versions)'
      BY <2>2, RowsGrow
    <2> QED
      BY <1>1, <2>1, <2>2 DEF HeldTagsKnown, TagsKnown, NoTags
  <1>2. CASE req'[q].tags = NoTags
    BY <1>2 DEF NoTags
  <1>3. CASE req'[q] = req[q]
    BY <1>1, <1>3
  <1>4. ASSUME NEW r \in Requests, Finish(r)
        PROVE  Goal
    <2>1. req'[r].tags = NoTags /\ \A p \in Requests \ {r} : req'[p] = req[p]
      BY <1>4 DEF Finish, Idle, TypeOK
    <2> QED
      BY <2>1, <1>2, <1>3
  <1>5. ASSUME NEW r \in Requests, NEW to, NEW tags, NEW d, NEW v,
               Proceed(r, to, tags, d, v),
               HeldTagsKnown(r) /\ req[r].pk = row.pk => TagsKnown(tags)
        PROVE  Goal
    <2>1. /\ req'[r].tags = tags /\ req'[r].pk = req[r].pk
          /\ \A p \in Requests \ {r} : req'[p] = req[p]
          /\ UNCHANGED <<row, versions>>
      BY <1>5, ProceedFacts
    <2> QED
      BY <2>1, <1>3, <1>5 DEF TagsKnown, Rows
  <1> HIDE DEF Goal
  <1>6. ASSUME NEW r \in Requests, Load(r) \/ LoadSecret(r)
        PROVE  Goal
    <2>1. /\ req'[r].tags = row.tags
          /\ \A p \in Requests \ {r} : req'[p] = req[p]
          /\ UNCHANGED <<row, versions>>
      <3>1. CASE Load(r)
        BY <3>1 DEF Load, Idle, TypeOK
      <3>2. CASE LoadSecret(r)
        BY <3>2 DEF LoadSecret, Idle, TypeOK
      <3> QED
        BY <1>6, <3>1, <3>2
    <2> QED
      BY <2>1, <1>3 DEF TagsKnown, Rows, Goal
  <1>7. ASSUME NEW r \in Requests,
               Refuse(r) \/ InsertFails(r) \/ SaveFails(r) \/ SaveTags(r)
                 \/ SoftDeleteFails(r) \/ CommitDelete(r) \/ RemoveRow(r)
                 \/ InsertItem(r) \/ InsertItemFails(r) \/ Respond(r) \/ Crash(r)
        PROVE  Goal
    BY <1>4, <1>7 DEF Refuse, InsertFails, SaveFails, SaveTags, SoftDeleteFails,
       CommitDelete, RemoveRow, InsertItem, InsertItemFails, Respond, Crash
  <1>8. ASSUME NEW r \in Requests, NEW to, NEW d, NEW v,
               Proceed(r, to, req[r].tags, d, v)
        PROVE  Goal
    BY <1>5, <1>8 DEF HeldTagsKnown
  <1>9. ASSUME NEW r \in Requests, NEW d,
               CompareUpdate(r, d) \/ CompareSecret(r, d) \/ CreateItem(r, d)
        PROVE  Goal
    BY <1>8, <1>9 DEF CompareUpdate, CompareSecret, CreateItem
  <1>10. ASSUME NEW r \in Requests, NumberVersion(r) \/ SetDescription(r) \/ DeleteItem(r)
         PROVE  Goal
    BY <1>8, <1>10 DEF NumberVersion, SetDescription, DeleteItem
  <1>11. ASSUME NEW r \in Requests, NEW v, DeleteVersion(r, v)
         PROVE  Goal
    BY <1>8, <1>11 DEF DeleteVersion
  <1>12. ASSUME NEW r \in Requests, NEW t \in TagNames, DeleteTag(r, t)
         PROVE  Goal
    <2>1. HeldTagsKnown(r) /\ req[r].pk = row.pk => TagsKnown([req[r].tags EXCEPT ![t] = 0])
      BY DEF HeldTagsKnown, TagsKnown, TypeOK, Held, Tags
    <2> QED
      BY <2>1, <1>5, <1>12 DEF DeleteTag
  <1>13. ASSUME NEW r \in Requests, NEW t \in TagNames, NEW v \in Numbers, SetTag(r, t, v)
         PROVE  Goal
    <2>1. HeldTagsKnown(r) /\ req[r].pk = row.pk => TagsKnown([req[r].tags EXCEPT ![t] = v])
      BY <1>13 DEF SetTag, VersionKnown, RowsOf, HeldTagsKnown, TagsKnown, TypeOK, Held, Tags
    <2> QED
      BY <2>1, <1>5, <1>13 DEF SetTag
  <1>14. ASSUME NEW r \in Requests, NEW v \in Numbers, PromoteStable(r, v)
         PROVE  Goal
    <2>1. HeldTagsKnown(r) /\ req[r].pk = row.pk
             => TagsKnown([req[r].tags EXCEPT !["stable"] = v])
      BY <1>14, ConstantsAssumption
         DEF PromoteStable, Live, Rows, RowsOf, HeldTagsKnown, TagsKnown, TypeOK, Held, Tags
    <2> QED
      BY <2>1, <1>5, <1>14 DEF PromoteStable
  <1>15. ASSUME NEW r \in Requests, SoftDelete(r)
         PROVE  Goal
    <2>1. CASE Proceed(r, "commit", req[r].tags, Cleared, req[r].ver)
      BY <2>1, <1>8
    <2>2. ASSUME NEW n, IsHighest(n, Live(RowsOf(req[r].pk)) \ {req[r].ver}),
                 Proceed(r, "commitRepoint", [req[r].tags EXCEPT !["latest"] = n],
                         Cleared, req[r].ver)
          PROVE  Goal
      <3>1. req[r].pk = row.pk => n = 0 \/ n \in Rows(versions)
        BY <2>2, ConstantsAssumption DEF IsHighest, Live, Rows, RowsOf
      <3>2. HeldTagsKnown(r) /\ req[r].pk = row.pk
               => TagsKnown([req[r].tags EXCEPT !["latest"] = n])
        BY <3>1 DEF HeldTagsKnown, TagsKnown, TypeOK, Held, Tags
      <3> QED
        BY <2>2, <3>2, <1>5
    <2> QED
      BY <1>15, <2>1, <2>2 DEF SoftDelete
  <1>16. ASSUME NEW r \in Requests, InsertVersion(r) \/ InsertSecretVersion(r)
         PROVE  Goal
    <2>1. /\ req'[r].tags = [req[r].tags EXCEPT !["latest"] = req[r].ver]
          /\ req'[r].pk = req[r].pk
          /\ row'.pk = row.pk
          /\ row.pk = req[r].pk
          /\ \A p \in Requests \ {r} : req'[p] = req[p]
          /\ versions' = [versions EXCEPT ![req[r].ver] = req[r].doc]
      <3>1. CASE InsertVersion(r)
        BY <3>1 DEF InsertVersion, TypeOK, Held
      <3>2. CASE InsertSecretVersion(r)
        BY <3>2 DEF InsertSecretVersion, TypeOK, Held
      <3> QED
        BY <1>16, <3>1, <3>2
    <2>2. req[r].ver = 0 \/ req[r].ver \in Rows(versions)'
      BY <2>1, ConstantsAssumption DEF Rows, TypeOK, Held, Numbers
    <2>3. Rows(versions) \subseteq Rows(versions)'
      BY <2>1, RowsGrow
    <2>4. CASE q = r
      BY <2>1, <2>2, <2>3, <2>4 DEF Goal, HeldTagsKnown, TagsKnown, TypeOK, Held, Tags
    <2> QED
      BY <2>1, <2>4, <1>3
  <1>17. ASSUME NEW r \in Requests, SaveRow(r) \/ ReviveRow(r)
         PROVE  Goal
    <2>1. /\ req'[r].tags = req[r].tags /\ req'[r].pk = req[r].pk
          /\ \A p \in Requests \ {r} : req'[p] = req[p]
      BY <1>17 DEF SaveRow, ReviveRow, TypeOK, Held
    <2> QED
      BY <2>1, <1>1
  <1>18. ASSUME NEW r \in Requests, ReviveSecret(r)
         PROVE  FALSE
    BY <1>18 DEF ReviveSecret
  <1>19. ASSUME LockPath \/ UnlockPath \/ UNCHANGED vars
         PROVE  Goal
    <2>1. \/ req'[q].tags = NoTags
          \/ req'[q].tags = req[q].tags /\ req'[q].pk = req[q].pk
      <3>1. CASE LockPath \/ UNCHANGED vars
        BY <3>1 DEF LockPath, vars
      <3>2. CASE UnlockPath
        <4>1. Idle.tags = NoTags
          BY DEF Idle
        <4>2. req'[q] = Idle \/ req'[q] = [req[q] EXCEPT !.open = TRUE]
          BY <3>2 DEF UnlockPath
        <4>3. CASE req'[q] = Idle
          BY <4>1, <4>3
        <4>4. CASE req'[q] = [req[q] EXCEPT !.open = TRUE]
          BY <4>4 DEF TypeOK, Held
        <4> QED
          BY <4>2, <4>3, <4>4
      <3> QED
        BY <1>19, <3>1, <3>2
    <2> QED
      BY <2>1, <1>1, <1>2
  <1>20. ASSUME NEW r \in Requests, Step(r)
         PROVE  Goal
    BY <1>20, <1>6, <1>7, <1>9, <1>10, <1>11, <1>12, <1>13, <1>14, <1>15, <1>16,
       <1>17, <1>18, Zenon DEF Step
  <1> QED
    BY <1>19, <1>20 DEF Next

\* Items are created with the content they were asked for.
CreateInv == \A r \in Requests : req[r].pc = "create" => req[r].doc \in Docs

TagInv == ~revived => TagsKnown(row.tags) /\ \A r \in Requests : HeldTagsKnown(r)

LEMMA CreateStep ==
    ASSUME CreateDocs \subseteq Docs
    PROVE  TypeOK /\ CreateInv /\ [Next]_vars => CreateInv'
  <1> SUFFICES ASSUME TypeOK, CreateInv, [Next]_vars, NEW q \in Requests,
                      req'[q].pc = "create"
               PROVE  req'[q].doc \in Docs
    BY DEF CreateInv
  <1> DEFINE Goal == req'[q].doc \in Docs
  <1>1. CASE req'[q] = req[q]
    BY <1>1 DEF CreateInv
  <1>2. ASSUME NEW r \in Requests, req'[r].pc # "create",
               \A p \in Requests \ {r} : req'[p] = req[p]
        PROVE  Goal
    BY <1>1, <1>2
  <1>3. ASSUME NEW r \in Requests, Finish(r)
        PROVE  Goal
    <2>1. req'[r].pc = "idle" /\ \A p \in Requests \ {r} : req'[p] = req[p]
      BY <1>3 DEF Finish, Idle, TypeOK
    <2> QED
      BY <2>1, <1>2
  <1>4. ASSUME NEW r \in Requests, NEW to, NEW tags, NEW d, NEW v,
               Proceed(r, to, tags, d, v), to # "create"
        PROVE  Goal
    BY <1>2, <1>4, ProceedFacts
  <1> HIDE DEF Goal
  <1>5. ASSUME NEW r \in Requests, Load(r) \/ LoadSecret(r)
        PROVE  Goal
    <2>1. /\ req'[r].pc \in {"loaded", "secretLoaded"}
          /\ \A p \in Requests \ {r} : req'[p] = req[p]
      <3>1. CASE Load(r)
        BY <3>1 DEF Load, Idle, TypeOK
      <3>2. CASE LoadSecret(r)
        BY <3>2 DEF LoadSecret, Idle, TypeOK
      <3> QED
        BY <1>5, <3>1, <3>2
    <2> QED
      BY <2>1, <1>2
  <1>6. ASSUME NEW r \in Requests,
               Refuse(r) \/ InsertFails(r) \/ SaveFails(r) \/ SaveTags(r)
                 \/ SoftDeleteFails(r) \/ CommitDelete(r) \/ RemoveRow(r)
                 \/ InsertItem(r) \/ InsertItemFails(r) \/ Respond(r) \/ Crash(r)
        PROVE  Goal
    BY <1>3, <1>6 DEF Refuse, InsertFails, SaveFails, SaveTags, SoftDeleteFails,
       CommitDelete, RemoveRow, InsertItem, InsertItemFails, Respond, Crash
  <1>7. ASSUME NEW r \in Requests, NEW d, CompareUpdate(r, d) \/ CompareSecret(r, d)
        PROVE  Goal
    BY <1>4, <1>7 DEF CompareUpdate, CompareSecret
  <1>8. ASSUME NEW r \in Requests,
               NumberVersion(r) \/ SetDescription(r) \/ DeleteItem(r) \/ SoftDelete(r)
        PROVE  Goal
    BY <1>4, <1>8 DEF NumberVersion, SetDescription, DeleteItem, SoftDelete
  <1>9. ASSUME NEW r \in Requests,
               InsertVersion(r) \/ InsertSecretVersion(r) \/ ReviveSecret(r)
                 \/ SaveRow(r) \/ ReviveRow(r)
        PROVE  Goal
    <2>1. /\ req'[r].pc # "create"
          /\ \A p \in Requests \ {r} : req'[p] = req[p]
      <3>1. CASE InsertVersion(r)
        BY <3>1 DEF InsertVersion, TypeOK, Held
      <3>2. CASE InsertSecretVersion(r)
        BY <3>2 DEF InsertSecretVersion, TypeOK, Held
      <3>3. CASE SaveRow(r) \/ ReviveRow(r)
        BY <3>3 DEF SaveRow, ReviveRow, TypeOK, Held
      <3>4. CASE ReviveSecret(r)
        BY <3>4 DEF ReviveSecret, TypeOK, Held
      <3> QED
        BY <1>9, <3>1, <3>2, <3>3, <3>4
    <2> QED
      BY <2>1, <1>2
  <1>10. ASSUME NEW r \in Requests, NEW t,
                DeleteTag(r, t) \/ \E v \in Numbers : SetTag(r, t, v)
         PROVE  Goal
    BY <1>4, <1>10 DEF DeleteTag, SetTag
  <1>11. ASSUME NEW r \in Requests, NEW v, PromoteStable(r, v) \/ DeleteVersion(r, v)
         PROVE  Goal
    BY <1>4, <1>11 DEF PromoteStable, DeleteVersion
  <1>12. ASSUME NEW r \in Requests, NEW d \in CreateDocs, CreateItem(r, d)
         PROVE  Goal
    <2>1. /\ req'[r].doc = d
          /\ \A p \in Requests \ {r} : req'[p] = req[p]
      BY <1>12, ProceedFacts DEF CreateItem
    <2> QED
      BY <2>1, <1>1 DEF Goal
  <1>13. ASSUME LockPath \/ UnlockPath \/ UNCHANGED vars
         PROVE  Goal
    <2>1. CASE LockPath \/ UNCHANGED vars
      BY <2>1, <1>1 DEF LockPath, vars, Goal
    <2>2. CASE UnlockPath
      BY <2>2 DEF UnlockPath, Idle, TypeOK, Held, Goal, CreateInv
    <2> QED
      BY <1>13, <2>1, <2>2
  <1>14. ASSUME NEW r \in Requests, Step(r)
         PROVE  Goal
    BY <1>14, <1>5, <1>6, <1>7, <1>8, <1>9, <1>10, <1>11, <1>12, Zenon DEF Step
  <1> QED
    BY <1>13, <1>14 DEF Next, Goal

LEMMA RowTagsStep ==
    ASSUME TypeOK, KeysInv, CreateInv, [Next]_vars, ~revived', TagsKnown(row.tags),
           \A r \in Requests : HeldTagsKnown(r)
    PROVE  TagsKnown(row.tags)'
  <1>1. ASSUME UNCHANGED <<row, versions>>
        PROVE  TagsKnown(row.tags)'
    BY <1>1 DEF TagsKnown, Rows
  \* the tags of a request that holds the row's key are written over it
  <1>2. ASSUME NEW r \in Requests, row.pk = req[r].pk, row'.pk = row.pk,
               row'.tags = req[r].tags \/ row'.tags = row.tags
        PROVE  TagsKnown(row.tags)'
    <2>1. Rows(versions) \subseteq Rows(versions)'
      BY <1>2, RowsGrow
    <2> QED
      BY <1>2, <2>1 DEF HeldTagsKnown, TagsKnown
  <1>3. ASSUME NEW r \in Requests, InsertSecretVersion(r)
        PROVE  TagsKnown(row.tags)'
    <2>1. /\ row'.tags = [req[r].tags EXCEPT !["latest"] = req[r].ver]
          /\ row'.pk = row.pk /\ row.pk = req[r].pk
          /\ versions' = [versions EXCEPT ![req[r].ver] = req[r].doc]
      BY <1>3 DEF InsertSecretVersion, TypeOK
    <2>2. req[r].ver = 0 \/ req[r].ver \in Rows(versions)'
      BY <2>1, ConstantsAssumption DEF Rows, TypeOK, Held, Numbers
    <2>3. Rows(versions) \subseteq Rows(versions)'
      BY <2>1, RowsGrow
    <2> QED
      BY <2>1, <2>2, <2>3 DEF HeldTagsKnown, TagsKnown, TypeOK, Held, Tags
  <1>4. ASSUME NEW r \in Requests, InsertVersion(r)
        PROVE  TagsKnown(row.tags)'
    BY <1>2, <1>4 DEF InsertVersion
  <1>5. ASSUME NEW r \in Requests, SaveRow(r) \/ SaveTags(r) \/ CommitDelete(r)
        PROVE  TagsKnown(row.tags)'
    <2>1. \/ UNCHANGED <<row, versions>>
          \/ /\ row.pk = req[r].pk /\ row'.pk = row.pk
             /\ row'.tags = req[r].tags \/ row'.tags = row.tags
      BY <1>5 DEF SaveRow, SaveTags, CommitDelete, TypeOK
    <2> QED
      BY <2>1, <1>1, <1>2
  <1>6. ASSUME NEW r \in Requests, RemoveRow(r)
        PROVE  TagsKnown(row.tags)'
    <2>1. NoRow.tags = NoTags
      BY DEF NoRow
    <2> QED
      BY <1>1, <1>6, <2>1 DEF RemoveRow, TagsKnown, NoTags
  <1>7. ASSUME NEW r \in Requests, InsertItem(r)
        PROVE  TagsKnown(row.tags)'
    <2>1. /\ req[r].doc \in Docs
          /\ row'.tags = [NoTags EXCEPT !["latest"] = 1]
          /\ versions' = [NoVersions EXCEPT ![1] = req[r].doc]
      BY <1>7, ConstantsAssumption DEF InsertItem, CreateInv
    <2>2. 1 \in Rows(versions)'
      BY <2>1, ConstantsAssumption DEF Rows, NoVersions, Numbers
    <2> QED
      BY <2>1, <2>2 DEF TagsKnown, NoTags
  <1>8. ASSUME NEW r \in Requests, ReviveRow(r) \/ ReviveSecret(r)
        PROVE  FALSE
    BY <1>8 DEF ReviveRow, ReviveSecret
  <1>9. LockPath \/ UnlockPath \/ UNCHANGED vars => UNCHANGED <<row, versions>>
    BY DEF LockPath, UnlockPath, vars
  <1> QED
    BY <1>1, <1>3, <1>4, <1>5, <1>6, <1>7, <1>8, <1>9, OnlyWritesWrite DEF Next, Writes

LEMMA TagStep ==
    TypeOK /\ KeysInv /\ CreateInv /\ TagInv /\ [Next]_vars => TagInv'
  BY KeyOfRowStep, RowTagsStep, HeldTagsStep DEF TagInv

\* When no item is created from the empty content of a deleted version, a tag
\* always names a version that was stored, however stale the snapshot that
\* wrote it, unless a stale save() re-inserted a deleted row.
THEOREM TagsNameStoredVersions ==
    ASSUME CreateDocs \subseteq Docs
    PROVE  Spec => []TagTargetsExist
  <1>1. Init => CreateInv /\ TagInv
    <2>1. NoRow.tags = NoTags /\ Idle.tags = NoTags /\ Idle.pc = "idle"
      BY DEF NoRow, Idle
    <2> QED
      BY <2>1 DEF Init, CreateInv, TagInv, HeldTagsKnown, TagsKnown, NoTags
  <1>2. TagInv => TagTargetsExist
    BY DEF TagInv, TagsKnown, TagTargetsExist
  <1>3. TypeOK /\ CreateInv /\ [Next]_vars => CreateInv'
    BY CreateStep
  <1> QED
    BY <1>1, <1>2, <1>3, TagStep, TypeCorrect, KeysIdentifyRows, PTL DEF Spec

-----------------------------------------------------------------------------
(* One caller, no crash: the calls are the atomic steps of VersionStore     *)

\* The version rows without the one that an update has yet to publish.
Hidden(h) == [n \in Numbers |-> IF h.pc = "save" /\ n = h.ver THEN Absent ELSE versions[n]]

\* An update that has inserted its version, one that found nothing new, and
\* the calls that change one tag or none.
Publishing(h) ==
    /\ h.ver \in Numbers /\ h.doc \in Docs /\ versions[h.ver] = h.doc
    /\ h.tags = [row.tags EXCEPT !["latest"] = h.ver]
    /\ IsNextNumber(h.ver, Hidden(h)) /\ ~SameAsLast(Hidden(h), h.doc)

Unchanged(h) ==
    /\ h.ver = 0 /\ h.tags = row.tags
    /\ h.doc # Cleared => SameAsLast(versions, h.doc)

Retagging(h) ==
    /\ h.ver = 0 /\ h.doc = Cleared
    /\ \E t \in TagNames \ {"latest"}, v \in Rows(versions) \cup {0} :
          h.tags = [row.tags EXCEPT ![t] = v]

\* What a call that runs alone knows of the row it works on.
Running(h) ==
    /\ h.pc # "idle" => h.pk = row.pk
    /\ h.pc \in {"loaded", "secretLoaded", "number", "insert", "softDelete", "commit"} =>
          h.tags = row.tags
    /\ h.pc \in (Writing \ {"create"}) \cup {"secretLoaded"} => h.pk # 0
    /\ h.pc = "create" => h.pk = 0 /\ h.doc \in Docs
    /\ h.pc \in {"number", "insert"} => h.doc \in Docs /\ ~SameAsLast(versions, h.doc)
    /\ h.pc = "insert" => h.ver \in Numbers /\ IsNextNumber(h.ver, versions)
    /\ h.pc = "save" => Publishing(h) \/ Unchanged(h) \/ Retagging(h)
    /\ h.pc = "saveTags" => h.tags = [row.tags EXCEPT !["stable"] = h.ver]
    /\ h.pc \in {"saveTags", "softDelete", "commit", "commitRepoint"} => h.ver \in Live(versions)
    /\ h.pc = "commit" => row.tags["latest"] # h.ver
    /\ h.pc = "commitRepoint" =>
          \E n \in 0 .. MaxVersion : /\ IsHighest(n, Live(versions) \ {h.ver})
                                     /\ h.tags = [row.tags EXCEPT !["latest"] = n]
    /\ h.pc = "acked" /\ h.doc # Cleared =>
          \E n \in Live(versions) : row.tags["latest"] = n /\ versions[n] = h.doc

AloneInv ==
    /\ ~revived
    /\ \A r \in Requests : Running(req[r])
    /\ IsHighest(row.tags["latest"], Live(Published))

StoreStep == [Store!Next]_(Store!storeVars)

LEMMA PublishedIsHidden ==
    ASSUME NEW caller, Requests = {caller}
    PROVE  Published = Hidden(req[caller])
  BY DEF Published, Hidden

\* Every step of the store keeps its promise about latest.
LEMMA LatestStep ==
    ASSUME StoreStep, IsHighest(row.tags["latest"], Live(Published))
    PROVE  IsHighest(row.tags["latest"], Live(Published))'
  <1>1. CASE UNCHANGED Store!storeVars
    BY <1>1 DEF Store!storeVars, IsHighest, Live
  <1>2. CASE row'.tags["latest"] = row.tags["latest"] /\ Published' = Published
    BY <1>2 DEF IsHighest, Live
  <1>3. CASE Store!Greatest(row'.tags["latest"], Store!Alive(Published'))
    BY <1>3 DEF Store!Greatest, Store!Alive, Store!Numbers, IsHighest, Live, Numbers
  <1>4. Store!Next => \/ row'.tags["latest"] = row.tags["latest"] /\ Published' = Published
                      \/ Store!Greatest(row'.tags["latest"], Store!Alive(Published'))
    BY DEF Store!Next, Store!Create, Store!Publish, Store!Pin, Store!Unpin, Store!Clear, Store!Remove,
       Store!SetHistory
  <1> QED
    BY <1>1, <1>2, <1>3, <1>4 DEF StoreStep

\* A step that writes no row and hides no version is none of the store.
LEMMA QuietStep ==
    ASSUME NEW caller, Requests = {caller}, UNCHANGED <<row, versions>>,
           req[caller].pc = "save" => req[caller].ver = 0,
           req'[caller].pc = "save" => req'[caller].ver = 0
    PROVE  StoreStep
  <1>1. Published' = Published
    BY DEF Published, Numbers
  <1> QED
    BY <1>1 DEF StoreStep, Store!storeVars

\* The point at which a call stands is one of its own or none.
LEMMA ProceedAlone ==
    ASSUME TypeOK, NEW caller, Requests = {caller}, NEW to, NEW tags, NEW d, NEW v,
           Proceed(caller, to, tags, d, v), req[caller].pc # "save", to = "save" => v = 0
    PROVE  StoreStep
  <1>1. /\ UNCHANGED <<row, versions>> /\ req'[caller].pc = to /\ req'[caller].ver = v
    BY ProceedFacts
  <1> QED
    BY <1>1, QuietStep

\* What the latest version of unchanged content is.
LEMMA LastIsLatest ==
    ASSUME TypeOK, NEW d \in Docs, SameAsLast(versions, d),
           IsHighest(row.tags["latest"], Live(versions))
    PROVE  \E n \in Live(versions) : row.tags["latest"] = n /\ versions[n] = d
  <1>1. PICK n \in Rows(versions) : IsHighest(n, Rows(versions)) /\ versions[n] = d
    BY DEF SameAsLast
  <1>2. n \in Live(versions) /\ n \in Nat
    BY <1>1 DEF Rows, Live, Numbers
  <1>3. \A m \in Live(versions) : m <= n /\ m \in Nat
    BY <1>1, ConstantsAssumption DEF IsHighest, Rows, Live, Numbers
  <1>4. row.tags["latest"] = n
    BY <1>2, <1>3 DEF IsHighest
  <1> QED
    BY <1>1, <1>2, <1>4

LEMMA BeginAlone ==
    ASSUME TypeOK, AloneInv, NEW caller, Requests = {caller}, Load(caller) \/ LoadSecret(caller)
    PROVE  StoreStep /\ Running(req[caller])'
  <1>1. /\ UNCHANGED <<row, versions>> /\ req[caller].pc = "idle"
        /\ req'[caller].pk = row.pk /\ req'[caller].tags = row.tags
        /\ req'[caller].pc \in {"loaded", "secretLoaded"}
        /\ req'[caller].pc = "secretLoaded" => row.pk # 0
    <2>1. CASE Load(caller)
      BY <2>1 DEF Load, TypeOK, Idle
    <2>2. CASE LoadSecret(caller)
      BY <2>2 DEF LoadSecret, TypeOK, Idle
    <2> QED
      BY <2>1, <2>2
  <1> QED
    BY <1>1, QuietStep DEF Running, Writing, PC

LEMMA EndAlone ==
    ASSUME TypeOK, AloneInv, NEW caller, Requests = {caller}, Finish(caller),
           UNCHANGED <<row, versions>>, req[caller].pc # "save"
    PROVE  StoreStep /\ Running(req[caller])'
  <1>1. req'[caller].pc = "idle"
    BY DEF Finish, TypeOK, Idle
  <1> QED
    BY <1>1, QuietStep DEF Running, Writing, PC

LEMMA DecideAlone ==
    ASSUME TypeOK, AloneInv, CreateDocs \subseteq Docs, NEW caller, Requests = {caller},
           \/ \E d \in Docs : CompareUpdate(caller, d) \/ CompareSecret(caller, d)
           \/ NumberVersion(caller)
           \/ \E t \in TagNames, v \in Numbers : SetTag(caller, t, v)
           \/ \E t \in TagNames : DeleteTag(caller, t)
           \/ SetDescription(caller)
           \/ \E v \in Numbers : PromoteStable(caller, v)
           \/ \E v \in Numbers : DeleteVersion(caller, v)
           \/ SoftDelete(caller) \/ DeleteItem(caller)
           \/ \E d \in CreateDocs : CreateItem(caller, d)
    PROVE  StoreStep /\ Running(req[caller])'
  <1> DEFINE held == req[caller]
  <1>1. /\ Running(held) /\ held \in Held
        /\ held.pc # "save" => Published = versions
    <2>1. held.pc # "save" => \A n \in Numbers : Published[n] = versions[n]
      BY PublishedIsHidden DEF Hidden
    <2>2. held.pc # "save" => Published = versions
      BY <2>1 DEF Published, TypeOK
    <2> QED
      BY <2>2 DEF AloneInv, TypeOK
  <1>2. RowsOf(row.pk) = versions /\ 0 \notin Numbers
    BY ConstantsAssumption DEF RowsOf, Numbers
  <1>3. ASSUME NEW d \in Docs, CompareUpdate(caller, d) \/ CompareSecret(caller, d)
        PROVE  StoreStep /\ Running(req[caller])'
    <2>1. held.pc \in {"loaded", "secretLoaded"} /\ held.pk = row.pk /\ held.tags = row.tags /\ held.pk # 0
      BY <1>1, <1>3 DEF CompareUpdate, CompareSecret, Checked, Running
    <2>2. \/ SameAsLast(versions, d) /\ \E to \in {"save", "acked"} : Proceed(caller, to, held.tags, d, 0)
          \/ ~SameAsLast(versions, d) /\ Proceed(caller, "number", held.tags, d, 0)
      BY <1>2, <1>3, <2>1 DEF CompareUpdate, CompareSecret
    <2>3. ASSUME NEW to \in {"save", "acked", "number"}, Proceed(caller, to, held.tags, d, 0),
                 SameAsLast(versions, d) <=> to # "number"
          PROVE  StoreStep /\ Running(req[caller])'
      <3>1. /\ req'[caller].pc = to /\ req'[caller].pk = row.pk /\ req'[caller].tags = row.tags
            /\ req'[caller].doc = d /\ req'[caller].ver = 0 /\ UNCHANGED <<row, versions>>
        BY <2>1, <2>3, ProceedFacts
      <3>2. StoreStep
        BY <2>1, <2>3, ProceedAlone
      <3>3. to = "acked" => \E n \in Live(versions) : row.tags["latest"] = n /\ versions[n] = d
        BY <1>1, <2>1, <2>3, LastIsLatest DEF AloneInv
      <3>4. to = "save" => Unchanged(req[caller])'
        BY <2>3, <3>1 DEF Unchanged, SameAsLast, IsHighest, Rows
      <3>5. to = "number" => ~SameAsLast(versions, d)' /\ d \in Docs
        BY <2>3, <3>1 DEF SameAsLast, IsHighest, Rows
      <3>6. Running(req[caller])'
        BY <2>1, <2>3, <3>1, <3>3, <3>4, <3>5 DEF Running, Writing, PC, Live
      <3> QED
        BY <3>2, <3>6
    <2> QED
      BY <2>2, <2>3
  <1>4. CASE NumberVersion(caller)
    <2>1. PICK n \in Numbers : IsNextNumber(n, versions) /\ Proceed(caller, "insert", held.tags, held.doc, n)
      BY <1>1, <1>2, <1>4 DEF NumberVersion, Running
    <2>2. /\ req'[caller].pc = "insert" /\ req'[caller].pk = held.pk /\ req'[caller].tags = held.tags
          /\ req'[caller].doc = held.doc /\ req'[caller].ver = n /\ UNCHANGED <<row, versions>>
      BY <2>1, ProceedFacts
    <2>3. held.pc = "number" /\ StoreStep
      BY <1>4, <2>1, ProceedAlone DEF NumberVersion
    <2>4. Running(req[caller])'
      BY <1>1, <2>1, <2>2, <2>3 DEF Running, Writing, PC
    <2> QED
      BY <2>3, <2>4
  <1>5. ASSUME Checked(caller)
        PROVE  held.pc = "loaded" /\ held.pk = row.pk /\ held.pk # 0 /\ held.tags = row.tags
    BY <1>1, <1>5 DEF Checked, Running
  <1>6. ASSUME NEW t \in TagNames, DeleteTag(caller, t) \/ \E v \in Numbers : SetTag(caller, t, v)
        PROVE  StoreStep /\ Running(req[caller])'
    <2>1. PICK v \in Rows(versions) \cup {0} : Proceed(caller, "save", [held.tags EXCEPT ![t] = v], Cleared, 0)
      BY <1>2, <1>5, <1>6 DEF DeleteTag, SetTag, VersionKnown
    <2>2. t # "latest" /\ Checked(caller)
      BY <1>6 DEF DeleteTag, SetTag, ReservedTags
    <2>3. /\ req'[caller].pc = "save" /\ req'[caller].pk = held.pk /\ req'[caller].doc = Cleared
          /\ req'[caller].tags = [row.tags EXCEPT ![t] = v]
          /\ req'[caller].ver = 0 /\ UNCHANGED <<row, versions>>
      BY <1>5, <2>1, <2>2, ProceedFacts
    <2>4. StoreStep
      BY <1>5, <2>1, <2>2, ProceedAlone
    <2>5. Retagging(req[caller])'
      BY <2>2, <2>3 DEF Retagging, Rows
    <2>6. Running(req[caller])'
      BY <1>5, <2>2, <2>3, <2>5 DEF Running, Writing, PC
    <2> QED
      BY <2>4, <2>6
  <1>7. CASE SetDescription(caller)
    <2>1. Checked(caller) /\ Proceed(caller, "save", held.tags, Cleared, 0)
      BY <1>7 DEF SetDescription
    <2>2. /\ req'[caller].pc = "save" /\ req'[caller].pk = held.pk /\ req'[caller].doc = Cleared
          /\ req'[caller].tags = row.tags /\ req'[caller].ver = 0 /\ UNCHANGED <<row, versions>>
      BY <1>5, <2>1, ProceedFacts
    <2>3. StoreStep
      BY <1>5, <2>1, ProceedAlone
    <2>4. Unchanged(req[caller])'
      BY <2>2 DEF Unchanged
    <2>5. Running(req[caller])'
      BY <1>5, <2>1, <2>2, <2>4 DEF Running, Writing, PC
    <2> QED
      BY <2>3, <2>5
  <1>8. ASSUME NEW v \in Numbers, PromoteStable(caller, v)
        PROVE  StoreStep /\ Running(req[caller])'
    <2>1. /\ Checked(caller) /\ v \in Live(RowsOf(held.pk))
          /\ Proceed(caller, "saveTags", [held.tags EXCEPT !["stable"] = v], Cleared, v)
      BY <1>8 DEF PromoteStable
    <2>2. /\ req'[caller].pc = "saveTags" /\ req'[caller].pk = held.pk
          /\ req'[caller].tags = [row.tags EXCEPT !["stable"] = v]
          /\ req'[caller].ver = v /\ UNCHANGED <<row, versions>>
      BY <1>5, <2>1, ProceedFacts
    <2>3. v \in Live(versions)
      BY <1>2, <1>5, <2>1
    <2>4. StoreStep
      BY <1>5, <2>1, ProceedAlone
    <2>5. Running(req[caller])'
      BY <1>5, <2>1, <2>2, <2>3 DEF Running, Writing, PC, Live
    <2> QED
      BY <2>4, <2>5
  <1>9. ASSUME NEW v \in Numbers, DeleteVersion(caller, v)
        PROVE  StoreStep /\ Running(req[caller])'
    <2>1. /\ Checked(caller) /\ v \in Live(RowsOf(held.pk))
          /\ Proceed(caller, "softDelete", held.tags, Cleared, v)
      BY <1>9 DEF DeleteVersion
    <2>2. /\ req'[caller].pc = "softDelete" /\ req'[caller].pk = held.pk /\ req'[caller].tags = row.tags
          /\ req'[caller].ver = v /\ UNCHANGED <<row, versions>>
      BY <1>5, <2>1, ProceedFacts
    <2>3. v \in Live(versions)
      BY <1>2, <1>5, <2>1
    <2>4. StoreStep
      BY <1>5, <2>1, ProceedAlone
    <2>5. Running(req[caller])'
      BY <1>5, <2>1, <2>2, <2>3 DEF Running, Writing, PC, Live
    <2> QED
      BY <2>4, <2>5
  <1>10. CASE SoftDelete(caller)
    <2>1. /\ held.pc = "softDelete" /\ held.pk = row.pk /\ held.pk # 0 /\ held.tags = row.tags
          /\ held.ver \in Live(versions)
      BY <1>1, <1>10 DEF SoftDelete, Running, Writing, PC
    <2>2. \/ /\ held.tags["latest"] = held.ver
             /\ \E n \in 0 .. MaxVersion :
                   /\ IsHighest(n, Live(versions) \ {held.ver})
                   /\ Proceed(caller, "commitRepoint", [held.tags EXCEPT !["latest"] = n], Cleared, held.ver)
          \/ held.tags["latest"] # held.ver /\ Proceed(caller, "commit", held.tags, Cleared, held.ver)
      BY <1>2, <1>10, <2>1 DEF SoftDelete
    <2>3. ASSUME NEW n \in 0 .. MaxVersion, IsHighest(n, Live(versions) \ {held.ver}),
                 Proceed(caller, "commitRepoint", [held.tags EXCEPT !["latest"] = n], Cleared, held.ver)
          PROVE  StoreStep /\ Running(req[caller])'
      <3>1. /\ req'[caller].pc = "commitRepoint" /\ req'[caller].pk = held.pk /\ req'[caller].ver = held.ver
            /\ req'[caller].tags = [row.tags EXCEPT !["latest"] = n] /\ UNCHANGED <<row, versions>>
        BY <2>1, <2>3, ProceedFacts
      <3>2. StoreStep
        BY <2>1, <2>3, ProceedAlone
      <3>3. IsHighest(n, Live(versions) \ {held.ver})' /\ held.ver' = held.ver
        BY <2>3, <3>1 DEF IsHighest, Live
      <3>4. Running(req[caller])'
        BY <2>1, <3>1, <3>3 DEF Running, Writing, PC, Live
      <3> QED
        BY <3>2, <3>4
    <2>4. ASSUME held.tags["latest"] # held.ver, Proceed(caller, "commit", held.tags, Cleared, held.ver)
          PROVE  StoreStep /\ Running(req[caller])'
      <3>1. /\ req'[caller].pc = "commit" /\ req'[caller].pk = held.pk /\ req'[caller].ver = held.ver
            /\ req'[caller].tags = row.tags /\ UNCHANGED <<row, versions>>
        BY <2>1, <2>4, ProceedFacts
      <3>2. StoreStep
        BY <2>1, <2>4, ProceedAlone
      <3>3. Running(req[caller])'
        BY <2>1, <2>4, <3>1 DEF Running, Writing, PC, Live
      <3> QED
        BY <3>2, <3>3
    <2> QED
      BY <2>2, <2>3, <2>4
  <1>11. CASE DeleteItem(caller)
    <2>1. Checked(caller) /\ Proceed(caller, "remove", held.tags, Cleared, 0)
      BY <1>11 DEF DeleteItem
    <2>2. req'[caller].pc = "remove" /\ req'[caller].pk = held.pk /\ UNCHANGED <<row, versions>>
      BY <2>1, ProceedFacts
    <2>3. StoreStep /\ Running(req[caller])'
      BY <1>5, <2>1, <2>2, ProceedAlone DEF Running, Writing, PC
    <2> QED
      BY <2>3
  <1>12. ASSUME NEW d \in CreateDocs, CreateItem(caller, d)
         PROVE  StoreStep /\ Running(req[caller])'
    <2>1. /\ held.pc = "loaded" /\ held.pk = 0 /\ row.pk = 0 /\ Proceed(caller, "create", held.tags, d, 0)
      BY <1>12 DEF CreateItem
    <2>2. /\ req'[caller].pc = "create" /\ req'[caller].pk = held.pk /\ req'[caller].doc = d
          /\ UNCHANGED <<row, versions>>
      BY <2>1, ProceedFacts
    <2>3. StoreStep /\ Running(req[caller])'
      BY <2>1, <2>2, ProceedAlone DEF Running, Writing, PC
    <2> QED
      BY <2>3
  <1> QED
    BY <1>3, <1>4, <1>6, <1>7, <1>8, <1>9, <1>10, <1>11, <1>12

\* A version with the next number becomes visible together with latest.
LEMMA PublishStep ==
    ASSUME TypeOK, NEW d \in Docs, NEW n \in Numbers, row.pk # 0, row'.pk = row.pk,
           IsNextNumber(n, Published), ~SameAsLast(Published, d),
           Published' = [Published EXCEPT ![n] = d],
           row'.tags = [row.tags EXCEPT !["latest"] = n]
    PROVE  Store!Publish(d)
  <1>1. Published \in [Numbers -> Docs \cup {Absent, Cleared}] /\ row.tags \in Tags
    BY DEF Published, TypeOK
  <1>2. PICK m \in 0 .. MaxVersion : IsHighest(m, Rows(Published)) /\ n = m + 1
    BY DEF IsNextNumber
  <1>3. Store!Greatest(m, Store!Used(Published)) /\ (m > 0 => Published[m] # d) /\ n \in Store!Numbers
    <2>1. Store!Used(Published) = Rows(Published)
      BY DEF Store!Used, Store!Numbers, Rows, Numbers
    <2>2. m > 0 => Published[m] # d
      BY <1>2 DEF SameAsLast, IsHighest
    <2> QED
      BY <1>2, <2>1, <2>2 DEF Store!Greatest, IsHighest, Numbers, Store!Numbers
  <1>4. Store!Greatest(row'.tags["latest"], Store!Alive([Published EXCEPT ![n] = d]))
    <2>1. row'.tags["latest"] = n
      BY <1>1 DEF Tags, TagNames
    <2>2. n \in Store!Alive([Published EXCEPT ![n] = d])
      BY <1>1 DEF Store!Alive, Store!Numbers, Numbers
    <2>3. \A k \in Store!Alive([Published EXCEPT ![n] = d]) : k = n \/ k \in Rows(Published)
      BY <1>1, ConstantsAssumption DEF Store!Alive, Store!Numbers, Numbers, Rows
    <2>4. \A k \in Rows(Published) : k <= n
      BY <1>2, ConstantsAssumption DEF IsHighest, Rows, Numbers
    <2>5. \A k \in Store!Alive([Published EXCEPT ![n] = d]) : k <= n
      BY <2>3, <2>4 DEF Numbers
    <2> QED
      BY <2>1, <2>2, <2>5 DEF Store!Greatest
  <1>5. \A t \in TagNames \ {"latest"} : row'.tags[t] = row.tags[t]
    BY <1>1 DEF Tags
  <1>6. Store!SetHistory([Published EXCEPT ![n] = d])
    BY <1>4 DEF Store!SetHistory
  <1> QED
    BY <1>2, <1>3, <1>5, <1>6 DEF Store!Publish

\* One tag other than latest moves to a stored version, or goes.
LEMMA PinStep ==
    ASSUME TypeOK, NEW t \in TagNames \ {"latest"}, NEW v \in Rows(Published) \cup {0},
           row.pk # 0, row'.pk = row.pk, Published' = Published,
           row'.tags = [row.tags EXCEPT ![t] = v]
    PROVE  StoreStep
  <1>1. /\ row'.tags["latest"] = row.tags["latest"]
        /\ [s \in TagNames \ {"latest"} |-> row'.tags[s]]
              = [[s \in TagNames \ {"latest"} |-> row.tags[s]] EXCEPT ![t] = v]
    <2>1. row.tags \in [TagNames -> 0 .. MaxVersion] /\ "latest" \in TagNames
      BY DEF TypeOK, Tags, TagNames
    <2>2. \A s \in TagNames : row'.tags[s] = IF s = t THEN v ELSE row.tags[s]
      BY <2>1
    <2>3. t \in TagNames /\ t # "latest"
      OBVIOUS
    <2> QED
      BY <2>1, <2>2, <2>3
  <1>2. CASE v = 0
    <2>1. Store!Unpin(t)
      BY <1>1, <1>2 DEF Store!Unpin
    <2> QED
      BY <2>1 DEF StoreStep, Store!Next
  <1>3. CASE v \in Rows(Published)
    <2>1. v \in Numbers /\ v \in Store!Used(Published)
      BY <1>3 DEF Rows, Store!Used, Store!Numbers, Numbers
    <2>2. Store!Pin(t, v)
      BY <1>1, <2>1 DEF Store!Pin
    <2>3. \E w \in Store!Numbers : Store!Pin(t, w)
      BY <2>1, <2>2 DEF Store!Numbers, Numbers
    <2> QED
      BY <2>3 DEF StoreStep, Store!Next
  <1> QED
    BY <1>2, <1>3

\* An update inserts its version hidden; a secret's update publishes it.
LEMMA InsertAlone ==
    ASSUME TypeOK, AloneInv, NEW caller, Requests = {caller},
           InsertVersion(caller) \/ InsertSecretVersion(caller)
    PROVE  StoreStep /\ Running(req[caller])'
  <1> DEFINE held == req[caller]
             n == held.ver
  <1>1. /\ held.pc = "insert" /\ held.pk = row.pk /\ held.pk # 0 /\ held.tags = row.tags
        /\ held.doc \in Docs /\ n \in Numbers /\ IsNextNumber(n, versions)
        /\ ~SameAsLast(versions, held.doc)
        /\ versions[n] = Absent /\ versions' = [versions EXCEPT ![n] = held.doc]
        /\ held \in Held
    BY DEF InsertVersion, InsertSecretVersion, NumberTaken, Rows, AloneInv, Running, Writing, PC, TypeOK
  <1>2. Published = versions
    <2>1. \A m \in Numbers : Published[m] = versions[m]
      BY <1>1, PublishedIsHidden DEF Hidden
    <2> QED
      BY <2>1 DEF Published, TypeOK
  <1>3. CASE InsertVersion(caller)
    <2>1. /\ row' = row /\ req'[caller].pc = "save" /\ req'[caller].pk = held.pk
          /\ req'[caller].ver = n /\ req'[caller].doc = held.doc
          /\ req'[caller].tags = [row.tags EXCEPT !["latest"] = n]
      BY <1>1, <1>3 DEF InsertVersion, TypeOK, Held, Tags, TagNames
    <2>2. Published' = versions /\ Hidden(req[caller])' = versions
      <3>1. \A m \in Numbers : Published'[m] = versions[m] /\ Hidden(req[caller])'[m] = versions[m]
        BY <1>1, <2>1 DEF Published, Hidden, TypeOK
      <3> QED
        BY <3>1 DEF Published, Hidden, TypeOK
    <2>3. StoreStep
      BY <1>2, <2>1, <2>2 DEF StoreStep, Store!storeVars
    <2>4. Publishing(req[caller])'
      <3>1. versions'[n] = held.doc
        BY <1>1 DEF TypeOK
      <3>2. IsNextNumber(n, Hidden(req[caller])') /\ ~SameAsLast(Hidden(req[caller])', held.doc)
        BY <1>1, <2>2
      <3> QED
        BY <1>1, <2>1, <3>1, <3>2 DEF Publishing
    <2>5. Running(req[caller])'
      BY <1>1, <2>1, <2>4 DEF Running, Writing, PC
    <2> QED
      BY <2>3, <2>5
  <1>4. CASE InsertSecretVersion(caller)
    <2>1. /\ row'.pk = row.pk /\ row'.tags = [row.tags EXCEPT !["latest"] = n]
          /\ req'[caller].pc = "acked" /\ req'[caller].pk = held.pk /\ req'[caller].doc = held.doc
      BY <1>1, <1>4 DEF InsertSecretVersion, TypeOK, Held
    <2>2. row'.tags["latest"] = n /\ n \in Live(versions)' /\ versions'[n] = held.doc
      BY <1>1, <2>1 DEF TypeOK, Tags, TagNames, Live
    <2>3. Running(req[caller])'
      BY <1>1, <2>1, <2>2 DEF Running, Writing, PC
    <2>4. Published' = versions'
      <3>1. \A m \in Numbers : Published'[m] = versions'[m]
        BY <2>1 DEF Published
      <3> QED
        BY <1>1, <3>1 DEF Published, TypeOK
    <2>5. Store!Publish(held.doc)
      BY <1>1, <1>2, <2>1, <2>4, PublishStep
    <2>6. StoreStep
      BY <1>1, <2>5 DEF StoreStep, Store!Next
    <2> QED
      BY <2>3, <2>6
  <1> QED
    BY <1>3, <1>4

LEMMA SaveAlone ==
    ASSUME TypeOK, AloneInv, NEW caller, Requests = {caller}, SaveRow(caller)
    PROVE  StoreStep /\ Running(req[caller])'
  <1> DEFINE held == req[caller]
  <1>1. /\ held.pc = "save" /\ held.pk = row.pk /\ held.pk # 0 /\ held \in Held
        /\ row'.pk = row.pk /\ row'.tags = held.tags /\ versions' = versions
        /\ req'[caller].pc = "acked" /\ req'[caller].pk = held.pk /\ req'[caller].doc = held.doc
        /\ Publishing(held) \/ Unchanged(held) \/ Retagging(held)
        /\ held.tags = row.tags => row' = row
    BY DEF SaveRow, TypeOK, Held, AloneInv, Running, Writing, PC
  <1>2. Published' = versions
    <2>1. \A m \in Numbers : Published'[m] = versions[m]
      BY <1>1 DEF Published
    <2> QED
      BY <2>1 DEF Published, TypeOK
  <1>3. Published = Hidden(held) /\ (held.ver = 0 => Published = versions)
    <2>1. 0 \notin Numbers
      BY ConstantsAssumption DEF Numbers
    <2>2. held.ver = 0 => \A m \in Numbers : Published[m] = versions[m]
      BY <2>1, PublishedIsHidden DEF Hidden
    <2>3. held.ver = 0 => Published = versions
      BY <2>2 DEF Published, TypeOK
    <2> QED
      BY <2>3, PublishedIsHidden
  <1>4. CASE Publishing(held)
    <2>1. Published' = [Published EXCEPT ![held.ver] = held.doc]
      <3>1. \A m \in Numbers : Published'[m] = [Published EXCEPT ![held.ver] = held.doc][m]
        BY <1>1, <1>2, <1>3, <1>4 DEF Publishing, Hidden
      <3> QED
        BY <1>3, <3>1 DEF Published
    <2>2. Store!Publish(held.doc)
      BY <1>1, <1>3, <1>4, <2>1, PublishStep DEF Publishing
    <2>3. StoreStep
      BY <1>4, <2>2 DEF StoreStep, Store!Next, Publishing
    <2>4. held.ver \in Live(versions)' /\ row'.tags["latest"] = held.ver /\ versions'[held.ver] = held.doc
      BY <1>1, <1>4 DEF Publishing, Live, Tags, TagNames, TypeOK
    <2>5. Running(req[caller])'
      BY <1>1, <2>4 DEF Running, Writing, PC
    <2> QED
      BY <2>3, <2>5
  <1>5. CASE Unchanged(held)
    <2>1. Published' = Published /\ row' = row
      BY <1>1, <1>2, <1>3, <1>5 DEF Unchanged
    <2>2. StoreStep
      BY <2>1 DEF StoreStep, Store!storeVars
    <2>3. held.doc # Cleared => \E n \in Live(versions) : row.tags["latest"] = n /\ versions[n] = held.doc
      BY <1>1, <1>3, <1>5, LastIsLatest DEF Unchanged, AloneInv, Held
    <2>4. Running(req[caller])'
      BY <1>1, <2>1, <2>3 DEF Running, Writing, PC, Live
    <2> QED
      BY <2>2, <2>4
  <1>6. CASE Retagging(held)
    <2>1. PICK t \in TagNames \ {"latest"}, v \in Rows(versions) \cup {0} : held.tags = [row.tags EXCEPT ![t] = v]
      BY <1>6 DEF Retagging
    <2>2. Published' = Published /\ Published = versions
      BY <1>2, <1>3, <1>6 DEF Retagging
    <2>3. row.pk # 0 /\ row'.pk = row.pk /\ row'.tags = [row.tags EXCEPT ![t] = v]
      BY <1>1, <2>1
    <2>4. StoreStep
      BY <2>2, <2>3, PinStep
    <2>5. Running(req[caller])'
      BY <1>1, <1>6 DEF Running, Retagging, Writing, PC
    <2> QED
      BY <2>4, <2>5
  <1> QED
    BY <1>1, <1>4, <1>5, <1>6

\* The remaining writes: a promotion, the two deletions, a creation.
LEMMA WriteAlone ==
    ASSUME TypeOK, KeysInv, AloneInv, NEW caller, Requests = {caller},
           SaveTags(caller) \/ CommitDelete(caller) \/ RemoveRow(caller) \/ InsertItem(caller)
    PROVE  StoreStep /\ Running(req[caller])'
  <1> DEFINE held == req[caller]
  <1>1. /\ Running(held) /\ held \in Held /\ req'[caller].pc = "idle"
        /\ held.pc \in {"saveTags", "commit", "commitRepoint", "remove", "create"}
    BY DEF SaveTags, CommitDelete, RemoveRow, InsertItem, Finish, Idle, AloneInv, TypeOK
  <1>2. Published = versions /\ Published' = versions'
    <2>1. \A m \in Numbers : Published[m] = versions[m] /\ Published'[m] = versions'[m]
      BY <1>1 DEF Published
    <2>2. versions' \in [Numbers -> Docs \cup {Absent, Cleared}]
      BY IdleType DEF SaveTags, CommitDelete, RemoveRow, InsertItem, TypeOK, Held
    <2> QED
      BY <2>1, <2>2 DEF Published, TypeOK
  <1>3. Running(req[caller])'
    BY <1>1 DEF Running, Writing, PC
  <1>4. CASE SaveTags(caller)
    <2>1. /\ held.pk = row.pk /\ held.pk # 0 /\ held.ver \in Live(versions)
          /\ held.tags = [row.tags EXCEPT !["stable"] = held.ver]
      BY <1>1, <1>4 DEF Running, SaveTags, Writing, PC
    <2>2. row'.pk = row.pk /\ row'.tags = held.tags /\ versions' = versions
      BY <1>4, <2>1 DEF SaveTags, TypeOK
    <2>3. held.ver \in Numbers /\ held.ver \in Rows(versions) /\ "stable" \in TagNames \ {"latest"}
      BY <2>1, ConstantsAssumption DEF Live, Rows, TagNames
    <2>4. /\ row.pk # 0 /\ Published' = Published /\ held.ver \in Rows(Published) \cup {0}
          /\ row'.tags = [row.tags EXCEPT !["stable"] = held.ver]
      BY <1>2, <2>1, <2>2, <2>3
    <2> HIDE DEF held
    <2>5. StoreStep
      BY <2>2, <2>3, <2>4, PinStep
    <2> QED
      BY <1>3, <2>5
  <1>5. CASE CommitDelete(caller)
    <2>1. /\ held.pk = row.pk /\ held.pk # 0 /\ held.ver \in Live(versions) /\ held.ver \in Rows(versions)
          /\ held.ver \in Numbers /\ held.pc \in {"commit", "commitRepoint"}
      BY <1>1, <1>5, ConstantsAssumption DEF Running, CommitDelete, Writing, PC, Live, Rows
    <2>2. /\ versions' = [versions EXCEPT ![held.ver] = Cleared] /\ row'.pk = row.pk
          /\ row'.tags = IF held.pc = "commitRepoint" THEN held.tags ELSE row.tags
      BY <1>5, <2>1 DEF CommitDelete, VersionKnown, TypeOK
    <2>3. Store!Alive(versions') = Live(versions) \ {held.ver}
      BY <2>1, <2>2, ConstantsAssumption DEF Store!Alive, Store!Numbers, Live, Numbers, TypeOK
    <2>4. /\ IsHighest(row'.tags["latest"], Live(versions) \ {held.ver})
          /\ \A t \in TagNames \ {"latest"} : row'.tags[t] = row.tags[t]
      <3>1. CASE held.pc = "commitRepoint"
        <4>1. PICK n \in 0 .. MaxVersion : /\ IsHighest(n, Live(versions) \ {held.ver})
                                           /\ held.tags = [row.tags EXCEPT !["latest"] = n]
          BY <1>1, <3>1 DEF Running
        <4> QED
          BY <2>2, <3>1, <4>1 DEF TypeOK, Tags, TagNames
      <3>2. CASE held.pc = "commit"
        <4>1. row.tags["latest"] # held.ver /\ IsHighest(row.tags["latest"], Live(versions))
          BY <1>1, <1>2, <3>2 DEF Running, AloneInv
        <4> QED
          BY <2>1, <2>2, <3>2, <4>1 DEF IsHighest
      <3> QED
        BY <2>1, <3>1, <3>2
    <2>5. Store!Clear(held.ver)
      BY <1>2, <2>1, <2>2, <2>3, <2>4 DEF Store!Clear, Store!SetHistory, Store!Greatest, IsHighest,
         Store!Alive, Store!Numbers, Live, Numbers
    <2>6. StoreStep
      BY <2>1, <2>5 DEF StoreStep, Store!Next, Store!Numbers, Numbers
    <2> QED
      BY <1>3, <2>6
  <1>6. CASE RemoveRow(caller)
    <2>1. row' = NoRow /\ versions' = NoVersions
      BY <1>1, <1>6 DEF Running, RemoveRow
    <2>2. Store!Alive(NoVersions) = {} /\ NoVersions = Store!Empty
      BY ConstantsAssumption DEF Store!Alive, Store!Empty, NoVersions, Store!Numbers, Numbers
    <2>3. row'.pk = 0 /\ \A t \in TagNames : row'.tags[t] = 0
      BY <2>1 DEF NoRow, NoTags
    <2>4. Store!Remove
      BY <1>2, <2>1, <2>2, <2>3 DEF Store!Remove, Store!SetHistory, Store!Greatest, Store!NoPins, TagNames
    <2>5. StoreStep
      BY <2>4 DEF StoreStep, Store!Next
    <2> QED
      BY <1>3, <2>5
  <1>7. CASE InsertItem(caller)
    <2>1. /\ held.doc \in Docs /\ held.doc # Cleared /\ row.pk = 0
          /\ row'.pk = lastPk + 1 /\ row'.tags = [NoTags EXCEPT !["latest"] = 1]
          /\ versions' = [NoVersions EXCEPT ![1] = held.doc]
      BY <1>1, <1>7, ConstantsAssumption DEF Running, InsertItem
    <2>2. PICK d \in Docs : versions' = [NoVersions EXCEPT ![1] = d]
      BY <2>1
    <2> HIDE DEF held
    <2> DEFINE first == [Store!Empty EXCEPT ![1] = d]
    <2>3. row'.pk # 0 /\ 1 \in Numbers
      BY <2>1, ConstantsAssumption DEF TypeOK, Numbers
    <2>4. row'.tags["latest"] = 1 /\ \A t \in TagNames \ {"latest"} : row'.tags[t] = 0
      BY <2>1 DEF NoTags, TagNames
    <2>5. Store!Alive(first) = {1} /\ Published' = first
      BY <1>2, <2>2, <2>3, ConstantsAssumption DEF Store!Alive, Store!Empty, NoVersions, Store!Numbers, Numbers
    <2>6. Store!Create(d)
      <3>1. Store!SetHistory(first)
        <4> HIDE DEF first
        <4>1. Store!Greatest(1, {1})
          BY DEF Store!Greatest
        <4> QED
          BY <2>4, <2>5, <4>1 DEF Store!SetHistory
      <3>2. ~(row.pk # 0) /\ (row'.pk # 0) = TRUE
        BY <2>1, <2>3
      <3>3. [t \in TagNames \ {"latest"} |-> row'.tags[t]] = Store!NoPins
        BY <2>4 DEF Store!NoPins
      <3> QED
        BY <3>1, <3>2, <3>3 DEF Store!Create
    <2>7. StoreStep
      BY <2>6 DEF StoreStep, Store!Next
    <2> QED
      BY <1>3, <2>7
  <1> QED
    BY <1>4, <1>5, <1>6, <1>7

\* What one caller cannot meet: its row gone, its number taken, its path taken.
LEMMA NothingInTheWay ==
    ASSUME TypeOK, AloneInv, NEW caller, Requests = {caller}, ~MayCrash
    PROVE  /\ ~InsertFails(caller) /\ ~ReviveSecret(caller) /\ ~ReviveRow(caller)
           /\ ~SaveFails(caller) /\ ~Crash(caller)
  <1>1. Running(req[caller])
    BY DEF AloneInv
  <1>2. ~ReviveSecret(caller) /\ ~ReviveRow(caller) /\ ~SaveFails(caller) /\ ~Crash(caller)
    BY <1>1 DEF ReviveSecret, ReviveRow, SaveFails, Crash, Running, Writing, PC
  <1>3. ~InsertFails(caller)
    BY <1>1, ConstantsAssumption DEF InsertFails, NumberTaken, Running, IsNextNumber, IsHighest, Rows, Numbers
  <1> QED
    BY <1>2, <1>3

LEMMA AloneStep ==
    ASSUME TypeOK, KeysInv, AloneInv, NEW caller, Requests = {caller}, ~MayCrash,
           CreateDocs \subseteq Docs, [Next]_vars
    PROVE  StoreStep /\ AloneInv'
  <1>1. ASSUME Step(caller)
        PROVE  StoreStep /\ Running(req[caller])' /\ ~revived'
    <2>1. CASE Load(caller) \/ LoadSecret(caller)
      BY <2>1, BeginAlone DEF Load, LoadSecret, AloneInv
    <2>2. CASE \/ Refuse(caller) \/ SoftDeleteFails(caller) \/ InsertItemFails(caller) \/ Respond(caller)
      BY <2>2, EndAlone DEF Refuse, SoftDeleteFails, InsertItemFails, Respond, AloneInv
    <2>3. CASE \/ \E d \in Docs : CompareUpdate(caller, d) \/ CompareSecret(caller, d)
               \/ NumberVersion(caller)
               \/ \E t \in TagNames, v \in Numbers : SetTag(caller, t, v)
               \/ \E t \in TagNames : DeleteTag(caller, t)
               \/ SetDescription(caller)
               \/ \E v \in Numbers : PromoteStable(caller, v)
               \/ \E v \in Numbers : DeleteVersion(caller, v)
               \/ SoftDelete(caller) \/ DeleteItem(caller)
               \/ \E d \in CreateDocs : CreateItem(caller, d)
      <3>1. revived' = revived
        BY <2>3 DEF CompareUpdate, CompareSecret, NumberVersion, SetTag, DeleteTag, SetDescription,
           PromoteStable, DeleteVersion, SoftDelete, DeleteItem, CreateItem, Proceed
      <3> QED
        BY <2>3, <3>1, DecideAlone DEF AloneInv
    <2>4. CASE InsertVersion(caller) \/ InsertSecretVersion(caller)
      <3>1. revived' = revived
        BY <2>4 DEF InsertVersion, InsertSecretVersion
      <3> QED
        BY <2>4, <3>1, InsertAlone DEF AloneInv
    <2>5. CASE SaveRow(caller)
      BY <2>5, SaveAlone DEF SaveRow, AloneInv
    <2>6. CASE SaveTags(caller) \/ CommitDelete(caller) \/ RemoveRow(caller) \/ InsertItem(caller)
      BY <2>6, WriteAlone DEF SaveTags, CommitDelete, RemoveRow, InsertItem, AloneInv
    <2> QED
      BY <1>1, <2>1, <2>2, <2>3, <2>4, <2>5, <2>6, NothingInTheWay, Zenon DEF Step
  <1>2. ASSUME LockPath \/ UnlockPath \/ UNCHANGED vars
        PROVE  StoreStep /\ Running(req[caller])' /\ ~revived'
    <2>1. /\ UNCHANGED <<row, versions, revived>>
          /\ \/ req'[caller].pc = "idle" /\ req[caller].pc = "idle"
             \/ /\ req'[caller].pc = req[caller].pc /\ req'[caller].pk = req[caller].pk
                /\ req'[caller].tags = req[caller].tags /\ req'[caller].doc = req[caller].doc
                /\ req'[caller].ver = req[caller].ver
      <3>1. CASE UnlockPath
        BY <3>1 DEF UnlockPath, TypeOK, Held, Idle
      <3> QED
        BY <1>2, <3>1 DEF LockPath, vars
    <2>2. Published' = Published /\ Hidden(req[caller])' = Hidden(req[caller])
      BY <2>1 DEF Published, Hidden
    <2>3. StoreStep
      BY <2>1, <2>2 DEF StoreStep, Store!storeVars
    <2>4. Running(req[caller])
      BY DEF AloneInv
    <2>5. CASE req'[caller].pc = "idle" /\ req[caller].pc = "idle"
      BY <2>1, <2>3, <2>5 DEF Running, Writing, PC, AloneInv
    <2>6. CASE /\ req'[caller].pc = req[caller].pc /\ req'[caller].pk = req[caller].pk
               /\ req'[caller].tags = req[caller].tags /\ req'[caller].doc = req[caller].doc
               /\ req'[caller].ver = req[caller].ver
      <3>1. /\ Publishing(req[caller]) => Publishing(req[caller])'
            /\ Unchanged(req[caller]) => Unchanged(req[caller])'
            /\ Retagging(req[caller]) => Retagging(req[caller])'
        <4>1. Publishing(req[caller]) => Publishing(req[caller])'
          BY <2>1, <2>2, <2>6 DEF Publishing
        <4>2. Unchanged(req[caller]) => Unchanged(req[caller])'
          BY <2>1, <2>6 DEF Unchanged, SameAsLast, Rows, IsHighest
        <4>3. Retagging(req[caller]) => Retagging(req[caller])'
          BY <2>1, <2>6 DEF Retagging, Rows
        <4> QED
          BY <4>1, <4>2, <4>3
      <3>2. versions' = versions /\ row' = row
        BY <2>1
      <3>3. Running(req[caller])'
        BY <2>4, <2>6, <3>1, <3>2 DEF Running
      <3> QED
        BY <2>1, <2>3, <3>3 DEF AloneInv
    <2> QED
      BY <2>1, <2>5, <2>6
  <1>3. StoreStep /\ Running(req[caller])' /\ ~revived'
    BY <1>1, <1>2 DEF Next
  <1>4. AloneInv'
    BY <1>3, LatestStep DEF AloneInv
  <1> QED
    BY <1>3, <1>4

LEMMA AloneInit ==
    ASSUME Init
    PROVE  AloneInv /\ Store!Init
  <1>1. /\ row.pk = 0 /\ \A t \in TagNames : row.tags[t] = 0
        /\ \A r \in Requests : req[r].pc = "idle"
    BY DEF Init, NoRow, NoTags, Idle
  <1>2. Published = NoVersions
    BY <1>1 DEF Init, Published, NoVersions
  <1>3. Live(NoVersions) = {}
    BY ConstantsAssumption DEF Live, NoVersions
  <1>4. AloneInv
    BY <1>1, <1>2, <1>3 DEF AloneInv, Init, Running, Writing, PC, IsHighest, TagNames
  <1>5. Store!Init
    BY <1>1, <1>2 DEF Store!Init, Store!Empty, Store!Numbers, NoVersions, Numbers, Store!NoPins, TagNames
  <1> QED
    BY <1>4, <1>5

\* Calls that one client makes one after the other, with workers that do not die,
\* are atomic steps of the documented store (docs/concepts/versions-and-tags.md).
THEOREM OneCallerSeesTheStore ==
    ASSUME NEW CONSTANT caller, Requests = {caller}, ~MayCrash, CreateDocs \subseteq Docs
    PROVE  Spec => ImplementsStore
  <1>1. Init => AloneInv /\ Store!Init
    BY AloneInit
  <1>2. TypeOK /\ KeysInv /\ AloneInv /\ [Next]_vars => StoreStep /\ AloneInv'
    BY AloneStep
  <1> QED
    BY <1>1, <1>2, TypeCorrect, KeysIdentifyRows, PTL DEF Spec, ImplementsStore, Store!Spec, StoreStep

\* For that client latest always names the highest live version between calls.
THEOREM OneCallerFindsLatest ==
    ASSUME NEW CONSTANT caller, Requests = {caller}, ~MayCrash, CreateDocs \subseteq Docs
    PROVE  Spec => []LatestIsHighestLive
  <1>1. TypeOK /\ AloneInv => LatestIsHighestLive
    <2> SUFFICES ASSUME TypeOK, AloneInv, Quiescent PROVE IsHighest(row.tags["latest"], Live(versions))
      BY DEF LatestIsHighestLive
    <2>1. \A m \in Numbers : Published[m] = versions[m]
      BY DEF Quiescent, Writing, PC, Published
    <2>2. Published = versions
      BY <2>1 DEF Published, TypeOK
    <2> QED
      BY <2>2 DEF AloneInv
  <1>2. TypeOK /\ KeysInv /\ AloneInv /\ [Next]_vars => AloneInv'
    BY AloneStep
  <1>3. Init => AloneInv
    BY AloneInit
  <1> QED
    BY <1>1, <1>2, <1>3, TypeCorrect, KeysIdentifyRows, PTL DEF Spec

\* And an update that it made, once answered, is behind latest.
THEOREM OneCallerFindsUpdates ==
    ASSUME NEW CONSTANT caller, Requests = {caller}, ~MayCrash, CreateDocs \subseteq Docs
    PROVE  Spec => []AcknowledgedUpdateIsLatest
  <1>1. AloneInv => AcknowledgedUpdateIsLatest
    BY DEF AloneInv, Running, AcknowledgedUpdateIsLatest
  <1>2. TypeOK /\ KeysInv /\ AloneInv /\ [Next]_vars => AloneInv'
    BY AloneStep
  <1>3. Init => AloneInv
    BY AloneInit
  <1> QED
    BY <1>1, <1>2, <1>3, TypeCorrect, KeysIdentifyRows, PTL DEF Spec

=============================================================================
