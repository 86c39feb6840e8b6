------------------------- MODULE ProcessState_proofs -------------------------
(***************************************************************************)
(* What processes keep outside the database, for every number of them: the *)
(* webhook configuration that a server process has in memory, the files of *)
(* the artifact store that servers share, the calls of SDK processes with  *)
(* their tokens, and the audit drafts and contexts of a request.           *)
(***************************************************************************)
EXTENDS WebhookConfig, ArtifactStore, ClientTransport, Audit, FiniteSetTheorems, TLAPS

-----------------------------------------------------------------------------
(* The webhook configuration: a process never goes back behind a change    *)
(* that it has handled                                                     *)

Document == [at : Nat, refers : BOOLEAN]

HooksTypeOK ==
    /\ hookClock \in Nat /\ hookKey \in 0 .. hookClock
    /\ hookDoc \in Document /\ hookDoc.at <= hookClock
    /\ hookCache \in [Processes -> SUBSET [doc : Nat, refers : BOOLEAN, key : Nat]]
    /\ changing \in [Processes -> {"nothing", "document", "key"}]
    /\ filling \in [Processes -> [pc : {"idle"}] \cup [pc : {"document"}, doc : Document]]
    /\ handled \in [Processes -> [document : Nat, key : Nat]]

\* What a process has handled is not newer than what is there.
HandledInv == \A p \in Processes :
    handled[p].document <= hookDoc.at /\ handled[p].key <= hookKey

\* Alone, a dispatch holds the active document, and an entry is as new as what
\* its process has handled, before the next change is handled too.
EntriesInv ==
    hookMode = "alone" =>
        \A p \in Processes :
            /\ filling[p].pc = "document" => filling[p].doc = hookDoc
            /\ \A e \in hookCache[p] : /\ e.doc >= handled[p].document
                                       /\ e.refers => e.key >= handled[p].key

HooksInv == HooksTypeOK /\ HandledInv /\ EntriesInv

-----------------------------------------------------------------------------
\* The active document or the key gets the next number.
LEMMA ChangeKeeps ==
    ASSUME HooksInv, NEW p \in Processes,
           \/ \E refers \in BOOLEAN : ChangeDocument(p, refers) \/ MoveActiveTag(refers)
           \/ ChangeKey(p)
    PROVE  HooksInv'
<1>1. /\ hookClock' = hookClock + 1 /\ UNCHANGED <<hookCache, filling, handled, hookMode>>
      /\ \/ (\E refers \in BOOLEAN : hookDoc' = [at |-> hookClock + 1, refers |-> refers]) /\ hookKey' = hookKey
         \/ hookKey' = hookClock + 1 /\ hookDoc' = hookDoc
      /\ \/ changing' = changing
         \/ \E k \in {"document", "key"} : changing' = [changing EXCEPT ![p] = k]
      /\ HookTurn
  BY DEF ChangeDocument, MoveActiveTag, ChangeKey
<1>2. /\ hookDoc' \in Document /\ hookDoc'.at <= hookClock' /\ hookDoc.at <= hookDoc'.at
      /\ hookKey' \in 0 .. hookClock' /\ hookKey <= hookKey' /\ hookClock' \in Nat
  BY <1>1 DEF HooksInv, HooksTypeOK, Document
<1>3. HooksTypeOK'
  BY <1>1, <1>2 DEF HooksInv, HooksTypeOK
<1>4. HandledInv'
  BY <1>1, <1>2 DEF HooksInv, HooksTypeOK, HandledInv, Document
<1>5. EntriesInv'
  BY <1>1 DEF HooksInv, EntriesInv, HookTurn, HooksAtRest
<1> QED BY <1>3, <1>4, <1>5 DEF HooksInv

\* The process drops what the change has made old, and has handled it.
LEMMA InvalidateKeeps ==
    ASSUME HooksInv, NEW p \in Processes, Invalidate(p)
    PROVE  HooksInv'
<1> DEFINE k == changing[p]
           now == IF k = "key" THEN hookKey ELSE hookDoc.at
<1>1. /\ UNCHANGED <<hookClock, hookDoc, hookKey, filling, hookMode>>
      /\ changing' = [changing EXCEPT ![p] = "nothing"]
      /\ hookCache' = [hookCache EXCEPT ![p] = Dropped(p)]
      /\ handled' = [handled EXCEPT ![p] = [handled[p] EXCEPT ![k] = now]]
  BY DEF Invalidate, HooksInv, HooksTypeOK
<1>2. k \in {"document", "key"} /\ now \in Nat /\ handled[p] \in [document : Nat, key : Nat]
  BY DEF Invalidate, HooksInv, HooksTypeOK, Document
<1>3. Dropped(p) \subseteq hookCache[p] /\ \A e \in Dropped(p) : k = "key" /\ ~e.refers
  BY DEF Dropped
<1>4. HooksTypeOK'
  <2>1. [handled[p] EXCEPT ![k] = now] \in [document : Nat, key : Nat]
    BY <1>2
  <2> HIDE DEF now, k
  <2> QED BY <1>1, <1>3, <2>1 DEF HooksInv, HooksTypeOK
<1>5. HandledInv'
  <2> SUFFICES ASSUME NEW q \in Processes
               PROVE  handled'[q].document <= hookDoc.at /\ handled'[q].key <= hookKey
    BY <1>1 DEF HandledInv
  <2>1. CASE q # p
    BY <1>1, <2>1 DEF HooksInv, HandledInv, HooksTypeOK
  <2>2. CASE q = p
    BY <1>1, <1>2, <2>2 DEF HooksInv, HandledInv, HooksTypeOK, Document
  <2> QED BY <2>1, <2>2
<1>6. EntriesInv'
  <2> SUFFICES ASSUME hookMode = "alone", NEW q \in Processes, NEW e \in hookCache'[q]
               PROVE  e.doc >= handled'[q].document /\ (e.refers => e.key >= handled'[q].key)
    BY <1>1 DEF HooksInv, EntriesInv
  <2>1. CASE q # p
    BY <1>1, <2>1 DEF HooksInv, EntriesInv, HooksTypeOK
  <2>2. CASE q = p
    <3>1. e \in Dropped(p)
      BY <1>1, <2>2 DEF HooksInv, HooksTypeOK
    <3>2. handled'[q].document = handled[q].document /\ ~e.refers /\ e \in hookCache[q]
      BY <1>1, <1>2, <1>3, <2>2, <3>1 DEF HooksInv, HooksTypeOK
    <3> QED BY <3>2 DEF HooksInv, EntriesInv
  <2> QED BY <2>1, <2>2
<1> QED BY <1>4, <1>5, <1>6 DEF HooksInv

LEMMA DispatchKeeps ==
    ASSUME HooksInv, NEW p \in Processes,
           BeginFill(p) \/ PutConfig(p) \/ EvictHooks(p) \/ ProcessDies(p)
    PROVE  HooksInv'
<1>1. CASE BeginFill(p)
  <2>1. /\ UNCHANGED <<hookClock, hookDoc, hookKey, hookCache, changing, handled, hookMode>>
        /\ filling' = [filling EXCEPT ![p] = [pc |-> "document", doc |-> hookDoc]]
    BY <1>1 DEF BeginFill, NotHooks
  <2> QED BY <2>1 DEF HooksInv, HooksTypeOK, HandledInv, EntriesInv
<1>2. CASE PutConfig(p)
  <2> DEFINE e == [doc |-> filling[p].doc.at, refers |-> filling[p].doc.refers,
                   key |-> IF filling[p].doc.refers THEN hookKey ELSE 0]
  <2>1. /\ UNCHANGED <<hookClock, hookDoc, hookKey, changing, handled, hookMode>>
        /\ filling' = [filling EXCEPT ![p] = [pc |-> "idle"]]
        /\ hookCache' = [hookCache EXCEPT ![p] = {e}]
        /\ filling[p].pc = "document"
    BY <1>2 DEF PutConfig, NotHooks
  <2>2. filling[p].doc \in Document
    BY <2>1 DEF HooksInv, HooksTypeOK
  <2>3. e \in [doc : Nat, refers : BOOLEAN, key : Nat]
    BY <2>2 DEF HooksInv, HooksTypeOK, Document
  <2>4. hookMode = "alone" => e.doc >= handled[p].document /\ (e.refers => e.key >= handled[p].key)
    BY <2>1, <2>2 DEF HooksInv, HooksTypeOK, EntriesInv, HandledInv, Document
  <2> HIDE DEF e
  <2>5. HooksTypeOK' /\ HandledInv'
    BY <2>1, <2>3 DEF HooksInv, HooksTypeOK, HandledInv
  <2>6. EntriesInv'
    BY <2>1, <2>4 DEF HooksInv, HooksTypeOK, EntriesInv
  <2> QED BY <2>5, <2>6 DEF HooksInv
<1>3. CASE EvictHooks(p)
  <2>1. /\ UNCHANGED <<hookClock, hookDoc, hookKey, changing, filling, handled, hookMode>>
        /\ hookCache' = [hookCache EXCEPT ![p] = {}]
    BY <1>3 DEF EvictHooks, NotHooks
  <2> QED BY <2>1 DEF HooksInv, HooksTypeOK, HandledInv, EntriesInv
<1>4. CASE ProcessDies(p)
  <2>1. /\ UNCHANGED <<hookClock, hookDoc, hookKey, hookMode>>
        /\ hookCache' = [hookCache EXCEPT ![p] = {}]
        /\ changing' = [changing EXCEPT ![p] = "nothing"]
        /\ filling' = [filling EXCEPT ![p] = [pc |-> "idle"]]
        /\ handled' = [handled EXCEPT ![p] = [document |-> 0, key |-> 0]]
    BY <1>4 DEF ProcessDies
  <2>2. HooksTypeOK'
    BY <2>1 DEF HooksInv, HooksTypeOK
  <2>3. HandledInv'
    BY <2>1 DEF HooksInv, HooksTypeOK, HandledInv, Document
  <2>4. EntriesInv'
    BY <2>1 DEF HooksInv, HooksTypeOK, EntriesInv
  <2> QED BY <2>2, <2>3, <2>4 DEF HooksInv
<1> QED BY <1>1, <1>2, <1>3, <1>4

\* While changes and dispatches come one after the other, a process delivers by
\* every change of the webhooks and of their key that it has handled itself.
THEOREM OwnChangesShow == HooksSpec => []HooksShowOwnChanges
<1>1. HooksInit => HooksInv
  BY DEF HooksInit, HooksInv, HooksTypeOK, HandledInv, EntriesInv, Document
<1>2. HooksInv /\ [HooksNext]_hookVars => HooksInv'
  <2> SUFFICES ASSUME HooksInv, [HooksNext]_hookVars PROVE HooksInv'
    OBVIOUS
  <2>1. ASSUME NEW refers \in BOOLEAN, MoveActiveTag(refers)
        PROVE  HooksInv'
    <3>1. CASE Processes = {}
      BY <2>1, <3>1 DEF MoveActiveTag, HooksInv, HooksTypeOK, HandledInv, EntriesInv, Document
    <3>2. CASE Processes # {}
      BY <2>1, <3>2, ChangeKeeps
    <3> QED BY <3>1, <3>2
  <2>2. CASE UNCHANGED hookVars
    BY <2>2 DEF hookVars, HooksInv, HooksTypeOK, HandledInv, EntriesInv
  <2> QED BY <2>1, <2>2, ChangeKeeps, InvalidateKeeps, DispatchKeeps DEF HooksNext
<1>3. HooksInv => HooksShowOwnChanges
  BY DEF HooksInv, EntriesInv, HooksShowOwnChanges
<1> QED BY <1>1, <1>2, <1>3, PTL DEF HooksSpec

-----------------------------------------------------------------------------
(* The artifact store: the artifact that a download finds is whole *)

StoringState ==
    [pc : {"idle", "open"}] \cup [pc : {"write", "writeRest", "replace"}, fd : Inodes]

StoreTypeOK ==
    /\ Made \subseteq Inodes /\ written \in [Made -> SUBSET Whole]
    /\ artifact \in Made \cup {NoFile} /\ tmp \in Made \cup {NoFile}
    /\ storing \in [Writers -> StoringState]
    /\ \A w \in Writers : storing[w].pc \in {"write", "writeRest", "replace"} => storing[w].fd \in Made

\* Alone, the one writer fills the file of the temporary name, which is not the
\* artifact's; the artifact is whole.
AloneInv ==
    storeMode = "alone" =>
      /\ \A v, w \in Writers : storing[v].pc # "idle" /\ storing[w].pc # "idle" => v = w
      /\ artifact # NoFile => written[artifact] = Whole /\ artifact # tmp
      /\ \A w \in Writers :
            /\ storing[w].pc \in {"write", "writeRest", "replace"} => storing[w].fd = tmp
            /\ storing[w].pc = "writeRest" => 1 \in written[storing[w].fd]
            /\ storing[w].pc = "replace" => written[storing[w].fd] = Whole

\* A writer is going to write this part of this file
Pending(w, i, part) ==
    /\ storing[w].pc \in (IF part = 1 THEN {"write"} ELSE {"write", "writeRest"})
    /\ storing[w].fd = i

\* While no process has died, each part that a named file lacks is on its way.
PartsComing ==
    ~crashed => \A i \in {artifact, tmp} \ {NoFile} : \A part \in Whole \ written[i] :
                    \E w \in Writers : Pending(w, i, part)

StoreInv == StoreTypeOK /\ AloneInv /\ PartsComing

-----------------------------------------------------------------------------
LEMMA OpenTmpKeeps ==
    ASSUME StoreInv, NEW w \in Writers, OpenTmp(w)
    PROVE  StoreInv'
<1> USE DEF StoreInv
<1>1. PICK i \in IF tmp = NoFile THEN Inodes \ Made ELSE {tmp} :
          /\ tmp' = i
          /\ written' = [j \in Made \cup {i} |-> IF j = i THEN {} ELSE written[j]]
          /\ storing' = [storing EXCEPT ![w] = [pc |-> "write", fd |-> i]]
  BY DEF OpenTmp, Storing
<1>2. storing[w].pc = "open" /\ UNCHANGED <<artifact, crashed, storeMode>>
  BY DEF OpenTmp, NotSwept
<1>3. /\ i \in Inodes /\ i # NoFile /\ Made' = Made \cup {i}
      /\ \A j \in Made' : written'[j] = IF j = i THEN {} ELSE written[j]
      /\ i \in Made => i = tmp
  BY <1>1, StoreAssumption DEF StoreTypeOK, Made
<1>4. \A v \in Writers : storing'[v] = IF v = w THEN [pc |-> "write", fd |-> i] ELSE storing[v]
  BY <1>1 DEF StoreTypeOK
<1>5. StoreTypeOK'
  <2>1. Made' \subseteq Inodes /\ artifact' \in Made' \cup {NoFile} /\ tmp' \in Made' \cup {NoFile}
    BY <1>1, <1>2, <1>3 DEF StoreTypeOK
  <2>2. written' \in [Made' -> SUBSET Whole]
    BY <1>1, <1>3 DEF StoreTypeOK
  <2>3. [pc |-> "write", fd |-> i] \in StoringState
    BY <1>3 DEF StoringState
  <2>4. storing' \in [Writers -> StoringState]
    BY <1>1, <2>3 DEF StoreTypeOK
  <2>5. \A v \in Writers : storing'[v].pc \in {"write", "writeRest", "replace"} => storing'[v].fd \in Made'
    BY <1>3, <1>4 DEF StoreTypeOK
  <2> QED BY <2>1, <2>2, <2>4, <2>5 DEF StoreTypeOK
<1>6. AloneInv'
  <2> SUFFICES ASSUME storeMode = "alone" PROVE AloneInv'
    BY <1>2 DEF AloneInv
  <2>1. \A v \in Writers : v # w => storing[v].pc = "idle"
    BY <1>2 DEF AloneInv
  <2>2. artifact # NoFile => artifact # i /\ artifact \in Made
    BY <1>3 DEF AloneInv, StoreTypeOK
  <2>3. artifact # NoFile => written'[artifact] = Whole
    BY <1>3, <2>2 DEF AloneInv
  <2> QED BY <1>1, <1>2, <1>4, <2>1, <2>2, <2>3 DEF AloneInv
<1>7. PartsComing'
  <2> SUFFICES ASSUME ~crashed, NEW j \in {artifact, i} \ {NoFile}, NEW part \in Whole \ written'[j]
               PROVE  \E v \in Writers : Pending(v, j, part)'
    BY <1>1, <1>2 DEF PartsComing
  <2>1. CASE j = i
    <3>1. storing'[w].pc = "write" /\ storing'[w].fd = i
      BY <1>4
    <3> QED BY <2>1, <3>1 DEF Pending
  <2>2. CASE j # i
    <3>1. j = artifact /\ j \in Made /\ part \in Whole \ written[j]
      BY <1>3, <2>2 DEF StoreTypeOK
    <3>2. PICK v \in Writers : Pending(v, j, part)
      BY <3>1 DEF PartsComing
    <3>3. v # w
      BY <1>2, <3>2 DEF Pending
    <3> QED BY <1>4, <3>2, <3>3 DEF Pending
  <2> QED BY <2>1, <2>2
<1> QED BY <1>5, <1>6, <1>7

LEMMA WritePartKeeps ==
    ASSUME StoreInv, NEW w \in Writers, WritePart(w)
    PROVE  StoreInv'
<1> USE DEF StoreInv
<1> DEFINE fd == storing[w].fd
           part == IF storing[w].pc = "write" THEN 1 ELSE 2
           next == IF storing[w].pc = "writeRest" THEN "replace" ELSE "writeRest"
<1>1. /\ storing[w].pc \in {"write", "writeRest"} /\ fd \in Made
      /\ storing[w] \in [pc : {"write", "writeRest", "replace"}, fd : Inodes]
  BY DEF WritePart, StoreTypeOK, StoringState
<1>2. /\ written' = [written EXCEPT ![fd] = @ \cup {part}]
      /\ storing' = [storing EXCEPT ![w] = [storing[w] EXCEPT !.pc = next]]
      /\ UNCHANGED <<artifact, tmp, crashed, storeMode>>
  BY DEF WritePart, Storing, LastPart, NotSwept
<1>3. /\ Made' = Made /\ part \in Whole
      /\ \A j \in Made : written'[j] = IF j = fd THEN written[j] \cup {part} ELSE written[j]
  BY <1>1, <1>2 DEF StoreTypeOK, Made, Whole
<1>4. \A v \in Writers : /\ v = w => storing'[v].pc = next /\ storing'[v].fd = fd
                         /\ v # w => storing'[v] = storing[v]
  BY <1>1, <1>2 DEF StoreTypeOK
<1>5. StoreTypeOK'
  <2>1. written' \in [Made' -> SUBSET Whole]
    BY <1>2, <1>3 DEF StoreTypeOK
  <2>2. [storing[w] EXCEPT !.pc = next] \in StoringState
    BY <1>1 DEF StoringState
  <2>3. storing' \in [Writers -> StoringState]
    BY <1>2, <2>2 DEF StoreTypeOK
  <2>4. \A v \in Writers : storing'[v].pc \in {"write", "writeRest", "replace"} => storing'[v].fd \in Made'
    BY <1>1, <1>3, <1>4 DEF StoreTypeOK
  <2> QED BY <1>2, <1>3, <2>1, <2>3, <2>4 DEF StoreTypeOK
<1>6. AloneInv'
  <2> SUFFICES ASSUME storeMode = "alone" PROVE AloneInv'
    BY <1>2 DEF AloneInv
  <2>1. \A v \in Writers : v # w => storing'[v].pc = "idle"
    BY <1>1, <1>4 DEF AloneInv
  <2>2. fd = tmp /\ (artifact # NoFile => artifact # fd /\ artifact \in Made)
    BY <1>1 DEF AloneInv, StoreTypeOK
  <2>3. artifact # NoFile => written'[artifact] = Whole /\ artifact # tmp
    BY <1>3, <2>2 DEF AloneInv
  <2>4. /\ next = "writeRest" => 1 \in written'[fd]
        /\ next = "replace" => written'[fd] = Whole
    BY <1>1, <1>3 DEF AloneInv, StoreTypeOK, Whole
  <2> HIDE DEF fd, next
  <2> QED BY <1>2, <1>4, <2>1, <2>2, <2>3, <2>4 DEF AloneInv
<1>7. PartsComing'
  <2> SUFFICES ASSUME ~crashed, NEW j \in {artifact, tmp} \ {NoFile}, NEW q \in Whole \ written'[j]
               PROVE  \E v \in Writers : Pending(v, j, q)'
    BY <1>2 DEF PartsComing
  <2>1. j \in Made /\ q \in Whole \ written[j] /\ (j = fd => q # part)
    BY <1>3 DEF StoreTypeOK
  <2>2. PICK v \in Writers : Pending(v, j, q)
    BY <2>1 DEF PartsComing
  <2>3. CASE v # w
    BY <1>4, <2>2, <2>3 DEF Pending
  <2>4. CASE v = w
    <3>1. j = fd /\ storing[w].pc = "write" /\ q = 2
      BY <1>1, <2>1, <2>2, <2>4 DEF Pending, Whole
    <3> QED BY <1>4, <2>4, <3>1 DEF Pending
  <2> QED BY <2>3, <2>4
<1> QED BY <1>5, <1>6, <1>7

LEMMA ReplaceKeeps ==
    ASSUME StoreInv, NEW w \in Writers, Replace(w)
    PROVE  StoreInv'
<1> USE DEF StoreInv
<1>1. /\ storing[w].pc = "replace" /\ storing' = [storing EXCEPT ![w] = [pc |-> "idle"]]
      /\ UNCHANGED <<written, crashed, storeMode>>
      /\ IF tmp = NoFile THEN UNCHANGED <<artifact, tmp>> ELSE artifact' = tmp /\ tmp' = NoFile
  BY DEF Replace, Storing, NotSwept
<1>2. \A v \in Writers : storing'[v] = IF v = w THEN [pc |-> "idle"] ELSE storing[v]
  BY <1>1 DEF StoreTypeOK
<1>3. StoreTypeOK'
  BY <1>1 DEF StoreTypeOK, StoringState, Made
<1>4. AloneInv'
  <2> SUFFICES ASSUME storeMode = "alone" PROVE AloneInv'
    BY <1>1 DEF AloneInv
  <2>1. \A v \in Writers : storing'[v].pc = "idle"
    BY <1>1, <1>2 DEF AloneInv
  <2>2. written[tmp] = Whole /\ tmp \in Inodes
    BY <1>1 DEF AloneInv, StoreTypeOK, StoringState
  <2> QED BY <1>1, <2>1, <2>2, StoreAssumption DEF AloneInv
<1>5. PartsComing'
  <2> SUFFICES ASSUME ~crashed, NEW j \in {artifact', tmp'} \ {NoFile}, NEW part \in Whole \ written[j]
               PROVE  \E v \in Writers : Pending(v, j, part)'
    BY <1>1 DEF PartsComing
  <2>1. j \in {artifact, tmp} \ {NoFile}
    BY <1>1
  <2>2. PICK v \in Writers : Pending(v, j, part)
    BY <2>1 DEF PartsComing
  <2>3. v # w
    BY <1>1, <2>2 DEF Pending
  <2> QED BY <1>2, <2>2, <2>3 DEF Pending
<1> QED BY <1>3, <1>4, <1>5

\* Steps that touch no file but may take the artifact's name away
LEMMA OtherStepsKeep ==
    ASSUME StoreInv,
           \/ \E w \in Writers : BeginStore(w) \/ WriterDies(w)
           \/ \E i \in Inodes : Expire(i)
           \/ \E s \in Sweepers : FindExpired(s) \/ Unlink(s)
           \/ UNCHANGED storeVars
    PROVE  StoreInv'
<1> USE DEF StoreInv
<1>1. UNCHANGED <<tmp, written, storeMode>> /\ Made' = Made
  BY DEF BeginStore, WriterDies, Expire, FindExpired, Unlink, NotSwept, storeVars, Made
<1>2. CASE \E w \in Writers : BeginStore(w)
  <2>1. PICK w \in Writers : BeginStore(w)
    BY <1>2
  <2>2. /\ storing[w].pc = "idle" /\ storing' = [storing EXCEPT ![w] = [pc |-> "open"]]
        /\ UNCHANGED <<artifact, crashed>> /\ (storeMode = "alone" => StoreAtRest)
    BY <2>1 DEF BeginStore, Storing, NotSwept, StoreTurn
  <2>3. \A v \in Writers : storing'[v] = IF v = w THEN [pc |-> "open"] ELSE storing[v]
    BY <2>2 DEF StoreTypeOK
  <2>4. StoreTypeOK'
    BY <1>1, <2>2 DEF StoreTypeOK, StoringState
  <2>5. AloneInv'
    BY <1>1, <2>2, <2>3 DEF AloneInv, StoreAtRest
  <2>6. PartsComing'
    BY <1>1, <2>2, <2>3 DEF PartsComing, Pending
  <2> QED BY <2>4, <2>5, <2>6
<1>3. CASE \E w \in Writers : WriterDies(w)
  <2>1. PICK w \in Writers : WriterDies(w)
    BY <1>3
  <2>2. /\ storing' = [storing EXCEPT ![w] = [pc |-> "idle"]]
        /\ UNCHANGED artifact /\ crashed' = TRUE
    BY <2>1 DEF WriterDies, Storing
  <2>3. StoreTypeOK'
    BY <1>1, <2>2 DEF StoreTypeOK, StoringState
  <2>4. AloneInv'
    BY <1>1, <2>2 DEF AloneInv, StoreTypeOK
  <2> QED BY <2>2, <2>3, <2>4 DEF PartsComing
<1>4. ASSUME UNCHANGED <<storing, crashed>>, artifact' \in {artifact, NoFile}
      PROVE  StoreInv'
  BY <1>1, <1>4 DEF StoreTypeOK, AloneInv, PartsComing, Pending
<1>5. CASE \/ \E i \in Inodes : Expire(i)
           \/ \E s \in Sweepers : FindExpired(s) \/ Unlink(s)
           \/ UNCHANGED storeVars
  <2>1. UNCHANGED <<storing, crashed>> /\ artifact' \in {artifact, NoFile}
    BY <1>5 DEF Expire, FindExpired, Unlink, NotSwept, storeVars
  <2> QED BY <1>4, <2>1
<1> QED BY <1>2, <1>3, <1>5

LEMMA StoreInitInv == StoreInit => StoreInv
<1> SUFFICES ASSUME StoreInit PROVE StoreInv
  OBVIOUS
<1>1. StoreTypeOK
  BY DEF StoreInit, StoreTypeOK, Made, StoringState
<1>2. AloneInv /\ PartsComing
  BY DEF StoreInit, AloneInv, PartsComing
<1> QED BY <1>1, <1>2 DEF StoreInv

LEMMA StoreInvKept == StoreInv /\ [StoreNext]_storeVars => StoreInv'
BY OpenTmpKeeps, WritePartKeeps, ReplaceKeeps, OtherStepsKeep DEF StoreNext

\* While stores and sweeps come one after the other, deaths in the middle of one
\* included, a download finds the artifact whole, or not at all.
THEOREM AloneIsWhole == StoreSpec => []ArtifactIsWhole
<1>1. StoreInv => ArtifactIsWhole
  BY DEF StoreInv, AloneInv, ArtifactIsWhole
<1> QED BY <1>1, StoreInitInv, StoreInvKept, PTL DEF StoreSpec

\* However stores and sweeps overlap, while no process dies: once no store is in
\* flight, the artifact is whole, or not there.
THEOREM EndsWhole == StoreSpec => []ArtifactEndsWhole
<1>1. StoreInv => ArtifactEndsWhole
  <2> SUFFICES ASSUME StoreInv, \A w \in Writers : storing[w].pc = "idle", ~crashed, artifact # NoFile
               PROVE  written[artifact] = Whole
    BY DEF ArtifactEndsWhole
  <2>1. \A part \in Whole : part \in written[artifact]
    BY DEF StoreInv, PartsComing, Pending
  <2> QED BY <2>1 DEF StoreInv, StoreTypeOK
<1> QED BY <1>1, StoreInitInv, StoreInvKept, PTL DEF StoreSpec


-----------------------------------------------------------------------------
(* The client: what its retries and refreshed tokens may do *)

SdkCall ==
    [pc : {"token", "open", "write", "send", "wait", "answered", "over"}, id : Nat,
     method : {"PUT", "POST"}, token : Nat, attempt : Nat, sends : Nat,
     answer : {"none", "ok", "unauthorized", "unavailable", "failed", "unreachable", "no token"},
     refreshed : BOOLEAN, revoked : BOOLEAN]

SdkTypeOK ==
    /\ sdk \in [provider : Providers, retries : Nat, mode : SdkModes]
    /\ issued \in Nat /\ accepted \subseteq 1 .. issued /\ young \subseteq 1 .. issued
    /\ memory \in [SdkProcesses -> Nat] /\ tokenFile \in Nat
    /\ sdkCall \in [SdkProcesses -> [pc : {"idle"}] \cup SdkCall]
    /\ effects \in Seq(Nat)
    /\ wire \subseteq [by : SdkProcesses, id : 1 .. Len(effects), send : Nat, token : Nat]

\* Each call has a number of its own, and alone no two calls are running.
CallsDiffer ==
    /\ \A p \in SdkProcesses : sdkCall[p].pc # "idle" => sdkCall[p].id \in 1 .. Len(effects)
    /\ \A p, q \in SdkProcesses :
          sdkCall[p].pc # "idle" /\ sdkCall[q].pc # "idle" /\ sdkCall[p].id = sdkCall[q].id => p = q
    /\ sdk.mode = "alone" => \A p, q \in SdkProcesses : ~AtRest(p) /\ ~AtRest(q) => p = q

Preparing == {"token", "open", "write", "send"}

OnWire(call) == {w \in wire : w.id = call.id}

\* The request that is waited for carries the token of the call.
Carried(call) ==
    \A w \in OnWire(call) :
        /\ w.send <= call.sends
        /\ call.pc = "wait" /\ w.send = call.sends => w.token = call.token

\* As long as a request of a POST is on its way it has had no effect, and before
\* another one is sent the last has come back refused.
Once(call) ==
    call.method = "POST" =>
        /\ effects[call.id] <= 1
        /\ \A v, w \in OnWire(call) : v = w
        /\ OnWire(call) # {} => effects[call.id] = 0
        /\ call.pc \in Preparing \/ (call.pc = "answered" /\ call.answer = "unauthorized") =>
              OnWire(call) = {} /\ effects[call.id] = 0

\* Every request after the first has cost an attempt.
Counted(call) ==
    /\ call.sends <= sdk.retries + 1
    /\ call.pc \in Preparing => call.sends <= call.attempt /\ call.answer = "none"
    /\ call.pc \in {"wait", "answered"} => call.sends <= call.attempt + 1 /\ call.attempt <= sdk.retries

\* A refreshed token was issued during the call, so that only a revocation spoils it.
GetsIn(p, call) ==
    sdk.mode = "alone" /\ sdk.provider = "secret" =>
        /\ call.pc = "over" /\ call.answer = "unauthorized" => call.attempt > 0
        /\ call.refreshed =>
              /\ call.pc = "token" => memory[p] = 0 /\ tokenFile = 0
              /\ call.pc \in {"open", "write", "send", "wait", "answered"} =>
                    call.token \in accepted \/ call.revoked
              /\ call.pc \in {"answered", "over"} /\ call.answer = "unauthorized" => call.revoked

CallsInv ==
    \A p \in SdkProcesses : sdkCall[p].pc # "idle" =>
        Carried(sdkCall[p]) /\ Once(sdkCall[p]) /\ Counted(sdkCall[p]) /\ GetsIn(p, sdkCall[p])

SdkInv == SdkTypeOK /\ CallsDiffer /\ CallsInv

-----------------------------------------------------------------------------
\* A step of a running call that leaves the wire alone
LEMMA LocalStep ==
    ASSUME SdkInv, NEW p \in SdkProcesses, ~AtRest(p), NEW new \in SdkCall,
           sdkCall' = [sdkCall EXCEPT ![p] = new],
           new.id = sdkCall[p].id, new.method = sdkCall[p].method, new.sends = sdkCall[p].sends,
           new.pc # "wait",
           new.pc \in Preparing \/ (new.pc = "answered" /\ new.answer = "unauthorized") =>
              \/ sdkCall[p].pc \in Preparing
              \/ sdkCall[p].pc = "answered" /\ sdkCall[p].answer = "unauthorized"
              \/ sdkCall[p].method = "PUT",
           UNCHANGED <<sdk, wire, effects>>,
           issued' \in Nat, accepted' \subseteq 1 .. issued', young' \subseteq 1 .. issued',
           accepted \subseteq accepted',
           memory' \in [SdkProcesses -> Nat], tokenFile' \in Nat,
           Counted(new), GetsIn(p, new)'
    PROVE  SdkInv'
<1>1. /\ sdkCall'[p] = new /\ \A q \in SdkProcesses \ {p} : sdkCall'[q] = sdkCall[q]
      /\ sdkCall[p] \in SdkCall /\ sdkCall[p].pc # "idle" /\ new.pc # "idle"
  BY DEF SdkInv, SdkTypeOK, AtRest, SdkCall
<1>2. SdkTypeOK'
  <2>1. sdkCall' \in [SdkProcesses -> [pc : {"idle"}] \cup SdkCall]
    BY DEF SdkInv, SdkTypeOK
  <2> QED BY <2>1 DEF SdkInv, SdkTypeOK
<1>3. CallsDiffer'
  <2>1. \A q \in SdkProcesses : /\ sdkCall'[q].pc # "idle" <=> sdkCall[q].pc # "idle"
                                /\ sdkCall[q].pc # "idle" => sdkCall'[q].id = sdkCall[q].id
                                /\ ~AtRest(q)' => ~AtRest(q)
    BY <1>1 DEF AtRest
  <2> QED BY <2>1 DEF SdkInv, CallsDiffer
<1>4. ASSUME NEW q \in SdkProcesses, q # p, sdkCall'[q].pc # "idle"
      PROVE  Carried(sdkCall[q])' /\ Once(sdkCall[q])' /\ Counted(sdkCall[q])' /\ GetsIn(q, sdkCall[q])'
  <2>1. sdkCall'[q] = sdkCall[q] /\ Carried(sdkCall[q]) /\ Once(sdkCall[q]) /\ Counted(sdkCall[q]) /\ GetsIn(q, sdkCall[q])
    BY <1>1, <1>4 DEF SdkInv, CallsInv
  <2>2. sdk.mode = "alone" => sdkCall[q].pc = "over"
    BY <1>1, <1>4, <2>1 DEF SdkInv, CallsDiffer, AtRest
  <2>3. GetsIn(q, sdkCall[q])'
    BY <2>1, <2>2 DEF GetsIn
  <2> QED BY <2>1, <2>3 DEF Carried, Once, Counted, OnWire
<1>5. Carried(new)' /\ Once(new)' /\ Counted(new)'
  <2>1. Carried(sdkCall[p]) /\ Once(sdkCall[p])
    BY <1>1 DEF SdkInv, CallsInv
  <2>2. OnWire(new)' = OnWire(sdkCall[p])
    BY DEF OnWire
  <2>3. Carried(new)' /\ Counted(new)'
    BY <2>1, <2>2 DEF Carried, Counted
  <2>4. Once(new)'
    BY <2>1, <2>2 DEF Once
  <2> QED BY <2>3, <2>4
<1>6. CallsInv'
  BY <1>1, <1>4, <1>5 DEF CallsInv
<1> QED BY <1>2, <1>3, <1>6 DEF SdkInv

LEMMA BeginSdkCallKeeps ==
    ASSUME SdkInv, NEW p \in SdkProcesses, NEW method \in {"PUT", "POST"}, BeginSdkCall(p, method)
    PROVE  SdkInv'
<1> DEFINE id == Len(effects) + 1
           begun == [pc |-> IF sdk.provider = "bearer" THEN "send" ELSE "token", id |-> id,
                     method |-> method, token |-> memory[p], attempt |-> 0, sends |-> 0,
                     answer |-> "none", refreshed |-> FALSE, revoked |-> FALSE]
<1>1. /\ sdkCall' = [sdkCall EXCEPT ![p] = begun] /\ effects' = Append(effects, 0)
      /\ AtRest(p) /\ (sdk.mode = "alone" => \A q \in SdkProcesses : AtRest(q))
      /\ UNCHANGED <<sdk, issued, accepted, young, memory, tokenFile, wire>>
  BY DEF BeginSdkCall, NoneIssued
<1>2. /\ id \in Nat /\ id = Len(effects') /\ Len(effects') = Len(effects) + 1 /\ effects' \in Seq(Nat)
      /\ effects'[id] = 0 /\ \A i \in 1 .. Len(effects) : effects'[i] = effects[i]
  <2> HIDE DEF begun
  <2>1. effects \in Seq(Nat) /\ Len(effects) \in Nat
    BY DEF SdkInv, SdkTypeOK
  <2>2. /\ Append(effects, 0) \in Seq(Nat) /\ Len(Append(effects, 0)) = Len(effects) + 1
        /\ Append(effects, 0)[Len(effects) + 1] = 0
        /\ \A i \in 1 .. Len(effects) : Append(effects, 0)[i] = effects[i]
    BY <2>1
  <2> QED BY <1>1, <2>1, <2>2
<1>3. PICK new \in SdkCall :
         /\ sdkCall' = [sdkCall EXCEPT ![p] = new]
         /\ new.pc \in {"send", "token"} /\ new.id = id /\ new.attempt = 0
         /\ new.sends = 0 /\ new.answer = "none" /\ new.refreshed = FALSE
  <2>1. begun \in SdkCall
    BY <1>2 DEF SdkInv, SdkTypeOK, SdkCall
  <2> QED BY <1>1, <2>1
<1> HIDE DEF begun
<1>4. sdkCall'[p] = new /\ \A q \in SdkProcesses \ {p} : sdkCall'[q] = sdkCall[q]
  BY <1>3 DEF SdkInv, SdkTypeOK
<1>5. SdkTypeOK'
  <2>1. sdkCall' \in [SdkProcesses -> [pc : {"idle"}] \cup SdkCall]
    BY <1>1, <1>3 DEF SdkInv, SdkTypeOK
  <2>2. wire' \subseteq [by : SdkProcesses, id : 1 .. Len(effects'), send : Nat, token : Nat]
    BY <1>1, <1>2 DEF SdkInv, SdkTypeOK
  <2> QED BY <1>1, <1>2, <2>1, <2>2 DEF SdkInv, SdkTypeOK
<1>6. CallsDiffer'
  BY <1>1, <1>2, <1>3, <1>4 DEF SdkInv, SdkTypeOK, CallsDiffer, AtRest
<1>7. OnWire(new)' = {}
  BY <1>1, <1>2, <1>3 DEF OnWire, SdkInv, SdkTypeOK
<1>8. Carried(new)' /\ Once(new)' /\ Counted(new)' /\ GetsIn(p, new)'
  BY <1>1, <1>2, <1>3, <1>7 DEF Carried, Once, Counted, GetsIn, SdkInv, SdkTypeOK
<1>9. ASSUME NEW q \in SdkProcesses, q # p, sdkCall'[q].pc # "idle"
      PROVE  Carried(sdkCall[q])' /\ Once(sdkCall[q])' /\ Counted(sdkCall[q])' /\ GetsIn(q, sdkCall[q])'
  <2>1. /\ sdkCall'[q] = sdkCall[q] /\ sdkCall[q].id \in 1 .. Len(effects)
        /\ Carried(sdkCall[q]) /\ Once(sdkCall[q]) /\ Counted(sdkCall[q]) /\ GetsIn(q, sdkCall[q])
    BY <1>4, <1>9 DEF SdkInv, CallsInv, CallsDiffer
  <2> QED BY <1>1, <1>2, <2>1 DEF Carried, Once, Counted, GetsIn, OnWire
<1>10. CallsInv'
  BY <1>4, <1>8, <1>9 DEF CallsInv
<1> QED BY <1>5, <1>6, <1>10 DEF SdkInv

LEMMA TokenStepKeeps ==
    ASSUME SdkInv, NEW p \in SdkProcesses,
           TakeCached(p) \/ FetchToken(p) \/ NoToken(p) \/ WriteTokenFile(p)
    PROVE  SdkInv'
<1> DEFINE call == sdkCall[p]
<1>1. call.pc \in {"token", "open", "write"} /\ call \in SdkCall /\ ~AtRest(p)
  BY DEF TakeCached, FetchToken, NoToken, WriteTokenFile, SdkInv, SdkTypeOK, AtRest, SdkCall
<1>2. Counted(call) /\ GetsIn(p, call)
  BY <1>1 DEF SdkInv, CallsInv
<1>3. /\ memory[p] \in Nat /\ tokenFile \in Nat /\ issued + 1 \in Nat /\ 0 \notin young
      /\ issued + 1 \in 1 .. (issued + 1) /\ 1 .. issued \subseteq 1 .. (issued + 1)
  BY DEF SdkInv, SdkTypeOK
<1>4. CASE TakeCached(p)
  <2>1. /\ sdkCall' = [sdkCall EXCEPT ![p] = [call EXCEPT !.pc = "send", !.token = CachedToken(p)]]
        /\ call.pc = "token" /\ CachedToken(p) # 0
        /\ memory' = [memory EXCEPT ![p] = CachedToken(p)]
        /\ UNCHANGED <<sdk, wire, effects, issued, accepted, young, tokenFile>>
    BY <1>4 DEF TakeCached, NoneIssued, Wired, SdkInv, SdkTypeOK
  <2>2. CachedToken(p) \in Nat /\ (CachedToken(p) = memory[p] \/ CachedToken(p) = tokenFile)
    BY <1>3, <2>1 DEF CachedToken
  <2>3. PICK new \in SdkCall :
           /\ sdkCall' = [sdkCall EXCEPT ![p] = new]
           /\ new.pc = "send" /\ new.id = call.id /\ new.method = call.method
           /\ new.sends = call.sends /\ new.attempt = call.attempt /\ new.answer = call.answer
           /\ new.refreshed = call.refreshed
    <3>1. [call EXCEPT !.pc = "send", !.token = CachedToken(p)] \in SdkCall
      BY <1>1, <2>2 DEF SdkCall
    <3> QED BY <1>1, <2>1, <3>1 DEF SdkCall
  <2>4. Counted(new)
    BY <1>2, <2>1, <2>3 DEF Counted, Preparing
  <2>5. GetsIn(p, new)'
    BY <1>2, <2>1, <2>2, <2>3 DEF GetsIn
  <2>6. memory' \in [SdkProcesses -> Nat] /\ call.pc \in Preparing
    BY <2>1, <2>2 DEF SdkInv, SdkTypeOK, Preparing
  <2> HIDE DEF call
  <2> QED BY <1>1, <1>3, <2>1, <2>3, <2>4, <2>5, <2>6, LocalStep DEF call, SdkInv, SdkTypeOK
<1>5. CASE FetchToken(p)
  <2>1. /\ sdkCall' = [sdkCall EXCEPT ![p] = [call EXCEPT !.pc = "open", !.token = issued + 1]]
        /\ call.pc = "token"
        /\ memory' = [memory EXCEPT ![p] = issued + 1] /\ issued' = issued + 1
        /\ accepted' = accepted \cup {issued + 1} /\ young' = young \cup {issued + 1}
        /\ UNCHANGED <<sdk, wire, effects, tokenFile>>
    BY <1>5 DEF FetchToken, Issue, Wired, SdkInv, SdkTypeOK
  <2>2. PICK new \in SdkCall :
           /\ sdkCall' = [sdkCall EXCEPT ![p] = new]
           /\ new.pc = "open" /\ new.id = call.id /\ new.method = call.method
           /\ new.sends = call.sends /\ new.attempt = call.attempt /\ new.answer = call.answer
           /\ new.token = issued + 1
    <3>1. [call EXCEPT !.pc = "open", !.token = issued + 1] \in SdkCall
      BY <1>1, <1>3 DEF SdkCall
    <3> QED BY <1>1, <2>1, <3>1 DEF SdkCall
  <2>3. Counted(new) /\ GetsIn(p, new)'
    BY <1>2, <2>1, <2>2 DEF Counted, Preparing, GetsIn
  <2>4. /\ memory' \in [SdkProcesses -> Nat] /\ call.pc \in Preparing
        /\ accepted' \subseteq 1 .. issued' /\ young' \subseteq 1 .. issued' /\ tokenFile' \in Nat
        /\ issued' \in Nat /\ accepted \subseteq accepted'
    BY <1>3, <2>1 DEF SdkInv, SdkTypeOK, Preparing
  <2> HIDE DEF call
  <2> QED BY <1>1, <2>1, <2>2, <2>3, <2>4, LocalStep DEF call
<1>6. CASE NoToken(p)
  <2>1. /\ sdkCall' = [sdkCall EXCEPT ![p] = [call EXCEPT !.pc = "over", !.answer = "no token"]]
        /\ UNCHANGED <<sdk, wire, effects, issued, accepted, young, memory, tokenFile>>
    BY <1>6 DEF NoToken, NoneIssued, SdkInv, SdkTypeOK
  <2>2. PICK new \in SdkCall :
           /\ sdkCall' = [sdkCall EXCEPT ![p] = new]
           /\ new.pc = "over" /\ new.id = call.id /\ new.method = call.method
           /\ new.sends = call.sends /\ new.answer = "no token"
    <3>1. [call EXCEPT !.pc = "over", !.answer = "no token"] \in SdkCall
      BY <1>1 DEF SdkCall
    <3> QED BY <1>1, <2>1, <3>1 DEF SdkCall
  <2>3. Counted(new) /\ GetsIn(p, new)'
    BY <1>2, <2>1, <2>2 DEF Counted, Preparing, GetsIn
  <2> HIDE DEF call
  <2> QED BY <1>1, <2>1, <2>2, <2>3, LocalStep DEF call, SdkInv, SdkTypeOK, Preparing
<1>7. CASE WriteTokenFile(p)
  <2>1. /\ \E pc \in {"write", "send"} : sdkCall' = [sdkCall EXCEPT ![p] = [call EXCEPT !.pc = pc]]
        /\ tokenFile' \in {0, memory[p]} /\ call.pc \in {"open", "write"}
        /\ UNCHANGED <<sdk, wire, effects, issued, accepted, young, memory>>
    BY <1>7 DEF WriteTokenFile, NoneIssued, Wired, SdkInv, SdkTypeOK
  <2>2. PICK pc \in {"write", "send"} : sdkCall' = [sdkCall EXCEPT ![p] = [call EXCEPT !.pc = pc]]
    BY <2>1
  <2>3. PICK new \in SdkCall :
           /\ sdkCall' = [sdkCall EXCEPT ![p] = new]
           /\ new.pc = pc /\ new.id = call.id /\ new.method = call.method
           /\ new.sends = call.sends /\ new.attempt = call.attempt /\ new.answer = call.answer
           /\ new.refreshed = call.refreshed /\ new.token = call.token /\ new.revoked = call.revoked
    <3>1. [call EXCEPT !.pc = pc] \in SdkCall
      BY <1>1 DEF SdkCall
    <3> QED BY <1>1, <2>2, <3>1 DEF SdkCall
  <2>4. Counted(new) /\ GetsIn(p, new)'
    BY <1>2, <2>1, <2>3 DEF Counted, Preparing, GetsIn
  <2>5. tokenFile' \in Nat /\ call.pc \in Preparing
    BY <1>3, <2>1 DEF Preparing
  <2> HIDE DEF call
  <2> QED BY <1>1, <2>1, <2>3, <2>4, <2>5, LocalStep DEF call, SdkInv, SdkTypeOK
<1> QED BY <1>4, <1>5, <1>6, <1>7

LEMMA SendRequestKeeps ==
    ASSUME SdkInv, NEW p \in SdkProcesses, SendRequest(p)
    PROVE  SdkInv'
<1> DEFINE call == sdkCall[p]
<1>1. call.pc = "send" /\ call \in SdkCall /\ ~AtRest(p)
  BY DEF SendRequest, SdkInv, SdkTypeOK, AtRest, SdkCall
<1>2. Carried(call) /\ Once(call) /\ Counted(call) /\ GetsIn(p, call) /\ call.id \in 1 .. Len(effects)
  BY <1>1 DEF SdkInv, CallsInv, CallsDiffer
<1>3. UNCHANGED <<sdk, effects, issued, accepted, young, memory, tokenFile>>
  BY DEF SendRequest, NoneIssued
<1>n. call.sends \in Nat /\ call.sends + 1 \in Nat /\ call.attempt \in Nat /\ call.token \in Nat /\ sdk.retries \in Nat
  <2>1. sdk.retries \in Nat
    BY DEF SdkInv, SdkTypeOK
  <2>2. call.sends \in Nat /\ call.attempt \in Nat /\ call.token \in Nat
    BY <1>1 DEF SdkCall
  <2> HIDE DEF call
  <2> QED BY <2>1, <2>2
<1>4. CASE call.attempt > sdk.retries
  <2>1. PICK new \in SdkCall :
           /\ sdkCall' = [sdkCall EXCEPT ![p] = new]
           /\ new.pc = "over" /\ new.id = call.id /\ new.method = call.method
           /\ new.sends = call.sends /\ new.answer = "unreachable"
    <3>1. [call EXCEPT !.pc = "over", !.answer = "unreachable"] \in SdkCall
      BY <1>1 DEF SdkCall
    <3>2. sdkCall' = [sdkCall EXCEPT ![p] = [call EXCEPT !.pc = "over", !.answer = "unreachable"]]
      BY <1>4 DEF SendRequest, SdkInv, SdkTypeOK
    <3> QED BY <1>1, <3>1, <3>2 DEF SdkCall
  <2>2. Counted(new) /\ GetsIn(p, new)' /\ UNCHANGED wire
    BY <1>2, <1>3, <1>4, <2>1 DEF Counted, Preparing, GetsIn, SendRequest
  <2> HIDE DEF call
  <2> QED BY <1>1, <1>3, <2>1, <2>2, LocalStep DEF call, SdkInv, SdkTypeOK, Preparing
<1>5. CASE ~(call.attempt > sdk.retries)
  <2> DEFINE request == [by |-> p, id |-> call.id, send |-> call.sends + 1, token |-> call.token]
  <2>1. wire' = wire \cup {request}
    BY <1>5 DEF SendRequest
  <2>2. PICK new \in SdkCall :
           /\ sdkCall' = [sdkCall EXCEPT ![p] = new]
           /\ new.pc = "wait" /\ new.sends = call.sends + 1 /\ new.id = call.id
           /\ new.method = call.method /\ new.token = call.token /\ new.attempt = call.attempt
           /\ new.refreshed = call.refreshed /\ new.revoked = call.revoked
    <3> DEFINE sent == [call EXCEPT !.pc = "wait", !.sends = call.sends + 1]
    <3>1. sent \in SdkCall
      BY <1>1, <1>n DEF SdkCall
    <3>2. sdkCall' = [sdkCall EXCEPT ![p] = sent]
      BY <1>5 DEF SendRequest, SdkInv, SdkTypeOK
    <3> QED BY <1>1, <3>1, <3>2 DEF SdkCall
  <2>3. sdkCall'[p] = new /\ \A q \in SdkProcesses \ {p} : sdkCall'[q] = sdkCall[q]
    BY <2>2 DEF SdkInv, SdkTypeOK
  <2>4. SdkTypeOK'
    <3>1. request \in [by : SdkProcesses, id : 1 .. Len(effects), send : Nat, token : Nat]
      BY <1>2, <1>n
    <3>2. sdkCall' \in [SdkProcesses -> [pc : {"idle"}] \cup SdkCall]
      BY <2>2 DEF SdkInv, SdkTypeOK
    <3> HIDE DEF request
    <3> QED BY <1>3, <2>1, <3>1, <3>2 DEF SdkInv, SdkTypeOK
  <2>5. CallsDiffer'
    <3>1. \A q \in SdkProcesses : /\ sdkCall'[q].pc # "idle" <=> sdkCall[q].pc # "idle"
                                  /\ sdkCall[q].pc # "idle" => sdkCall'[q].id = sdkCall[q].id
                                  /\ ~AtRest(q)' => ~AtRest(q)
      BY <1>1, <2>2, <2>3 DEF AtRest
    <3> QED BY <1>3, <3>1 DEF SdkInv, CallsDiffer
  <2>6. OnWire(new)' = OnWire(call) \cup {request}
    BY <2>1, <2>2 DEF OnWire
  <2>7. Carried(new)'
    <3>1. \A w \in OnWire(call) : w.send \in Nat
      BY DEF OnWire, SdkInv, SdkTypeOK
    <3>2. \A w \in OnWire(call) : w.send <= new.sends /\ w.send # new.sends
      BY <1>2, <1>n, <2>2, <3>1 DEF Carried
    <3>3. request.send = new.sends /\ request.token = new.token
      BY <2>2
    <3> HIDE DEF request, call
    <3> QED BY <1>n, <2>2, <2>6, <3>2, <3>3 DEF Carried
  <2>8. Once(new)'
    BY <1>1, <1>2, <1>3, <2>2, <2>6 DEF Once, Preparing
  <2>9. Counted(new)'
    <3>1. call.sends <= call.attempt
      BY <1>1, <1>2 DEF Counted, Preparing
    <3>2. sdk' = sdk /\ new.sends <= sdk.retries + 1 /\ new.sends <= new.attempt + 1 /\ new.attempt <= sdk.retries
      BY <1>3, <1>5, <1>n, <2>2, <3>1
    <3> QED BY <2>2, <3>2 DEF Counted, Preparing
  <2>10. GetsIn(p, new)'
    BY <1>1, <1>2, <1>3, <2>2 DEF GetsIn
  <2>11. ASSUME NEW q \in SdkProcesses, q # p, sdkCall'[q].pc # "idle"
         PROVE  Carried(sdkCall[q])' /\ Once(sdkCall[q])' /\ Counted(sdkCall[q])' /\ GetsIn(q, sdkCall[q])'
    <3>1. /\ sdkCall'[q] = sdkCall[q] /\ sdkCall[q].id # call.id
          /\ Carried(sdkCall[q]) /\ Once(sdkCall[q]) /\ Counted(sdkCall[q]) /\ GetsIn(q, sdkCall[q])
      BY <1>1, <2>3, <2>11 DEF SdkInv, CallsInv, CallsDiffer
    <3>2. OnWire(sdkCall[q])' = OnWire(sdkCall[q])
      BY <2>1, <3>1 DEF OnWire
    <3> QED BY <1>3, <3>1, <3>2 DEF Carried, Once, Counted, GetsIn
  <2>12. CallsInv'
    BY <2>3, <2>7, <2>8, <2>9, <2>10, <2>11 DEF CallsInv
  <2> QED BY <2>4, <2>5, <2>12 DEF SdkInv
<1> QED BY <1>4, <1>5

LEMMA ServeRequestKeeps ==
    ASSUME SdkInv, NEW request \in wire, NEW effect \in BOOLEAN,
           NEW answer \in {"ok", "unauthorized", "unavailable"}, ServeRequest(request, effect, answer)
    PROVE  SdkInv'
<1> DEFINE p == request.by
           awaited == sdkCall[p].pc = "wait" /\ sdkCall[p].id = request.id /\ sdkCall[p].sends = request.send
<1>1. /\ p \in SdkProcesses /\ request.id \in 1 .. Len(effects) /\ wire' = wire \ {request}
      /\ effect => request.token \in accepted
      /\ answer = "unauthorized" => request.token \notin accepted /\ ~effect
      /\ effects' = IF effect THEN [effects EXCEPT ![request.id] = @ + 1] ELSE effects
      /\ UNCHANGED <<sdk, issued, accepted, young, memory, tokenFile>>
  BY DEF ServeRequest, NoneIssued, SdkInv, SdkTypeOK
<1>2. /\ effects' \in Seq(Nat) /\ Len(effects') = Len(effects)
      /\ \A i \in 1 .. Len(effects) : effects'[i] = IF effect /\ i = request.id THEN effects[i] + 1
                                                                               ELSE effects[i]
  BY <1>1 DEF SdkInv, SdkTypeOK
<1>3. \A q \in SdkProcesses :
         \/ sdkCall'[q] = sdkCall[q]
         \/ /\ awaited /\ q = p /\ sdkCall[q] \in SdkCall
            /\ sdkCall'[q] = [sdkCall[q] EXCEPT !.pc = "answered", !.answer = answer]
  BY <1>1 DEF ServeRequest, SdkInv, SdkTypeOK, SdkCall
<1>4. SdkTypeOK'
  <2>1. sdkCall' \in [SdkProcesses -> [pc : {"idle"}] \cup SdkCall]
    <3>1. sdkCall' = [sdkCall EXCEPT ![p] = sdkCall'[p]]
      BY <1>1 DEF ServeRequest, SdkInv, SdkTypeOK
    <3>2. sdkCall'[p] \in [pc : {"idle"}] \cup SdkCall
      <4>1. CASE sdkCall'[p] = sdkCall[p]
        BY <1>1, <4>1 DEF SdkInv, SdkTypeOK
      <4>2. CASE ~(sdkCall'[p] = sdkCall[p])
        <5>1. sdkCall[p] \in SdkCall /\ sdkCall'[p] = [sdkCall[p] EXCEPT !.pc = "answered", !.answer = answer]
          BY <1>1, <1>3, <4>2
        <5> QED BY <5>1 DEF SdkCall
      <4> QED BY <4>1, <4>2
    <3> QED BY <1>1, <3>1, <3>2 DEF SdkInv, SdkTypeOK
  <2> QED BY <1>1, <1>2, <2>1 DEF SdkInv, SdkTypeOK
<1>5. CallsDiffer'
  <2>1. \A q \in SdkProcesses : /\ sdkCall'[q].pc # "idle" <=> sdkCall[q].pc # "idle"
                                /\ sdkCall[q].pc # "idle" => sdkCall'[q].id = sdkCall[q].id
                                /\ ~AtRest(q)' => ~AtRest(q)
    BY <1>3 DEF AtRest, SdkCall
  <2> QED BY <1>1, <1>2, <2>1 DEF SdkInv, CallsDiffer
<1>6. ASSUME NEW q \in SdkProcesses, sdkCall'[q].pc # "idle"
      PROVE  Carried(sdkCall[q])' /\ Once(sdkCall[q])' /\ Counted(sdkCall[q])' /\ GetsIn(q, sdkCall[q])'
  <2> DEFINE call == sdkCall[q]
  <2>1. /\ call.pc # "idle" /\ call.id \in 1 .. Len(effects) /\ effects[call.id] \in Nat
        /\ Carried(call) /\ Once(call) /\ Counted(call) /\ GetsIn(q, call)
    <3>1. call.pc # "idle"
      BY <1>3, <1>6 DEF SdkCall
    <3>2. call.id \in 1 .. Len(effects) /\ effects \in Seq(Nat)
      BY <3>1 DEF SdkInv, CallsDiffer, SdkTypeOK
    <3> QED BY <3>1, <3>2 DEF SdkInv, CallsInv
  <2>2. OnWire(call)' = OnWire(sdkCall'[q]) \ {request} /\ sdkCall'[q].id = call.id
        /\ sdkCall'[q].method = call.method /\ sdkCall'[q].sends = call.sends
        /\ sdkCall'[q].attempt = call.attempt
    <3>1. /\ sdkCall'[q].id = call.id /\ sdkCall'[q].method = call.method
          /\ sdkCall'[q].sends = call.sends /\ sdkCall'[q].attempt = call.attempt
      BY <1>3 DEF SdkCall
    <3> QED BY <1>1, <3>1 DEF OnWire
  <2>3. OnWire(sdkCall'[q]) = OnWire(call) /\ (request.id = call.id <=> request \in OnWire(call))
    BY <2>2 DEF OnWire
  <2>4. sdkCall'[q].pc \in Preparing => call.pc \in Preparing
    BY <1>3 DEF SdkCall, Preparing
  <2>5. Carried(sdkCall[q])'
    BY <1>3, <2>1, <2>2, <2>3 DEF Carried, SdkCall
  <2>6. effects'[call.id] = IF effect /\ request \in OnWire(call) THEN effects[call.id] + 1
                                                                  ELSE effects[call.id]
    BY <1>2, <2>1, <2>3
  <2>7. \/ sdkCall'[q] = call
        \/ /\ sdkCall'[q].answer = "unauthorized" => ~effect
           /\ request \in OnWire(call) /\ sdkCall'[q].pc = "answered"
    BY <1>1, <1>3, <2>3 DEF SdkCall
  <2>8. Once(sdkCall[q])'
    <3>1. CASE request \in OnWire(call)
      BY <2>1, <2>2, <2>3, <2>4, <2>6, <2>7, <3>1 DEF Once, Preparing
    <3>2. CASE request \notin OnWire(call)
      BY <2>1, <2>2, <2>3, <2>4, <2>6, <2>7, <3>2 DEF Once, Preparing
    <3> QED BY <3>1, <3>2
  <2>9. Counted(sdkCall[q])'
    BY <1>1, <1>3, <2>1, <2>2 DEF Counted, Preparing, SdkCall
  <2>10. GetsIn(q, sdkCall[q])'
    <3>1. CASE sdkCall'[q] = call
      BY <1>1, <2>1, <3>1 DEF GetsIn
    <3>2. CASE ~(sdkCall'[q] = call)
      <4>1. /\ call.pc = "wait" /\ request \in OnWire(call) /\ request.send = call.sends
            /\ sdkCall'[q].pc = "answered" /\ sdkCall'[q].answer = answer
            /\ sdkCall'[q].refreshed = call.refreshed /\ sdkCall'[q].token = call.token
            /\ sdkCall'[q].revoked = call.revoked
        BY <1>3, <2>3, <3>2 DEF SdkCall
      <4>2. request.token = call.token
        BY <2>1, <4>1 DEF Carried
      <4> QED BY <1>1, <2>1, <4>1, <4>2 DEF GetsIn
    <3> QED BY <3>1, <3>2
  <2> QED BY <2>5, <2>8, <2>9, <2>10
<1>7. CallsInv'
  BY <1>6 DEF CallsInv
<1> QED BY <1>4, <1>5, <1>7 DEF SdkInv

LEMMA AnswerStepKeeps ==
    ASSUME SdkInv, NEW p \in SdkProcesses,
           ConnectionFails(p) \/ Retry(p) \/ Refresh(p) \/ ReturnAnswer(p)
    PROVE  SdkInv'
<1> DEFINE call == sdkCall[p]
<1>1. call \in SdkCall /\ ~AtRest(p) /\ call.pc \in {"wait", "answered"}
  BY DEF ConnectionFails, Retry, Refresh, Refreshable, Resent, ReturnAnswer, SdkInv, SdkTypeOK, AtRest, SdkCall
<1>2. call.attempt \in Nat /\ call.sends \in Nat /\ sdk.retries \in Nat /\ call.attempt + 1 \in Nat
  <2>1. sdk.retries \in Nat
    BY DEF SdkInv, SdkTypeOK
  <2>2. call.sends \in Nat /\ call.attempt \in Nat
    BY <1>1 DEF SdkCall
  <2> HIDE DEF call
  <2> QED BY <2>1, <2>2
<1>3. Counted(call) /\ GetsIn(p, call)
  BY <1>1 DEF SdkInv, CallsInv
<1>4. CASE ConnectionFails(p)
  <2>1. UNCHANGED <<sdk, wire, effects, issued, accepted, young, memory, tokenFile>>
    BY <1>4 DEF ConnectionFails, SdkInv, SdkTypeOK, NoneIssued, Wired
  <2>2. PICK new \in SdkCall :
           /\ sdkCall' = [sdkCall EXCEPT ![p] = new]
           /\ new.pc = "answered" /\ new.answer = "failed" /\ new.id = call.id /\ new.method = call.method
           /\ new.sends = call.sends /\ new.attempt = call.attempt
           /\ new.refreshed = call.refreshed /\ new.token = call.token /\ new.revoked = call.revoked
    <3>1. [call EXCEPT !.pc = "answered", !.answer = "failed"] \in SdkCall
      BY <1>1, <1>2 DEF SdkCall
    <3>2. sdkCall' = [sdkCall EXCEPT ![p] = [call EXCEPT !.pc = "answered", !.answer = "failed"]]
      BY <1>4, <2>1 DEF ConnectionFails, SdkInv, SdkTypeOK
    <3> QED BY <1>1, <3>1, <3>2 DEF SdkCall
  <2>3. Counted(new) /\ GetsIn(p, new)'
    BY <1>1, <1>2, <1>3, <2>1, <2>2 DEF Counted, Preparing, GetsIn
  <2> HIDE DEF call
  <2> QED BY <1>1, <2>1, <2>2, <2>3, LocalStep DEF call, SdkInv, SdkTypeOK, Preparing
<1>5. CASE Retry(p)
  <2>1. /\ call.pc = "answered" /\ call.method = "PUT" /\ call.attempt < sdk.retries
        /\ UNCHANGED <<sdk, wire, effects, issued, accepted, young, memory, tokenFile>>
    BY <1>5 DEF Retry, Resent, Retryable, SdkInv, SdkTypeOK, NoneIssued, Wired
  <2>2. PICK new \in SdkCall :
           /\ sdkCall' = [sdkCall EXCEPT ![p] = new]
           /\ new.pc = "send" /\ new.answer = "none" /\ new.id = call.id /\ new.method = call.method
           /\ new.sends = call.sends /\ new.attempt = call.attempt + 1
           /\ new.refreshed = call.refreshed /\ new.token = call.token /\ new.revoked = call.revoked
    <3>1. [call EXCEPT !.pc = "send", !.attempt = call.attempt + 1, !.answer = "none"] \in SdkCall
      BY <1>1, <1>2 DEF SdkCall
    <3>2. sdkCall' = [sdkCall EXCEPT ![p] = [call EXCEPT !.pc = "send", !.attempt = call.attempt + 1, !.answer = "none"]]
      BY <1>5, <2>1 DEF Retry, SdkInv, SdkTypeOK
    <3> QED BY <1>1, <3>1, <3>2 DEF SdkCall
  <2>3. Counted(new) /\ GetsIn(p, new)'
    BY <1>1, <1>2, <1>3, <2>1, <2>2 DEF Counted, Preparing, GetsIn
  <2> HIDE DEF call
  <2> QED BY <1>1, <2>1, <2>2, <2>3, LocalStep DEF call, SdkInv, SdkTypeOK, Preparing
<1>6. CASE ReturnAnswer(p)
  <2>1. /\ call.pc = "answered"
        /\ sdk.provider = "secret" /\ call.answer = "unauthorized" => call.attempt # 0
        /\ UNCHANGED <<sdk, wire, effects, issued, accepted, young, memory, tokenFile>>
    BY <1>6 DEF ReturnAnswer, Refreshable, SdkInv, SdkTypeOK, NoneIssued, Wired
  <2>2. PICK new \in SdkCall :
           /\ sdkCall' = [sdkCall EXCEPT ![p] = new]
           /\ new.pc = "over" /\ new.answer = call.answer /\ new.id = call.id /\ new.method = call.method
           /\ new.sends = call.sends /\ new.attempt = call.attempt
           /\ new.refreshed = call.refreshed /\ new.token = call.token /\ new.revoked = call.revoked
    <3>1. [call EXCEPT !.pc = "over"] \in SdkCall
      BY <1>1, <1>2 DEF SdkCall
    <3>2. sdkCall' = [sdkCall EXCEPT ![p] = [call EXCEPT !.pc = "over"]]
      BY <1>6, <2>1 DEF ReturnAnswer, SdkInv, SdkTypeOK
    <3> QED BY <1>1, <3>1, <3>2 DEF SdkCall
  <2>3. Counted(new) /\ GetsIn(p, new)'
    BY <1>1, <1>2, <1>3, <2>1, <2>2 DEF Counted, Preparing, GetsIn
  <2> HIDE DEF call
  <2> QED BY <1>1, <2>1, <2>2, <2>3, LocalStep DEF call, SdkInv, SdkTypeOK, Preparing
<1>7. CASE Refresh(p)
  <2>1. /\ call.pc = "answered" /\ call.answer = "unauthorized" /\ call.attempt = 0
        /\ sdk.provider = "secret" => memory'[p] = 0 /\ tokenFile' = 0
        /\ memory' \in [SdkProcesses -> Nat] /\ tokenFile' \in Nat
        /\ UNCHANGED <<sdk, wire, effects, issued, accepted, young>>
    <3>1. /\ call.pc = "answered" /\ call.answer = "unauthorized" /\ call.attempt = 0
          /\ UNCHANGED <<sdk, wire, effects, issued, accepted, young>>
      BY <1>7 DEF Refresh, Refreshable, NoneIssued, Wired
    <3>2. memory \in [SdkProcesses -> Nat] /\ tokenFile \in Nat
      BY DEF SdkInv, SdkTypeOK
    <3>3. CASE sdk.provider = "bearer"
      <4>1. memory' = [memory EXCEPT ![p] = tokenFile] /\ tokenFile' = tokenFile
        BY <1>7, <3>3 DEF Refresh
      <4> HIDE DEF call
      <4> QED BY <3>1, <3>2, <3>3, <4>1
    <3>4. CASE sdk.provider # "bearer"
      <4>1. memory' = [memory EXCEPT ![p] = 0] /\ tokenFile' = 0
        BY <1>7, <3>4 DEF Refresh, Unlinked
      <4> HIDE DEF call
      <4> QED BY <3>1, <3>2, <4>1
    <3> HIDE DEF call
    <3> QED BY <3>3, <3>4
  <2>2. PICK new \in SdkCall :
           /\ sdkCall' = [sdkCall EXCEPT ![p] = new]
           /\ new.answer = "none" /\ new.id = call.id /\ new.method = call.method
           /\ new.sends = call.sends /\ new.attempt = call.attempt + 1
           /\ new.pc \in {"send", "token"} /\ (sdk.provider = "secret" => new.pc = "token")
    <3> DEFINE pc == IF sdk.provider = "bearer" THEN "send" ELSE "token"
               renewed == [call EXCEPT !.pc = pc, !.attempt = call.attempt + 1, !.answer = "none",
                                       !.refreshed = TRUE]
    <3>1. renewed \in SdkCall
      BY <1>1, <1>2 DEF SdkCall
    <3>2. sdkCall' = [sdkCall EXCEPT ![p] = renewed]
      BY <1>7 DEF Refresh, Spent, SdkInv, SdkTypeOK
    <3> QED BY <1>1, <3>1, <3>2 DEF SdkCall
  <2>3. Counted(new) /\ GetsIn(p, new)'
    BY <1>1, <1>2, <1>3, <2>1, <2>2 DEF Counted, Preparing, GetsIn
  <2> HIDE DEF call
  <2> QED BY <1>1, <2>1, <2>2, <2>3, LocalStep DEF call, SdkInv, SdkTypeOK, Preparing
<1> QED BY <1>4, <1>5, <1>6, <1>7

\* Tokens age, end and are replaced
LEMMA EnvironmentKeeps ==
    ASSUME SdkInv, (\E t \in 1 .. issued : TokenAges(t) \/ TokenEnds(t)) \/ NewTokenFile
    PROVE  SdkInv'
<1>1. CASE \E t \in 1 .. issued : TokenAges(t)
  <2>1. young' \subseteq young /\ UNCHANGED <<wire, effects, sdk, issued, accepted, memory, tokenFile, sdkCall>>
    BY <1>1 DEF TokenAges
  <2> QED BY <2>1 DEF SdkInv, SdkTypeOK, CallsDiffer, AtRest, CallsInv, Carried, OnWire, Once, Counted, GetsIn
<1>2. CASE NewTokenFile
  <2>1. /\ sdk.provider # "secret" /\ issued' = issued + 1 /\ accepted' = accepted \cup {issued + 1}
        /\ young' = young \cup {issued + 1} /\ tokenFile' = issued + 1
        /\ UNCHANGED <<wire, effects, sdk, memory, sdkCall>>
    BY <1>2 DEF NewTokenFile, Issue
  <2>2. SdkTypeOK'
    BY <2>1 DEF SdkInv, SdkTypeOK
  <2>3. CallsDiffer' /\ CallsInv'
    BY <2>1 DEF SdkInv, CallsDiffer, AtRest, CallsInv, Carried, OnWire, Once, Counted, GetsIn
  <2> QED BY <2>2, <2>3 DEF SdkInv
<1>3. ASSUME NEW t \in 1 .. issued, TokenEnds(t) PROVE SdkInv'
  <2>1. /\ accepted' = accepted \ {t} /\ UNCHANGED <<wire, effects, sdk, issued, young, memory, tokenFile>>
        /\ sdkCall' = [p \in SdkProcesses |-> IF AtRest(p) THEN sdkCall[p]
                                              ELSE [sdkCall[p] EXCEPT !.revoked = TRUE]]
    BY <1>3 DEF TokenEnds
  <2>2. \A p \in SdkProcesses :
           \/ AtRest(p) /\ sdkCall'[p] = sdkCall[p]
           \/ /\ ~AtRest(p) /\ sdkCall[p] \in SdkCall /\ sdkCall'[p] \in SdkCall
              /\ sdkCall'[p] = [sdkCall[p] EXCEPT !.revoked = TRUE]
    BY <2>1 DEF SdkInv, SdkTypeOK, SdkCall, AtRest
  <2>3. SdkTypeOK'
    <3>1. sdkCall' \in [SdkProcesses -> [pc : {"idle"}] \cup SdkCall]
      BY <2>1, <2>2 DEF SdkInv, SdkTypeOK
    <3> QED BY <2>1, <3>1 DEF SdkInv, SdkTypeOK
  <2>4. \A p \in SdkProcesses :
           /\ sdkCall'[p].pc = sdkCall[p].pc
           /\ sdkCall[p].pc # "idle" =>
                 /\ sdkCall'[p].id = sdkCall[p].id /\ sdkCall'[p].method = sdkCall[p].method
                 /\ sdkCall'[p].token = sdkCall[p].token /\ sdkCall'[p].sends = sdkCall[p].sends
                 /\ sdkCall'[p].attempt = sdkCall[p].attempt /\ sdkCall'[p].answer = sdkCall[p].answer
                 /\ sdkCall'[p].refreshed = sdkCall[p].refreshed
                 /\ sdkCall[p].pc # "over" => sdkCall'[p].revoked = TRUE
                 /\ sdkCall[p].pc = "over" => sdkCall'[p].revoked = sdkCall[p].revoked
    <3> SUFFICES ASSUME NEW p \in SdkProcesses
                 PROVE  /\ sdkCall'[p].pc = sdkCall[p].pc
                        /\ sdkCall[p].pc # "idle" =>
                              /\ sdkCall'[p].id = sdkCall[p].id /\ sdkCall'[p].method = sdkCall[p].method
                              /\ sdkCall'[p].token = sdkCall[p].token /\ sdkCall'[p].sends = sdkCall[p].sends
                              /\ sdkCall'[p].attempt = sdkCall[p].attempt /\ sdkCall'[p].answer = sdkCall[p].answer
                              /\ sdkCall'[p].refreshed = sdkCall[p].refreshed
                              /\ sdkCall[p].pc # "over" => sdkCall'[p].revoked = TRUE
                              /\ sdkCall[p].pc = "over" => sdkCall'[p].revoked = sdkCall[p].revoked
      OBVIOUS
    <3>1. CASE AtRest(p)
      BY <2>2, <3>1 DEF AtRest
    <3>2. CASE ~AtRest(p)
      <4>1. sdkCall[p] \in SdkCall /\ sdkCall'[p] = [sdkCall[p] EXCEPT !.revoked = TRUE] /\ sdkCall[p].pc # "over"
        BY <2>2, <3>2 DEF AtRest
      <4> QED BY <4>1 DEF SdkCall
    <3> QED BY <3>1, <3>2
  <2>5. CallsDiffer'
    BY <2>1, <2>4 DEF SdkInv, CallsDiffer, AtRest
  <2>6. ASSUME NEW p \in SdkProcesses, sdkCall'[p].pc # "idle"
        PROVE  Carried(sdkCall[p])' /\ Once(sdkCall[p])' /\ Counted(sdkCall[p])' /\ GetsIn(p, sdkCall[p])'
    <3>1. /\ sdkCall[p].pc # "idle" /\ Carried(sdkCall[p]) /\ Once(sdkCall[p])
          /\ Counted(sdkCall[p]) /\ GetsIn(p, sdkCall[p])
      BY <2>4, <2>6 DEF SdkInv, CallsInv
    <3>2. OnWire(sdkCall[p])' = OnWire(sdkCall[p])
      BY <2>1, <2>4, <3>1 DEF OnWire
    <3>3. Carried(sdkCall[p])' /\ Once(sdkCall[p])' /\ Counted(sdkCall[p])'
      <4> DEFINE old == sdkCall[p]
                 now == sdkCall'[p]
      <4>1. /\ now.pc = old.pc /\ now.id = old.id /\ now.method = old.method /\ now.token = old.token
            /\ now.sends = old.sends /\ now.attempt = old.attempt /\ now.answer = old.answer
        BY <2>4, <3>1
      <4>2. Carried(sdkCall[p])'
        BY <2>1, <3>1, <3>2, <4>1 DEF Carried
      <4>3. Once(sdkCall[p])'
        BY <2>1, <3>1, <3>2, <4>1 DEF Once
      <4>4. Counted(sdkCall[p])'
        BY <2>1, <3>1, <4>1 DEF Counted
      <4> QED BY <4>2, <4>3, <4>4
    <3>4. GetsIn(p, sdkCall[p])'
      <4> DEFINE old == sdkCall[p]
                 now == sdkCall'[p]
      <4>1. /\ now.pc = old.pc /\ now.token = old.token /\ now.attempt = old.attempt
            /\ now.answer = old.answer /\ now.refreshed = old.refreshed
            /\ old.pc # "over" => now.revoked = TRUE
            /\ old.pc = "over" => now.revoked = old.revoked
        BY <2>4, <3>1
      <4> QED BY <2>1, <3>1, <4>1 DEF GetsIn
    <3> QED BY <3>3, <3>4
  <2> QED BY <2>3, <2>5, <2>6 DEF SdkInv, CallsInv
<1> QED BY <1>1, <1>2, <1>3

LEMMA SdkInvariant == SdkSpec => []SdkInv
<1>1. SdkInit => SdkInv
  <2> SUFFICES ASSUME SdkInit PROVE SdkInv
    OBVIOUS
  <2>1. \A p \in SdkProcesses : sdkCall[p].pc = "idle"
    BY DEF SdkInit, NoSdkCall
  <2>2. SdkTypeOK
    <3>1. sdk \in [provider : Providers, retries : Nat, mode : SdkModes]
      BY TransportAssumption DEF SdkInit
    <3>2. effects \in Seq(Nat) /\ wire \subseteq [by : SdkProcesses, id : 1 .. Len(effects), send : Nat, token : Nat]
      BY DEF SdkInit
    <3>3. issued \in Nat /\ accepted \subseteq 1 .. issued /\ young \subseteq 1 .. issued
      BY DEF SdkInit
    <3>4. memory \in [SdkProcesses -> Nat] /\ tokenFile \in Nat
          /\ sdkCall \in [SdkProcesses -> [pc : {"idle"}] \cup SdkCall]
      BY DEF SdkInit, NoSdkCall
    <3> QED BY <3>1, <3>2, <3>3, <3>4 DEF SdkTypeOK
  <2> QED BY <2>1, <2>2 DEF SdkInv, CallsDiffer, CallsInv, AtRest
<1>2. SdkInv /\ [SdkNext]_sdkVars => SdkInv'
  <2> SUFFICES ASSUME SdkInv, [SdkNext]_sdkVars PROVE SdkInv'
    OBVIOUS
  <2>1. CASE UNCHANGED sdkVars
    BY <2>1 DEF sdkVars, SdkInv, SdkTypeOK, CallsDiffer, AtRest, CallsInv, Carried, OnWire, Once, Counted, GetsIn
  <2>2. CASE SdkNext
    BY <2>2, BeginSdkCallKeeps, TokenStepKeeps, SendRequestKeeps, ServeRequestKeeps, AnswerStepKeeps,
       EnvironmentKeeps DEF SdkNext
  <2> QED BY <2>1, <2>2
<1> QED BY <1>1, <1>2, PTL DEF SdkSpec

\* However many calls, retries and tokens: a POST takes effect at most once.
THEOREM PostsActOnce == SdkSpec => []PostTakesEffectOnce
<1>1. SdkInv => PostTakesEffectOnce
  BY DEF SdkInv, CallsInv, Once, PostTakesEffectOnce
<1> QED BY <1>1, SdkInvariant, PTL

\* Whatever OCMO_RETRIES is, it bounds what a call sends, refreshes included.
THEOREM RetriesEnd == SdkSpec => []SendsAreBounded
<1>1. SdkInv => SendsAreBounded
  BY DEF SdkInv, CallsInv, Counted, SendsAreBounded
<1> QED BY <1>1, SdkInvariant, PTL

\* With a client secret, a refused token has no second refusal unless one is revoked.
THEOREM RefreshHelps == SdkSpec => []RefreshedCallsGetIn
<1>1. SdkInv => RefreshedCallsGetIn
  BY DEF SdkInv, CallsInv, GetsIn, RefreshedCallsGetIn
<1> QED BY <1>1, SdkInvariant, PTL

-----------------------------------------------------------------------------
(* The audit events of a resolve: a participant is never saved under another *)
(* event than that of the resolve it belongs to                              *)

IsSeq(s) == s \in Seq({s[i] : i \in DOMAIN s})

\* What comes in place i of s follows the event of resolve p, with nothing but
\* participants between.
Follows(s, p, i) ==
    \E j \in 1 .. (i - 1) :
        /\ s[j].kind = "resolve" /\ s[j].call = p
        /\ \A k \in (j + 1) .. (i - 1) : s[k].kind = "participant"

InPlace(s) == \A i \in 1 .. Len(s) : s[i].kind = "participant" => Follows(s, s[i].parent, i)

\* A transaction holds the events saved since it was opened, inner ones fewer.
TransactionsNest ==
    /\ \A i \in 1 .. Len(running) :
         /\ running[i] = [call |-> running[i].call, above |-> running[i].above, txn |-> running[i].txn]
         /\ running[i].txn \in NoTxn .. Len(events)
    /\ \A i, j \in 1 .. Len(running) : i < j /\ running[j].txn # NoTxn => running[i].txn <= running[j].txn

\* While a resolve is recorded no call is running, and what is saved next
\* follows its event.
RecordingInv ==
    /\ IsSeq(events) /\ IsSeq(running)
    /\ TransactionsNest
    /\ InPlace(events)
    /\ recording # Idle => running = <<>> /\ Follows(events, recording.parent, Len(events) + 1)

\* Sequences by their places, whatever their elements are
LEMMA Appended ==
    ASSUME NEW s, IsSeq(s), NEW e
    PROVE  /\ IsSeq(Append(s, e)) /\ Len(s) \in Nat /\ Len(Append(s, e)) = Len(s) + 1
           /\ \A i \in 1 .. Len(s) : Append(s, e)[i] = s[i]
           /\ Append(s, e)[Len(s) + 1] = e
<1> DEFINE S == {s[i] : i \in DOMAIN s} \cup {e}
           t == Append(s, e)
<1>1. s \in Seq(S) /\ e \in S
  <2>1. {s[i] : i \in DOMAIN s} \subseteq S
    OBVIOUS
  <2>2. s \in Seq({s[i] : i \in DOMAIN s})
    BY DEF IsSeq
  <2> HIDE DEF S
  <2>3. s \in Seq(S)
    BY <2>1, <2>2
  <2> QED BY <2>3 DEF S
<1> HIDE DEF S
<1>2. /\ t \in Seq(S) /\ Len(s) \in Nat /\ Len(t) = Len(s) + 1
      /\ \A i \in 1 .. Len(s) : t[i] = s[i]
      /\ t[Len(s) + 1] = e
  BY <1>1
<1> HIDE DEF t
<1>3. IsSeq(t)
  BY <1>2 DEF IsSeq
<1> QED BY <1>2, <1>3 DEF t

LEMMA Shortened ==
    ASSUME NEW s, IsSeq(s), NEW n \in 0 .. Len(s)
    PROVE  /\ IsSeq(SubSeq(s, 1, n)) /\ Len(SubSeq(s, 1, n)) = n
           /\ \A i \in 1 .. n : SubSeq(s, 1, n)[i] = s[i]
<1> DEFINE S == {s[i] : i \in DOMAIN s}
           t == SubSeq(s, 1, n)
<1>1. s \in Seq(S)
  BY DEF IsSeq
<1> HIDE DEF S
<1>2. t \in Seq(S) /\ Len(t) = n /\ \A i \in 1 .. n : t[i] = s[i]
  BY <1>1
<1> HIDE DEF t
<1>3. IsSeq(t)
  BY <1>2 DEF IsSeq
<1> QED BY <1>2, <1>3 DEF t

\* Only what comes before a place decides what it follows.
LEMMA FollowsBefore ==
    ASSUME NEW s, NEW t, NEW n \in Nat, \A i \in 1 .. n : t[i] = s[i],
           NEW p, NEW i \in 1 .. n + 1
    PROVE  Follows(s, p, i) <=> Follows(t, p, i)
<1>1. \A j \in 1 .. (i - 1) : j \in 1 .. n
  OBVIOUS
<1>2. \A j \in 1 .. (i - 1) : \A k \in (j + 1) .. (i - 1) : k \in 1 .. n
  OBVIOUS
<1> QED BY <1>1, <1>2 DEF Follows

\* A saved event is in its place unless it is a participant's that follows
\* another resolve.
LEMMA InPlaceAppended ==
    ASSUME NEW s, IsSeq(s), InPlace(s), NEW e,
           e.kind = "participant" => Follows(s, e.parent, Len(s) + 1)
    PROVE  /\ InPlace(Append(s, e))
           /\ \A p : Follows(s, p, Len(s) + 1) /\ e.kind = "participant"
                       => Follows(Append(s, e), p, Len(s) + 2)
           /\ e.kind = "resolve" => Follows(Append(s, e), e.call, Len(s) + 2)
<1> DEFINE t == Append(s, e)
<1>1. /\ Len(s) \in Nat /\ Len(t) = Len(s) + 1
      /\ \A i \in 1 .. Len(s) : t[i] = s[i]
      /\ t[Len(s) + 1] = e
  BY Appended
<1> HIDE DEF t
<1>2. InPlace(t)
  <2> SUFFICES ASSUME NEW i \in 1 .. Len(t), t[i].kind = "participant"
               PROVE  Follows(t, t[i].parent, i)
    BY DEF InPlace
  <2>1. CASE i \in 1 .. Len(s)
    <3>1. Follows(s, s[i].parent, i)
      BY <1>1, <2>1 DEF InPlace
    <3> QED BY <1>1, <2>1, <3>1, FollowsBefore
  <2>2. CASE i = Len(s) + 1
    <3>1. Follows(s, t[i].parent, i)
      BY <1>1, <2>2
    <3> QED BY <1>1, <2>2, <3>1, FollowsBefore
  <2> QED BY <1>1, <2>1, <2>2
<1>3. ASSUME NEW p, Follows(s, p, Len(s) + 1), e.kind = "participant"
      PROVE  Follows(t, p, Len(s) + 2)
  <2>1. PICK j \in 1 .. Len(s) : /\ s[j].kind = "resolve" /\ s[j].call = p
                                 /\ \A k \in (j + 1) .. Len(s) : s[k].kind = "participant"
    BY <1>1, <1>3 DEF Follows
  <2>2. \A k \in (j + 1) .. Len(s) + 1 : t[k].kind = "participant"
    <3> TAKE k \in (j + 1) .. Len(s) + 1
    <3>1. k = Len(s) + 1 \/ (k \in (j + 1) .. Len(s) /\ k \in 1 .. Len(s))
      BY <1>1
    <3> QED BY <1>1, <1>3, <2>1, <3>1
  <2>3. j \in 1 .. Len(s) + 2 - 1 /\ Len(s) + 2 - 1 = Len(s) + 1
    BY <1>1
  <2> QED BY <1>1, <2>1, <2>2, <2>3 DEF Follows
<1>4. ASSUME e.kind = "resolve" PROVE Follows(t, e.call, Len(s) + 2)
  <2>1. Len(s) + 1 \in 1 .. Len(s) + 2 - 1
    BY <1>1
  <2>2. \A k \in (Len(s) + 1 + 1) .. Len(s) + 2 - 1 : FALSE
    BY <1>1
  <2> QED BY <1>1, <1>4, <2>1, <2>2 DEF Follows
<1> QED BY <1>2, <1>3, <1>4 DEF t

\* A shorter sequence has no more to answer for.
LEMMA InPlaceShortened ==
    ASSUME NEW s, IsSeq(s), InPlace(s), NEW n \in 0 .. Len(s)
    PROVE  InPlace(SubSeq(s, 1, n))
<1> DEFINE t == SubSeq(s, 1, n)
<1>1. Len(t) = n /\ \A i \in 1 .. n : t[i] = s[i]
  BY Shortened
<1>2. Len(s) \in Nat
  BY Appended
<1> HIDE DEF t
<1>3. \A i \in 1 .. n : i \in 1 .. Len(s) /\ i \in 1 .. n + 1
  BY <1>2
<1>4. InPlace(t)
  <2> SUFFICES ASSUME NEW i \in 1 .. n, t[i].kind = "participant"
               PROVE  Follows(t, t[i].parent, i)
    BY <1>1 DEF InPlace
  <2>1. Follows(s, s[i].parent, i) /\ t[i] = s[i]
    BY <1>1, <1>3 DEF InPlace
  <2> QED BY <1>1, <1>2, <1>3, <2>1, FollowsBefore
<1> QED BY <1>4 DEF t


Put(s, n, e) == [s EXCEPT ![n] = e]

LEMMA Replaced ==
    ASSUME NEW s, IsSeq(s), NEW n \in 1 .. Len(s), NEW e
    PROVE  /\ IsSeq(Put(s, n, e)) /\ Len(Put(s, n, e)) = Len(s) /\ Len(s) \in Nat
           /\ \A i \in 1 .. Len(s) : Put(s, n, e)[i] = IF i = n THEN e ELSE s[i]
<1> DEFINE S == {s[i] : i \in DOMAIN s} \cup {e}
           t == Put(s, n, e)
<1>1. s \in Seq(S) /\ e \in S
  <2>1. s \in Seq({s[i] : i \in DOMAIN s}) /\ {s[i] : i \in DOMAIN s} \subseteq S
    BY DEF IsSeq
  <2> HIDE DEF S
  <2>2. s \in Seq(S)
    BY <2>1
  <2> QED BY <2>2 DEF S
<1> HIDE DEF S
<1>2. /\ t \in Seq(S) /\ Len(t) = Len(s) /\ Len(s) \in Nat
      /\ \A i \in 1 .. Len(s) : t[i] = IF i = n THEN e ELSE s[i]
  BY <1>1 DEF Put
<1> HIDE DEF t
<1>3. IsSeq(t)
  BY <1>2 DEF IsSeq
<1> QED BY <1>2, <1>3 DEF t

LEMMA RecordingInit == AuditInit => RecordingInv
<1> SUFFICES ASSUME AuditInit PROVE RecordingInv
  OBVIOUS
<1>1. events = <<>> /\ running = <<>> /\ recording = Idle
  BY DEF AuditInit
<1>2. Len(events) = 0 /\ Len(running) = 0 /\ IsSeq(events) /\ IsSeq(running)
  BY <1>1 DEF IsSeq
<1> QED BY <1>1, <1>2 DEF RecordingInv, TransactionsNest, InPlace

LEMMA RecordingStep == RecordingInv /\ [AuditNext]_auditVars => RecordingInv'
<1> SUFFICES ASSUME RecordingInv, [AuditNext]_auditVars PROVE RecordingInv'
  OBVIOUS
<1>0. /\ IsSeq(events) /\ IsSeq(running) /\ TransactionsNest /\ InPlace(events)
      /\ recording # Idle => running = <<>> /\ Follows(events, recording.parent, Len(events) + 1)
      /\ Len(events) \in Nat /\ Len(running) \in Nat
  BY Appended DEF RecordingInv
<1>a. ASSUME running # <<>> PROVE Len(running) \in 1 .. Len(running) /\ recording = Idle
  BY <1>0, <1>a DEF IsSeq
<1>s. ASSUME UNCHANGED <<events, running>>, recording' = recording \/ recording' = Idle PROVE RecordingInv'
  <2>1. TransactionsNest'
    BY <1>0, <1>s DEF TransactionsNest
  <2>2. recording' # Idle => recording' = recording
    BY <1>s DEF Idle
  <2> QED BY <1>0, <1>s, <2>1, <2>2 DEF RecordingInv, Idle
<1>1. CASE \E resolves, skip \in BOOLEAN : BeginAudited(resolves, skip)
  <2>1. PICK e : /\ running' = Append(running, e) /\ UNCHANGED <<events, recording>> /\ recording = Idle
                 /\ e = [call |-> e.call, above |-> e.above, txn |-> NoTxn]
    BY <1>1 DEF BeginAudited
  <2>2. /\ IsSeq(running') /\ Len(running') = Len(running) + 1
        /\ \A i \in 1 .. Len(running) : running'[i] = running[i]
        /\ running'[Len(running) + 1] = e
    BY <1>0, <2>1, Appended
  <2>3. e.txn = NoTxn /\ NoTxn \in NoTxn .. Len(events)
    BY <1>0, <2>1 DEF NoTxn
  <2>4. TransactionsNest'
    BY <1>0, <2>1, <2>2, <2>3 DEF TransactionsNest, NoTxn
  <2> QED BY <1>0, <2>1, <2>2, <2>4 DEF RecordingInv, Idle
<1>2. CASE OpenTransaction
  <2> DEFINE n == Len(running)
             changed == [running[n] EXCEPT !.txn = Len(events)]
  <2>1. /\ running # <<>> /\ UNCHANGED <<events, recording>>
        /\ running' = [running EXCEPT ![n] = changed]
    BY <1>2 DEF OpenTransaction
  <2>2. n \in 1 .. n /\ recording = Idle
    BY <1>a, <2>1
  <2>3. changed = [call |-> changed.call, above |-> changed.above, txn |-> changed.txn] /\ changed.txn = Len(events)
    <3>1. running[n] = [call |-> running[n].call, above |-> running[n].above, txn |-> running[n].txn]
      BY <1>0, <2>2 DEF TransactionsNest
    <3> HIDE DEF n
    <3> QED BY <3>1
  <2> HIDE DEF changed
  <2>4. /\ IsSeq(running') /\ Len(running') = n
        /\ \A i \in 1 .. n : running'[i] = IF i = n THEN changed ELSE running[i]
    <3>1. n \in 1 .. Len(running) /\ n = Len(running)
      BY <2>2
    <3> HIDE DEF n
    <3>2. running' = Put(running, n, changed)
      BY <2>1 DEF Put
    <3> QED BY <1>0, <3>1, <3>2, Replaced
  <2>5. TransactionsNest'
    BY <1>0, <2>1, <2>2, <2>3, <2>4 DEF TransactionsNest, NoTxn
  <2> QED BY <1>0, <2>1, <2>2, <2>4, <2>5 DEF RecordingInv, Idle
<1>3. CASE CloseTransaction
  <2> DEFINE n == Len(running)
             m == running[n].txn
             changed == [running[n] EXCEPT !.txn = NoTxn]
  <2>1. /\ running # <<>> /\ UNCHANGED recording /\ m # NoTxn
        /\ running' = [running EXCEPT ![n] = changed]
        /\ events' = events \/ events' = SubSeq(events, 1, m)
    BY <1>3 DEF CloseTransaction, Inner, Last
  <2>2. n \in 1 .. n /\ recording = Idle
    BY <1>a, <2>1
  <2>3. /\ changed = [call |-> changed.call, above |-> changed.above, txn |-> changed.txn] /\ changed.txn = NoTxn
        /\ m \in 0 .. Len(events)
    <3>1. /\ running[n] = [call |-> running[n].call, above |-> running[n].above, txn |-> running[n].txn]
          /\ running[n].txn \in NoTxn .. Len(events)
      BY <1>0, <2>2 DEF TransactionsNest
    <3>2. changed = [call |-> changed.call, above |-> changed.above, txn |-> changed.txn] /\ changed.txn = NoTxn
      <4> HIDE DEF n
      <4> QED BY <3>1
    <3> QED BY <1>0, <2>1, <3>1, <3>2 DEF NoTxn
  <2> HIDE DEF changed
  <2>4. /\ IsSeq(running') /\ Len(running') = n
        /\ \A i \in 1 .. n : running'[i] = IF i = n THEN changed ELSE running[i]
    <3>1. n \in 1 .. Len(running) /\ n = Len(running)
      BY <2>2
    <3> HIDE DEF n
    <3>2. running' = Put(running, n, changed)
      BY <2>1 DEF Put
    <3> QED BY <1>0, <3>1, <3>2, Replaced
  <2>5. /\ IsSeq(events') /\ InPlace(events') /\ Len(events') \in m .. Len(events)
    <3>1. CASE events' = events
      BY <1>0, <2>3, <3>1
    <3>2. CASE events' = SubSeq(events, 1, m)
      <4> HIDE DEF m
      <4> QED BY <1>0, <2>3, <3>2, Shortened, InPlaceShortened
    <3> QED BY <2>1, <3>1, <3>2
  <2>6. TransactionsNest'
    <3>1. \A i \in 1 .. n : i = n \/ running[i].txn <= m
      BY <1>0, <2>1, <2>2 DEF TransactionsNest
    <3> QED BY <1>0, <2>2, <2>3, <2>4, <2>5, <3>1 DEF TransactionsNest, NoTxn
  <2> QED BY <1>0, <2>1, <2>2, <2>4, <2>5, <2>6 DEF RecordingInv, Idle
<1>4. ASSUME NEW e, events' = Append(events, e), UNCHANGED running,
             e.kind = "participant" => Follows(events, e.parent, Len(events) + 1),
             recording' # Idle => /\ running = <<>>
                                  /\ \/ e.kind = "participant" /\ e.parent = recording'.parent
                                     \/ e.kind = "resolve" /\ e.call = recording'.parent
      PROVE  RecordingInv'
  <2>1. IsSeq(events') /\ Len(events') = Len(events) + 1
    BY <1>0, <1>4, Appended
  <2>2. /\ InPlace(events')
        /\ \A p : Follows(events, p, Len(events) + 1) /\ e.kind = "participant" => Follows(events', p, Len(events) + 2)
        /\ e.kind = "resolve" => Follows(events', e.call, Len(events) + 2)
    BY <1>0, <1>4, InPlaceAppended
  <2>3. recording' # Idle => Follows(events', recording'.parent, Len(events') + 1)
    <3>1. Len(events') + 1 = Len(events) + 2
      BY <1>0, <2>1
    <3> QED BY <1>4, <2>2, <3>1
  <2>4. TransactionsNest'
    BY <1>0, <1>4, <2>1 DEF TransactionsNest, NoTxn
  <2> QED BY <1>0, <1>4, <2>1, <2>2, <2>3, <2>4 DEF RecordingInv, Idle
<1>5. CASE \E o \in {"ok"} \cup Exceptions : EndAudited(o)
  <2>1. PICK e : /\ running # <<>> /\ running' = SubSeq(running, 1, Len(running) - 1) /\ UNCHANGED recording
                 /\ events' = events \/ events' = Append(events, e)
                 /\ e.kind = "operation"
    BY <1>5 DEF EndAudited, SaveDraft, Front
  <2>2. recording = Idle /\ Len(running) - 1 \in 0 .. Len(running)
    BY <1>a, <2>1
  <2>3. /\ IsSeq(running') /\ Len(running') = Len(running) - 1
        /\ \A i \in 1 .. Len(running) - 1 : running'[i] = running[i] /\ i \in 1 .. Len(running)
    <3> DEFINE n == Len(running) - 1
    <3>1. n \in 0 .. Len(running) /\ running' = SubSeq(running, 1, n)
      BY <2>1, <2>2
    <3>2. \A i \in 1 .. n : i \in 1 .. Len(running)
      BY <1>0
    <3> HIDE DEF n
    <3>3. IsSeq(running') /\ Len(running') = n /\ \A i \in 1 .. n : running'[i] = running[i]
      BY <1>0, <3>1, Shortened
    <3> QED BY <3>2, <3>3 DEF n
  <2>4. IsSeq(events') /\ InPlace(events') /\ Len(events') \in Nat /\ Len(events) <= Len(events')
    <3>1. CASE events' = events
      BY <1>0, <3>1
    <3>2. CASE events' = Append(events, e)
      <4>1. IsSeq(events') /\ Len(events') = Len(events) + 1
        BY <1>0, <3>2, Appended
      <4>2. InPlace(events')
        BY <1>0, <2>1, <3>2, InPlaceAppended
      <4> QED BY <1>0, <4>1, <4>2
    <3> QED BY <2>1, <3>1, <3>2
  <2>5. TransactionsNest'
    BY <1>0, <2>1, <2>3, <2>4 DEF TransactionsNest, NoTxn
  <2> QED BY <1>0, <2>1, <2>2, <2>3, <2>4, <2>5 DEF RecordingInv, Idle
<1>6. CASE RecordResolve
  <2>1. PICK e : /\ running = <<>> /\ UNCHANGED running
                 /\ events' = events \/ events' = Append(events, e)
                 /\ e.kind = "resolve" /\ e.call = Begun + 1
    BY <1>6 DEF RecordResolve, Record, SaveDraft
  <2>2. recording' = IF Len(events') > Len(events)
                     THEN [root |-> Begun + 1, parent |-> Begun + 1] ELSE Idle
    BY <1>6 DEF RecordResolve
  <2>3. CASE events' = events
    BY <1>0, <1>s, <2>1, <2>2, <2>3
  <2>4. CASE events' = Append(events, e)
    <3>1. Len(events') = Len(events) + 1
      BY <1>0, <2>4, Appended
    <3>2. recording'.parent = Begun + 1
      BY <1>0, <2>2, <3>1
    <3> QED BY <1>4, <2>1, <2>4, <3>2
  <2> QED BY <2>1, <2>3, <2>4
<1>7. CASE RecordParticipant
  <2>1. PICK e : /\ recording # Idle /\ UNCHANGED <<running, recording>>
                 /\ events' = events \/ events' = Append(events, e)
                 /\ e.kind = "participant" /\ e.parent = recording.parent
    BY <1>7 DEF RecordParticipant, Record, SaveDraft, ParentEvent
  <2> QED BY <1>0, <1>4, <1>s, <2>1
<1>8. CASE Enrich \/ CatchRaised \/ (\E e \in Exceptions : RaiseInside(e)) \/ EndRecording \/ UNCHANGED auditVars
  BY <1>8, <1>s DEF Enrich, CatchRaised, RaiseInside, EndRecording, auditVars
<1> QED BY <1>1, <1>2, <1>3, <1>5, <1>6, <1>7, <1>8 DEF AuditNext

\* Each participant hangs under the event of its own resolve, which is stored:
\* a rolled back transaction cannot take the event of a resolve away from its
\* participants, however calls nest and whichever inserts fail.
THEOREM ParticipantsKeepTheirResolve ==
    AuditSpec => []ParticipantsHaveTheirResolve
<1>1. RecordingInv => ParticipantsHaveTheirResolve
  <2> SUFFICES ASSUME RecordingInv, NEW i \in DOMAIN events, events[i].kind = "participant"
               PROVE  Follows(events, events[i].parent, i)
    BY DEF ParticipantsHaveTheirResolve, Follows
  <2>1. i \in 1 .. Len(events)
    BY DEF RecordingInv, IsSeq
  <2> QED BY <2>1 DEF RecordingInv, InPlace
<1> QED BY RecordingInit, RecordingStep, <1>1, PTL DEF AuditSpec

-----------------------------------------------------------------------------
(* Drafts and contexts: each call has its own, and a lost event costs only *)
(* the calls around it theirs                                              *)

\* The drafts of the request, the current one last
Drafts == IF draft = NoDraft THEN waiting ELSE Append(waiting, draft)

\* The calls that have a draft, that are running, that have an event
Open   == {Drafts[i].call : i \in 1 .. Len(Drafts)}
Active == {running[i].call : i \in 1 .. Len(running)}
Stored == {events[i].call : i \in 1 .. Len(events)}

\* The calls that were running when a call began
Within(c) == {auditHistory[c].inside[i] : i \in DOMAIN auditHistory[c].inside}

\* No insert of a call that it made has failed
Clean(c) == \A d \in 1 .. Begun : auditHistory[d].lost => c \notin Within(d)

Increasing(s) == \A i, j \in 1 .. Len(s) : i < j => s[i].call < s[j].call

IsHistory(h) ==
    /\ h = [audited |-> h.audited, said |-> h.said, outcome |-> h.outcome,
            lost |-> h.lost, undone |-> h.undone, inside |-> h.inside]
    /\ h.audited \in BOOLEAN /\ h.said \in BOOLEAN /\ h.lost \in BOOLEAN /\ h.undone \in BOOLEAN

AuditTypes ==
    /\ IsSeq(auditHistory) /\ IsSeq(waiting)
    /\ Begun <= MaxAudited
    /\ \A c \in 1 .. Begun : IsHistory(auditHistory[c]) /\ Within(c) \subseteq 1 .. Begun /\ c \notin Within(c)

\* Calls nest: the calls around a running call are those it is within, and a
\* call within one is within those around it.
CallsNest ==
    /\ Increasing(running)
    /\ \A i \in 1 .. Len(running) :
         /\ running[i].call \in 1 .. Begun
         /\ \A j \in 1 .. Len(running) : j < i => running[j].call \in Within(running[i].call)
    /\ \A d \in 1 .. Begun : \A i, j \in 1 .. Len(running) :
         i < j /\ running[j].call \in Within(d) => running[i].call \in Within(d)

\* The context of the innermost audited call among the first i
ContextAfter(i) ==
    IF i = 0 THEN 0
    ELSE IF auditHistory[running[i].call].audited THEN running[i].call ELSE running[i].above

\* The context of an audited call among the first i
Around(x, i) == x = 0 \/ \E j \in 1 .. i : running[j].call = x /\ auditHistory[x].audited

Contexts ==
    /\ \A i \in 1 .. Len(running) :
         running[i].above = ContextAfter(i - 1) /\ Around(running[i].above, i - 1)
    /\ context = ContextAfter(Len(running)) /\ Around(context, Len(running))
    /\ added \in [Call -> SUBSET (1 .. Begun)]
    /\ \A c \in Call : c \notin 1 .. Begun => added[c] = {}
    /\ \A c \in 1 .. Begun :
         /\ auditHistory[c].audited => (auditHistory[c].said <=> c \in added[c])
         /\ \A d \in added[c] \ {c} : ~auditHistory[d].audited

DraftsInOrder ==
    /\ Increasing(Drafts)
    /\ \A i \in 1 .. Len(Drafts) :
         /\ Drafts[i] = DraftOf(Drafts[i].call)
         /\ Drafts[i].call \in 1 .. Begun /\ auditHistory[Drafts[i].call].audited

OneEventEach ==
    /\ \A i \in 1 .. Len(events) :
         /\ events[i].call \in 1 .. Begun /\ auditHistory[events[i].call].audited
         /\ events[i].call \notin Open
    /\ \A i, j \in 1 .. Len(events) : i # j => events[i].call # events[j].call

\* A call that has lost no event of a call it made has its draft as long as it
\* runs, below the drafts of running calls only, and then its event.
CleanKept ==
    \A c \in 1 .. Begun : auditHistory[c].audited /\ Clean(c) =>
        IF c \in Active
        THEN c \in Open /\ draft # NoDraft /\ \A d \in Open : d > c => d \in Active
        ELSE c \in Stored \/ auditHistory[c].undone \/ auditHistory[c].lost

Telling ==
    (\A c \in 1 .. Begun : ~auditHistory[c].lost) =>
        \A i \in 1 .. Len(events) :
            /\ events[i].call \notin Active
            /\ events[i].outcome = auditHistory[events[i].call].outcome
            /\ events[i].kind = "operation" => events[i].added = added[events[i].call]

AuditInv ==
    /\ RecordingInv
    /\ AuditTypes /\ CallsNest /\ Contexts /\ DraftsInOrder /\ OneEventEach /\ CleanKept /\ Telling

\* The drafts by their places
LEMMA DraftsByPlace ==
    ASSUME AuditTypes, DraftsInOrder
    PROVE  /\ IsSeq(Drafts) /\ Len(Drafts) \in Nat /\ Len(waiting) \in Nat /\ Begun \in Nat
           /\ \A i \in 1 .. Len(waiting) : Drafts[i] = waiting[i] /\ i \in 1 .. Len(Drafts)
           /\ IF draft = NoDraft THEN Len(Drafts) = Len(waiting)
              ELSE Len(Drafts) = Len(waiting) + 1 /\ Drafts[Len(waiting) + 1] = draft
<1>0. IsSeq(waiting) /\ Len(waiting) \in Nat /\ Begun \in Nat
  BY Appended DEF AuditTypes, Begun
<1>1. CASE draft = NoDraft
  BY <1>0, <1>1 DEF Drafts
<1>2. CASE draft # NoDraft
  <2>1. Drafts = Append(waiting, draft)
    BY <1>2 DEF Drafts
  <2>2. /\ IsSeq(Drafts) /\ Len(Drafts) = Len(waiting) + 1
        /\ \A i \in 1 .. Len(waiting) : Drafts[i] = waiting[i]
        /\ Drafts[Len(waiting) + 1] = draft
    BY <1>0, <2>1, Appended
  <2> QED BY <1>0, <1>2, <2>2
<1> QED BY <1>1, <1>2

\* What save leaves: the drafts below, the last of them current unless the
\* insert has failed
LEMMA Saved ==
    ASSUME NEW d, NEW stack, NEW event, NEW history, SaveDraft(d, stack, event, history),
           IsSeq(stack), \A i \in 1 .. Len(stack) : stack[i] # NoDraft
    PROVE  /\ Len(Drafts') = Len(stack) /\ IsSeq(waiting')
           /\ \A i \in 1 .. Len(stack) : Drafts'[i] = stack[i]
           /\ \/ /\ events' = Append(events, event) /\ auditHistory' = history
                 /\ Len(stack) > 0 => draft' # NoDraft
              \/ /\ events' = events /\ draft' = NoDraft
                 /\ auditHistory' = [history EXCEPT ![d.call].lost = TRUE]
<1>0. Len(stack) \in Nat
  BY Appended
<1>1. CASE draft' = NoDraft /\ waiting' = stack /\ UNCHANGED events
           /\ auditHistory' = [history EXCEPT ![d.call].lost = TRUE]
  BY <1>0, <1>1 DEF Drafts
<1>2. CASE events' = Append(events, event) /\ auditHistory' = history
           /\ draft' = Popped(d, stack)[1] /\ waiting' = Popped(d, stack)[2]
  <2>1. CASE stack = <<>>
    <3>1. draft' = NoDraft /\ waiting' = stack
      BY <1>2, <2>1 DEF Popped
    <3>2. Len(stack) = 0
      BY <2>1
    <3> QED BY <1>2, <3>1, <3>2 DEF Drafts
  <2>2. CASE stack # <<>>
    <3> DEFINE n == Len(stack) - 1
    <3>1. n \in 0 .. Len(stack) /\ n + 1 = Len(stack) /\ n + 1 \in 1 .. Len(stack) /\ n \in Nat
      BY <1>0, <2>2 DEF IsSeq
    <3>2. draft' = stack[n + 1] /\ waiting' = SubSeq(stack, 1, n)
      <4>1. draft' = Last(stack) /\ waiting' = Front(stack)
        BY <1>2, <2>2 DEF Popped
      <4> QED BY <3>1, <4>1 DEF Last, Front
    <3> HIDE DEF n
    <3>3. IsSeq(waiting') /\ Len(waiting') = n /\ \A i \in 1 .. n : waiting'[i] = stack[i]
      BY <3>1, <3>2, Shortened
    <3>4. draft' # NoDraft
      BY <3>1, <3>2
    <3>5. Drafts' = Append(waiting', draft')
      BY <3>4 DEF Drafts
    <3>6. Len(Drafts') = n + 1 /\ Drafts'[n + 1] = draft' /\ \A i \in 1 .. n : Drafts'[i] = waiting'[i]
      BY <3>3, <3>5, Appended
    <3>7. \A i \in 1 .. n + 1 : i \in 1 .. n \/ i = n + 1
      BY <3>1
    <3> QED BY <1>2, <3>1, <3>2, <3>3, <3>4, <3>6, <3>7
  <2> QED BY <2>1, <2>2
<1> QED BY <1>1, <1>2 DEF SaveDraft

LEMMA HistoryGrows ==
    ASSUME AuditTypes, NEW h, auditHistory' = Append(auditHistory, h)
    PROVE  /\ IsSeq(auditHistory') /\ Begun \in Nat /\ Begun' = Begun + 1
           /\ \A c \in 1 .. Begun : auditHistory'[c] = auditHistory[c] /\ Within(c)' = Within(c)
           /\ auditHistory'[Begun + 1] = h
<1>1. /\ IsSeq(auditHistory') /\ Begun \in Nat /\ Len(auditHistory') = Begun + 1
      /\ \A c \in 1 .. Begun : auditHistory'[c] = auditHistory[c]
      /\ auditHistory'[Begun + 1] = h
  BY Appended DEF AuditTypes, Begun
<1> QED BY <1>1 DEF Within, Begun

LEMMA HistoryPut ==
    ASSUME AuditTypes, NEW n \in 1 .. Begun, NEW h, auditHistory' = Put(auditHistory, n, h)
    PROVE  /\ IsSeq(auditHistory') /\ Begun \in Nat /\ Begun' = Begun
           /\ \A c \in 1 .. Begun : auditHistory'[c] = IF c = n THEN h ELSE auditHistory[c]
BY Replaced DEF AuditTypes, Begun

\* What a row says is not changed where another field of it is set.
LEMMA RowOutcome ==
    ASSUME NEW h, IsHistory(h), NEW v
    PROVE  LET k == [h EXCEPT !.outcome = v] IN
             /\ IsHistory(k) /\ k.outcome = v /\ k.inside = h.inside
             /\ k.audited = h.audited /\ k.said = h.said /\ k.lost = h.lost /\ k.undone = h.undone
<1> DEFINE a == h.audited
           s == h.said
           o == h.outcome
           l == h.lost
           u == h.undone
           w == h.inside
<1>1. h = [audited |-> a, said |-> s, outcome |-> o, lost |-> l, undone |-> u, inside |-> w]
  BY DEF IsHistory
<1>2. a \in BOOLEAN /\ s \in BOOLEAN /\ l \in BOOLEAN /\ u \in BOOLEAN
  BY DEF IsHistory
<1> HIDE DEF a, s, o, l, u, w
<1>3. LET k == [h EXCEPT !.outcome = v] IN
        k = [audited |-> a, said |-> s, outcome |-> v, lost |-> l, undone |-> u, inside |-> w]
  BY <1>1
<1> QED BY <1>1, <1>2, <1>3 DEF IsHistory, a, s, o, l, u, w

LEMMA RowSaid ==
    ASSUME NEW h, IsHistory(h), NEW v \in BOOLEAN
    PROVE  LET k == [h EXCEPT !.said = v] IN
             /\ IsHistory(k) /\ k.said = v /\ k.inside = h.inside
             /\ k.audited = h.audited /\ k.outcome = h.outcome /\ k.lost = h.lost /\ k.undone = h.undone
<1> DEFINE a == h.audited
           s == h.said
           o == h.outcome
           l == h.lost
           u == h.undone
           w == h.inside
<1>1. h = [audited |-> a, said |-> s, outcome |-> o, lost |-> l, undone |-> u, inside |-> w]
  BY DEF IsHistory
<1>2. a \in BOOLEAN /\ s \in BOOLEAN /\ l \in BOOLEAN /\ u \in BOOLEAN
  BY DEF IsHistory
<1> HIDE DEF a, s, o, l, u, w
<1>3. LET k == [h EXCEPT !.said = v] IN
        k = [audited |-> a, said |-> v, outcome |-> o, lost |-> l, undone |-> u, inside |-> w]
  BY <1>1
<1> QED BY <1>1, <1>2, <1>3 DEF IsHistory, a, s, o, l, u, w

LEMMA RowLost ==
    ASSUME NEW h, IsHistory(h), NEW v \in BOOLEAN
    PROVE  LET k == [h EXCEPT !.lost = v] IN
             /\ IsHistory(k) /\ k.lost = v /\ k.inside = h.inside
             /\ k.audited = h.audited /\ k.outcome = h.outcome /\ k.said = h.said /\ k.undone = h.undone
<1> DEFINE a == h.audited
           s == h.said
           o == h.outcome
           l == h.lost
           u == h.undone
           w == h.inside
<1>1. h = [audited |-> a, said |-> s, outcome |-> o, lost |-> l, undone |-> u, inside |-> w]
  BY DEF IsHistory
<1>2. a \in BOOLEAN /\ s \in BOOLEAN /\ l \in BOOLEAN /\ u \in BOOLEAN
  BY DEF IsHistory
<1> HIDE DEF a, s, o, l, u, w
<1>3. LET k == [h EXCEPT !.lost = v] IN
        k = [audited |-> a, said |-> s, outcome |-> o, lost |-> v, undone |-> u, inside |-> w]
  BY <1>1
<1> QED BY <1>1, <1>2, <1>3 DEF IsHistory, a, s, o, l, u, w

LEMMA RowUndone ==
    ASSUME NEW h, IsHistory(h), NEW v \in BOOLEAN
    PROVE  LET k == [h EXCEPT !.undone = v] IN
             /\ IsHistory(k) /\ k.undone = v /\ k.inside = h.inside
             /\ k.audited = h.audited /\ k.outcome = h.outcome /\ k.said = h.said /\ k.lost = h.lost
<1> DEFINE a == h.audited
           s == h.said
           o == h.outcome
           l == h.lost
           u == h.undone
           w == h.inside
<1>1. h = [audited |-> a, said |-> s, outcome |-> o, lost |-> l, undone |-> u, inside |-> w]
  BY DEF IsHistory
<1>2. a \in BOOLEAN /\ s \in BOOLEAN /\ l \in BOOLEAN /\ u \in BOOLEAN
  BY DEF IsHistory
<1> HIDE DEF a, s, o, l, u, w
<1>3. LET k == [h EXCEPT !.undone = v] IN
        k = [audited |-> a, said |-> s, outcome |-> o, lost |-> l, undone |-> v, inside |-> w]
  BY <1>1
<1> QED BY <1>1, <1>2, <1>3 DEF IsHistory, a, s, o, l, u, w

\* Calls that are left running still nest, and their contexts are the same.
LEMMA CallsLeft ==
    ASSUME AuditInv, NEW m \in 0 .. Len(running), Len(running') = m,
           \A i \in 1 .. m : /\ running'[i].call = running[i].call
                             /\ running'[i].above = running[i].above,
           Begun' = Begun,
           \A c \in 1 .. Begun : /\ auditHistory'[c].audited = auditHistory[c].audited
                                 /\ Within(c)' = Within(c)
    PROVE  /\ CallsNest' /\ Active' = {running[i].call : i \in 1 .. m}
           /\ \A i \in 0 .. m : /\ ContextAfter(i)' = ContextAfter(i)
                               /\ \A x : Around(x, i)' <=> Around(x, i)
           /\ \A i \in 1 .. m : running'[i].above = ContextAfter(i - 1)' /\ Around(running[i].above, i - 1)'
<1>0. Len(running) \in Nat /\ m \in Nat /\ \A i \in 1 .. m : i \in 1 .. Len(running)
  BY Appended DEF AuditInv, RecordingInv
<1>n. CallsNest /\ Contexts
  BY DEF AuditInv
<1>1. CallsNest'
  BY <1>0, <1>n DEF CallsNest, Increasing
<1>2. Active' = {running[i].call : i \in 1 .. m}
  BY DEF Active
<1>3. ASSUME NEW i \in 0 .. m PROVE ContextAfter(i)' = ContextAfter(i)
  <2>1. CASE i = 0
    BY <2>1 DEF ContextAfter
  <2>2. CASE i # 0
    <3>1. i \in 1 .. m /\ i \in 1 .. Len(running)
      BY <1>0, <2>2
    <3>2. running[i].call \in 1 .. Begun
      BY <1>n, <3>1 DEF CallsNest
    <3> QED BY <2>2, <3>1, <3>2 DEF ContextAfter
  <2> QED BY <2>1, <2>2
<1>5. ASSUME NEW i \in 0 .. m, NEW x PROVE Around(x, i)' <=> Around(x, i)
  <2>1. \A j \in 1 .. i : j \in 1 .. m /\ j \in 1 .. Len(running)
    BY <1>0
  <2>2. \A j \in 1 .. i : running'[j].call = running[j].call /\ running[j].call \in 1 .. Begun
    BY <1>n, <2>1 DEF CallsNest
  <2> QED BY <2>2 DEF Around
<1>4. ASSUME NEW i \in 1 .. m PROVE  running'[i].above = ContextAfter(i - 1)' /\ Around(running[i].above, i - 1)'
  <2>1. i \in 1 .. Len(running) /\ i - 1 \in 0 .. m
    BY <1>0
  <2>2. running[i].above = ContextAfter(i - 1) /\ Around(running[i].above, i - 1)
    BY <1>n, <2>1 DEF Contexts
  <2> QED BY <1>3, <1>5, <2>1, <2>2
<1> QED BY <1>1, <1>2, <1>3, <1>4, <1>5

\* A context is that of a running call which is audited.
LEMMA ContextActive ==
    ASSUME CallsNest, Contexts, context # 0
    PROVE  context \in Active /\ context \in 1 .. Begun /\ auditHistory[context].audited
BY DEF CallsNest, Contexts, Around, Active

LEMMA AuditInvInit == AuditInit => AuditInv
<1> SUFFICES ASSUME AuditInit PROVE AuditInv
  OBVIOUS
<1>1. /\ events = <<>> /\ running = <<>> /\ auditHistory = <<>> /\ waiting = <<>> /\ draft = NoDraft
      /\ context = 0 /\ added = [c \in Call |-> {}]
  BY DEF AuditInit
<1>2. /\ Len(events) = 0 /\ Len(running) = 0 /\ Begun = 0 /\ Drafts = waiting /\ Len(waiting) = 0
      /\ IsSeq(auditHistory) /\ IsSeq(waiting)
  BY <1>1 DEF IsSeq, Begun, Drafts
<1>3. RecordingInv
  BY RecordingInit
<1>4. AuditTypes
  BY <1>2, AuditAssumption DEF AuditTypes
<1>5. Contexts
  BY <1>1, <1>2 DEF Contexts, ContextAfter, Around
<1> QED BY <1>2, <1>3, <1>4, <1>5 DEF AuditInv, CallsNest, DraftsInOrder, OneEventEach,
        CleanKept, Telling, Increasing

\* What is clean stays so as long as no call is lost.
LEMMA CleanSame ==
    ASSUME Begun' = Begun,
           \A c \in 1 .. Begun : auditHistory'[c].lost = auditHistory[c].lost /\ Within(c)' = Within(c)
    PROVE  \A c : Clean(c)' = Clean(c)
BY DEF Clean

\* A step that begins and ends no call: it may add to the context that is
\* current, and take back events of calls that are then undone.
LEMMA NoCallEnds ==
    ASSUME AuditInv, RecordingInv',
           Len(running') = Len(running),
           \A i \in 1 .. Len(running) : /\ running'[i].call = running[i].call
                                        /\ running'[i].above = running[i].above,
           IsSeq(auditHistory'), Begun' = Begun,
           \A c \in 1 .. Begun : /\ IsHistory(auditHistory'[c])
                                 /\ auditHistory'[c].audited = auditHistory[c].audited
                                 /\ auditHistory'[c].outcome = auditHistory[c].outcome
                                 /\ auditHistory'[c].lost = auditHistory[c].lost
                                 /\ auditHistory'[c].inside = auditHistory[c].inside
                                 /\ auditHistory[c].undone => auditHistory'[c].undone,
           UNCHANGED <<draft, waiting, context>>,
           Len(events') \in 0 .. Len(events),
           \A i \in 1 .. Len(events') : events'[i] = events[i],
           \A c \in Stored : c \in Stored' \/ auditHistory'[c].undone,
           added' \in [Call -> SUBSET (1 .. Begun)],
           \A c \in Call : c # context => added'[c] = added[c],
           \A c \in 1 .. Begun : c # context /\ auditHistory[c].audited =>
               auditHistory'[c].said = auditHistory[c].said,
           context # 0 =>
               /\ auditHistory'[context].said <=> context \in added'[context]
               /\ \A d \in added'[context] \ {context} : ~auditHistory[d].audited
    PROVE  AuditInv'
<1>a. /\ RecordingInv /\ AuditTypes /\ CallsNest /\ Contexts /\ DraftsInOrder /\ OneEventEach
      /\ CleanKept /\ Telling
  BY DEF AuditInv
<1>0. /\ Len(running) \in Nat /\ Begun \in Nat /\ Len(events) \in Nat /\ Len(running) \in 0 .. Len(running)
      /\ \A i \in 1 .. Len(events') : i \in 1 .. Len(events)
  BY <1>a, Appended DEF RecordingInv, AuditTypes, Begun
<1>1. \A c \in 1 .. Begun : Within(c)' = Within(c)
  BY DEF Within
<1>2. /\ CallsNest' /\ Active' = Active
      /\ \A i \in 0 .. Len(running) : ContextAfter(i)' = ContextAfter(i) /\ \A x : Around(x, i)' <=> Around(x, i)
      /\ \A i \in 1 .. Len(running) : running'[i].above = ContextAfter(i - 1)' /\ Around(running[i].above, i - 1)'
  <2> DEFINE m == Len(running)
  <2>1. /\ m \in 0 .. Len(running) /\ Len(running') = m
        /\ \A i \in 1 .. m : running'[i].call = running[i].call /\ running'[i].above = running[i].above
    BY <1>0
  <2> HIDE DEF m
  <2>2. /\ CallsNest' /\ Active' = {running[i].call : i \in 1 .. m}
        /\ \A i \in 0 .. m : ContextAfter(i)' = ContextAfter(i) /\ \A x : Around(x, i)' <=> Around(x, i)
        /\ \A i \in 1 .. m : running'[i].above = ContextAfter(i - 1)' /\ Around(running[i].above, i - 1)'
    BY <1>1, <2>1, CallsLeft
  <2> QED BY <2>2 DEF m, Active
<1>3. Drafts' = Drafts /\ Open' = Open
  BY DEF Drafts, Open
<1>4. AuditTypes'
  BY <1>a, <1>1 DEF AuditTypes
<1>5. /\ context = ContextAfter(Len(running)) /\ Around(context, Len(running))
      /\ context # 0 => context \in Active /\ context \in 1 .. Begun /\ auditHistory[context].audited
  BY <1>a, ContextActive DEF Contexts
<1>c. \A c \in 1 .. Begun : c \in Call
  BY <1>a, <1>0, AuditAssumption DEF AuditTypes, Call
<1>6. Contexts'
  <2>1. (context = ContextAfter(Len(running)) /\ Around(context, Len(running)))'
    <3> DEFINE m == Len(running)
    <3>1. context' = context /\ Len(running') = m /\ m \in 0 .. m
      BY <1>0
    <3> HIDE DEF m
    <3>2. ContextAfter(m)' = ContextAfter(m)
      BY <1>2, <3>1 DEF m
    <3> QED BY <1>0, <1>2, <1>5
  <2>2. ASSUME NEW c \in 1 .. Begun
        PROVE  /\ auditHistory'[c].audited => (auditHistory'[c].said <=> c \in added'[c])
               /\ \A d \in added'[c] \ {c} : ~auditHistory'[d].audited
    <3>1. c \in Call /\ added'[c] \subseteq 1 .. Begun
      BY <1>c
    <3>2. \A d \in added'[c] : auditHistory'[d].audited = auditHistory[d].audited
      BY <3>1
    <3>3. CASE c = context
      BY <1>0, <3>2, <3>3
    <3>4. CASE c # context
      <4>1. /\ auditHistory[c].audited => (auditHistory[c].said <=> c \in added[c])
            /\ \A d \in added[c] \ {c} : ~auditHistory[d].audited
        BY <1>a DEF Contexts
      <4> QED BY <3>1, <3>2, <3>4, <4>1
    <3> QED BY <3>3, <3>4
  <2>3. \A c \in Call : c \notin 1 .. Begun' => added'[c] = {}
    BY <1>a, <1>5 DEF Contexts, Call
  <2> QED BY <1>2, <1>5, <2>1, <2>2, <2>3 DEF Contexts
<1>7. DraftsInOrder'
  BY <1>a, <1>3 DEF DraftsInOrder
<1>8. OneEventEach'
  <2>1. ASSUME NEW i \in 1 .. Len(events')
        PROVE  /\ events'[i].call \in 1 .. Begun' /\ auditHistory'[events'[i].call].audited
               /\ events'[i].call \notin Open'
    <3>1. events'[i] = events[i] /\ i \in 1 .. Len(events)
      BY <1>0
    <3>2. events[i].call \in 1 .. Begun /\ auditHistory[events[i].call].audited /\ events[i].call \notin Open
      BY <1>a, <3>1 DEF OneEventEach
    <3> QED BY <1>3, <3>1, <3>2
  <2>2. \A i, j \in 1 .. Len(events') : i # j => events'[i].call # events'[j].call
    BY <1>a, <1>0 DEF OneEventEach
  <2> QED BY <2>1, <2>2 DEF OneEventEach
<1>9. CleanKept'
  <2>1. \A c : Clean(c)' = Clean(c)
    BY <1>1, CleanSame
  <2> QED BY <1>a, <1>2, <1>3, <2>1 DEF CleanKept
<1>10. Telling'
  <2> SUFFICES ASSUME \A c \in 1 .. Begun : ~auditHistory[c].lost, NEW i \in 1 .. Len(events')
               PROVE  /\ events'[i].call \notin Active'
                      /\ events'[i].outcome = auditHistory'[events'[i].call].outcome
                      /\ events'[i].kind = "operation" => events'[i].added = added'[events'[i].call]
    BY DEF Telling
  <2>1. /\ events'[i] = events[i] /\ events[i].call \in 1 .. Begun /\ events[i].call \notin Active
        /\ events[i].outcome = auditHistory[events[i].call].outcome
        /\ events[i].kind = "operation" => events[i].added = added[events[i].call]
    BY <1>a, <1>0 DEF Telling, OneEventEach
  <2>2. events[i].call # context
    BY <1>0, <1>5, <2>1
  <2> QED BY <1>2, <1>c, <2>1, <2>2
<1> QED BY <1>2, <1>4, <1>6, <1>7, <1>8, <1>9, <1>10 DEF AuditInv

LEMMA TxnSet ==
    ASSUME RecordingInv, running # <<>>, NEW t,
           running' = [running EXCEPT ![Len(running)].txn = t]
    PROVE  /\ Len(running') = Len(running)
           /\ \A i \in 1 .. Len(running) : /\ running'[i].call = running[i].call
                                           /\ running'[i].above = running[i].above
<1> DEFINE n == Len(running)
           changed == [running[n] EXCEPT !.txn = t]
<1>1. IsSeq(running) /\ n \in 1 .. Len(running)
  BY Appended DEF RecordingInv, IsSeq
<1>2. running[n] = [call |-> running[n].call, above |-> running[n].above, txn |-> running[n].txn]
  BY <1>1 DEF RecordingInv, TransactionsNest
<1>3. changed = [call |-> running[n].call, above |-> running[n].above, txn |-> t]
  <2> DEFINE r == running[n]
             a == r.call
             b == r.above
             x == r.txn
  <2>1. r = [call |-> a, above |-> b, txn |-> x]
    BY <1>2
  <2> HIDE DEF r, a, b, x
  <2>2. [r EXCEPT !.txn = t] = [call |-> a, above |-> b, txn |-> t]
    BY <2>1
  <2> QED BY <2>2 DEF r, a, b
<1>4. changed.call = running[n].call /\ changed.above = running[n].above
  BY <1>3
<1>5. running' = Put(running, n, changed)
  BY DEF Put
<1> HIDE DEF changed, n
<1>6. Len(running') = Len(running) /\ \A i \in 1 .. Len(running) : running'[i] = IF i = n THEN changed ELSE running[i]
  BY <1>1, <1>5, Replaced
<1> QED BY <1>4, <1>6

\* Transactions and exceptions are nothing to the drafts and contexts.
LEMMA AuditQuiet ==
    ASSUME AuditInv, RecordingInv',
           UNCHANGED <<draft, waiting, context, added, events, auditHistory>>,
           Len(running') = Len(running),
           \A i \in 1 .. Len(running) : /\ running'[i].call = running[i].call
                                        /\ running'[i].above = running[i].above
    PROVE  AuditInv'
<1>1. AuditTypes /\ CallsNest /\ Contexts /\ IsSeq(events)
  BY DEF AuditInv, RecordingInv
<1>2. Len(events') \in 0 .. Len(events) /\ Begun' = Begun
  BY <1>1, Appended DEF Begun
<1>3. Stored' = Stored
  BY DEF Stored
<1>4. context # 0 =>
         /\ context \in 1 .. Begun /\ auditHistory[context].audited
         /\ auditHistory[context].said <=> context \in added[context]
         /\ \A d \in added[context] \ {context} : ~auditHistory[d].audited
  BY <1>1, ContextActive DEF Contexts
<1>5. /\ IsSeq(auditHistory') /\ added' \in [Call -> SUBSET (1 .. Begun)]
      /\ \A c \in 1 .. Begun : IsHistory(auditHistory'[c])
  BY <1>1 DEF AuditTypes, Contexts
<1> QED BY <1>2, <1>3, <1>4, <1>5, NoCallEnds

LEMMA EnrichStep == AuditInv /\ RecordingInv' /\ Enrich => AuditInv'
<1> SUFFICES ASSUME AuditInv, RecordingInv', Enrich PROVE AuditInv'
  OBVIOUS
<1> DEFINE n == Len(running)
           k == running[n].call
           row == [auditHistory[k] EXCEPT !.said = TRUE]
<1>1. AuditTypes /\ CallsNest /\ Contexts /\ IsSeq(events) /\ IsSeq(running)
  BY DEF AuditInv, RecordingInv
<1>2. /\ running # <<>> /\ auditHistory' = Put(auditHistory, k, row)
      /\ added' = IF context = 0 THEN added ELSE [added EXCEPT ![context] = @ \cup {k}]
      /\ UNCHANGED <<running, draft, waiting, context, events>>
  BY DEF Enrich, Inner, Last, Put
<1>3. n \in 1 .. Len(running) /\ n # 0 /\ Begun \in Nat
  BY <1>1, <1>2, Appended DEF IsSeq, AuditTypes, Begun
<1>4. k \in 1 .. Begun /\ IsHistory(auditHistory[k])
  BY <1>1, <1>3 DEF CallsNest, AuditTypes
<1>5. auditHistory[k].audited => context = k
  BY <1>1, <1>3 DEF Contexts, ContextAfter
<1>6. /\ IsHistory(row) /\ row.said = TRUE /\ row.inside = auditHistory[k].inside
      /\ row.audited = auditHistory[k].audited /\ row.outcome = auditHistory[k].outcome
      /\ row.lost = auditHistory[k].lost /\ row.undone = auditHistory[k].undone
  <2> DEFINE h == auditHistory[k]
  <2>1. IsHistory(h) /\ TRUE \in BOOLEAN
    BY <1>4
  <2> HIDE DEF h
  <2>2. LET x == [h EXCEPT !.said = TRUE] IN
          /\ IsHistory(x) /\ x.said = TRUE /\ x.inside = h.inside
          /\ x.audited = h.audited /\ x.outcome = h.outcome /\ x.lost = h.lost /\ x.undone = h.undone
    BY <2>1, RowSaid
  <2> QED BY <2>2 DEF h
<1> HIDE DEF row, k, n
<1>7. /\ IsSeq(auditHistory') /\ Begun' = Begun
      /\ \A c \in 1 .. Begun : auditHistory'[c] = IF c = k THEN row ELSE auditHistory[c]
  BY <1>1, <1>2, <1>4, HistoryPut
<1>8. context # 0 =>
         /\ context \in 1 .. Begun /\ auditHistory[context].audited /\ context \in Call
         /\ auditHistory[context].said <=> context \in added[context]
         /\ \A d \in added[context] \ {context} : ~auditHistory[d].audited
  <2>1. context \in 1 .. Begun => context \in Call
    BY <1>1, <1>3, AuditAssumption DEF AuditTypes, Call
  <2> QED BY <1>1, <2>1, ContextActive DEF Contexts
<1>9. /\ added' \in [Call -> SUBSET (1 .. Begun)]
      /\ \A c \in Call : added'[c] = IF c = context THEN added[c] \cup {k} ELSE added[c]
  <2>1. added \in [Call -> SUBSET (1 .. Begun)] /\ 0 \notin Call
    BY <1>1 DEF Contexts, Call
  <2>2. CASE context = 0
    BY <1>2, <2>1, <2>2
  <2>3. CASE context # 0
    BY <1>2, <1>4, <1>8, <2>1, <2>3
  <2> QED BY <2>2, <2>3
<1>10. \A c \in 1 .. Begun : c \in Call
  BY <1>1, <1>3, AuditAssumption DEF AuditTypes, Call
<1>11. context # 0 =>
          /\ auditHistory'[context].said <=> context \in added'[context]
          /\ \A d \in added'[context] \ {context} : ~auditHistory[d].audited
  BY <1>5, <1>6, <1>7, <1>8, <1>9
<1>12. Len(events') \in 0 .. Len(events) /\ Stored' = Stored
  BY <1>1, <1>2, Appended DEF Stored
<1>13. \A c \in 1 .. Begun : /\ IsHistory(auditHistory'[c])
                             /\ auditHistory'[c].audited = auditHistory[c].audited
                             /\ auditHistory'[c].outcome = auditHistory[c].outcome
                             /\ auditHistory'[c].lost = auditHistory[c].lost
                             /\ auditHistory'[c].inside = auditHistory[c].inside
                             /\ auditHistory[c].undone => auditHistory'[c].undone
  BY <1>1, <1>6, <1>7 DEF AuditTypes
<1>14. /\ \A c \in Call : c # context => added'[c] = added[c]
       /\ \A c \in 1 .. Begun : c # context /\ auditHistory[c].audited =>
            auditHistory'[c].said = auditHistory[c].said
  BY <1>5, <1>7, <1>9, <1>10
<1> QED BY <1>2, <1>7, <1>9, <1>11, <1>12, <1>13, <1>14, NoCallEnds

LEMMA CloseStep == AuditInv /\ RecordingInv' /\ CloseTransaction => AuditInv'
<1> SUFFICES ASSUME AuditInv, RecordingInv', CloseTransaction PROVE AuditInv'
  OBVIOUS
<1>1. /\ AuditTypes /\ CallsNest /\ Contexts /\ IsSeq(events) /\ IsSeq(running)
      /\ RecordingInv /\ OneEventEach
  BY DEF AuditInv, RecordingInv
<1> DEFINE m == Inner.txn
           gone == {events[i].call : i \in (m + 1) .. Len(events)}
           row(c) == [auditHistory[c] EXCEPT !.undone = @ \/ c \in gone]
<1>2. /\ running # <<>> /\ m # NoTxn /\ UNCHANGED <<draft, waiting, context, added>>
      /\ running' = [running EXCEPT ![Len(running)].txn = NoTxn]
      /\ \/ UNCHANGED <<events, auditHistory>>
         \/ /\ events' = SubSeq(events, 1, m)
            /\ auditHistory' = [c \in DOMAIN auditHistory |-> row(c)]
  BY DEF CloseTransaction
<1>3. /\ Len(running') = Len(running)
      /\ \A i \in 1 .. Len(running) : running'[i].call = running[i].call /\ running'[i].above = running[i].above
  BY <1>1, <1>2, TxnSet
<1>4. CASE UNCHANGED <<events, auditHistory>>
  BY <1>2, <1>3, <1>4, AuditQuiet
<1>5. CASE events' = SubSeq(events, 1, m) /\ auditHistory' = [c \in DOMAIN auditHistory |-> row(c)]
  <2>1. m \in 0 .. Len(events) /\ Len(events) \in Nat /\ Begun \in Nat /\ DOMAIN auditHistory = 1 .. Begun
    <3>1. Len(running) \in 1 .. Len(running) /\ Inner = running[Len(running)]
      BY <1>1, <1>2, Appended DEF IsSeq, Inner, Last
    <3>2. m \in NoTxn .. Len(events)
      BY <1>1, <3>1 DEF RecordingInv, TransactionsNest
    <3>3. Len(events) \in Nat /\ Begun \in Nat /\ DOMAIN auditHistory = 1 .. Begun
      BY <1>1, Appended DEF AuditTypes, Begun, IsSeq
    <3> QED BY <1>2, <3>2, <3>3 DEF NoTxn
  <2>2. \A c \in 1 .. Begun : auditHistory'[c] = row(c)
    BY <1>5, <2>1
  <2>3. ASSUME NEW c \in 1 .. Begun
        PROVE  /\ IsHistory(row(c)) /\ row(c).inside = auditHistory[c].inside
               /\ row(c).undone = (auditHistory[c].undone \/ c \in gone)
               /\ row(c).audited = auditHistory[c].audited /\ row(c).outcome = auditHistory[c].outcome
               /\ row(c).said = auditHistory[c].said /\ row(c).lost = auditHistory[c].lost
    <3> DEFINE h == auditHistory[c]
               u == h.undone \/ c \in gone
    <3>1. IsHistory(h) /\ u \in BOOLEAN
      BY <1>1 DEF AuditTypes, IsHistory
    <3>2. row(c) = [h EXCEPT !.undone = u]
      OBVIOUS
    <3> HIDE DEF gone, h, u
    <3>3. LET x == [h EXCEPT !.undone = u] IN
            /\ IsHistory(x) /\ x.undone = u /\ x.inside = h.inside
            /\ x.audited = h.audited /\ x.outcome = h.outcome /\ x.said = h.said /\ x.lost = h.lost
      BY <3>1, RowUndone
    <3> HIDE DEF row
    <3>4. /\ IsHistory(row(c)) /\ row(c).undone = u /\ row(c).inside = h.inside
          /\ row(c).audited = h.audited /\ row(c).outcome = h.outcome /\ row(c).said = h.said
          /\ row(c).lost = h.lost
      BY <3>2, <3>3
    <3> QED BY <3>4 DEF h, u
  <2> HIDE DEF row
  <2>4. Len(events') = m /\ \A i \in 1 .. m : events'[i] = events[i]
    <3> HIDE DEF m
    <3> QED BY <1>1, <1>5, <2>1, Shortened
  <2>5. IsSeq(auditHistory') /\ Begun' = Begun
    <3> DEFINE f == [c \in 1 .. Begun |-> row(c)]
               S == {f[i] : i \in DOMAIN f}
    <3>1. auditHistory' = f
      BY <1>5, <2>1
    <3>2. DOMAIN f = 1 .. Begun /\ \A i \in 1 .. Begun : f[i] \in S
      OBVIOUS
    <3> HIDE DEF S
    <3>3. f \in [1 .. Begun -> S]
      BY <3>2
    <3>4. f \in Seq(S) /\ Len(f) = Begun
      BY <2>1, <3>3
    <3> QED BY <3>1, <3>4 DEF IsSeq, S, Begun
  <2>6. \A c \in Stored : c \in Stored' \/ auditHistory'[c].undone
    <3> SUFFICES ASSUME NEW i \in 1 .. Len(events)
                 PROVE  events[i].call \in Stored' \/ auditHistory'[events[i].call].undone
      BY DEF Stored
    <3>1. events[i].call \in 1 .. Begun
      BY <1>1 DEF OneEventEach
    <3>2. CASE i \in 1 .. m
      BY <2>1, <2>4, <3>2 DEF Stored
    <3>3. CASE i \notin 1 .. m
      <4>1. i \in (m + 1) .. Len(events)
        BY <2>1, <3>3
      <4>2. events[i].call \in gone
        BY <4>1
      <4> QED BY <2>2, <2>3, <3>1, <4>2
    <3> QED BY <3>2, <3>3
  <2>7. /\ added' \in [Call -> SUBSET (1 .. Begun)]
        /\ \A c \in 1 .. Begun : auditHistory'[c].said = auditHistory[c].said
        /\ \A c \in Call : added'[c] = added[c]
    BY <1>1, <1>2, <2>2, <2>3 DEF Contexts
  <2>8. context # 0 =>
          /\ auditHistory'[context].said <=> context \in added'[context]
          /\ \A d \in added'[context] \ {context} : ~auditHistory[d].audited
    <3>1. context # 0 => /\ context \in 1 .. Begun
                         /\ auditHistory[context].said <=> context \in added[context]
                         /\ \A d \in added[context] \ {context} : ~auditHistory[d].audited
      BY <1>1, ContextActive DEF Contexts
    <3> QED BY <1>2, <2>7, <3>1
  <2>9. \A c \in 1 .. Begun : /\ IsHistory(auditHistory'[c])
                              /\ auditHistory'[c].audited = auditHistory[c].audited
                              /\ auditHistory'[c].outcome = auditHistory[c].outcome
                              /\ auditHistory'[c].lost = auditHistory[c].lost
                              /\ auditHistory'[c].inside = auditHistory[c].inside
                              /\ auditHistory[c].undone => auditHistory'[c].undone
    BY <2>2, <2>3
  <2>10. Len(events') \in 0 .. Len(events) /\ \A i \in 1 .. Len(events') : events'[i] = events[i]
    BY <2>1, <2>4
  <2> HIDE DEF m, gone
  <2> QED BY <1>2, <1>3, <2>5, <2>6, <2>7, <2>8, <2>9, <2>10, NoCallEnds
<1> QED BY <1>2, <1>4, <1>5

LEMMA NewCallRow ==
    ASSUME NEW a \in BOOLEAN, IsSeq(running)
    PROVE  LET h == NewCall(a) IN
             /\ IsHistory(h) /\ h.audited = a /\ h.said = FALSE /\ h.outcome = "none"
             /\ h.lost = FALSE /\ h.undone = FALSE
             /\ {h.inside[i] : i \in DOMAIN h.inside} = Active
<1> DEFINE w == [i \in DOMAIN running |-> running[i].call]
           h == NewCall(a)
<1>1. h = [audited |-> a, said |-> FALSE, outcome |-> "none", lost |-> FALSE, undone |-> FALSE, inside |-> w]
  BY DEF NewCall
<1>2. DOMAIN running = 1 .. Len(running) /\ DOMAIN w = 1 .. Len(running)
  BY DEF IsSeq
<1>3. {w[i] : i \in DOMAIN w} = Active
  BY <1>2 DEF Active
<1> HIDE DEF w, h
<1>4. /\ h.audited = a /\ h.said = FALSE /\ h.outcome = "none"
      /\ h.lost = FALSE /\ h.undone = FALSE /\ h.inside = w
  BY <1>1
<1> QED BY <1>1, <1>3, <1>4 DEF IsHistory, h

LEMMA BeginStep ==
    ASSUME AuditInv, RecordingInv', NEW resolves \in BOOLEAN, NEW skip \in BOOLEAN,
           BeginAudited(resolves, skip)
    PROVE  AuditInv'
<1>n. PICK n : n = Len(running)
  OBVIOUS
<1>call. PICK call : call = Begun + 1
  OBVIOUS
<1> DEFINE a == Audited(resolves) /\ ~skip
           e == [call |-> call, above |-> context, txn |-> NoTxn]
           row == NewCall(a)
<1>1. /\ RecordingInv /\ AuditTypes /\ CallsNest /\ Contexts /\ DraftsInOrder /\ OneEventEach
      /\ CleanKept /\ Telling /\ IsSeq(events) /\ IsSeq(running) /\ IsSeq(waiting)
  BY DEF AuditInv, RecordingInv, AuditTypes
<1>2. /\ Begun < MaxAudited /\ running' = Append(running, e) /\ auditHistory' = Append(auditHistory, row)
      /\ IF a THEN BeginDraft(call) /\ context' = call ELSE UNCHANGED <<draft, waiting, context>>
      /\ UNCHANGED <<added, events>>
  BY <1>call DEF BeginAudited, OwnContext
<1>3. /\ IsHistory(row) /\ row.audited = a /\ row.said = FALSE /\ row.outcome = "none"
      /\ row.lost = FALSE /\ row.undone = FALSE /\ a \in BOOLEAN
      /\ {row.inside[i] : i \in DOMAIN row.inside} = Active
  <2>1. a \in BOOLEAN
    BY DEF Audited
  <2> HIDE DEF a
  <2> QED BY <1>1, <2>1, NewCallRow
<1>4. e.call = call /\ e.above = context
  OBVIOUS
<1> HIDE DEF a, e, row
<1>5. /\ IsSeq(auditHistory') /\ Begun \in Nat /\ Begun' = call /\ call = Begun + 1
      /\ \A c \in 1 .. Begun : auditHistory'[c] = auditHistory[c] /\ Within(c)' = Within(c)
      /\ auditHistory'[call] = row
  BY <1>1, <1>2, <1>call, HistoryGrows
<1>6. /\ IsSeq(running') /\ n \in Nat /\ n = Len(running) /\ Len(running') = n + 1
      /\ \A i \in 1 .. n : running'[i] = running[i]
      /\ running'[n + 1] = e
  BY <1>1, <1>2, <1>n, Appended
<1>7. Within(call)' = Active
  BY <1>3, <1>5 DEF Within
<1>8. Active \subseteq 1 .. Begun
  BY <1>1 DEF CallsNest, Active
<1>u. \A i \in 1 .. n + 1 : i \in 1 .. n \/ i = n + 1
  BY <1>6
<1>v. \A c \in 1 .. call : c \in 1 .. Begun \/ c = call
  BY <1>5
<1>w. n + 1 \in 1 .. n + 1 /\ call \in 1 .. call /\ call \notin 1 .. Begun /\ 1 .. Begun \subseteq 1 .. call
  BY <1>5, <1>6
<1>9. Active' = Active \cup {call}
  <2>1. \A x : x \in Active' <=> \E i \in 1 .. n + 1 : x = running'[i].call
    BY <1>6 DEF Active
  <2>2. \A x : x \in Active <=> \E i \in 1 .. n : x = running[i].call
    BY <1>n DEF Active
  <2>3. \A i \in 1 .. n : i \in 1 .. n + 1
    BY <1>6
  <2> QED BY <1>4, <1>6, <1>u, <1>w, <2>1, <2>2, <2>3
<1>10. AuditTypes'
  <2>1. IsSeq(waiting')
    <3>1. waiting' = waiting \/ waiting' = Append(waiting, draft)
      BY <1>2 DEF BeginDraft
    <3>2. CASE waiting' = waiting
      <4>1. IsSeq(waiting)
        BY <1>1
      <4> QED BY <3>2, <4>1
    <3>3. CASE waiting' = Append(waiting, draft)
      <4>1. IsSeq(waiting)
        BY <1>1
      <4>2. IsSeq(Append(waiting, draft))
        BY <4>1, Appended
      <4> QED BY <3>3, <4>2
    <3> QED BY <3>1, <3>2, <3>3
  <2>2. Begun' <= MaxAudited
    BY <1>2, <1>5, AuditAssumption
  <2>3. ASSUME NEW c \in 1 .. Begun'
        PROVE  IsHistory(auditHistory'[c]) /\ Within(c)' \subseteq 1 .. Begun' /\ c \notin Within(c)'
    <3>1. CASE c \in 1 .. Begun
      BY <1>1, <1>5, <1>w, <3>1 DEF AuditTypes
    <3>2. CASE c = call
      BY <1>3, <1>5, <1>7, <1>8, <1>w, <3>2
    <3> QED BY <1>5, <1>v, <3>1, <3>2
  <2> QED BY <1>5, <2>1, <2>2, <2>3 DEF AuditTypes
<1>11. CallsNest'
  <2>a. \A i \in 1 .. n : running[i].call \in 1 .. Begun /\ running[i].call \in Active
    BY <1>1, <1>n DEF CallsNest, Active
  <2>1. Increasing(running)'
    <3> SUFFICES ASSUME NEW i \in 1 .. n + 1, NEW j \in 1 .. n + 1, i < j
                 PROVE  running'[i].call < running'[j].call
      BY <1>6 DEF Increasing
    <3>1. i \in 1 .. n
      BY <1>6
    <3>2. CASE j \in 1 .. n
      BY <1>1, <1>6, <3>1, <3>2 DEF CallsNest, Increasing
    <3>3. CASE j = n + 1
      BY <1>4, <1>5, <1>6, <2>a, <3>1, <3>3
    <3> QED BY <1>u, <3>2, <3>3
  <2>2. ASSUME NEW i \in 1 .. n + 1
        PROVE  /\ running'[i].call \in 1 .. Begun'
               /\ \A j \in 1 .. n + 1 : j < i => running'[j].call \in Within(running[i].call)'
    <3>1. CASE i \in 1 .. n
      <4>1. running'[i] = running[i] /\ running[i].call \in 1 .. Begun
        BY <1>6, <2>a, <3>1
      <4>2. \A j \in 1 .. n + 1 : j < i => j \in 1 .. n /\ running'[j] = running[j]
        BY <1>6, <3>1
      <4>3. \A j \in 1 .. n : j < i => running[j].call \in Within(running[i].call)
        BY <1>1, <1>n, <3>1 DEF CallsNest
      <4>4. PICK x : x = running[i].call
        OBVIOUS
      <4>5. Within(x)' = Within(x) /\ running'[i].call = x /\ x \in 1 .. Begun
        BY <1>5, <4>1, <4>4
      <4>6. Within(running[i].call)' = Within(running[i].call)
        BY <4>4, <4>5 DEF Within
      <4> QED BY <1>5, <1>w, <4>1, <4>2, <4>3, <4>6
    <3>2. CASE i = n + 1
      <4>1. running'[i].call = call
        BY <1>4, <1>6, <3>2
      <4>2. Within(running[i].call)' = Active
        BY <1>7, <4>1 DEF Within
      <4>3. \A j \in 1 .. n + 1 : j < i => j \in 1 .. n
        BY <1>6, <3>2
      <4> QED BY <1>5, <1>6, <1>w, <2>a, <4>1, <4>2, <4>3
    <3> QED BY <1>u, <3>1, <3>2
  <2>3. ASSUME NEW d \in 1 .. Begun', NEW i \in 1 .. n + 1, NEW j \in 1 .. n + 1,
               i < j, running'[j].call \in Within(d)'
        PROVE  running'[i].call \in Within(d)'
    <3>1. i \in 1 .. n
      BY <1>6, <2>3
    <3>2. Within(d)' \subseteq 1 .. Begun
      BY <1>1, <1>5, <1>7, <1>8, <1>v DEF AuditTypes
    <3>3. j \in 1 .. n
      BY <1>4, <1>6, <1>u, <1>w, <2>3, <3>2
    <3>4. CASE d \in 1 .. Begun
      BY <1>1, <1>5, <1>6, <2>3, <3>1, <3>3, <3>4 DEF CallsNest
    <3>5. CASE d = call
      BY <1>6, <1>7, <2>a, <3>1, <3>5
    <3> QED BY <1>5, <1>v, <3>4, <3>5
  <2> QED BY <1>6, <2>1, <2>2, <2>3 DEF CallsNest
<1>c. \A c \in 1 .. call : c \in Call
  BY <1>2, <1>5, AuditAssumption DEF Call
<1>d. /\ \A i \in 0 .. n : ContextAfter(i)' = ContextAfter(i)
      /\ \A x, i : i \in 0 .. n /\ Around(x, i) => Around(x, i)' /\ Around(x, n + 1)'
  <2>1. ASSUME NEW i \in 1 .. n PROVE running'[i] = running[i] /\ running[i].call \in 1 .. Begun
    BY <1>1, <1>6 DEF CallsNest
  <2>2. ASSUME NEW i \in 0 .. n PROVE ContextAfter(i)' = ContextAfter(i)
    <3>1. CASE i = 0
      BY <3>1 DEF ContextAfter
    <3>2. CASE i # 0
      <4>1. i \in 1 .. n
        BY <1>6, <3>2
      <4> QED BY <1>5, <2>1, <3>2, <4>1 DEF ContextAfter
    <3> QED BY <3>1, <3>2
  <2>3. ASSUME NEW x, NEW i \in 0 .. n, Around(x, i) PROVE Around(x, i)' /\ Around(x, n + 1)'
    <3>1. CASE x = 0
      BY <3>1 DEF Around
    <3>2. CASE x # 0
      <4>1. PICK j \in 1 .. i : running[j].call = x /\ auditHistory[x].audited
        BY <2>3, <3>2 DEF Around
      <4>2. j \in 1 .. n /\ j \in 1 .. n + 1
        BY <1>6
      <4>3. running'[j].call = x /\ auditHistory'[x].audited
        BY <1>5, <2>1, <4>1, <4>2
      <4> QED BY <4>2, <4>3 DEF Around
    <3> QED BY <3>1, <3>2
  <2> QED BY <2>2, <2>3
<1>12. Contexts'
  <2>a. context = ContextAfter(n) /\ Around(context, n) /\ n \in 0 .. n
    BY <1>1, <1>6 DEF Contexts
  <2>1. ASSUME NEW i \in 1 .. n + 1
        PROVE  running'[i].above = ContextAfter(i - 1)' /\ Around(running[i].above, i - 1)'
    <3>1. CASE i \in 1 .. n
      <4>1. running[i].above = ContextAfter(i - 1) /\ Around(running[i].above, i - 1) /\ i - 1 \in 0 .. n
        BY <1>1, <1>6, <3>1 DEF Contexts
      <4>2. running'[i].above = running[i].above
        BY <1>6, <3>1
      <4> QED BY <1>d, <4>1, <4>2 DEF Around
    <3>2. CASE i = n + 1
      <4>1. PICK x : x = context
        OBVIOUS
      <4>2. running'[i].above = x /\ i - 1 = n
        BY <1>4, <1>6, <3>2, <4>1
      <4>3. ContextAfter(n)' = x /\ Around(x, n)'
        BY <1>d, <2>a, <4>1
      <4> QED BY <4>2, <4>3 DEF Around
    <3> QED BY <1>u, <3>1, <3>2
  <2>2. ContextAfter(n + 1)' = IF a THEN call ELSE context
    <3>1. n + 1 # 0
      BY <1>6
    <3> QED BY <1>3, <1>4, <1>5, <1>6, <3>1 DEF ContextAfter
  <2>3. (context = ContextAfter(Len(running)) /\ Around(context, Len(running)))'
    <3>1. CASE a
      <4>1. context' = call /\ running'[n + 1].call = call /\ auditHistory'[call].audited
        BY <1>2, <1>3, <1>4, <1>5, <1>6, <3>1
      <4> QED BY <1>6, <1>w, <2>2, <3>1, <4>1 DEF Around
    <3>2. CASE ~a
      <4>1. context' = context
        BY <1>2, <3>2
      <4> QED BY <1>6, <1>d, <2>2, <2>a, <3>2, <4>1 DEF Around
    <3> QED BY <3>1, <3>2
  <2>4. ASSUME NEW c \in 1 .. Begun'
        PROVE  /\ auditHistory'[c].audited => (auditHistory'[c].said <=> c \in added'[c])
               /\ \A d \in added'[c] \ {c} : ~auditHistory'[d].audited
    <3>1. CASE c \in 1 .. Begun
      <4>1. added[c] \subseteq 1 .. Begun
        BY <1>1, <1>5, <1>c, <3>1, <1>w DEF Contexts
      <4> QED BY <1>1, <1>2, <1>5, <3>1, <4>1 DEF Contexts
    <3>2. CASE c = call
      <4>1. added[c] = {}
        BY <1>1, <1>c, <1>w, <3>2 DEF Contexts
      <4> QED BY <1>2, <1>3, <1>5, <3>2, <4>1
    <3> QED BY <1>5, <1>v, <3>1, <3>2
  <2>5. added' \in [Call -> SUBSET (1 .. Begun')] /\ \A c \in Call : c \notin 1 .. Begun' => added'[c] = {}
    BY <1>1, <1>2, <1>5, <1>w DEF Contexts
  <2> QED BY <1>6, <2>1, <2>3, <2>4, <2>5 DEF Contexts
<1>k. PICK k : k = Len(Drafts)
  OBVIOUS
<1>13. /\ IsSeq(Drafts) /\ k \in Nat /\ k = Len(Drafts)
       /\ IF a THEN /\ draft' # NoDraft /\ Len(Drafts') = k + 1
                    /\ \A i \in 1 .. k : Drafts'[i] = Drafts[i]
                    /\ Drafts'[k + 1] = DraftOf(call)
          ELSE Drafts' = Drafts /\ draft' = draft
  <2>1. IsSeq(Drafts) /\ k \in Nat /\ k = Len(Drafts)
    BY <1>1, <1>k, DraftsByPlace
  <2>2. CASE a
    <3>1. waiting' = Drafts /\ draft' = DraftOf(call)
      BY <1>2, <2>2 DEF BeginDraft, Drafts
    <3>2. draft' # NoDraft
      BY <1>5, <3>1, DraftAssumption DEF DraftOf
    <3>3. Drafts' = Append(Drafts, DraftOf(call))
      BY <3>1, <3>2 DEF Drafts
    <3> QED BY <2>1, <2>2, <3>2, <3>3, Appended
  <2>3. CASE ~a
    BY <1>2, <2>1, <2>3 DEF Drafts
  <2> QED BY <2>2, <2>3
<1>14. /\ DraftsInOrder' /\ Open' = IF a THEN Open \cup {call} ELSE Open
       /\ Open \subseteq 1 .. Begun
  <2>0. \A i \in 1 .. k : Drafts[i] = DraftOf(Drafts[i].call) /\ Drafts[i].call \in 1 .. Begun
                          /\ auditHistory[Drafts[i].call].audited
    BY <1>1, <1>13 DEF DraftsInOrder
  <2>1. Open \subseteq 1 .. Begun
    BY <1>13, <2>0 DEF Open
  <2>2. CASE a
    <3>1. DraftOf(call).call = call
      BY DEF DraftOf
    <3>2. \A i \in 1 .. k + 1 : i \in 1 .. k \/ i = k + 1
      BY <1>13
    <3>3. \A i, j \in 1 .. k + 1 : i < j => Drafts'[i].call < Drafts'[j].call
      <4> SUFFICES ASSUME NEW i \in 1 .. k + 1, NEW j \in 1 .. k + 1, i < j
                   PROVE  Drafts'[i].call < Drafts'[j].call
        OBVIOUS
      <4>1. i \in 1 .. k
        BY <1>13
      <4>2. CASE j \in 1 .. k
        BY <1>1, <1>13, <2>2, <4>1, <4>2 DEF DraftsInOrder, Increasing
      <4>3. CASE j = k + 1
        BY <1>5, <1>13, <2>0, <2>2, <3>1, <4>1, <4>3
      <4> QED BY <3>2, <4>2, <4>3
    <3>4. ASSUME NEW i \in 1 .. k + 1
          PROVE  /\ Drafts'[i] = DraftOf(Drafts'[i].call)
                 /\ Drafts'[i].call \in 1 .. Begun' /\ auditHistory'[Drafts'[i].call].audited
      <4>1. CASE i \in 1 .. k
        BY <1>5, <1>13, <1>w, <2>0, <2>2, <4>1
      <4>2. CASE i = k + 1
        BY <1>3, <1>5, <1>13, <1>w, <2>2, <3>1, <4>2
      <4> QED BY <3>2, <4>1, <4>2
    <3>5. Open' = Open \cup {call}
      <4>1. \A x : x \in Open' <=> \E i \in 1 .. k + 1 : x = Drafts'[i].call
        BY <1>13, <2>2 DEF Open
      <4>2. \A x : x \in Open <=> \E i \in 1 .. k : x = Drafts[i].call
          BY <1>13 DEF Open
      <4>3. k + 1 \in 1 .. k + 1 /\ \A i \in 1 .. k : i \in 1 .. k + 1
        BY <1>13
      <4> QED BY <1>13, <2>2, <3>1, <3>2, <4>1, <4>2, <4>3
    <3> QED BY <1>13, <2>1, <2>2, <3>3, <3>4, <3>5 DEF DraftsInOrder, Increasing
  <2>3. CASE ~a
    <3>1. Open' = Open
      BY <1>13, <2>3 DEF Open
    <3>2. Len(Drafts') = k
      BY <1>13, <2>3
    <3>3. Increasing(Drafts)'
      BY <1>1, <1>13, <2>3, <3>2 DEF DraftsInOrder, Increasing
    <3>4. DraftsInOrder'
      BY <1>5, <1>13, <1>w, <2>0, <2>3, <3>2, <3>3 DEF DraftsInOrder
    <3> QED BY <2>1, <2>3, <3>1, <3>4
  <2> QED BY <2>2, <2>3
<1>15. \A i \in 1 .. Len(events) : events'[i] = events[i] /\ Len(events') = Len(events)
            /\ events[i].call \in 1 .. Begun /\ events[i].call # call
  BY <1>1, <1>2, <1>w DEF OneEventEach
<1>16. Len(events') = Len(events) /\ events' = events /\ Stored' = Stored
  BY <1>2 DEF Stored
<1>17. OneEventEach'
  <2>1. ASSUME NEW i \in 1 .. Len(events)
        PROVE  /\ events[i].call \in 1 .. Begun' /\ auditHistory'[events[i].call].audited
               /\ events[i].call \notin Open'
    <3>1. events[i].call \in 1 .. Begun /\ auditHistory[events[i].call].audited /\ events[i].call \notin Open
      BY <1>1 DEF OneEventEach
    <3> QED BY <1>5, <1>14, <1>w, <1>15, <3>1
  <2>2. \A i, j \in 1 .. Len(events) : i # j => events[i].call # events[j].call
    BY <1>1 DEF OneEventEach
  <2> QED BY <1>16, <2>1, <2>2 DEF OneEventEach
<1>18. CleanKept'
  <2>1. ASSUME NEW c \in 1 .. Begun, Clean(c)' PROVE Clean(c)
    BY <1>5, <1>w, <2>1 DEF Clean
  <2> SUFFICES ASSUME NEW c \in 1 .. Begun', auditHistory'[c].audited, Clean(c)'
               PROVE  IF c \in Active'
                      THEN c \in Open' /\ draft' # NoDraft /\ \A d \in Open' : d > c => d \in Active'
                      ELSE c \in Stored' \/ auditHistory'[c].undone \/ auditHistory'[c].lost
    BY DEF CleanKept
  <2>2. CASE c \in 1 .. Begun
    <3>1. auditHistory'[c] = auditHistory[c] /\ auditHistory[c].audited /\ Clean(c) /\ c # call
      BY <1>5, <1>w, <2>1, <2>2
    <3>2. IF c \in Active
          THEN c \in Open /\ draft # NoDraft /\ \A d \in Open : d > c => d \in Active
          ELSE c \in Stored \/ auditHistory[c].undone \/ auditHistory[c].lost
      BY <1>1, <2>2, <3>1 DEF CleanKept
    <3>3. CASE a
      BY <1>9, <1>13, <1>14, <1>16, <3>1, <3>2, <3>3
    <3>4. CASE ~a
      BY <1>9, <1>13, <1>14, <1>16, <3>1, <3>2, <3>4
    <3> QED BY <3>3, <3>4
  <2>3. CASE c = call
    <3>1. a
      BY <1>3, <1>5, <2>3
    <3>2. \A d \in Open' : d \in 1 .. Begun \/ d = call
      BY <1>14, <3>1
    <3>3. \A d \in Open' : ~(d > call)
      BY <1>5, <3>2
    <3> QED BY <1>9, <1>13, <1>14, <2>3, <3>1, <3>3
  <2> QED BY <1>5, <1>v, <2>2, <2>3
<1>19. Telling'
  <2> SUFFICES ASSUME \A c \in 1 .. Begun' : ~auditHistory'[c].lost, NEW i \in 1 .. Len(events)
               PROVE  /\ events[i].call \notin Active'
                      /\ events[i].outcome = auditHistory'[events[i].call].outcome
                      /\ events[i].kind = "operation" => events[i].added = added'[events[i].call]
    BY <1>16 DEF Telling
  <2>1. \A c \in 1 .. Begun : ~auditHistory[c].lost
    BY <1>5, <1>w
  <2>2. /\ events[i].call \notin Active
        /\ events[i].outcome = auditHistory[events[i].call].outcome
        /\ events[i].kind = "operation" => events[i].added = added[events[i].call]
    BY <1>1, <2>1 DEF Telling
  <2> QED BY <1>2, <1>5, <1>9, <1>15, <2>2
<1> QED BY <1>10, <1>11, <1>12, <1>14, <1>17, <1>18, <1>19 DEF AuditInv

\* The call that ends is the innermost: its row says how, the row of another
\* call may say that its event is lost, and the drafts are as save leaves them.
Ends(o, n, call, x) ==
        /\ n = Len(running) /\ call = running[n].call /\ running' = SubSeq(running, 1, n - 1)
        /\ added' = added /\ IsSeq(auditHistory') /\ Begun' = Begun /\ Begun \in Nat
        /\ context' = IF auditHistory[call].audited THEN running[n].above ELSE context
        /\ \A c \in 1 .. Begun :
             /\ IsHistory(auditHistory'[c])
             /\ auditHistory'[c].audited = auditHistory[c].audited
             /\ auditHistory'[c].inside = auditHistory[c].inside
             /\ auditHistory'[c].said = auditHistory[c].said
             /\ auditHistory'[c].undone = auditHistory[c].undone
             /\ auditHistory'[c].outcome = IF c = call THEN o ELSE auditHistory[c].outcome
             /\ auditHistory'[c].lost = IF c = x THEN TRUE ELSE auditHistory[c].lost
        /\ \/ /\ ~auditHistory[call].audited \/ draft = NoDraft
              /\ UNCHANGED <<draft, waiting, events>> /\ x = 0
           \/ /\ auditHistory[call].audited /\ draft # NoDraft
              /\ IsSeq(waiting') /\ Len(Drafts') = Len(waiting)
              /\ \A i \in 1 .. Len(waiting) : Drafts'[i] = waiting[i]
              /\ \/ /\ events' = Append(events, [kind |-> "operation", call |-> draft.call, outcome |-> o,
                                    added |-> IF context = 0 THEN {} ELSE added[context], parent |-> 0])
                    /\ (Len(waiting) > 0 => draft' # NoDraft) /\ x = 0
                 \/ events' = events /\ draft' = NoDraft /\ x = draft.call

LEMMA EndEffect ==
    ASSUME AuditInv, NEW o, EndAudited(o)
    PROVE  \E n \in Nat \ {0}, call \in 1 .. Begun, x \in 0 .. Begun : Ends(o, n, call, x)
<1>1. /\ RecordingInv /\ AuditTypes /\ CallsNest /\ DraftsInOrder /\ IsSeq(running) /\ IsSeq(waiting)
      /\ Begun \in Nat
  BY Appended DEF AuditInv, RecordingInv, AuditTypes, Begun
<1>2. PICK n : n = Len(running)
  OBVIOUS
<1>3. PICK call : call = running[n].call
  OBVIOUS
<1> DEFINE h == auditHistory[call]
           row == [h EXCEPT !.outcome = o]
           ended == Put(auditHistory, call, row)
           event == [kind |-> "operation", call |-> draft.call, outcome |-> o,
                     added |-> IF context = 0 THEN {} ELSE added[context], parent |-> 0]
<1>4. /\ running # <<>> /\ running' = SubSeq(running, 1, n - 1) /\ added' = added
      /\ IF ~h.audited
         THEN auditHistory' = ended /\ UNCHANGED <<draft, waiting, context, events>>
         ELSE /\ context' = running[n].above
              /\ IF draft = NoDraft
                 THEN auditHistory' = ended /\ UNCHANGED <<draft, waiting, events>>
                 ELSE SaveDraft(draft, waiting, event, ended)
  BY <1>2, <1>3 DEF EndAudited, Inner, Last, Front, Put
<1>5. n \in Nat \ {0} /\ n \in 1 .. Len(running)
  BY <1>1, <1>2, <1>4, Appended DEF IsSeq
<1>6. call \in 1 .. Begun /\ IsHistory(h)
  BY <1>1, <1>3, <1>5 DEF CallsNest, AuditTypes
<1>7. /\ IsHistory(row) /\ row.outcome = o /\ row.inside = h.inside
      /\ row.audited = h.audited /\ row.said = h.said /\ row.lost = h.lost /\ row.undone = h.undone
  <2> HIDE DEF h
  <2>1. LET k == [h EXCEPT !.outcome = o] IN
          /\ IsHistory(k) /\ k.outcome = o /\ k.inside = h.inside
          /\ k.audited = h.audited /\ k.said = h.said /\ k.lost = h.lost /\ k.undone = h.undone
    BY <1>6, RowOutcome
  <2> QED BY <2>1
<1>8. /\ IsSeq(ended) /\ Len(ended) = Begun
      /\ \A c \in 1 .. Begun : ended[c] = IF c = call THEN row ELSE auditHistory[c]
  <2> HIDE DEF row
  <2> QED BY <1>1, <1>6, Replaced DEF AuditTypes, Begun
<1> HIDE DEF row, ended
<1>9. ASSUME NEW c \in 1 .. Begun
      PROVE  /\ IsHistory(ended[c])
             /\ ended[c].audited = auditHistory[c].audited /\ ended[c].inside = auditHistory[c].inside
             /\ ended[c].said = auditHistory[c].said /\ ended[c].undone = auditHistory[c].undone
             /\ ended[c].outcome = IF c = call THEN o ELSE auditHistory[c].outcome
             /\ ended[c].lost = auditHistory[c].lost
  <2>1. CASE c = call
    BY <1>7, <1>8, <2>1
  <2>2. CASE c # call
    BY <1>1, <1>8, <2>2 DEF AuditTypes
  <2> QED BY <2>1, <2>2
<1>10. auditHistory' = ended => IsSeq(auditHistory') /\ Begun' = Begun /\ \A c \in 1 .. Begun : c # 0
  BY <1>8 DEF Begun
<1> HIDE DEF event
<1>11. \E x \in 0 .. Begun : Ends(o, n, call, x)
  <2>1. CASE ~h.audited \/ draft = NoDraft
    <3>1. /\ auditHistory' = ended /\ UNCHANGED <<draft, waiting, events>>
          /\ context' = IF auditHistory[call].audited THEN running[n].above ELSE context
      BY <1>4, <1>6, <2>1 DEF IsHistory
    <3>2. Ends(o, n, call, 0)
      BY <1>1, <1>2, <1>3, <1>4, <1>9, <1>10, <2>1, <3>1 DEF Ends, event
    <3>3. 0 \in 0 .. Begun
      BY <1>1
    <3> QED BY <3>2, <3>3
  <2>2. CASE h.audited /\ draft # NoDraft
    <3>1. context' = running[n].above /\ SaveDraft(draft, waiting, event, ended)
      BY <1>4, <2>2
    <3>2. \A i \in 1 .. Len(waiting) : waiting[i] # NoDraft
      <4>1. \A i \in 1 .. Len(waiting) : Drafts[i] = waiting[i] /\ i \in 1 .. Len(Drafts)
        BY <1>1, DraftsByPlace
      <4>2. \A i \in 1 .. Len(Drafts) : Drafts[i] = DraftOf(Drafts[i].call) /\ Drafts[i].call \in Nat
        BY <1>1 DEF DraftsInOrder
      <4>3. \A k \in Nat : DraftOf(k) # NoDraft
        BY DraftAssumption DEF DraftOf
      <4> QED BY <4>1, <4>2, <4>3
    <3>3. draft.call \in 1 .. Begun
      <4>1. Drafts[Len(waiting) + 1] = draft /\ Len(waiting) + 1 \in 1 .. Len(Drafts)
        BY <1>1, <2>2, DraftsByPlace
      <4> QED BY <1>1, <4>1 DEF DraftsInOrder
    <3>4. /\ Len(Drafts') = Len(waiting) /\ IsSeq(waiting')
          /\ \A i \in 1 .. Len(waiting) : Drafts'[i] = waiting[i]
          /\ \/ /\ events' = Append(events, event) /\ auditHistory' = ended
                /\ Len(waiting) > 0 => draft' # NoDraft
             \/ /\ events' = events /\ draft' = NoDraft
                /\ auditHistory' = [ended EXCEPT ![draft.call].lost = TRUE]
      BY <1>1, <3>1, <3>2, Saved
    <3>5. CASE events' = Append(events, event) /\ auditHistory' = ended /\ (Len(waiting) > 0 => draft' # NoDraft)
      <4>1. Ends(o, n, call, 0)
        BY <1>1, <1>2, <1>3, <1>4, <1>9, <1>10, <2>2, <3>1, <3>4, <3>5 DEF Ends, event
      <4>2. 0 \in 0 .. Begun
        BY <1>1
      <4> QED BY <4>1, <4>2
    <3>6. CASE events' = events /\ draft' = NoDraft /\ auditHistory' = [ended EXCEPT ![draft.call].lost = TRUE]
      <4>1. PICK x \in 1 .. Begun : x = draft.call
        BY <3>3
      <4> DEFINE g == ended[x]
                 r == [g EXCEPT !.lost = TRUE]
      <4>2. IsHistory(g) /\ TRUE \in BOOLEAN
        BY <1>9
      <4>3. /\ IsHistory(r) /\ r.lost = TRUE /\ r.inside = g.inside
            /\ r.audited = g.audited /\ r.outcome = g.outcome /\ r.said = g.said /\ r.undone = g.undone
        <5> HIDE DEF g
        <5>1. LET k == [g EXCEPT !.lost = TRUE] IN
                /\ IsHistory(k) /\ k.lost = TRUE /\ k.inside = g.inside
                /\ k.audited = g.audited /\ k.outcome = g.outcome /\ k.said = g.said /\ k.undone = g.undone
          BY <4>2, RowLost
        <5> QED BY <5>1
      <4>4. auditHistory' = Put(ended, x, r)
        BY <3>6, <4>1 DEF Put
      <4> HIDE DEF r
      <4>5. /\ IsSeq(auditHistory') /\ Len(auditHistory') = Len(ended)
            /\ \A c \in 1 .. Len(ended) : auditHistory'[c] = IF c = x THEN r ELSE ended[c]
        BY <1>8, <4>1, <4>4, Replaced
      <4>6. /\ Begun' = Begun
            /\ \A c \in 1 .. Begun : auditHistory'[c] = IF c = x THEN r ELSE ended[c]
        BY <1>8, <4>5 DEF Begun
      <4>7. ASSUME NEW c \in 1 .. Begun
            PROVE  /\ IsHistory(auditHistory'[c])
                   /\ auditHistory'[c].audited = auditHistory[c].audited
                   /\ auditHistory'[c].inside = auditHistory[c].inside
                   /\ auditHistory'[c].said = auditHistory[c].said
                   /\ auditHistory'[c].undone = auditHistory[c].undone
                   /\ auditHistory'[c].outcome = IF c = call THEN o ELSE auditHistory[c].outcome
                   /\ auditHistory'[c].lost = IF c = x THEN TRUE ELSE auditHistory[c].lost
        <5>1. CASE c = x
          BY <1>9, <4>3, <4>6, <5>1
        <5>2. CASE c # x
          BY <1>9, <4>6, <5>2
        <5> QED BY <5>1, <5>2
      <4>8. Ends(o, n, call, x)
        BY <1>1, <1>2, <1>3, <1>4, <2>2, <3>1, <3>4, <3>6, <4>1, <4>5, <4>6, <4>7 DEF Ends, event
      <4>9. x \in 0 .. Begun
        BY <1>1
      <4> QED BY <4>8, <4>9
    <3> QED BY <3>4, <3>5, <3>6
  <2>3. h.audited \in BOOLEAN
    BY <1>6 DEF IsHistory
  <2> QED BY <2>1, <2>2, <2>3
<1> QED BY <1>5, <1>6, <1>11

LEMMA EndStep ==
    ASSUME AuditInv, RecordingInv', NEW o, EndAudited(o)
    PROVE  AuditInv'
<1>1. /\ RecordingInv /\ AuditTypes /\ CallsNest /\ Contexts /\ DraftsInOrder /\ OneEventEach
      /\ CleanKept /\ Telling /\ IsSeq(events) /\ IsSeq(running) /\ IsSeq(waiting)
      /\ Len(running) \in Nat /\ Len(events) \in Nat
  BY Appended DEF AuditInv, RecordingInv, AuditTypes
<1>2. PICK n \in Nat \ {0}, call \in 1 .. Begun, x \in 0 .. Begun : Ends(o, n, call, x)
  BY EndEffect
<1>3. /\ n = Len(running) /\ call = running[n].call /\ running' = SubSeq(running, 1, n - 1)
      /\ added' = added /\ IsSeq(auditHistory') /\ Begun' = Begun /\ Begun \in Nat
      /\ context' = IF auditHistory[call].audited THEN running[n].above ELSE context
  BY <1>2 DEF Ends
<1>4. ASSUME NEW c \in 1 .. Begun
      PROVE  /\ IsHistory(auditHistory'[c])
             /\ auditHistory'[c].audited = auditHistory[c].audited
             /\ auditHistory'[c].inside = auditHistory[c].inside
             /\ auditHistory'[c].said = auditHistory[c].said
             /\ auditHistory'[c].undone = auditHistory[c].undone
             /\ auditHistory'[c].outcome = IF c = call THEN o ELSE auditHistory[c].outcome
             /\ auditHistory'[c].lost = IF c = x THEN TRUE ELSE auditHistory[c].lost
             /\ Within(c)' = Within(c)
  <2>1. /\ IsHistory(auditHistory'[c])
        /\ auditHistory'[c].audited = auditHistory[c].audited
        /\ auditHistory'[c].inside = auditHistory[c].inside
        /\ auditHistory'[c].said = auditHistory[c].said
        /\ auditHistory'[c].undone = auditHistory[c].undone
        /\ auditHistory'[c].outcome = IF c = call THEN o ELSE auditHistory[c].outcome
        /\ auditHistory'[c].lost = IF c = x THEN TRUE ELSE auditHistory[c].lost
    BY <1>2 DEF Ends
  <2>2. Within(c)' = Within(c)
    BY <2>1 DEF Within
  <2> QED BY <2>1, <2>2
<1>5. PICK m \in 0 .. n : m = n - 1
  BY <1>3
<1>6. /\ Len(running') = m /\ \A i \in 1 .. m : running'[i] = running[i]
      /\ n \in 1 .. n /\ \A i \in 1 .. n : i \in 1 .. m \/ i = n
      /\ m \in 0 .. Len(running) /\ m \in 0 .. m /\ \A i \in 1 .. m : i \in 1 .. n /\ i < n
  BY <1>1, <1>3, <1>5, Shortened
<1>7. /\ CallsNest' /\ Active' = {running[i].call : i \in 1 .. m}
      /\ \A i \in 0 .. m : ContextAfter(i)' = ContextAfter(i) /\ \A y : Around(y, i)' <=> Around(y, i)
      /\ \A i \in 1 .. m : running'[i].above = ContextAfter(i - 1)' /\ Around(running[i].above, i - 1)'
  <2>1. \A i \in 1 .. m : running'[i].call = running[i].call /\ running'[i].above = running[i].above
    BY <1>6
  <2>2. \A c \in 1 .. Begun : auditHistory'[c].audited = auditHistory[c].audited /\ Within(c)' = Within(c)
    BY <1>4
  <2> QED BY <1>3, <1>6, <2>1, <2>2, CallsLeft
<1>8. /\ call \in Active /\ \A a \in Active' : a \in Active /\ a < call /\ a \in 1 .. Begun
      /\ \A a \in Active : a \in Active' \/ a = call
  <2>1. \A i \in 1 .. m : running[i].call < call
    BY <1>1, <1>3, <1>6 DEF CallsNest, Increasing
  <2>2. Active = {running[i].call : i \in 1 .. n}
    BY <1>3 DEF Active
  <2>3. \A i \in 1 .. n : running[i].call \in 1 .. Begun
    BY <1>1, <1>3 DEF CallsNest
  <2> QED BY <1>3, <1>6, <1>7, <2>1, <2>2, <2>3
<1>9. IsSeq(waiting') => AuditTypes'
  <2>1. IsSeq(auditHistory') /\ Begun' <= MaxAudited
    BY <1>1, <1>3 DEF AuditTypes
  <2>2. ASSUME NEW c \in 1 .. Begun'
        PROVE  IsHistory(auditHistory'[c]) /\ Within(c)' \subseteq 1 .. Begun' /\ c \notin Within(c)'
    <3>1. c \in 1 .. Begun
      BY <1>3
    <3>2. Within(c) \subseteq 1 .. Begun /\ c \notin Within(c)
      BY <1>1, <3>1 DEF AuditTypes
    <3> QED BY <1>3, <1>4, <3>1, <3>2
  <2> QED BY <2>1, <2>2 DEF AuditTypes
<1>10. Contexts'
  <2>1. running[n].above = ContextAfter(m) /\ Around(running[n].above, m)
    BY <1>1, <1>3, <1>5, <1>6 DEF Contexts
  <2>2. context' = running[n].above
    <3>1. n # 0 /\ context = ContextAfter(n)
      BY <1>1, <1>3 DEF Contexts
    <3> QED BY <1>3, <3>1 DEF ContextAfter
  <2>3. PICK y : y = context'
    OBVIOUS
  <2>4. ContextAfter(m)' = y /\ Around(y, m)'
    BY <1>6, <1>7, <2>1, <2>2, <2>3
  <2>5. (context = ContextAfter(Len(running)) /\ Around(context, Len(running)))'
    BY <1>6, <2>3, <2>4
  <2>6. ASSUME NEW c \in 1 .. Begun'
        PROVE  /\ auditHistory'[c].audited => (auditHistory'[c].said <=> c \in added'[c])
               /\ \A d \in added'[c] \ {c} : ~auditHistory'[d].audited
    <3>1. c \in Call
      BY <1>1, <1>3, AuditAssumption DEF AuditTypes, Call
    <3>2. added[c] \subseteq 1 .. Begun
      BY <1>1, <3>1 DEF Contexts
    <3>3. /\ auditHistory[c].audited => (auditHistory[c].said <=> c \in added[c])
          /\ \A d \in added[c] \ {c} : ~auditHistory[d].audited
      BY <1>1, <1>3 DEF Contexts
    <3> QED BY <1>3, <1>4, <3>2, <3>3
  <2>7. added' \in [Call -> SUBSET (1 .. Begun')] /\ \A c \in Call : c \notin 1 .. Begun' => added'[c] = {}
    BY <1>1, <1>3 DEF Contexts
  <2> QED BY <1>6, <1>7, <2>5, <2>6, <2>7 DEF Contexts
\* The innermost call, unless it encloses a lost one, has the current draft.
<1>11. auditHistory[call].audited /\ Clean(call) => draft # NoDraft /\ draft.call = call
  <2> HAVE auditHistory[call].audited /\ Clean(call)
  <2>1. call \in Open /\ draft # NoDraft /\ \A d \in Open : d > call => d \in Active
    BY <1>1, <1>8 DEF CleanKept
  <2>2. \A d \in Open : ~(d > call)
    BY <1>8, <2>1
  <2>3. PICK i \in 1 .. Len(Drafts) : Drafts[i].call = call
    BY <2>1 DEF Open
  <2>4. /\ Len(waiting) \in Nat /\ Len(Drafts) = Len(waiting) + 1
        /\ Drafts[Len(waiting) + 1] = draft
    BY <1>1, <2>1, DraftsByPlace
  <2>5. PICK k : k = Len(waiting) + 1
    OBVIOUS
  <2>6. k \in 1 .. Len(Drafts) /\ Drafts[k] = draft /\ (i = k \/ i < k)
    BY <2>4, <2>5
  <2>7. draft.call \in Open /\ (i < k => call < draft.call)
    BY <1>1, <2>3, <2>6 DEF Open, DraftsInOrder, Increasing
  <2>8. draft.call \in 1 .. Begun
    BY <1>1, <2>6 DEF DraftsInOrder
  <2> QED BY <1>3, <2>1, <2>2, <2>3, <2>6, <2>7, <2>8
<1>12. ASSUME NEW c \in Active', Clean(c) PROVE Clean(call)
  <2>1. PICK i \in 1 .. m : running[i].call = c
    BY <1>7
  <2>2. \A d \in 1 .. Begun : running[n].call \in Within(d) => running[i].call \in Within(d)
    BY <1>1, <1>3, <1>6, <2>1 DEF CallsNest
  <2> QED BY <1>3, <1>12, <2>1, <2>2 DEF Clean
<1>13. ASSUME NEW c, Clean(c)'
       PROVE  Clean(c) /\ (x \in 1 .. Begun => c \notin Within(x))
  <2>1. \A d \in 1 .. Begun : auditHistory'[d].lost => c \notin Within(d)
    BY <1>3, <1>4, <1>13 DEF Clean
  <2>2. \A d \in 1 .. Begun : auditHistory[d].lost => auditHistory'[d].lost
    BY <1>4
  <2>3. x \in 1 .. Begun => auditHistory'[x].lost
    BY <1>4
  <2> QED BY <2>1, <2>2, <2>3 DEF Clean
<1>14. ASSUME NEW c \in Active' PROVE c \in Within(call)
  <2>1. PICK i \in 1 .. m : running[i].call = c
    BY <1>7
  <2> QED BY <1>1, <1>3, <1>6, <2>1 DEF CallsNest
\* No draft is saved: the call is not audited, or its draft is gone
<1>15. CASE (~auditHistory[call].audited \/ draft = NoDraft) /\ UNCHANGED <<draft, waiting, events>> /\ x = 0
  <2>1. Drafts' = Drafts /\ Open' = Open /\ Stored' = Stored /\ events' = events
    BY <1>15 DEF Drafts, Open, Stored
  <2>2. AuditTypes'
    BY <1>1, <1>9, <1>15
  <2>3. DraftsInOrder'
    BY <1>1, <1>3, <1>4, <2>1 DEF DraftsInOrder
  <2>4. OneEventEach'
    BY <1>1, <1>3, <1>4, <2>1 DEF OneEventEach
  <2>5. \A d \in Open : d \in 1 .. Begun /\ auditHistory[d].audited
    BY <1>1 DEF DraftsInOrder, Open
  <2>6. CleanKept'
    <3> SUFFICES ASSUME NEW c \in 1 .. Begun, auditHistory[c].audited, Clean(c)
                 PROVE  IF c \in Active'
                        THEN c \in Open /\ draft # NoDraft /\ \A d \in Open : d > c => d \in Active'
                        ELSE c \in Stored \/ auditHistory[c].undone \/ auditHistory[c].lost
      BY <1>3, <1>4, <1>13, <1>15, <2>1 DEF CleanKept
    <3>1. IF c \in Active
          THEN c \in Open /\ draft # NoDraft /\ \A d \in Open : d > c => d \in Active
          ELSE c \in Stored \/ auditHistory[c].undone \/ auditHistory[c].lost
      BY <1>1 DEF CleanKept
    <3>2. CASE c \in Active'
      <4>1. c \in Open /\ draft # NoDraft /\ \A d \in Open : d > c => d \in Active
        BY <1>8, <3>1, <3>2
      <4>2. ~auditHistory[call].audited
        BY <1>15, <4>1
      <4> QED BY <1>8, <2>5, <3>2, <4>1, <4>2
    <3>3. CASE c \notin Active'
      <4>1. CASE c = call
        BY <1>11, <1>15, <4>1
      <4>2. CASE c # call
        BY <1>8, <3>1, <3>3, <4>2
      <4> QED BY <4>1, <4>2
    <3> QED BY <3>2, <3>3
  <2>7. Telling'
    <3> SUFFICES ASSUME \A c \in 1 .. Begun' : ~auditHistory'[c].lost, NEW i \in 1 .. Len(events)
                 PROVE  /\ events[i].call \notin Active'
                        /\ events[i].outcome = auditHistory'[events[i].call].outcome
                        /\ events[i].kind = "operation" => events[i].added = added[events[i].call]
      BY <1>3, <2>1 DEF Telling
    <3>1. \A c \in 1 .. Begun : ~auditHistory[c].lost
      BY <1>3, <1>4
    <3>2. /\ events[i].call \notin Active /\ events[i].call \in 1 .. Begun
          /\ events[i].outcome = auditHistory[events[i].call].outcome
          /\ events[i].kind = "operation" => events[i].added = added[events[i].call]
      BY <1>1, <3>1 DEF Telling, OneEventEach
    <3> QED BY <1>4, <1>8, <3>2
  <2> QED BY <1>7, <1>10, <2>2, <2>3, <2>4, <2>6, <2>7 DEF AuditInv
\* save takes the draft
<1>16. CASE /\ auditHistory[call].audited /\ draft # NoDraft
            /\ IsSeq(waiting') /\ Len(Drafts') = Len(waiting)
            /\ \A i \in 1 .. Len(waiting) : Drafts'[i] = waiting[i]
            /\ \/ /\ events' = Append(events, [kind |-> "operation", call |-> draft.call, outcome |-> o,
                                  added |-> IF context = 0 THEN {} ELSE added[context], parent |-> 0])
                  /\ (Len(waiting) > 0 => draft' # NoDraft) /\ x = 0
               \/ events' = events /\ draft' = NoDraft /\ x = draft.call
  <2>1. PICK d : d = draft.call
    OBVIOUS
  <2>2. /\ Len(waiting) \in Nat /\ Len(Drafts) = Len(waiting) + 1
        /\ Drafts[Len(waiting) + 1] = draft
        /\ \A i \in 1 .. Len(waiting) : Drafts[i] = waiting[i] /\ i \in 1 .. Len(Drafts)
    BY <1>1, <1>16, DraftsByPlace
  <2>3. PICK w \in Nat : w = Len(waiting)
    BY <2>2
  <2>4. /\ Len(Drafts) = w + 1 /\ Len(Drafts') = w /\ Drafts[w + 1].call = d
        /\ \A i \in 1 .. w : Drafts'[i] = Drafts[i] /\ i \in 1 .. w + 1
        /\ w + 1 \in 1 .. w + 1 /\ \A i \in 1 .. w + 1 : i \in 1 .. w \/ i = w + 1
    BY <1>16, <2>1, <2>2, <2>3
  <2>5. /\ Open' \subseteq Open /\ d \in Open /\ d \notin Open' /\ \A y \in Open : y \in Open' \/ y = d
        /\ d \in 1 .. Begun /\ Open \subseteq 1 .. Begun /\ auditHistory[d].audited
    <3>1. \A i \in 1 .. w + 1 : Drafts[i].call \in 1 .. Begun /\ auditHistory[Drafts[i].call].audited
      BY <1>1, <2>4 DEF DraftsInOrder
    <3>2. \A i \in 1 .. w : Drafts[i].call < d
      BY <1>1, <2>4 DEF DraftsInOrder, Increasing
    <3>3. Open = {Drafts[i].call : i \in 1 .. w + 1}
      BY <2>4 DEF Open
    <3>4. \A y : y \in Open' <=> \E i \in 1 .. w : y = Drafts[i].call
      BY <2>4 DEF Open
    <3>5. d \in Open /\ d \in 1 .. Begun /\ auditHistory[d].audited /\ Open \subseteq 1 .. Begun
      BY <2>4, <3>1, <3>3
    <3>6. \A y \in Open' : y \in Open /\ y < d
      BY <2>4, <3>2, <3>3, <3>4
    <3>7. \A y \in Open : y \in Open' \/ y = d
      BY <2>4, <3>3, <3>4
    <3> QED BY <1>3, <3>5, <3>6, <3>7
  <2>6. AuditTypes'
    BY <1>9, <1>16
  <2>7. DraftsInOrder'
    BY <1>1, <1>3, <1>4, <2>4 DEF DraftsInOrder, Increasing
  <2>8. ASSUME events' = Append(events, [kind |-> "operation", call |-> draft.call, outcome |-> o,
                                  added |-> IF context = 0 THEN {} ELSE added[context], parent |-> 0]),
               Len(waiting) > 0 => draft' # NoDraft, x = 0
        PROVE  OneEventEach' /\ CleanKept' /\ Telling'
    <3>1. PICK e : e = [kind |-> "operation", call |-> draft.call, outcome |-> o,
                        added |-> IF context = 0 THEN {} ELSE added[context], parent |-> 0]
      OBVIOUS
    <3>2. e.kind = "operation" /\ e.call = d /\ e.outcome = o
          /\ e.added = IF context = 0 THEN {} ELSE added[context]
      BY <2>1, <3>1
    <3>3. PICK k \in Nat : k = Len(events)
      BY <1>1
    <3>4. /\ Len(events') = k + 1 /\ \A i \in 1 .. k : events'[i] = events[i] /\ i \in 1 .. k + 1
          /\ events'[k + 1] = e /\ k + 1 \in 1 .. k + 1 /\ \A i \in 1 .. k + 1 : i \in 1 .. k \/ i = k + 1
      BY <1>1, <2>8, <3>1, <3>3, Appended
    <3>5. \A i \in 1 .. k : /\ events[i].call \in 1 .. Begun /\ auditHistory[events[i].call].audited
                            /\ events[i].call \notin Open /\ events[i].call # d
      BY <1>1, <2>5, <3>3 DEF OneEventEach
    <3>6. Stored' = Stored \cup {d}
      <4>1. Stored = {events[i].call : i \in 1 .. k}
        BY <3>3 DEF Stored
      <4>2. \A y : y \in Stored' <=> \E i \in 1 .. k + 1 : y = events'[i].call
        BY <3>4 DEF Stored
      <4> QED BY <3>2, <3>4, <4>1, <4>2
    <3>7. OneEventEach'
      <4>1. ASSUME NEW i \in 1 .. k + 1
            PROVE  /\ events'[i].call \in 1 .. Begun' /\ auditHistory'[events'[i].call].audited
                   /\ events'[i].call \notin Open'
        <5>1. CASE i \in 1 .. k
          BY <1>3, <1>4, <2>5, <3>4, <3>5, <5>1
        <5>2. CASE i = k + 1
          BY <1>3, <1>4, <2>5, <3>2, <3>4, <5>2
        <5> QED BY <3>4, <5>1, <5>2
      <4>2. ASSUME NEW i \in 1 .. k + 1, NEW j \in 1 .. k + 1, i # j
            PROVE  events'[i].call # events'[j].call
        <5>1. CASE i \in 1 .. k /\ j \in 1 .. k
          BY <1>1, <3>3, <3>4, <4>2, <5>1 DEF OneEventEach
        <5>2. CASE i = k + 1 \/ j = k + 1
          BY <3>2, <3>4, <3>5, <4>2, <5>2
        <5> QED BY <3>4, <5>1, <5>2
      <4> QED BY <3>4, <4>1, <4>2 DEF OneEventEach
    <3>8. ASSUME Clean(call) PROVE d = call
      BY <1>11, <1>16, <2>1, <3>8
    <3>9. CleanKept'
      <4> SUFFICES ASSUME NEW c \in 1 .. Begun, auditHistory[c].audited, Clean(c)
                   PROVE  IF c \in Active'
                          THEN c \in Open' /\ draft' # NoDraft /\ \A y \in Open' : y > c => y \in Active'
                          ELSE c \in Stored' \/ auditHistory'[c].undone \/ auditHistory'[c].lost
        BY <1>3, <1>4, <1>13 DEF CleanKept
      <4>1. IF c \in Active
            THEN c \in Open /\ draft # NoDraft /\ \A y \in Open : y > c => y \in Active
            ELSE c \in Stored \/ auditHistory[c].undone \/ auditHistory[c].lost
        BY <1>1 DEF CleanKept
      <4>2. CASE c \in Active'
        <5>1. c \in Open /\ \A y \in Open : y > c => y \in Active
          BY <1>8, <4>1, <4>2
        <5>2. d = call
          BY <1>12, <3>8, <4>2
        <5>3. c \in Open' /\ \A y \in Open' : y > c => y \in Active'
          BY <1>8, <2>5, <4>2, <5>1, <5>2
        <5>4. w > 0
          BY <2>4, <5>3 DEF Open
        <5> QED BY <2>3, <2>8, <4>2, <5>3, <5>4
      <4>3. CASE c \notin Active'
        <5>1. CASE c = call
          BY <3>6, <3>8, <4>3, <5>1
        <5>2. CASE c # call
          BY <1>4, <1>8, <3>6, <4>1, <4>3, <5>2
        <5> QED BY <5>1, <5>2
      <4> QED BY <4>2, <4>3
    <3>10. Telling'
      <4> SUFFICES ASSUME \A c \in 1 .. Begun : ~auditHistory'[c].lost, NEW i \in 1 .. k + 1
                   PROVE  /\ events'[i].call \notin Active'
                          /\ events'[i].outcome = auditHistory'[events'[i].call].outcome
                          /\ events'[i].kind = "operation" => events'[i].added = added[events'[i].call]
        BY <1>3, <3>4 DEF Telling
      <4>1. \A c \in 1 .. Begun : ~auditHistory[c].lost
        BY <1>4
      <4>2. CASE i \in 1 .. k
        <5>1. /\ events[i].call \notin Active /\ events[i].call \in 1 .. Begun
              /\ events[i].outcome = auditHistory[events[i].call].outcome
              /\ events[i].kind = "operation" => events[i].added = added[events[i].call]
          BY <1>1, <3>3, <4>1, <4>2 DEF Telling, OneEventEach
        <5>2. events'[i] = events[i] /\ events[i].call # call
          BY <1>8, <3>4, <4>2, <5>1
        <5>3. auditHistory'[events[i].call].outcome = auditHistory[events[i].call].outcome
          BY <1>4, <5>1, <5>2
        <5> QED BY <1>8, <5>1, <5>2, <5>3
      <4>3. CASE i = k + 1
        <5>1. d = call
          BY <3>8, <4>1 DEF Clean
        <5>2. context = call
          <6>1. n # 0 /\ context = ContextAfter(n)
            BY <1>1, <1>3 DEF Contexts
          <6> QED BY <1>3, <1>16, <6>1 DEF ContextAfter
        <5>3. call # 0 /\ call \notin Active'
          BY <1>3, <1>8
        <5> QED BY <1>4, <3>2, <3>4, <4>3, <5>1, <5>2, <5>3
      <4> QED BY <3>4, <4>2, <4>3
    <3> QED BY <3>7, <3>9, <3>10
  <2>9. ASSUME events' = events, draft' = NoDraft, x = draft.call
        PROVE  OneEventEach' /\ CleanKept' /\ Telling'
    <3>1. x = d /\ x \in 1 .. Begun /\ auditHistory'[x].lost /\ Stored' = Stored
      <4>1. x = d /\ x \in 1 .. Begun
        BY <2>1, <2>5, <2>9
      <4>2. auditHistory'[x].lost
        BY <1>4, <4>1
      <4> QED BY <2>9, <4>1, <4>2 DEF Stored
    <3>2. OneEventEach'
      BY <1>1, <1>3, <1>4, <2>5, <2>9 DEF OneEventEach
    <3>3. CleanKept'
      <4> SUFFICES ASSUME NEW c \in 1 .. Begun, auditHistory[c].audited, Clean(c), c \notin Within(x)
                   PROVE  IF c \in Active'
                          THEN c \in Open' /\ draft' # NoDraft /\ \A y \in Open' : y > c => y \in Active'
                          ELSE c \in Stored' \/ auditHistory'[c].undone \/ auditHistory'[c].lost
        BY <1>3, <1>4, <1>13, <3>1 DEF CleanKept
      <4>1. IF c \in Active
            THEN c \in Open /\ draft # NoDraft /\ \A y \in Open : y > c => y \in Active
            ELSE c \in Stored \/ auditHistory[c].undone \/ auditHistory[c].lost
        BY <1>1 DEF CleanKept
      <4>2. CASE c \in Active'
        <5>1. d = call
          BY <1>11, <1>12, <1>16, <2>1, <4>2
        <5> QED BY <1>14, <3>1, <4>2, <5>1
      <4>3. CASE c \notin Active'
        <5>1. CASE c = call
          BY <1>11, <1>16, <2>1, <3>1, <4>3, <5>1
        <5>2. CASE c # call
          BY <1>4, <1>8, <3>1, <4>1, <4>3, <5>2
        <5> QED BY <5>1, <5>2
      <4> QED BY <4>2, <4>3
    <3>4. Telling'
      BY <1>3, <3>1 DEF Telling
    <3> QED BY <3>2, <3>3, <3>4
  <2> QED BY <1>7, <1>10, <1>16, <2>6, <2>7, <2>8, <2>9 DEF AuditInv
<1> QED BY <1>2, <1>15, <1>16 DEF Ends

LEMMA RecordStep ==
    ASSUME AuditInv, RecordingInv', running = <<>>, NEW kind, kind # "operation", NEW parent,
           Record(kind, parent)
    PROVE  AuditInv'
<1>1. /\ RecordingInv /\ AuditTypes /\ CallsNest /\ Contexts /\ DraftsInOrder /\ OneEventEach
      /\ CleanKept /\ Telling /\ IsSeq(events) /\ IsSeq(running) /\ IsSeq(auditHistory) /\ IsSeq(Drafts)
      /\ Len(events) \in Nat /\ Begun \in Nat /\ MaxAudited \in Nat
  BY Appended, DraftsByPlace, AuditAssumption DEF AuditInv, RecordingInv, AuditTypes, Begun
<1>2. PICK call \in Nat : call = Begun + 1
  BY <1>1
<1>3. PICK e : e = [kind |-> kind, call |-> call, outcome |-> "ok", added |-> {}, parent |-> parent]
  OBVIOUS
<1>4. e.kind = kind /\ e.call = call /\ e.outcome = "ok"
  BY <1>3
<1> DEFINE h0 == NewCall(TRUE)
           h == [h0 EXCEPT !.outcome = "ok"]
           rows == Append(auditHistory, h)
<1>5. /\ Begun < MaxAudited /\ SaveDraft(DraftOf(call), Drafts, e, rows)
      /\ UNCHANGED <<running, context, added>> /\ running' = <<>>
  BY <1>2, <1>3 DEF Record, Drafts
<1>6. /\ IsHistory(h) /\ h.audited = TRUE /\ h.said = FALSE /\ h.outcome = "ok" /\ h.lost = FALSE
      /\ {h.inside[i] : i \in DOMAIN h.inside} = Active
  <2>1. TRUE \in BOOLEAN
    OBVIOUS
  <2>2. /\ IsHistory(h0) /\ h0.audited = TRUE /\ h0.said = FALSE /\ h0.lost = FALSE
        /\ {h0.inside[i] : i \in DOMAIN h0.inside} = Active
    BY <1>1, <2>1, NewCallRow
  <2> HIDE DEF h0
  <2>3. LET k == [h0 EXCEPT !.outcome = "ok"] IN
          /\ IsHistory(k) /\ k.outcome = "ok" /\ k.inside = h0.inside
          /\ k.audited = h0.audited /\ k.said = h0.said /\ k.lost = h0.lost /\ k.undone = h0.undone
    BY <2>2, RowOutcome
  <2> QED BY <2>2, <2>3
<1> HIDE DEF h
<1>7. /\ IsSeq(rows) /\ Len(rows) = call /\ rows[call] = h
      /\ \A c \in 1 .. Begun : rows[c] = auditHistory[c]
  BY <1>1, <1>2, Appended DEF Begun
<1> HIDE DEF rows
<1>8. Active = {}
  BY DEF Active
<1>9. /\ Len(Drafts') = Len(Drafts) /\ IsSeq(waiting')
      /\ \A i \in 1 .. Len(Drafts) : Drafts'[i] = Drafts[i]
      /\ \/ events' = Append(events, e) /\ auditHistory' = rows
         \/ events' = events /\ auditHistory' = [rows EXCEPT ![call].lost = TRUE]
  <2>1. \A i \in 1 .. Len(Drafts) : Drafts[i] # NoDraft
    <3>1. \A i \in 1 .. Len(Drafts) : Drafts[i] = DraftOf(Drafts[i].call) /\ Drafts[i].call \in Nat
      BY <1>1 DEF DraftsInOrder
    <3>2. \A k \in Nat : DraftOf(k) # NoDraft
      BY DraftAssumption DEF DraftOf
    <3> QED BY <3>1, <3>2
  <2>2. DraftOf(call).call = call
    BY DEF DraftOf
  <2>3. PICK s : s = Drafts
    OBVIOUS
  <2>4. /\ Len(Drafts') = Len(s) /\ IsSeq(waiting')
        /\ \A i \in 1 .. Len(s) : Drafts'[i] = s[i]
        /\ \/ events' = Append(events, e) /\ auditHistory' = rows
           \/ events' = events /\ auditHistory' = [rows EXCEPT ![DraftOf(call).call].lost = TRUE]
    BY <1>1, <1>5, <2>1, <2>3, Saved
  <2> QED BY <2>2, <2>3, <2>4
<1> DEFINE Recorded(r, lost) ==
         /\ IsHistory(r) /\ r.audited = TRUE /\ r.said = FALSE /\ r.outcome = "ok" /\ r.lost = lost
         /\ {r.inside[i] : i \in DOMAIN r.inside} = {}
         /\ IsSeq(auditHistory') /\ Begun' = call /\ auditHistory'[call] = r
         /\ \A c \in 1 .. Begun : auditHistory'[c] = auditHistory[c]
         /\ IF lost THEN events' = events ELSE events' = Append(events, e)
<1>r. \E r : Recorded(r, TRUE) \/ Recorded(r, FALSE)
  <2>1. CASE events' = Append(events, e) /\ auditHistory' = rows
    <3>1. Begun' = call
      BY <1>7, <2>1 DEF Begun
    <3>2. Recorded(h, FALSE)
      BY <1>6, <1>7, <1>8, <2>1, <3>1
    <3> HIDE DEF Recorded
    <3> QED BY <3>2
  <2>2. CASE events' = events /\ auditHistory' = [rows EXCEPT ![call].lost = TRUE]
    <3> DEFINE r == [h EXCEPT !.lost = TRUE]
    <3>1. /\ IsHistory(r) /\ r.lost = TRUE /\ r.inside = h.inside
          /\ r.audited = h.audited /\ r.outcome = h.outcome /\ r.said = h.said /\ r.undone = h.undone
      <4>1. TRUE \in BOOLEAN
        OBVIOUS
      <4>2. LET k == [h EXCEPT !.lost = TRUE] IN
              /\ IsHistory(k) /\ k.lost = TRUE /\ k.inside = h.inside
              /\ k.audited = h.audited /\ k.outcome = h.outcome /\ k.said = h.said /\ k.undone = h.undone
        BY <1>6, <4>1, RowLost
      <4> QED BY <4>2
    <3>2. auditHistory' = Put(rows, call, r) /\ call \in 1 .. Len(rows)
      BY <1>1, <1>2, <1>7, <2>2 DEF Put
    <3> HIDE DEF r
    <3>3. /\ IsSeq(auditHistory') /\ Len(auditHistory') = Len(rows)
          /\ \A c \in 1 .. Len(rows) : auditHistory'[c] = IF c = call THEN r ELSE rows[c]
      <4>1. IsSeq(rows) /\ call \in 1 .. Len(rows)
        BY <1>7, <3>2
      <4> QED BY <3>2, <4>1, Replaced
    <3>4. Begun' = call /\ auditHistory'[call] = r
      BY <1>7, <3>2, <3>3 DEF Begun
    <3>5. \A c \in 1 .. Begun : auditHistory'[c] = auditHistory[c]
      BY <1>1, <1>2, <1>7, <3>3
    <3>6. {r.inside[i] : i \in DOMAIN r.inside} = {}
      BY <1>6, <1>8, <3>1
    <3>7. Recorded(r, TRUE)
      BY <1>6, <2>2, <3>1, <3>3, <3>4, <3>5, <3>6
    <3> HIDE DEF Recorded
    <3> QED BY <3>7
  <2> QED BY <1>9, <2>1, <2>2
<1>10. PICK r : \E lost \in BOOLEAN : Recorded(r, lost)
  <2> HIDE DEF Recorded
  <2> QED BY <1>r
<1>l. PICK lost \in BOOLEAN : Recorded(r, lost)
  BY <1>10
<1> HIDE DEF Recorded
<1>t. /\ IsHistory(r) /\ r.audited = TRUE /\ r.said = FALSE /\ r.outcome = "ok" /\ r.lost = lost
      /\ {r.inside[i] : i \in DOMAIN r.inside} = {}
      /\ IsSeq(auditHistory') /\ Begun' = call /\ auditHistory'[call] = r
      /\ \A c \in 1 .. Begun : auditHistory'[c] = auditHistory[c]
      /\ IF lost THEN events' = events ELSE events' = Append(events, e)
  BY <1>l DEF Recorded
<1>11. \A c \in 1 .. call : c \in 1 .. Begun \/ c = call
  BY <1>1, <1>2
<1>12. call \in 1 .. call /\ call \notin 1 .. Begun /\ 1 .. Begun \subseteq 1 .. call
  BY <1>1, <1>2
<1>13. Within(call)' = {} /\ \A c \in 1 .. Begun : Within(c)' = Within(c)
  BY <1>t DEF Within
<1>14. AuditTypes'
  <2>1. call <= MaxAudited
    BY <1>1, <1>2, <1>5
  <2>2. ASSUME NEW c \in 1 .. call
        PROVE  IsHistory(auditHistory'[c]) /\ Within(c)' \subseteq 1 .. call /\ c \notin Within(c)'
    <3>1. CASE c \in 1 .. Begun
      BY <1>1, <1>t, <1>12, <1>13, <3>1 DEF AuditTypes
    <3>2. CASE c = call
      BY <1>t, <1>13, <3>2
    <3> QED BY <1>11, <3>1, <3>2
  <2> QED BY <1>9, <1>t, <2>1, <2>2 DEF AuditTypes
<1>15. Len(running') = 0 /\ Len(running) = 0 /\ Active' = {}
  BY <1>5 DEF Active
<1>16. CallsNest'
  BY <1>15 DEF CallsNest, Increasing
<1>17. Contexts'
  <2>1. context = 0
    BY <1>1, <1>15 DEF Contexts, ContextAfter
  <2>2. ASSUME NEW c \in 1 .. call
        PROVE  /\ auditHistory'[c].audited => (auditHistory'[c].said <=> c \in added'[c])
               /\ \A d \in added'[c] \ {c} : ~auditHistory'[d].audited
    <3>1. c \in Call
      BY <1>1, <1>2, <1>5 DEF Call
    <3>2. CASE c \in 1 .. Begun
      <4>1. added[c] \subseteq 1 .. Begun
        BY <1>1, <3>1 DEF Contexts
      <4> QED BY <1>1, <1>5, <1>t, <3>2, <4>1 DEF Contexts
    <3>3. CASE c = call
      <4>1. added[c] = {}
        BY <1>1, <1>12, <3>1, <3>3 DEF Contexts
      <4> QED BY <1>5, <1>t, <3>3, <4>1
    <3> QED BY <1>11, <3>2, <3>3
  <2>3. added' \in [Call -> SUBSET (1 .. call)] /\ \A c \in Call : c \notin 1 .. call => added'[c] = {}
    BY <1>1, <1>5, <1>12 DEF Contexts
  <2>4. (context = ContextAfter(Len(running)) /\ Around(context, Len(running)))'
    BY <1>5, <1>15, <2>1 DEF ContextAfter, Around
  <2> QED BY <1>t, <1>15, <2>2, <2>3, <2>4 DEF Contexts
<1>18. Open' = Open /\ \A d \in Open : d \in 1 .. Begun /\ auditHistory[d].audited
  BY <1>1, <1>9 DEF Open, DraftsInOrder
<1>19. DraftsInOrder'
  <2>1. Increasing(Drafts)'
    BY <1>1, <1>9 DEF DraftsInOrder, Increasing
  <2>2. ASSUME NEW i \in 1 .. Len(Drafts)
        PROVE  /\ Drafts'[i] = DraftOf(Drafts'[i].call)
               /\ Drafts'[i].call \in 1 .. call /\ auditHistory'[Drafts'[i].call].audited
    BY <1>1, <1>9, <1>t, <1>12 DEF DraftsInOrder
  <2> QED BY <1>9, <1>t, <2>1, <2>2 DEF DraftsInOrder
<1>20. \A i \in 1 .. Len(events) :
          /\ events[i].call \in 1 .. Begun /\ auditHistory[events[i].call].audited
          /\ events[i].call \notin Open /\ auditHistory'[events[i].call] = auditHistory[events[i].call]
          /\ events[i].call # call /\ events[i].call \in 1 .. call
  BY <1>1, <1>t, <1>12 DEF OneEventEach
<1>21. call \notin Open
  BY <1>12, <1>18
<1>22. ASSUME NEW c \in 1 .. Begun, Clean(c)' PROVE Clean(c)
  BY <1>t, <1>12, <1>13, <1>22 DEF Clean
<1>23. CASE lost
  <2>1. events' = events /\ Stored' = Stored
    BY <1>t, <1>23 DEF Stored
  <2>2. OneEventEach'
    BY <1>1, <1>t, <1>18, <1>20, <2>1 DEF OneEventEach
  <2>3. CleanKept'
    <3> SUFFICES ASSUME NEW c \in 1 .. call, Clean(c)', auditHistory'[c].audited
                 PROVE  c \in Stored \/ auditHistory'[c].undone \/ auditHistory'[c].lost
      BY <1>t, <1>15, <2>1 DEF CleanKept
    <3>1. CASE c \in 1 .. Begun
      BY <1>1, <1>8, <1>t, <1>22, <3>1 DEF CleanKept
    <3>2. CASE c = call
      BY <1>t, <1>23, <3>2
    <3> QED BY <1>11, <3>1, <3>2
  <2>4. Telling'
    BY <1>t, <1>12, <1>23 DEF Telling
  <2> QED BY <1>14, <1>16, <1>17, <1>19, <2>2, <2>3, <2>4 DEF AuditInv
<1>24. CASE ~lost
  <2>1. PICK k \in Nat : k = Len(events)
    BY <1>1
  <2>2. /\ Len(events') = k + 1 /\ \A i \in 1 .. k : events'[i] = events[i] /\ i \in 1 .. k + 1
        /\ events'[k + 1] = e /\ k + 1 \in 1 .. k + 1 /\ \A i \in 1 .. k + 1 : i \in 1 .. k \/ i = k + 1
    <3>1. events' = Append(events, e)
      BY <1>t, <1>24
    <3> QED BY <1>1, <2>1, <3>1, Appended
  <2>3. call \in Stored' /\ Stored \subseteq Stored'
    <3>1. \A y : y \in Stored' <=> \E i \in 1 .. k + 1 : y = events'[i].call
      BY <2>2 DEF Stored
    <3>2. Stored = {events[i].call : i \in 1 .. k}
      BY <2>1 DEF Stored
    <3> QED BY <1>4, <2>2, <3>1, <3>2
  <2>4. OneEventEach'
    <3>1. ASSUME NEW i \in 1 .. k + 1
          PROVE  /\ events'[i].call \in 1 .. call /\ auditHistory'[events'[i].call].audited
                 /\ events'[i].call \notin Open
      <4>1. CASE i \in 1 .. k
        BY <1>20, <2>1, <2>2, <4>1
      <4>2. CASE i = k + 1
        BY <1>4, <1>t, <1>12, <1>21, <2>2, <4>2
      <4> QED BY <2>2, <4>1, <4>2
    <3>2. ASSUME NEW i \in 1 .. k + 1, NEW j \in 1 .. k + 1, i # j
          PROVE  events'[i].call # events'[j].call
      <4>1. CASE i \in 1 .. k /\ j \in 1 .. k
        BY <1>1, <2>1, <2>2, <3>2, <4>1 DEF OneEventEach
      <4>2. CASE i = k + 1 \/ j = k + 1
        BY <1>4, <1>20, <2>1, <2>2, <3>2, <4>2
      <4> QED BY <2>2, <4>1, <4>2
    <3> QED BY <1>t, <1>18, <2>2, <3>1, <3>2 DEF OneEventEach
  <2>5. CleanKept'
    <3> SUFFICES ASSUME NEW c \in 1 .. call, Clean(c)', auditHistory'[c].audited
                 PROVE  c \in Stored' \/ auditHistory'[c].undone \/ auditHistory'[c].lost
      BY <1>t, <1>15 DEF CleanKept
    <3>1. CASE c \in 1 .. Begun
      BY <1>1, <1>8, <1>t, <1>22, <2>3, <3>1 DEF CleanKept
    <3>2. CASE c = call
      BY <2>3, <3>2
    <3> QED BY <1>11, <3>1, <3>2
  <2>6. Telling'
    <3> SUFFICES ASSUME \A c \in 1 .. call : ~auditHistory'[c].lost, NEW i \in 1 .. k + 1
                 PROVE  /\ events'[i].outcome = auditHistory'[events'[i].call].outcome
                        /\ events'[i].kind = "operation" => events'[i].added = added[events'[i].call]
      BY <1>5, <1>t, <1>15, <2>2 DEF Telling
    <3>1. \A c \in 1 .. Begun : ~auditHistory[c].lost
      BY <1>t, <1>12
    <3>2. CASE i \in 1 .. k
      <4>1. /\ events[i].outcome = auditHistory[events[i].call].outcome
            /\ events[i].kind = "operation" => events[i].added = added[events[i].call]
        BY <1>1, <2>1, <3>1, <3>2 DEF Telling
      <4> QED BY <1>20, <2>1, <2>2, <3>2, <4>1
    <3>3. CASE i = k + 1
      BY <1>4, <1>t, <2>2, <3>3
    <3> QED BY <2>2, <3>2, <3>3
  <2> QED BY <1>14, <1>16, <1>17, <1>19, <2>4, <2>5, <2>6 DEF AuditInv
<1> QED BY <1>23, <1>24

LEMMA AuditStep == AuditInv /\ [AuditNext]_auditVars => AuditInv'
<1> SUFFICES ASSUME AuditInv, [AuditNext]_auditVars PROVE AuditInv'
  OBVIOUS
<1>0. RecordingInv /\ RecordingInv' /\ (recording # Idle => running = <<>>)
  BY RecordingStep DEF AuditInv, RecordingInv
<1>1. CASE \E resolves, skip \in BOOLEAN : BeginAudited(resolves, skip)
  BY <1>0, <1>1, BeginStep
<1>2. CASE Enrich
  BY <1>0, <1>2, EnrichStep
<1>3. CASE OpenTransaction
  <2>1. /\ running # <<>> /\ running' = [running EXCEPT ![Len(running)].txn = Len(events)]
        /\ UNCHANGED <<draft, waiting, context, added, events, auditHistory>>
    BY <1>3 DEF OpenTransaction
  <2>2. /\ Len(running') = Len(running)
        /\ \A i \in 1 .. Len(running) : running'[i].call = running[i].call /\ running'[i].above = running[i].above
    BY <1>0, <2>1, TxnSet
  <2> QED BY <1>0, <2>1, <2>2, AuditQuiet
<1>4. CASE CloseTransaction
  BY <1>0, <1>4, CloseStep
<1>5. CASE \E o \in {"ok"} \cup Exceptions : EndAudited(o)
  BY <1>0, <1>5, EndStep
<1>6. CASE RecordResolve
  <2>1. running = <<>> /\ Record("resolve", 0)
    BY <1>6 DEF RecordResolve
  <2> QED BY <1>0, <2>1, RecordStep
<1>7. CASE RecordParticipant
  <2>1. running = <<>> /\ Record("participant", ParentEvent)
    BY <1>0, <1>7 DEF RecordParticipant
  <2> QED BY <1>0, <2>1, RecordStep
<1>8. CASE CatchRaised \/ (\E e \in Exceptions : RaiseInside(e)) \/ EndRecording \/ UNCHANGED auditVars
  <2>1. UNCHANGED <<running, draft, waiting, context, added, events, auditHistory>>
    BY <1>8 DEF CatchRaised, RaiseInside, EndRecording, auditVars
  <2> QED BY <1>0, <2>1, AuditQuiet
<1> QED BY <1>1, <1>2, <1>3, <1>4, <1>5, <1>6, <1>7, <1>8 DEF AuditNext

\* The event of a call has the outcome of that call, and what its body and the
\* bodies of unaudited calls below it have added, nothing of another audited
\* call, as long as no insert has failed.
THEOREM EventsOfTheirCalls ==
    AuditSpec => []EventsTellTheirCalls
<1>1. AuditInv => EventsTellTheirCalls
  <2> SUFFICES ASSUME AuditInv, Lost = {}, NEW i \in DOMAIN events,
                      NEW c, c = events[i].call
               PROVE  /\ events[i].outcome = auditHistory[c].outcome
                      /\ events[i].kind = "operation" =>
                           /\ auditHistory[c].said <=> c \in events[i].added
                           /\ \A d \in events[i].added \ {c} : ~auditHistory[d].audited
    BY DEF EventsTellTheirCalls
  <2>1. i \in 1 .. Len(events) /\ DOMAIN auditHistory = 1 .. Begun
    BY DEF AuditInv, RecordingInv, AuditTypes, IsSeq, Begun
  <2>2. \A d \in 1 .. Begun : ~auditHistory[d].lost
    BY <2>1 DEF Lost
  <2>3. /\ events[i].outcome = auditHistory[c].outcome
        /\ events[i].kind = "operation" => events[i].added = added[c]
    BY <2>1, <2>2 DEF AuditInv, Telling
  <2>4. c \in 1 .. Begun /\ auditHistory[c].audited
    BY <2>1 DEF AuditInv, OneEventEach
  <2>5. /\ auditHistory[c].said <=> c \in added[c]
        /\ \A d \in added[c] \ {c} : ~auditHistory[d].audited
    BY <2>4 DEF AuditInv, Contexts
  <2> QED BY <2>3, <2>5
<1> QED BY AuditInvInit, AuditStep, <1>1, PTL DEF AuditSpec

\* When nothing is running any more every audited call has exactly one event,
\* except where its transaction was rolled back, its own insert failed or that
\* of a call it made.
THEOREM LossOfCallersOnly ==
    AuditSpec => []LossTakesOnlyCallers
<1>1. AuditInv => LossTakesOnlyCallers
  <2> SUFFICES ASSUME AuditInv, running = <<>>, NEW c \in DOMAIN auditHistory
               PROVE  LET own == {i \in DOMAIN events : events[i].call = c}
                      IN  \/ Cardinality(own) = 1 /\ auditHistory[c].audited
                          \/ own = {} /\ \/ ~auditHistory[c].audited
                                         \/ auditHistory[c].undone \/ auditHistory[c].lost
                                         \/ \E d \in Lost : c \in Range(auditHistory[d].inside)
    BY DEF LossTakesOnlyCallers
  <2> DEFINE own == {i \in DOMAIN events : events[i].call = c}
  <2>1. DOMAIN events = 1 .. Len(events) /\ DOMAIN auditHistory = 1 .. Begun
    BY DEF AuditInv, RecordingInv, AuditTypes, IsSeq, Begun
  <2>2. CASE own # {}
    <3>1. PICK i \in 1 .. Len(events) : events[i].call = c
      BY <2>1, <2>2
    <3>2. own = {i}
      BY <2>1, <3>1 DEF AuditInv, OneEventEach
    <3>3. Cardinality(own) = 1
      <4> HIDE DEF own
      <4> QED BY <3>2, FS_Singleton
    <3>4. auditHistory[c].audited
      BY <3>1 DEF AuditInv, OneEventEach
    <3> QED BY <3>3, <3>4
  <2>3. CASE own = {} /\ auditHistory[c].audited /\ Clean(c)
    <3>1. c \notin Active /\ c \notin Stored
      BY <2>1, <2>3 DEF Active, Stored
    <3>2. c \in 1 .. Begun
      BY <2>1
    <3> QED BY <2>3, <3>1, <3>2 DEF AuditInv, CleanKept
  <2>4. CASE own = {} /\ ~Clean(c)
    <3>1. PICK d \in 1 .. Begun : auditHistory[d].lost /\ c \in Within(d)
      BY <2>4 DEF Clean
    <3>2. d \in Lost /\ c \in Range(auditHistory[d].inside)
      BY <2>1, <3>1 DEF Lost, Within, Range
    <3> QED BY <2>4, <3>2
  <2> QED BY <2>2, <2>3, <2>4
<1> QED BY AuditInvInit, AuditStep, <1>1, PTL DEF AuditSpec

=============================================================================
