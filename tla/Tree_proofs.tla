---------------------------- MODULE Tree_proofs ----------------------------
(***************************************************************************)
(* Proofs about Tree: whatever requests, crashes and lock calls interleave *)
(* and for any set of paths, the tables keep their types, and no request   *)
(* gets past its lock check under a lock that was in force all along.      *)
(*                                                                         *)
(* While calls do not overlap, for any paths, kinds and bounds and wherever *)
(* a worker dies, parent links say what the paths say, folders have        *)
(* contents, and from outside the tree is the set of items by path of      *)
(* PathTree, on which every call takes effect at once.                     *)
(*                                                                         *)
(* Walking by parent links finds what a path covers in a sound table (Sound), *)
(* and all transactions leave one: items and the folders on their way may be *)
(* planted (Planted), rows removed with all that is below them, and a row  *)
(* moved with what is below it (Moving).  A request that agrees with the   *)
(* table (Agrees, Ready, Climbing) keeps agreeing with it, because no other *)
(* one is under way (Alone).                                               *)
(***************************************************************************)
EXTENDS Tree, SequenceTheorems, Iteration_proofs, TLAPS

\* No lock in force since the request began covers what it writes.
Clear(m) ==
    \A q \in m.held :
        /\ ~Covers(q, m.path) /\ ~Covers(q, m.dest)
        /\ m.op = "move" /\ m.kind = "folder" => ~Covers(m.path, q)

\* The locks a request remembers are still in force; past its lock check none
\* of them covers what it writes.
HeldOK(m) == /\ m.held \subseteq Active
             /\ m.op \notin {"move", "copy"} => m.dest = m.path
             /\ m.pc \notin {"idle", "loaded"} => Clear(m)

\* The inductive invariant.
IInv == TypeOK /\ \A r \in Requests : HeldOK(req[r])

Table == [Ids -> Row \cup {NoRow}]
MaybeId == Ids \cup {NoParent}

-----------------------------------------------------------------------------
(* Paths and keys *)

\* The ancestors of a path are paths, and so are theirs.
LEMMA AncestorsArePaths ==
    ASSUME NEW p \in Paths
    PROVE  Ancestors(p) \subseteq Paths
  <1>1. p \in Seq(STRING) /\ Len(p) \in Nat
    BY PathsAssumption
  <1>2. \A n \in 1 .. Len(p) : SubSeq(p, 1, n) \in Paths
    BY PathsAssumption
  <1>3. \A n \in 1 .. Len(p) - 1 : n \in 1 .. Len(p)
    BY <1>1
  <1> QED
    BY <1>2, <1>3 DEF Ancestors

LEMMA AncestorsTransitive ==
    ASSUME NEW p \in Paths, NEW q \in Ancestors(p)
    PROVE  Ancestors(q) \subseteq Ancestors(p)
  <1> SUFFICES ASSUME NEW o \in Ancestors(q) PROVE o \in Ancestors(p)
    OBVIOUS
  <1>1. p \in Seq(STRING) /\ Len(p) \in Nat
    BY PathsAssumption
  <1>2. PICK n \in 1 .. Len(p) - 1 : q = SubSeq(p, 1, n)
    BY DEF Ancestors
  <1>3. \A i \in 1 .. n : p[i] \in STRING
    BY <1>1, <1>2
  <1>4. Len(q) = n
    BY <1>1, <1>2, <1>3, SubSeqProperties
  <1>5. PICK k \in 1 .. n - 1 : o = SubSeq(q, 1, k)
    BY <1>4 DEF Ancestors
  <1>6. o = SubSeq(p, 1, k)
    <2>1. 1 \in 1 .. Len(p) /\ n \in 1 .. Len(p)
      BY <1>1, <1>2
    <2>2. k \in 1 .. n - 1 + 1 /\ 1 \in 1 .. n - 1 + 1
      BY <1>2, <1>5
    <2>3. SubSeq(SubSeq(p, 1, n), 1, k) = SubSeq(p, 1 + 1 - 1, 1 + k - 1)
      BY <1>1, <2>1, <2>2, SubSeqOfSubSeq
    <2> QED
      BY <1>2, <1>5, <2>3
  <1> QED
    BY <1>1, <1>2, <1>5, <1>6 DEF Ancestors

\* The key of the folder at a usable path is a key, as long as keys last.
LEMMA FolderIdType ==
    ASSUME TypeOK, NEW S \in SUBSET Paths, Room(Missing(rows, S)),
           NEW q \in Usable(rows, S)
    PROVE  FolderId(rows, q) \in Ids
  <1>1. q \in S /\ q \in Paths
    BY DEF Usable
  <1>2. CASE At(rows, q) = {}
    <2>1. births[q] < MaxBirths /\ births[q] \in 0 .. MaxBirths
      BY <1>1, <1>2 DEF Room, Missing, TypeOK
    <2>2. births[q] + 1 \in 1 .. MaxBirths
      BY <2>1, BoundsAssumption
    <2> QED
      BY <1>1, <1>2, <2>2 DEF FolderId, NewId, Ids
  <1>3. CASE At(rows, q) # {}
    <2>1. FoldersAt(rows, q) # {}
      BY <1>3 DEF Usable
    <2>2. (CHOOSE i \in FoldersAt(rows, q) : TRUE) \in FoldersAt(rows, q)
      BY <2>1
    <2>3. FolderId(rows, q) \in FoldersAt(rows, q)
      BY <1>3, <2>2 DEF FolderId
    <2> QED
      BY <2>3 DEF FoldersAt, At, Live
  <1> QED
    BY <1>2, <1>3

\* The parent of a new row is a row, or none.
LEMMA LastParentType ==
    ASSUME TypeOK, NEW p \in Paths, Room(Missing(rows, Ancestors(p)))
    PROVE  LastParent(rows, p) \in MaybeId
  <1> DEFINE found == Usable(rows, Ancestors(p))
             last == {q \in found : \A o \in found : Len(o) <= Len(q)}
  <1>1. CASE last = {}
    BY <1>1 DEF LastParent, MaybeId
  <1>2. CASE last # {}
    <2>1. LastParent(rows, p) = FolderId(rows, CHOOSE q \in last : TRUE)
      BY <1>2 DEF LastParent
    <2>2. (CHOOSE q \in last : TRUE) \in found
      BY <1>2
    <2> HIDE DEF found, last
    <2>3. FolderId(rows, CHOOSE q \in last : TRUE) \in Ids
      BY <2>2, FolderIdType, AncestorsArePaths DEF found
    <2> QED
      BY <2>1, <2>3 DEF MaybeId
  <1> QED
    BY <1>1, <1>2

-----------------------------------------------------------------------------
(* Tables *)

LEMMA RoomBelow ==
    ASSUME NEW S, NEW T \in SUBSET S, Room(Missing(rows, S))
    PROVE  Room(Missing(rows, T))
  BY DEF Room, Missing

\* The folders on the way to a path, once made, are well-formed rows.
LEMMA WithFoldersType ==
    ASSUME TypeOK, NEW S \in SUBSET Paths, Room(Missing(rows, S)),
           \A q \in S : Ancestors(q) \subseteq S
    PROVE  WithFolders(rows, S) \in Table
  <1> DEFINE usable == Usable(rows, S)
             ids == {FolderId(rows, q) : q \in usable}
             at(i) == CHOOSE o \in usable : FolderId(rows, o) = i
             folder(i) == [path |-> at(i), parent |-> LastParent(rows, at(i)),
                           kind |-> "folder"]
  <1>1. WithFolders(rows, S) = [i \in Ids |-> IF i \in ids THEN folder(i) ELSE rows[i]]
    BY DEF WithFolders
  <1>2. ASSUME NEW i \in ids PROVE folder(i) \in Row
    <2>1. at(i) \in usable
      OBVIOUS
    <2>2. at(i) \in S
      BY <2>1 DEF Usable
    <2>3. Room(Missing(rows, Ancestors(at(i))))
      BY <2>2, RoomBelow
    <2>4. LastParent(rows, at(i)) \in MaybeId
      BY <2>2, <2>3, LastParentType
    <2> HIDE DEF at
    <2> QED
      BY <2>2, <2>4 DEF Row, MaybeId
  <1>3. \A i \in Ids : rows[i] \in Row \cup {NoRow}
    BY DEF TypeOK
  <1> HIDE DEF ids, folder
  <1>4. \A i \in Ids : (IF i \in ids THEN folder(i) ELSE rows[i]) \in Row \cup {NoRow}
    BY <1>2, <1>3
  <1> QED
    BY <1>1, <1>4 DEF Table

\* One more row, or one row changed.
LEMMA ExceptType ==
    ASSUME NEW rs \in Table, NEW i, NEW row \in Row
    PROVE  [rs EXCEPT ![i] = row] \in Table
  BY DEF Table

LEMMA RemoveType ==
    ASSUME NEW rs \in Table, NEW S
    PROVE  Remove(rs, S) \in Table
  BY DEF Table, Remove

\* Rows that get new paths, all of them paths the column can hold.
LEMMA RebasedType ==
    ASSUME NEW top \in Table, NEW under \in SUBSET Live(top), NEW new,
           NEW rs,
           rs = [i \in Ids |-> IF i \in under THEN [top[i] EXCEPT !.path = new[i]] ELSE top[i]],
           \A i \in Live(rs) : rs[i].path \in Paths
    PROVE  rs \in Table
  <1>1. ASSUME NEW i \in Ids PROVE rs[i] \in Row \cup {NoRow}
    <2>1. CASE i \notin under
      BY <2>1 DEF Table
    <2>2. CASE i \in under
      <3>1. top[i] \in Row
        BY <2>2 DEF Table, Live
      <3>2. rs[i] = [top[i] EXCEPT !.path = new[i]]
        BY <2>2
      <3>3. rs[i] = NoRow \/ rs[i].path \in Paths
        BY DEF Live
      <3>4. rs[i].path = new[i]
        BY <3>1, <3>2 DEF Row
      <3> QED
        BY <3>1, <3>2, <3>3, <3>4 DEF Row
    <2> QED
      BY <2>1, <2>2
  <1>2. rs = [i \in Ids |-> rs[i]]
    OBVIOUS
  <1> QED
    BY <1>1, <1>2 DEF Table

-----------------------------------------------------------------------------
(* The rows below a row *)

Under(rs, i) == CHOOSE under : under = [n \in Nat |->
            IF n = 0 THEN {i} \cap Live(rs)
            ELSE under[n - 1] \cup {j \in Live(rs) : rs[j].parent \in under[n - 1]}]

Beneath(rs, X) == {j \in Live(rs) : rs[j].parent \in X}

\* The rows below a row are found in as many rounds as there are rows,
LEMMA SubtreeIsUnder ==
   ASSUME NEW rs, NEW i PROVE Subtree(rs, i) = Under(rs, i)[Cardinality(Live(rs))]
 BY DEF Subtree, Under

\* each of which adds the children of those found before.
LEMMA UnderStep ==
    ASSUME NEW rs, NEW i
    PROVE  /\ Under(rs, i)[0] = {i} \cap Live(rs)
           /\ \A n \in Nat : Under(rs, i)[n + 1] = Under(rs, i)[n] \cup Beneath(rs, Under(rs, i)[n])
<1> DEFINE step == [X \in SUBSET Ids |-> X \cup {j \in Live(rs) : rs[j].parent \in X}]
           s == {i} \cap Live(rs)
<1>1. s \in SUBSET Ids /\ step \in [SUBSET Ids -> SUBSET Ids]
  BY DEF Live
<1>2. PICK f \in [Nat -> SUBSET Ids] : Iterates(f, s, step)
  <2> HIDE DEF s, step
  <2> QED BY <1>1, Iteration
<1>3. f = [n \in Nat |-> IF n = 0 THEN s ELSE f[n - 1] \cup {j \in Live(rs) : rs[j].parent \in f[n - 1]}]
  <2>1. f = [n \in Nat |-> IF n = 0 THEN s ELSE step[f[n - 1]]]
    BY <1>2 DEF Iterates
  <2>2. \A n \in Nat \ {0} : f[n - 1] \in SUBSET Ids
    BY <1>2
  <2> QED BY <2>1, <2>2
<1>4. Under(rs, i) = [n \in Nat |->
            IF n = 0 THEN s
            ELSE Under(rs, i)[n - 1] \cup {j \in Live(rs) : rs[j].parent \in Under(rs, i)[n - 1]}]
  BY <1>3 DEF Under
<1> HIDE DEF s
<1> DEFINE U == Under(rs, i)
<1>5. \A n \in Nat : U[n] = IF n = 0 THEN s ELSE U[n - 1] \cup Beneath(rs, U[n - 1])
  BY <1>4 DEF Beneath
<1> HIDE DEF U
<1>6. U[0] = s
  BY <1>5
<1>7. ASSUME NEW n \in Nat PROVE U[n + 1] = U[n] \cup Beneath(rs, U[n])
  <2>1. n + 1 \in Nat /\ n + 1 # 0 /\ (n + 1) - 1 = n
    OBVIOUS
  <2>2. U[n + 1] = U[(n + 1) - 1] \cup Beneath(rs, U[(n + 1) - 1])
    BY <1>5, <2>1
  <2> QED BY <2>1, <2>2
<1> QED BY <1>6, <1>7 DEF s, U

\* There are finitely many keys, so finitely many rows.
LEMMA IdsFinite == IsFiniteSet(Ids)
<1>1. IsFiniteSet(1 .. MaxBirths)
  BY BoundsAssumption, FS_Interval
<1> QED BY <1>1, PathsAssumption, FS_Product DEF Ids

\* So there is a number of rows.
LEMMA LiveFinite ==
    ASSUME NEW rs
    PROVE  IsFiniteSet(Live(rs)) /\ Cardinality(Live(rs)) \in Nat
<1>1. Live(rs) \in SUBSET Ids
  BY DEF Live
<1>2. IsFiniteSet(Live(rs))
  BY <1>1, IdsFinite, FS_Subset
<1> QED BY <1>2, FS_CardinalityType

\* Only rows are found below a row, itself included.
LEMMA UnderLive ==
    ASSUME NEW rs, NEW i, NEW n \in Nat
    PROVE  Under(rs, i)[n] \subseteq Live(rs)
<1> DEFINE Good == {k \in Nat : Under(rs, i)[k] \subseteq Live(rs)}
<1>1. 0 \in Good
  BY UnderStep
<1>2. ASSUME NEW k \in Nat, k \in Good PROVE k + 1 \in Good
  BY <1>2, UnderStep DEF Beneath
<1> HIDE DEF Good
<1>3. Nat \subseteq Good
  BY <1>1, <1>2, Induction
<1> QED BY <1>3 DEF Good

\* A set that has the row and the children of its rows has all that is below.
LEMMA SubtreeLeast ==
    ASSUME NEW rs, NEW i, NEW X, i \in Live(rs) => i \in X,
           \A j \in Live(rs) : rs[j].parent \in X => j \in X
    PROVE  Subtree(rs, i) \subseteq X
<1> DEFINE Good == {k \in Nat : Under(rs, i)[k] \subseteq X}
<1>1. 0 \in Good
  BY UnderStep
<1>2. ASSUME NEW k \in Nat, k \in Good PROVE k + 1 \in Good
  BY <1>2, UnderStep DEF Beneath
<1> HIDE DEF Good
<1>3. Nat \subseteq Good
  BY <1>1, <1>2, Induction
<1> QED BY <1>3, LiveFinite, SubtreeIsUnder DEF Good

\* Each link adds a row, until none is left to add.
LEMMA UnderGrows ==
    ASSUME NEW rs, NEW i \in Live(rs), NEW n \in Nat
    PROVE  \/ Beneath(rs, Under(rs, i)[n]) \subseteq Under(rs, i)[n]
           \/ Cardinality(Under(rs, i)[n]) > n
<1> DEFINE U == Under(rs, i)
           Full(k) == Beneath(rs, U[k]) \subseteq U[k]
           Good == {k \in Nat : Full(k) \/ Cardinality(U[k]) > k}
<1>0. \A k \in Nat : U[k] \in SUBSET Live(rs) /\ IsFiniteSet(U[k]) /\ Cardinality(U[k]) \in Nat
  BY UnderLive, LiveFinite, FS_Subset, FS_CardinalityType
<1>s. U[0] = {i} /\ \A k \in Nat : U[k + 1] = U[k] \cup Beneath(rs, U[k])
  BY UnderStep
<1> HIDE DEF U
<1>1. 0 \in Good
  <2>1. Cardinality(U[0]) = 1
    BY <1>s, FS_Singleton
  <2> QED BY <2>1
<1>2. ASSUME NEW k \in Nat, k \in Good PROVE k + 1 \in Good
  <2>1. CASE Full(k)
    <3>1. U[k + 1] = U[k]
      BY <1>s, <2>1
    <3> QED BY <2>1, <3>1
  <2>2. CASE ~Full(k) /\ Cardinality(U[k]) > k
    <3>1. U[k] \in SUBSET U[k + 1] /\ U[k] # U[k + 1]
      BY <1>s, <2>2
    <3>2. IsFiniteSet(U[k + 1]) /\ Cardinality(U[k + 1]) \in Nat /\ Cardinality(U[k]) \in Nat
      BY <1>0
    <3>3. Cardinality(U[k]) <= Cardinality(U[k + 1]) /\ Cardinality(U[k + 1]) # Cardinality(U[k])
      BY <3>1, <3>2, FS_Subset
    <3>4. Cardinality(U[k + 1]) > k + 1
      BY <2>2, <3>2, <3>3
    <3> QED BY <3>4
  <2> QED BY <1>2, <2>1, <2>2
<1> HIDE DEF Good
<1>3. Nat \subseteq Good
  BY <1>1, <1>2, Induction
<1> QED BY <1>3 DEF Good, U

\* A subtree has the rows below its rows.
LEMMA SubtreeClosed ==
    ASSUME NEW rs, NEW i \in Live(rs), NEW j \in Live(rs), rs[j].parent \in Subtree(rs, i)
    PROVE  j \in Subtree(rs, i)
<1> DEFINE n == Cardinality(Live(rs))
<1>1. n \in Nat /\ IsFiniteSet(Live(rs))
  BY LiveFinite
<1>2. Under(rs, i)[n] \in SUBSET Live(rs)
  BY <1>1, UnderLive
<1>3. ~(Cardinality(Under(rs, i)[n]) > n)
  <2>1. Cardinality(Under(rs, i)[n]) <= n /\ Cardinality(Under(rs, i)[n]) \in Nat
    BY <1>1, <1>2, FS_Subset, FS_CardinalityType
  <2> QED BY <1>1, <2>1
<1>4. Beneath(rs, Under(rs, i)[n]) \subseteq Under(rs, i)[n]
  BY <1>1, <1>3, UnderGrows
<1> QED BY <1>4, SubtreeIsUnder DEF Beneath

\* The rows below a row: the row, and rows whose parents are below it.
LEMMA SubtreeFacts ==
    ASSUME NEW rs, NEW i
    PROVE  /\ Subtree(rs, i) \subseteq Live(rs)
           /\ i \in Live(rs) => i \in Subtree(rs, i)
           /\ i \notin Live(rs) => Subtree(rs, i) = {}
           /\ \A j \in Subtree(rs, i) : j = i \/ rs[j].parent \in Subtree(rs, i)
<1>1. Subtree(rs, i) \subseteq Live(rs)
  BY UnderLive, LiveFinite, SubtreeIsUnder
<1>2. ASSUME i \in Live(rs) PROVE i \in Subtree(rs, i)
  <2> DEFINE Good == {k \in Nat : i \in Under(rs, i)[k]}
  <2>1. 0 \in Good
    BY <1>2, UnderStep
  <2>2. ASSUME NEW k \in Nat, k \in Good PROVE k + 1 \in Good
    BY <2>2, UnderStep
  <2> HIDE DEF Good
  <2>3. Nat \subseteq Good
    BY <2>1, <2>2, Induction
  <2> QED BY <2>3, LiveFinite, SubtreeIsUnder DEF Good
<1>3. ASSUME i \notin Live(rs) PROVE Subtree(rs, i) = {}
  <2> DEFINE Good == {k \in Nat : Under(rs, i)[k] = {}}
  <2>1. 0 \in Good
    BY <1>3, UnderStep
  <2>2. ASSUME NEW k \in Nat, k \in Good PROVE k + 1 \in Good
    BY <2>2, UnderStep DEF Beneath
  <2> HIDE DEF Good
  <2>3. Nat \subseteq Good
    BY <2>1, <2>2, Induction
  <2> QED BY <2>3, LiveFinite, SubtreeIsUnder DEF Good
<1>4. ASSUME i \in Live(rs) PROVE \A j \in Subtree(rs, i) : j = i \/ rs[j].parent \in Subtree(rs, i)
  <2> DEFINE X == {j \in Subtree(rs, i) : j = i \/ rs[j].parent \in Subtree(rs, i)}
  <2>1. i \in X
    BY <1>2, <1>4
  <2>2. \A j \in Live(rs) : rs[j].parent \in X => j \in X
    BY <1>4, SubtreeClosed
  <2> HIDE DEF X
  <2>3. Subtree(rs, i) \subseteq X
    BY <2>1, <2>2, SubtreeLeast
  <2> QED BY <2>3 DEF X
<1> QED BY <1>1, <1>2, <1>3, <1>4

\* A query for the descendants of a row finds rows.
LEMMA DescendantsLive ==
    ASSUME NEW rs, NEW i
    PROVE  Descendants(rs, i) \subseteq Live(rs)
  BY SubtreeFacts DEF Descendants

-----------------------------------------------------------------------------
(* Steps of one request *)

\* The tables after a step of a request: locks and clients are not its business.
TablesOK == /\ rows' \in Table /\ births' \in [Paths -> 0 .. MaxBirths]
            /\ calls' \in Nat /\ crashed' \in BOOLEAN
            /\ UNCHANGED <<locks, clients, lockCalls>>

LEMMA GoInv ==
    ASSUME IInv, NEW r \in Requests, NEW m \in Held, HeldOK(m), Go(r, m), TablesOK
    PROVE  IInv'
  <1>1. req' = [req EXCEPT ![r] = m] /\ req \in [Requests -> Held]
    BY DEF Go, IInv, TypeOK
  <1>2. TypeOK'
    BY <1>1 DEF IInv, TypeOK, TablesOK, Table
  <1>3. Active' = Active
    BY DEF Active, TablesOK
  <1>4. ASSUME NEW s \in Requests PROVE HeldOK(req[s])'
    <2>1. req'[s] = IF s = r THEN m ELSE req[s]
      BY <1>1
    <2>2. HeldOK(req[s])
      BY DEF IInv
    <2>3. CASE s = r
      BY <1>3, <2>1, <2>3 DEF HeldOK, Clear
    <2>4. CASE s # r
      BY <1>3, <2>1, <2>2, <2>4 DEF HeldOK, Clear
    <2> QED
      BY <2>3, <2>4
  <1> QED
    BY <1>2, <1>4 DEF IInv

LEMMA IdleOK == Idle \in Held /\ HeldOK(Idle)
  <1> DEFINE p == CHOOSE q \in Paths : TRUE
  <1>1. p \in Paths
    BY PathsAssumption
  <1>2. Idle = [Loaded("create", p, p, "folder", NoParent, NoParent, {}) EXCEPT !.pc = "idle"]
    BY DEF Idle
  <1> HIDE DEF p
  <1>3. Idle \in Held
    BY <1>1, <1>2 DEF Loaded, Held, Ops, PC
  <1>4. Idle.pc = "idle" /\ Idle.held = {} /\ Idle.dest = Idle.path
    BY <1>2 DEF Loaded
  <1> QED
    BY <1>3, <1>4 DEF HeldOK

LEMMA EndInv ==
    ASSUME IInv, NEW r \in Requests, End(r), TablesOK
    PROVE  IInv'
  BY GoInv, IdleOK DEF End

\* A request that goes on with the same locks, path, target and kind.
LEMMA OnwardInv ==
    ASSUME IInv, NEW r \in Requests, NEW m \in Held, Go(r, m), TablesOK,
           req[r].pc \notin {"idle", "loaded"},
           m.held = req[r].held, m.path = req[r].path, m.dest = req[r].dest,
           m.op = req[r].op, m.kind = req[r].kind
    PROVE  IInv'
  <1>1. HeldOK(req[r])
    BY DEF IInv
  <1>2. HeldOK(m)
    BY <1>1 DEF HeldOK, Clear
  <1> QED
    BY <1>2, GoInv

LEMMA TablesStay ==
    ASSUME IInv, UNCHANGED <<rows, births, locks, clients, lockCalls>>,
           calls' \in Nat, crashed' \in BOOLEAN
    PROVE  TablesOK
  BY DEF TablesOK, IInv, TypeOK, Table

LEMMA BirthsType ==
    ASSUME TypeOK, NEW S \in SUBSET Paths, Room(S), Count(S)
    PROVE  births' \in [Paths -> 0 .. MaxBirths]
  <1>1. \A p \in Paths : births[p] \in 0 .. MaxBirths
    BY DEF TypeOK
  <1>2. \A p \in S : births[p] + 1 \in 0 .. MaxBirths
    BY <1>1, BoundsAssumption DEF Room
  <1>3. \A p \in Paths : (IF p \in S THEN births[p] + 1 ELSE births[p]) \in 0 .. MaxBirths
    BY <1>1, <1>2
  <1> QED
    BY <1>3 DEF Count

\* A transaction that would leave a well-formed table, or is rolled back.
LEMMA CommitInv ==
    ASSUME IInv, NEW r \in Requests, NEW rs, NEW S \in SUBSET Paths, NEW m \in Held,
           CommitTo(r, rs, S, m),
           UNCHANGED <<locks, clients, calls, lockCalls, crashed>>,
           Room(S) /\ (\A i \in Live(rs) : rs[i].path \in Paths) => rs \in Table,
           req[r].pc \notin {"idle", "loaded"},
           m = Idle \/ (/\ m.held = req[r].held /\ m.path = req[r].path
                        /\ m.dest = req[r].dest /\ m.op = req[r].op
                        /\ m.kind = req[r].kind)
    PROVE  IInv'
  <1>0. calls \in Nat /\ crashed \in BOOLEAN
    BY DEF IInv, TypeOK
  <1>1. CASE Unique(rs) /\ \A i \in Live(rs) : rs[i].path \in Paths
    <2>1. Room(S) /\ rows' = rs /\ Count(S) /\ Go(r, m)
      BY <1>1 DEF CommitTo
    <2>2. births' \in [Paths -> 0 .. MaxBirths]
      BY <2>1, BirthsType DEF IInv
    <2>3. TablesOK
      BY <1>0, <1>1, <2>1, <2>2 DEF TablesOK
    <2>4. CASE m = Idle
      BY <2>1, <2>3, <2>4, EndInv DEF End
    <2>5. CASE m # Idle
      BY <2>1, <2>3, <2>5, OnwardInv
    <2> QED
      BY <2>4, <2>5
  <1>2. CASE ~(Unique(rs) /\ \A i \in Live(rs) : rs[i].path \in Paths)
    <2>1. UNCHANGED <<rows, births>> /\ End(r)
      BY <1>2 DEF CommitTo
    <2>2. TablesOK
      BY <1>0, <2>1, TablesStay
    <2> QED
      BY <2>1, <2>2, EndInv
  <1> QED
    BY <1>1, <1>2

-----------------------------------------------------------------------------
(* The actions *)

LEMMA BeginInv ==
    ASSUME IInv, NEW r \in Requests, NEW op \in Ops, NEW p \in Paths, NEW d \in Paths,
           NEW k \in Kinds \cup {"folder"}, Begin(r, op, p, d, k)
    PROVE  IInv'
  <1> DEFINE found == At(rows, p)
             i == IF found = {} THEN NoParent ELSE CHOOSE j \in found : TRUE
             parent == IF found = {} THEN NoParent ELSE rows[i].parent
             m == Loaded(op, p, d, k, i, parent, Active)
  <1>1. Go(r, m)
    BY DEF Begin
  <1>2. i \in MaybeId /\ parent \in MaybeId
    <2>1. CASE found = {}
      BY <2>1 DEF MaybeId
    <2>2. CASE found # {}
      <3>1. i \in found
        BY <2>2
      <3>2. i \in Ids /\ rows[i] # NoRow
        BY <3>1 DEF At, Live
      <3>3. rows[i] \in Row
        BY <3>2 DEF IInv, TypeOK
      <3> QED
        BY <2>2, <3>2, <3>3 DEF MaybeId, Row
    <2> QED
      BY <2>1, <2>2
  <1> HIDE DEF i, parent
  <1>3. m \in Held /\ m.held = Active /\ m.pc = "loaded"
        /\ m.op = op /\ m.dest = d /\ m.path = p
    BY <1>2 DEF Loaded, Held, MaybeId, PC, Active
  <1>4. HeldOK(m)
    BY <1>3 DEF HeldOK, Begin
  <1>5. TablesOK
    <2>1. UNCHANGED <<rows, births, locks, clients, lockCalls, crashed>> /\ calls' = calls + 1
      BY DEF Begin
    <2> QED
      BY <2>1, TablesStay DEF IInv, TypeOK
  <1> HIDE DEF m
  <1> QED
    BY <1>1, <1>3, <1>4, <1>5, GoInv

\* What the lock check refuses is all that NoLockIsPassed asks for.
LEMMA RefusingClears ==
    ASSUME IInv, NEW r \in Requests, Refusing(r) \cap Active = {}
    PROVE  Clear(req[r])
  <1>1. req[r].held \subseteq Active /\ Active \subseteq Paths
    BY DEF IInv, HeldOK, Active
  <1> SUFFICES ASSUME NEW q \in req[r].held
               PROVE  /\ ~Covers(q, req[r].path) /\ ~Covers(q, req[r].dest)
                      /\ req[r].op = "move" /\ req[r].kind = "folder" =>
                            ~Covers(req[r].path, q)
    BY DEF Clear
  <1>2. q \in Paths /\ q \notin Refusing(r)
    BY <1>1
  <1>3. req[r].op \notin {"move", "copy"} => req[r].dest = req[r].path
    BY DEF IInv, HeldOK
  <1> QED
    BY <1>2, <1>3 DEF Refusing

LEMMA ValidateInv ==
    ASSUME IInv, NEW r \in Requests, Validate(r)
    PROVE  IInv'
  <1> DEFINE m == req[r]
             prunes == m.op \in {"delete", "move"}
             fails == \/ m.op \in {"create", "move"} /\ Conflict(m.dest)
                      \/ prunes /\ m.parent # NoParent /\ rows[m.parent] = NoRow
             up == IF prunes THEN m.parent ELSE NoParent
             next == IF prunes /\ m.parent # NoParent THEN rows[m.parent].parent ELSE NoParent
             list == IF m.op = "copy" THEN Copied(m) ELSE {}
             m2 == [m EXCEPT !.pc = "valid", !.up = up, !.next = next, !.list = list]
  <1>0. m \in Held /\ m.pc = "checked"
    BY DEF IInv, TypeOK, Validate
  <1>1. TablesOK
    BY TablesStay DEF Validate, IInv, TypeOK
  <1>2. CASE fails
    BY <1>1, <1>2, EndInv DEF Validate
  <1>3. CASE ~fails
    <2>1. Go(r, m2)
      BY <1>3 DEF Validate
    <2>2. up \in MaybeId
      BY <1>0 DEF Held, MaybeId
    <2>3. next \in MaybeId
      <3>1. CASE prunes /\ m.parent # NoParent
        <4>1. rows[m.parent] # NoRow /\ m.parent \in Ids
          BY <1>0, <1>3, <3>1 DEF Held
        <4>2. rows[m.parent] \in Row
          BY <4>1 DEF IInv, TypeOK
        <4> QED
          BY <3>1, <4>2 DEF Row, MaybeId
      <3>2. CASE ~(prunes /\ m.parent # NoParent)
        BY <3>2 DEF MaybeId
      <3> QED
        BY <3>1, <3>2
    <2>4. list \subseteq Ids \X Paths
      <3>1. Descendants(rows, m.id) \subseteq Live(rows)
        BY DescendantsLive
      <3>2. \A j \in Live(rows) : j \in Ids /\ rows[j].path \in Paths
        BY DEF Live, IInv, TypeOK, Row
      <3>3. Copied(m) \subseteq Ids \X Paths
        BY <3>1, <3>2 DEF Copied
      <3> QED
        BY <3>3
    <2> HIDE DEF up, next, list
    <2>5. m2 \in Held
      BY <1>0, <2>2, <2>3, <2>4 DEF Held, MaybeId, PC
    <2>6. m2.held = m.held /\ m2.path = m.path /\ m2.dest = m.dest /\ m2.op = m.op
          /\ m2.kind = m.kind
      BY <1>0 DEF Held
    <2> HIDE DEF m2
    <2> QED
      BY <1>0, <1>1, <2>1, <2>5, <2>6, OnwardInv
  <1> QED
    BY <1>2, <1>3

LEMMA CommitCreateInv ==
    ASSUME IInv, NEW r \in Requests, CommitCreate(r)
    PROVE  IInv'
  <1> DEFINE m == req[r]
             made == Missing(rows, Ancestors(m.path))
             row == [path |-> m.path, kind |-> m.kind, parent |-> LastParent(rows, m.path)]
             rs == [WithFolders(rows, Ancestors(m.path)) EXCEPT ![NewId(m.path)] = row]
             S == made \cup {m.path}
  <1>1. m \in Held /\ m.pc = "valid" /\ m.path \in Paths /\ TypeOK
    BY DEF IInv, TypeOK, CommitCreate, Held
  <1>2. CommitTo(r, rs, S, Idle) /\ UNCHANGED <<locks, clients, calls, lockCalls, crashed>>
    BY DEF CommitCreate
  <1>3. S \subseteq Paths /\ Ancestors(m.path) \subseteq Paths
    BY <1>1, AncestorsArePaths DEF Missing
  <1>4. ASSUME Room(S) PROVE rs \in Table
    <2>1. Room(made)
      BY <1>4 DEF Room
    <2>2. WithFolders(rows, Ancestors(m.path)) \in Table
      BY <1>1, <1>3, <2>1, WithFoldersType, AncestorsTransitive
    <2>3. LastParent(rows, m.path) \in MaybeId
      BY <1>1, <2>1, LastParentType
    <2>4. row \in Row
      BY <1>1, <2>3 DEF Row, MaybeId, Held
    <2> HIDE DEF row
    <2> QED
      BY <2>2, <2>4, ExceptType
  <1> HIDE DEF rs, S
  <1>5. Idle \in Held
    BY IdleOK
  <1> QED
    BY <1>1, <1>2, <1>3, <1>4, <1>5, CommitInv

LEMMA CommitMoveInv ==
    ASSUME IInv, NEW r \in Requests, CommitMove(r)
    PROVE  IInv'
  <1> DEFINE m == req[r]
             made == Missing(rows, Ancestors(m.dest))
             row == [path |-> m.dest, kind |-> m.kind, parent |-> LastParent(rows, m.dest)]
             top == [WithFolders(rows, Ancestors(m.dest)) EXCEPT ![m.id] = row]
             under == IF m.kind = "folder" THEN Descendants(top, m.id) \ {m.id} ELSE {}
             new == [i \in Ids |-> Rebase(top[i].path, m.path, m.dest)]
             rs == Moved(m)
             m2 == [m EXCEPT !.pc = "prune"]
  <1>1. m \in Held /\ m.pc = "valid" /\ m.dest \in Paths /\ TypeOK
    BY DEF IInv, TypeOK, CommitMove, Held
  <1>2. CommitTo(r, rs, made, m2) /\ UNCHANGED <<locks, clients, calls, lockCalls, crashed>>
    BY DEF CommitMove
  <1>3. made \subseteq Paths /\ Ancestors(m.dest) \subseteq Paths
    BY <1>1, AncestorsArePaths DEF Missing
  <1>4. ASSUME Room(made), \A i \in Live(rs) : rs[i].path \in Paths PROVE rs \in Table
    <2>1. WithFolders(rows, Ancestors(m.dest)) \in Table
      BY <1>1, <1>3, <1>4, WithFoldersType, AncestorsTransitive
    <2>2. LastParent(rows, m.dest) \in MaybeId
      BY <1>1, <1>4, LastParentType
    <2>3. row \in Row
      BY <1>1, <2>2 DEF Row, MaybeId, Held
    <2>4. top \in Table
      BY <2>1, <2>3, ExceptType
    <2>5. under \subseteq Live(top)
      BY DescendantsLive
    <2>6. rs = [i \in Ids |-> IF i \in under
                              THEN [top[i] EXCEPT !.path = Rebase(top[i].path, m.path, m.dest)]
                              ELSE top[i]]
      BY DEF Moved
    <2> HIDE DEF top, under, rs
    <2>7. \A i \in Ids : new[i] = Rebase(top[i].path, m.path, m.dest)
      OBVIOUS
    <2>8. rs = [i \in Ids |-> IF i \in under THEN [top[i] EXCEPT !.path = new[i]] ELSE top[i]]
      BY <2>6, <2>7
    <2> HIDE DEF new
    <2> QED
      BY <1>4, <2>4, <2>5, <2>8, RebasedType
  <1>5. m2 \in Held /\ m2.held = m.held /\ m2.path = m.path /\ m2.dest = m.dest
        /\ m2.op = m.op /\ m2.kind = m.kind
    BY <1>1 DEF Held, PC
  <1> HIDE DEF rs, made, m2
  <1> QED
    BY <1>1, <1>2, <1>3, <1>4, <1>5, CommitInv

LEMMA CommitCopyInv ==
    ASSUME IInv, NEW r \in Requests, CommitCopy(r)
    PROVE  IInv'
  <1> DEFINE m == req[r]
             target(e) == Rebase(e[2], m.path, m.dest)
             targets == {target(e) : e \in m.list}
             above == UNION {Ancestors(p) : p \in targets}
             source(p) == CHOOSE e \in m.list : target(e) = p
             kindAt(p) == rows[source(p)[1]].kind
             made == Missing(rows, above)
             base == WithFolders(rows, above)
             row(p) == [path |-> p, kind |-> kindAt(p), parent |-> LastParent(rows, p)]
             rs == [i \in Ids |-> IF i[1] \in targets /\ i = NewId(i[1])
                                  THEN [path |-> i[1], kind |-> kindAt(i[1]),
                                        parent |-> LastParent(rows, i[1])]
                                  ELSE base[i]]
             fails == \/ ~(targets \subseteq Paths)
                      \/ \E e \in m.list : rows[e[1]] = NoRow
                      \/ \E p \in targets : Conflict(p) \/ \E q \in Active : Covers(q, p)
                      \/ \E p \in targets : p \in above
  <1>1. m \in Held /\ m.pc = "valid" /\ TypeOK
    BY DEF IInv, TypeOK, CommitCopy
  <1>2. UNCHANGED <<locks, clients, calls, lockCalls, crashed>>
    BY DEF CommitCopy
  <1>3. CASE fails
    <2>1. UNCHANGED <<rows, births>> /\ End(r)
      BY <1>3 DEF CommitCopy
    <2>2. TablesOK
      BY <1>1, <1>2, <2>1, TablesStay DEF TypeOK
    <2> QED
      BY <2>1, <2>2, EndInv
  <1>4. CASE ~fails
    <2>1. CommitTo(r, rs, made \cup targets, Idle)
      BY <1>4 DEF CommitCopy
    <2>2. targets \subseteq Paths /\ \A e \in m.list : rows[e[1]] # NoRow
      BY <1>4
    <2>3. above \subseteq Paths /\ \A q \in above : Ancestors(q) \subseteq above
      BY <2>2, AncestorsArePaths, AncestorsTransitive
    <2>4. ASSUME Room(made \cup targets) PROVE rs \in Table
      <3>1. Room(made)
        BY <2>4 DEF Room
      <3>2. base \in Table
        BY <1>1, <2>3, <3>1, WithFoldersType
      <3>3. ASSUME NEW p \in targets PROVE row(p) \in Row
        <4>1. source(p) \in m.list
          OBVIOUS
        <4> HIDE DEF source
        <4>2. source(p)[1] \in Ids /\ rows[source(p)[1]] # NoRow
          BY <1>1, <2>2, <4>1 DEF Held
        <4>3. rows[source(p)[1]] \in Row
          BY <1>1, <4>2 DEF TypeOK
        <4>4. kindAt(p) \in Kinds \cup {"folder"}
          BY <4>3 DEF Row
        <4>5. Ancestors(p) \subseteq above
          OBVIOUS
        <4>6. p \in Paths
          BY <2>2
        <4>7. LastParent(rows, p) \in MaybeId
          BY <1>1, <3>1, <4>5, <4>6, RoomBelow, LastParentType
        <4> HIDE DEF kindAt
        <4> QED
          BY <4>4, <4>6, <4>7 DEF Row, MaybeId
      <3> HIDE DEF targets, base, kindAt
      <3>4. \A i \in Ids : rs[i] \in Row \cup {NoRow}
        BY <3>2, <3>3 DEF Table
      <3> QED
        BY <3>4 DEF Table
    <2>5. made \cup targets \in SUBSET Paths
      BY <2>2, <2>3 DEF Missing
    <2> HIDE DEF rs, made, targets
    <2> QED
      BY <1>1, <1>2, <2>1, <2>4, <2>5, IdleOK, CommitInv
  <1> QED
    BY <1>3, <1>4

LEMMA CommitDeleteInv ==
    ASSUME IInv, NEW r \in Requests, CommitDelete(r)
    PROVE  IInv'
  <1> DEFINE m == [req[r] EXCEPT !.pc = "prune", !.gone = req[r].id]
  <1>1. req[r] \in Held /\ req[r].pc = "valid" /\ Go(r, m)
    BY DEF IInv, TypeOK, CommitDelete
  <1>2. rows' \in Table
    <2>1. rows \in Table
      BY DEF IInv, TypeOK, Table
    <2> QED
      BY <2>1, RemoveType DEF CommitDelete
  <1>3. TablesOK
    BY <1>2 DEF CommitDelete, TablesOK, IInv, TypeOK
  <1>4. m \in Held /\ m.held = req[r].held /\ m.path = req[r].path
        /\ m.dest = req[r].dest /\ m.op = req[r].op /\ m.kind = req[r].kind
    BY <1>1 DEF Held, PC
  <1> HIDE DEF m
  <1> QED
    BY <1>1, <1>3, <1>4, OnwardInv

LEMMA CommitSaveInv ==
    ASSUME IInv, NEW r \in Requests, CommitSave(r)
    PROVE  IInv'
  <1> DEFINE m == req[r]
             row == [path |-> m.path, parent |-> m.parent, kind |-> m.kind]
             rs == [rows EXCEPT ![m.id] = row]
  <1>1. m \in Held /\ m.pc = "valid" /\ rows \in Table
    BY DEF IInv, TypeOK, CommitSave, Table
  <1>2. UNCHANGED <<locks, clients, calls, lockCalls, crashed>>
    BY DEF CommitSave
  <1>3. CASE m.parent # NoParent /\ rows[m.parent] = NoRow
    <2>1. UNCHANGED <<rows, births>> /\ End(r)
      BY <1>3 DEF CommitSave
    <2>2. TablesOK
      BY <1>2, <2>1, TablesStay DEF IInv, TypeOK
    <2> QED
      BY <2>1, <2>2, EndInv
  <1>4. CASE ~(m.parent # NoParent /\ rows[m.parent] = NoRow)
    <2>1. CommitTo(r, rs, {}, Idle)
      BY <1>4 DEF CommitSave
    <2>2. row \in Row
      BY <1>1 DEF Held, Row
    <2> HIDE DEF row
    <2>3. rs \in Table
      BY <1>1, <2>2, ExceptType
    <2> HIDE DEF rs
    <2> QED
      BY <1>1, <1>2, <2>1, <2>3, IdleOK, CommitInv
  <1> QED
    BY <1>3, <1>4

LEMMA PruneCheckInv ==
    ASSUME IInv, NEW r \in Requests, PruneCheck(r)
    PROVE  IInv'
  <1> DEFINE m == req[r]
             stop == \/ m.up = NoParent
                     \/ Children(rows, m.up) \ {m.gone} # {}
                     \/ m.next # NoParent /\ rows[m.next] = NoRow
             over == IF m.next = NoParent THEN NoParent ELSE rows[m.next].parent
             m2 == [m EXCEPT !.pc = "pruning", !.over = over]
  <1>1. m \in Held /\ m.pc = "prune"
    BY DEF IInv, TypeOK, PruneCheck
  <1>2. TablesOK
    BY TablesStay DEF PruneCheck, IInv, TypeOK
  <1>3. CASE stop
    BY <1>2, <1>3, EndInv DEF PruneCheck
  <1>4. CASE ~stop
    <2>1. Go(r, m2)
      BY <1>4 DEF PruneCheck
    <2>2. over \in MaybeId
      <3>1. CASE m.next = NoParent
        BY <3>1 DEF MaybeId
      <3>2. CASE m.next # NoParent
        <4>1. rows[m.next] # NoRow /\ m.next \in Ids
          BY <1>1, <1>4, <3>2 DEF Held
        <4>2. rows[m.next] \in Row
          BY <4>1 DEF IInv, TypeOK
        <4> QED
          BY <3>2, <4>2 DEF Row, MaybeId
      <3> QED
        BY <3>1, <3>2
    <2> HIDE DEF over
    <2>3. m2 \in Held /\ m2.held = m.held /\ m2.path = m.path /\ m2.dest = m.dest
          /\ m2.op = m.op /\ m2.kind = m.kind
      BY <1>1, <2>2 DEF Held, PC, MaybeId
    <2> HIDE DEF m2
    <2> QED
      BY <1>1, <1>2, <2>1, <2>3, OnwardInv
  <1> QED
    BY <1>3, <1>4

LEMMA PruneDeleteInv ==
    ASSUME IInv, NEW r \in Requests, PruneDelete(r)
    PROVE  IInv'
  <1> DEFINE m == req[r]
             gone == IF m.op = "delete" THEN m.up ELSE NoParent
             m2 == [m EXCEPT !.pc = "prune", !.up = m.next, !.next = m.over,
                             !.over = NoParent, !.gone = gone]
  <1>1. m \in Held /\ m.pc = "pruning" /\ Go(r, m2)
    BY DEF IInv, TypeOK, PruneDelete
  <1>2. rows' \in Table
    <2>1. rows \in Table
      BY DEF IInv, TypeOK, Table
    <2> QED
      BY <2>1, RemoveType DEF PruneDelete
  <1>3. TablesOK
    BY <1>2 DEF PruneDelete, TablesOK, IInv, TypeOK
  <1>4. gone \in MaybeId
    BY <1>1 DEF Held, MaybeId
  <1> HIDE DEF gone
  <1>5. m2 \in Held /\ m2.held = m.held /\ m2.path = m.path /\ m2.dest = m.dest
        /\ m2.op = m.op /\ m2.kind = m.kind
    BY <1>1, <1>4 DEF Held, PC, MaybeId
  <1> HIDE DEF m2
  <1> QED
    BY <1>1, <1>3, <1>5, OnwardInv

LEMMA CheckLocksInv ==
    ASSUME IInv, NEW r \in Requests, CheckLocks(r)
    PROVE  IInv'
  <1> DEFINE pc == IF req[r].op = "save" THEN "valid" ELSE "checked"
             m == [req[r] EXCEPT !.pc = pc]
  <1>1. req[r] \in Held
    BY DEF IInv, TypeOK
  <1>2. TablesOK
    BY TablesStay DEF CheckLocks, IInv, TypeOK
  <1>3. CASE Refusing(r) \cap Active # {}
    BY <1>2, <1>3, EndInv DEF CheckLocks
  <1>4. CASE Refusing(r) \cap Active = {}
    <2>1. Go(r, m)
      BY <1>4 DEF CheckLocks
    <2>2. m \in Held /\ m.held = req[r].held /\ m.path = req[r].path
          /\ m.dest = req[r].dest /\ m.op = req[r].op /\ m.kind = req[r].kind
      BY <1>1 DEF Held, PC
    <2>3. Clear(req[r])
      BY <1>4, RefusingClears
    <2> HIDE DEF m
    <2>4. HeldOK(m)
      BY <2>2, <2>3 DEF HeldOK, Clear, IInv
    <2> QED
      BY <1>2, <2>1, <2>2, <2>4, GoInv
  <1> QED
    BY <1>3, <1>4

LEMMA EndingInv ==
    ASSUME IInv, NEW r \in Requests, Refuse(r) \/ Crash(r)
    PROVE  IInv'
  <1>1. End(r) /\ UNCHANGED <<rows, births, locks, clients, calls, lockCalls>>
    BY DEF Refuse, Crash
  <1>2. crashed' \in BOOLEAN /\ calls' \in Nat
    BY DEF Refuse, Crash, IInv, TypeOK
  <1> QED
    BY <1>1, <1>2, TablesStay, EndInv

\* A lock call: the locks a request remembers lose p when p's lock goes.
LEMMA LockInv ==
    ASSUME IInv, NEW p \in Paths, NEW v \in Lock, locks' = [locks EXCEPT ![p] = v], LockStep,
           (v \in {"forever", "timed"} /\ UNCHANGED req) \/ Unlocked(p)
    PROVE  IInv'
  <1>1. lockCalls' \in 0 .. MaxLockCalls
    BY BoundsAssumption DEF LockStep, IInv, TypeOK
  <1>2. locks' \in [Paths -> Lock]
    BY DEF IInv, TypeOK
  <1>3. req' \in [Requests -> Held]
    <2>1. CASE UNCHANGED req
      BY <2>1 DEF IInv, TypeOK
    <2>2. CASE Unlocked(p)
      <3>1. \A s \in Requests : [req[s] EXCEPT !.held = @ \ {p}] \in Held
        BY DEF IInv, TypeOK, Held
      <3> QED
        BY <2>2, <3>1 DEF Unlocked
    <2> QED
      BY <2>1, <2>2
  <1>4. TypeOK'
    BY <1>1, <1>2, <1>3 DEF TypeOK, LockStep, IInv
  <1>5. Active \ {p} \subseteq Active'
    BY DEF Active, IInv, TypeOK
  <1>6. ASSUME NEW s \in Requests PROVE HeldOK(req[s])'
    <2>1. HeldOK(req[s]) /\ req[s] \in Held
      BY DEF IInv, TypeOK
    <2>2. CASE v \in {"forever", "timed"} /\ UNCHANGED req
      <3>1. Active \subseteq Active'
        BY <1>5, <2>2 DEF Active, IInv, TypeOK
      <3> QED
        BY <2>1, <2>2, <3>1 DEF HeldOK, Clear
    <2>3. CASE Unlocked(p)
      <3>1. req'[s] = [req[s] EXCEPT !.held = @ \ {p}]
        BY <2>3 DEF Unlocked
      <3>2. req'[s].held = req[s].held \ {p} /\ req'[s].path = req[s].path
            /\ req'[s].dest = req[s].dest /\ req'[s].op = req[s].op
            /\ req'[s].kind = req[s].kind /\ req'[s].pc = req[s].pc
        BY <2>1, <3>1 DEF Held
      <3> QED
        BY <1>5, <2>1, <3>2 DEF HeldOK, Clear
    <2> QED
      BY <2>2, <2>3
  <1> QED
    BY <1>4, <1>6 DEF IInv

LEMMA LockCallsInv ==
    ASSUME IInv, NEW p \in Paths, NEW kind \in Lock,
           DeleteLock(p) \/ Expire(p) \/ CreateLock(p, kind) \/ ReplaceLock(p, kind)
    PROVE  IInv'
  <1>1. CASE DeleteLock(p)
    BY <1>1, LockInv DEF DeleteLock, Lock
  <1>2. CASE Expire(p)
    BY <1>2, LockInv DEF Expire, Lock
  <1>3. CASE CreateLock(p, kind)
    BY <1>3, LockInv DEF CreateLock
  <1>4. CASE ReplaceLock(p, kind)
    BY <1>4, LockInv DEF ReplaceLock
  <1> QED
    BY <1>1, <1>2, <1>3, <1>4

-----------------------------------------------------------------------------
LEMMA InitInv == Init => IInv
  <1> SUFFICES ASSUME Init PROVE IInv
    OBVIOUS
  <1>1. TypeOK
    <2>1. rows \in [Ids -> Row \cup {NoRow}]
      BY DEF Init
    <2>2. births \in [Paths -> 0 .. MaxBirths] /\ lockCalls \in 0 .. MaxLockCalls
      BY BoundsAssumption DEF Init
    <2>3. locks \in [Paths -> Lock] /\ calls \in Nat /\ crashed \in BOOLEAN
      BY DEF Init, Lock
    <2>4. req \in [Requests -> Held] /\ clients \in Clients
      BY IdleOK DEF Init
    <2> QED
      BY <2>1, <2>2, <2>3, <2>4 DEF TypeOK
  <1>2. \A r \in Requests : HeldOK(req[r])
    <2>1. \A r \in Requests : req[r] = Idle
      BY DEF Init
    <2> QED
      BY <2>1, IdleOK DEF HeldOK, Clear
  <1> QED
    BY <1>1, <1>2 DEF IInv

LEMMA StepInv ==
    ASSUME IInv, NEW r \in Requests, Step(r)
    PROVE  IInv'
  <1>1. CASE Refuse(r)
    BY <1>1, EndingInv
  <1>2. CASE CheckLocks(r)
    BY <1>2, CheckLocksInv
  <1>3. CASE Validate(r)
    BY <1>3, ValidateInv
  <1>4. CASE CommitCreate(r)
    BY <1>4, CommitCreateInv
  <1>5. CASE CommitDelete(r)
    BY <1>5, CommitDeleteInv
  <1>6. CASE CommitMove(r)
    BY <1>6, CommitMoveInv
  <1>7. CASE CommitCopy(r)
    BY <1>7, CommitCopyInv
  <1>8. CASE CommitSave(r)
    BY <1>8, CommitSaveInv
  <1>9. CASE PruneCheck(r)
    BY <1>9, PruneCheckInv
  <1>10. CASE PruneDelete(r)
    BY <1>10, PruneDeleteInv
  <1> QED
    BY <1>1, <1>2, <1>3, <1>4, <1>5, <1>6, <1>7, <1>8, <1>9, <1>10, Zenon DEF Step, Commit

LEMMA NextInv == IInv /\ [Next]_vars => IInv'
  <1> SUFFICES ASSUME IInv, [Next]_vars PROVE IInv'
    OBVIOUS
  <1>1. CASE UNCHANGED vars
    <2>1. UNCHANGED <<rows, births, locks, req, clients, calls, lockCalls, crashed>>
      BY <1>1 DEF vars
    <2> QED
      BY <2>1 DEF IInv, TypeOK, HeldOK, Clear, Active
  <1>2. CASE \E r \in Requests : Step(r) \/ Crash(r)
    BY <1>2, StepInv, EndingInv
  <1>3. CASE \E r \in Requests, op \in Ops, p \in Paths, d \in Paths, k \in Kinds \cup {"folder"} :
                Begin(r, op, p, d, k)
    BY <1>3, BeginInv
  <1>4. CASE \E p \in Paths : DeleteLock(p) \/ Expire(p)
    <2>1. "none" \in Lock
      BY DEF Lock
    <2> QED
      BY <1>4, <2>1, LockCallsInv
  <1>5. CASE \E p \in Paths, kind \in Lock : CreateLock(p, kind) \/ ReplaceLock(p, kind)
    BY <1>5, LockCallsInv
  <1> QED
    BY <1>1, <1>2, <1>3, <1>4, <1>5 DEF Next

LEMMA Invariance == Spec => []IInv
  BY InitInv, NextInv, PTL DEF Spec

\* For any paths, requests and bounds: a transaction leaves rows whose paths
\* and parents the columns can hold, or is rolled back, and what a request
\* holds between its steps is well formed.
THEOREM TreeTypeCorrect == Spec => []TypeOK
  <1>1. IInv => TypeOK
    BY DEF IInv
  <1> QED
    BY <1>1, Invariance, PTL

\* For any paths and locks and however lock calls, expiries and requests
\* interleave: a request past its lock check was clear, when it was checked, of
\* every lock in force since it began.
THEOREM TreeHonoursLocks == Spec => []NoLockIsPassed
  <1>1. IInv => NoLockIsPassed
    BY DEF IInv, HeldOK, Clear, NoLockIsPassed
  <1> QED
    BY <1>1, Invariance, PTL

-----------------------------------------------------------------------------
(* Paths *)

\* A path is a sequence of names, at least one.
LEMMA PathFacts ==
    ASSUME NEW p \in Paths
    PROVE  p \in Seq(STRING) /\ Len(p) \in Nat /\ Len(p) > 0
  BY PathsAssumption

\* A path is at the top level or below it.
LEMMA PathDepth ==
    ASSUME NEW p \in Paths
    PROVE  (Len(p) = 1) # (Len(p) > 1)
<1> DEFINE n == Len(p)
<1>1. n \in Nat /\ n > 0
  BY PathFacts
<1> HIDE DEF n
<1>2. (n = 1) # (n > 1)
  BY <1>1
<1> QED BY <1>2 DEF n

\* The first entries of a sequence.
LEMMA PrefixFacts ==
    ASSUME NEW s \in Seq(STRING), NEW n \in 0 .. Len(s)
    PROVE  /\ SubSeq(s, 1, n) \in Seq(STRING) /\ Len(SubSeq(s, 1, n)) = n
           /\ \A i \in 1 .. n : SubSeq(s, 1, n)[i] = s[i]
  OBVIOUS

\* Sequences with the same entries are the same.
LEMMA SameSequence ==
    ASSUME NEW s \in Seq(STRING), NEW t \in Seq(STRING), Len(s) = Len(t),
           \A i \in 1 .. Len(s) : s[i] = t[i]
    PROVE  s = t
  BY SeqEqual

\* A path is below another if it begins with it, entry by entry.
LEMMA CoversEntries ==
    ASSUME NEW s \in Seq(STRING), NEW t \in Seq(STRING)
    PROVE  Covers(t, s) <=> Len(t) <= Len(s) /\ \A i \in 1 .. Len(t) : t[i] = s[i]
<1>1. Len(s) \in Nat /\ Len(t) \in Nat
  OBVIOUS
<1>2. ASSUME Covers(t, s) PROVE Len(t) <= Len(s) /\ \A i \in 1 .. Len(t) : t[i] = s[i]
  <2>1. CASE s = t
    BY <1>1, <2>1
  <2>2. CASE Below(s, t)
    BY <1>1, <2>2, PrefixFacts DEF Below
  <2> QED BY <1>2, <2>1, <2>2 DEF Covers
<1>3. ASSUME Len(t) <= Len(s), \A i \in 1 .. Len(t) : t[i] = s[i] PROVE Covers(t, s)
  <2>1. SubSeq(s, 1, Len(t)) = t
    BY <1>1, <1>3, PrefixFacts, SameSequence
  <2>2. CASE Len(t) = Len(s)
    BY <1>3, <2>2, SameSequence DEF Covers
  <2>3. CASE Len(t) < Len(s)
    BY <2>1, <2>3 DEF Covers, Below
  <2> QED BY <1>1, <1>3, <2>2, <2>3
<1> QED BY <1>2, <1>3

\* A path without its last name is its last ancestor.
LEMMA FrontFacts ==
    ASSUME NEW p \in Paths, Len(p) > 1
    PROVE  /\ Front(p) \in Paths /\ Front(p) \in Ancestors(p)
           /\ Len(Front(p)) = Len(p) - 1
           /\ \A i \in 1 .. Len(p) - 1 : Front(p)[i] = p[i]
<1>1. p \in Seq(STRING) /\ Len(p) - 1 \in 1 .. Len(p) - 1 /\ Len(p) - 1 \in 0 .. Len(p)
  BY PathFacts
<1>2. Front(p) \in Ancestors(p)
  BY <1>1 DEF Front, Ancestors
<1> QED BY <1>1, <1>2, AncestorsArePaths, PrefixFacts DEF Front

\* The ancestors of a path are the paths it is below.
LEMMA AncestorIsAbove ==
    ASSUME NEW p \in Paths, NEW q \in Paths
    PROVE  q \in Ancestors(p) <=> Below(p, q)
<1>1. p \in Seq(STRING) /\ q \in Seq(STRING) /\ Len(p) \in Nat /\ Len(q) \in Nat /\ Len(q) > 0
  BY PathFacts
<1>2. ASSUME q \in Ancestors(p) PROVE Below(p, q)
  <2>1. PICK n \in 1 .. Len(p) - 1 : q = SubSeq(p, 1, n)
    BY <1>2 DEF Ancestors
  <2>2. n \in 0 .. Len(p) /\ Len(q) = n
    BY <1>1, <2>1, PrefixFacts
  <2> QED BY <1>1, <2>1, <2>2 DEF Below
<1>3. ASSUME Below(p, q) PROVE q \in Ancestors(p)
  <2>1. Len(q) \in 1 .. Len(p) - 1 /\ q = SubSeq(p, 1, Len(q))
    BY <1>1, <1>3 DEF Below
  <2> QED BY <2>1 DEF Ancestors
<1> QED BY <1>2, <1>3

\* A path below q: its front is q or below q.
LEMMA BelowFront ==
    ASSUME NEW p \in Paths, NEW q \in Paths
    PROVE  Below(p, q) <=> Len(p) > 1 /\ Covers(q, Front(p))
<1>1. p \in Seq(STRING) /\ q \in Seq(STRING) /\ Len(p) \in Nat /\ Len(q) \in Nat /\ Len(q) > 0 /\ Len(p) > 0
  BY PathFacts
<1>2. Below(p, q) <=> Len(q) < Len(p) /\ \A i \in 1 .. Len(q) : q[i] = p[i]
  <2>1. Covers(q, p) <=> Len(q) <= Len(p) /\ \A i \in 1 .. Len(q) : q[i] = p[i]
    BY <1>1, CoversEntries
  <2>2. Below(p, q) <=> Covers(q, p) /\ Len(q) < Len(p)
    BY <1>1 DEF Covers, Below
  <2> QED BY <1>1, <2>1, <2>2
<1>3. CASE Len(p) > 1
  <2>1. Front(p) \in Seq(STRING) /\ Len(Front(p)) = Len(p) - 1 /\ \A i \in 1 .. Len(p) - 1 : Front(p)[i] = p[i]
    BY <1>3, FrontFacts, PathFacts
  <2>2. Covers(q, Front(p)) <=> Len(q) <= Len(p) - 1 /\ \A i \in 1 .. Len(q) : q[i] = Front(p)[i]
    BY <1>1, <2>1, CoversEntries
  <2> HIDE DEF Front
  <2> QED BY <1>1, <1>2, <1>3, <2>1, <2>2
<1>4. CASE ~(Len(p) > 1)
  BY <1>1, <1>2, <1>4
<1> QED BY <1>3, <1>4

\* The ancestors of a path: its front, and the ancestors of that.
LEMMA AncestorsOfFront ==
    ASSUME NEW p \in Paths
    PROVE  IF Len(p) = 1 THEN Ancestors(p) = {}
           ELSE Ancestors(p) = {Front(p)} \cup Ancestors(Front(p))
<1>1. Len(p) \in Nat /\ Len(p) > 0
  BY PathFacts
<1>2. CASE Len(p) = 1
  BY <1>2 DEF Ancestors
<1>3. CASE Len(p) # 1
  <2>1. Len(p) > 1
    BY <1>1, <1>3
  <2>2. Front(p) \in Paths
    BY <2>1, FrontFacts
  <2>3. ASSUME NEW q \in Paths PROVE q \in Ancestors(p) <=> q \in {Front(p)} \cup Ancestors(Front(p))
    BY <2>1, <2>2, AncestorIsAbove, BelowFront DEF Covers
  <2>4. Ancestors(p) \subseteq Paths /\ Ancestors(Front(p)) \subseteq Paths
    BY <2>2, AncestorsArePaths
  <2> QED BY <1>3, <2>2, <2>3, <2>4
<1> QED BY <1>2, <1>3

\* What is below something below a path is below the path.
LEMMA CoversTransitive ==
    ASSUME NEW p \in Paths, NEW q \in Paths, NEW o \in Paths, Covers(q, p), Covers(o, q)
    PROVE  Covers(o, p)
<1>1. /\ p \in Seq(STRING) /\ q \in Seq(STRING) /\ o \in Seq(STRING)
      /\ Len(p) \in Nat /\ Len(q) \in Nat /\ Len(o) \in Nat
  BY PathFacts
<1>2. /\ Len(q) <= Len(p) /\ \A i \in 1 .. Len(q) : q[i] = p[i]
      /\ Len(o) <= Len(q) /\ \A i \in 1 .. Len(o) : o[i] = q[i]
  BY <1>1, CoversEntries
<1>3. Len(o) <= Len(p) /\ \A i \in 1 .. Len(o) : o[i] = p[i]
  BY <1>1, <1>2
<1> QED BY <1>1, <1>3, CoversEntries

-----------------------------------------------------------------------------
(* Rebased paths *)

\* A rebased path is its new root and the rest of the old path.
LEMMA RebaseFacts ==
    ASSUME NEW p \in Paths, NEW root \in Paths, NEW dest \in Paths, Covers(root, p)
    PROVE  LET b == Rebase(p, root, dest)
           IN  /\ b \in Seq(STRING) /\ Len(b) = Len(dest) + Len(p) - Len(root)
               /\ \A i \in 1 .. Len(dest) : b[i] = dest[i]
               /\ \A i \in 1 .. Len(p) - Len(root) : b[Len(dest) + i] = p[Len(root) + i]
<1>1. /\ p \in Seq(STRING) /\ root \in Seq(STRING) /\ dest \in Seq(STRING)
      /\ Len(p) \in Nat /\ Len(root) \in Nat /\ Len(dest) \in Nat /\ Len(root) <= Len(p)
  BY PathFacts, CoversEntries
<1> DEFINE t == SubSeq(p, Len(root) + 1, Len(p))
<1>2. /\ t \in Seq(STRING) /\ Len(t) = Len(p) - Len(root)
      /\ \A i \in 1 .. Len(p) - Len(root) : t[i] = p[Len(root) + i]
  BY <1>1
<1> HIDE DEF t
<1>3. Rebase(p, root, dest) = dest \o t
  BY DEF Rebase, t
<1> DEFINE b == dest \o t
<1>4. /\ b \in Seq(STRING) /\ Len(b) = Len(dest) + Len(t)
      /\ \A i \in 1 .. Len(dest) : b[i] = dest[i]
      /\ \A i \in 1 .. Len(t) : b[Len(dest) + i] = t[i]
  <2>1. /\ b \in Seq(STRING) /\ Len(b) = Len(dest) + Len(t)
        /\ \A i \in 1 .. Len(dest) + Len(t) : b[i] = IF i <= Len(dest) THEN dest[i] ELSE t[i - Len(dest)]
    BY <1>1, <1>2, ConcatProperties
  <2> HIDE DEF b
  <2>2. \A i \in 1 .. Len(t) : /\ Len(dest) + i \in 1 .. Len(dest) + Len(t)
                               /\ ~(Len(dest) + i <= Len(dest)) /\ (Len(dest) + i) - Len(dest) = i
    BY <1>1, <1>2
  <2>3. \A i \in 1 .. Len(dest) : i \in 1 .. Len(dest) + Len(t) /\ i <= Len(dest)
    BY <1>1, <1>2
  <2> QED BY <2>1, <2>2, <2>3
<1> HIDE DEF b
<1>5. /\ Len(b) = Len(dest) + Len(p) - Len(root)
      /\ \A i \in 1 .. Len(p) - Len(root) : b[Len(dest) + i] = p[Len(root) + i]
  BY <1>1, <1>2, <1>4
<1>6. Rebase(p, root, dest) = b
  BY <1>3 DEF b
<1> QED BY <1>4, <1>5, <1>6

\* What was at the root comes to the destination, what was below it below that.
LEMMA RebaseRoot ==
    ASSUME NEW root \in Paths, NEW dest \in Paths
    PROVE  Rebase(root, root, dest) = dest
<1>1. /\ root \in Seq(STRING) /\ dest \in Seq(STRING) /\ Covers(root, root)
      /\ Len(root) \in Nat /\ Len(dest) \in Nat
  BY PathFacts DEF Covers
<1>2. LET b == Rebase(root, root, dest)
      IN b \in Seq(STRING) /\ Len(b) = Len(dest) + Len(root) - Len(root) /\ \A i \in 1 .. Len(dest) : b[i] = dest[i]
  BY <1>1, RebaseFacts
<1> DEFINE b == Rebase(root, root, dest)
<1> HIDE DEF b
<1>3. b \in Seq(STRING) /\ Len(b) = Len(dest) /\ \A i \in 1 .. Len(dest) : b[i] = dest[i]
  BY <1>1, <1>2 DEF b
<1>4. b = dest
  BY <1>1, <1>3, SameSequence
<1> QED BY <1>4 DEF b

\* A path is rebased together with the path it hangs from.
LEMMA RebaseFront ==
    ASSUME NEW p \in Paths, NEW root \in Paths, NEW dest \in Paths, Below(p, root)
    PROVE  /\ Len(Rebase(p, root, dest)) > 1
           /\ Front(Rebase(p, root, dest)) = Rebase(Front(p), root, dest)
<1> DEFINE b == Rebase(p, root, dest)
           f == Rebase(Front(p), root, dest)
<1>1. /\ p \in Seq(STRING) /\ root \in Seq(STRING) /\ dest \in Seq(STRING)
      /\ Len(p) \in Nat /\ Len(root) \in Nat /\ Len(dest) \in Nat /\ Len(dest) > 0 /\ Len(root) > 0
  BY PathFacts
<1>2. /\ Len(p) > 1 /\ Covers(root, Front(p)) /\ Covers(root, p) /\ Len(root) < Len(p)
  BY BelowFront DEF Covers, Below
<1>3. /\ Front(p) \in Paths /\ Len(Front(p)) = Len(p) - 1
      /\ \A i \in 1 .. Len(p) - 1 : Front(p)[i] = p[i]
  BY <1>2, FrontFacts
<1>4. /\ b \in Seq(STRING) /\ Len(b) = Len(dest) + Len(p) - Len(root)
      /\ \A i \in 1 .. Len(dest) : b[i] = dest[i]
      /\ \A i \in 1 .. Len(p) - Len(root) : b[Len(dest) + i] = p[Len(root) + i]
  BY <1>2, RebaseFacts
<1>5. /\ f \in Seq(STRING) /\ Len(f) = Len(dest) + Len(p) - 1 - Len(root)
      /\ \A i \in 1 .. Len(dest) : f[i] = dest[i]
      /\ \A i \in 1 .. Len(p) - 1 - Len(root) : f[Len(dest) + i] = Front(p)[Len(root) + i]
  <2>1. LET c == Rebase(Front(p), root, dest)
        IN  /\ c \in Seq(STRING) /\ Len(c) = Len(dest) + Len(Front(p)) - Len(root)
            /\ \A i \in 1 .. Len(dest) : c[i] = dest[i]
            /\ \A i \in 1 .. Len(Front(p)) - Len(root) : c[Len(dest) + i] = Front(p)[Len(root) + i]
    BY <1>2, <1>3, RebaseFacts
  <2> HIDE DEF f
  <2>2. /\ f \in Seq(STRING) /\ Len(f) = Len(dest) + Len(Front(p)) - Len(root)
        /\ \A i \in 1 .. Len(dest) : f[i] = dest[i]
        /\ \A i \in 1 .. Len(Front(p)) - Len(root) : f[Len(dest) + i] = Front(p)[Len(root) + i]
    BY <2>1 DEF f
  <2> HIDE DEF Front
  <2> QED BY <1>1, <1>3, <2>2
<1> HIDE DEF b, f
<1>6. Len(b) > 1 /\ Len(b) - 1 \in 0 .. Len(b) /\ Len(b) - 1 = Len(f)
  BY <1>1, <1>2, <1>4, <1>5
<1>7. /\ Front(b) \in Seq(STRING) /\ Len(Front(b)) = Len(b) - 1
      /\ \A i \in 1 .. Len(b) - 1 : Front(b)[i] = b[i]
  BY <1>4, <1>6, PrefixFacts DEF Front
<1>8. ASSUME NEW i \in 1 .. Len(f) PROVE Front(b)[i] = f[i]
  <2>1. Front(b)[i] = b[i]
    BY <1>6, <1>7
  <2>2. CASE i \in 1 .. Len(dest)
    BY <1>4, <1>5, <2>1, <2>2
  <2>3. CASE i \notin 1 .. Len(dest)
    <3> DEFINE k == i - Len(dest)
    <3>1. k \in 1 .. Len(p) - 1 - Len(root) /\ i = Len(dest) + k
      BY <1>1, <1>5, <2>3
    <3>2. k \in 1 .. Len(p) - Len(root) /\ Len(root) + k \in 1 .. Len(p) - 1
      BY <1>1, <3>1
    <3> HIDE DEF k
    <3>3. f[i] = Front(p)[Len(root) + k] /\ b[i] = p[Len(root) + k]
      BY <1>4, <1>5, <3>1, <3>2
    <3>4. Front(p)[Len(root) + k] = p[Len(root) + k]
      BY <1>3, <3>2
    <3> QED BY <2>1, <3>3, <3>4
  <2> QED BY <2>2, <2>3
<1>9. Front(b) = f
  BY <1>5, <1>6, <1>7, <1>8, SameSequence
<1> QED BY <1>6, <1>9 DEF b, f

\* No two paths come to the same place, and all come below the destination.
LEMMA RebaseApart ==
    ASSUME NEW p \in Paths, NEW q \in Paths, NEW root \in Paths, NEW dest \in Paths,
           Covers(root, p), Covers(root, q), Rebase(p, root, dest) = Rebase(q, root, dest)
    PROVE  p = q
<1> DEFINE b == Rebase(p, root, dest)
<1>1. /\ p \in Seq(STRING) /\ q \in Seq(STRING) /\ root \in Seq(STRING)
      /\ Len(p) \in Nat /\ Len(q) \in Nat /\ Len(root) \in Nat /\ Len(dest) \in Nat
      /\ Len(root) <= Len(p) /\ Len(root) <= Len(q)
      /\ \A i \in 1 .. Len(root) : root[i] = p[i] /\ root[i] = q[i]
  BY PathFacts, CoversEntries
<1>2. /\ Len(b) = Len(dest) + Len(p) - Len(root)
      /\ \A i \in 1 .. Len(p) - Len(root) : b[Len(dest) + i] = p[Len(root) + i]
  BY RebaseFacts
<1>3. /\ Len(b) = Len(dest) + Len(q) - Len(root)
      /\ \A i \in 1 .. Len(q) - Len(root) : b[Len(dest) + i] = q[Len(root) + i]
  <2> DEFINE c == Rebase(q, root, dest)
  <2>1. /\ Len(c) = Len(dest) + Len(q) - Len(root)
        /\ \A i \in 1 .. Len(q) - Len(root) : c[Len(dest) + i] = q[Len(root) + i]
    BY RebaseFacts
  <2>2. b = c
    OBVIOUS
  <2> HIDE DEF b, c
  <2> QED BY <2>1, <2>2
<1> HIDE DEF b
<1>4. Len(p) = Len(q)
  BY <1>1, <1>2, <1>3
<1>5. ASSUME NEW i \in 1 .. Len(p) PROVE p[i] = q[i]
  <2>1. CASE i \in 1 .. Len(root)
    BY <1>1, <2>1
  <2>2. CASE i \notin 1 .. Len(root)
    <3> DEFINE k == i - Len(root)
    <3>1. k \in 1 .. Len(p) - Len(root) /\ k \in 1 .. Len(q) - Len(root) /\ i = Len(root) + k
      BY <1>1, <1>4, <2>2
    <3> HIDE DEF k
    <3> QED BY <1>2, <1>3, <3>1
  <2> QED BY <2>1, <2>2
<1> QED BY <1>1, <1>4, <1>5, SameSequence

\* A rebased path is below the new root.
LEMMA RebaseCovers ==
    ASSUME NEW p \in Paths, NEW root \in Paths, NEW dest \in Paths, Covers(root, p)
    PROVE  Covers(dest, Rebase(p, root, dest))
<1> DEFINE b == Rebase(p, root, dest)
<1>1. /\ p \in Seq(STRING) /\ root \in Seq(STRING) /\ dest \in Seq(STRING)
      /\ Len(p) \in Nat /\ Len(root) \in Nat /\ Len(dest) \in Nat /\ Len(root) <= Len(p)
  BY PathFacts, CoversEntries
<1>2. /\ b \in Seq(STRING) /\ Len(b) = Len(dest) + Len(p) - Len(root)
      /\ \A i \in 1 .. Len(dest) : b[i] = dest[i]
  BY RebaseFacts
<1> HIDE DEF b
<1>3. Len(dest) <= Len(b)
  BY <1>1, <1>2
<1>4. Covers(dest, b)
  BY <1>1, <1>2, <1>3, CoversEntries
<1> QED BY <1>4 DEF b

-----------------------------------------------------------------------------
(* Sound tables *)

\* The parent of a row is the folder at its path without the last name.
ParentsOK(rs) ==
    \A i \in Live(rs) :
        IF Len(rs[i].path) = 1 THEN rs[i].parent = NoParent
        ELSE rs[i].parent \in FoldersAt(rs, Front(rs[i].path))

Sound(rs) == rs \in Table /\ Unique(rs) /\ ParentsOK(rs)

\* Every folder has contents, one perhaps excepted.
Filled(rs, spared) ==
    \A i \in Live(rs) : rs[i].kind = "folder" /\ i # spared => Children(rs, i) # {}

\* NULL is no row, not even one whose path does not fit.
LEMMA NoNullRow ==
    /\ NoParent \notin Ids /\ NoRow \notin Row
    /\ \A row \in Row, p \in Seq(STRING) : [row EXCEPT !.path = p] # NoRow
<1>1. ASSUME NEW row \in Row, NEW p \in Seq(STRING) PROVE [row EXCEPT !.path = p] # NoRow
  <2>1. [row EXCEPT !.path = p] \in [path : Seq(STRING), parent : Ids \cup {NoParent}, kind : Kinds \cup {"folder"}]
    BY DEF Row
  <2> QED BY <2>1, NullsAssumption
<1>2. ASSUME NEW row \in Row PROVE row # NoRow
  <2>1. row.path \in Seq(STRING)
    BY PathFacts DEF Row
  <2>2. row \in [path : Seq(STRING), parent : Ids \cup {NoParent}, kind : Kinds \cup {"folder"}]
    BY <2>1 DEF Row
  <2> QED BY <2>2, NullsAssumption
<1> QED BY <1>1, <1>2, NullsAssumption

\* A row has its types.
LEMMA RowFacts ==
    ASSUME NEW rs \in Table, NEW i \in Live(rs)
    PROVE  /\ i \in Ids /\ rs[i] \in Row /\ rs[i].path \in Paths
           /\ rs[i].parent \in MaybeId /\ i # NoParent
  BY NoNullRow DEF Live, Table, Row, MaybeId

\* The parent of a row below the top level is the folder its path says.
LEMMA ParentRow ==
    ASSUME NEW rs, Sound(rs), NEW i \in Live(rs), Len(rs[i].path) > 1
    PROVE  /\ rs[i].parent \in Live(rs) /\ rs[rs[i].parent].path = Front(rs[i].path)
           /\ rs[rs[i].parent].kind = "folder"
           /\ Len(rs[rs[i].parent].path) = Len(rs[i].path) - 1
<1>1. rs[i].path \in Paths
  BY RowFacts DEF Sound
<1>2. rs[i].parent \in FoldersAt(rs, Front(rs[i].path))
  <2>1. IF Len(rs[i].path) = 1 THEN rs[i].parent = NoParent
        ELSE rs[i].parent \in FoldersAt(rs, Front(rs[i].path))
    BY DEF Sound, ParentsOK
  <2>2. Len(rs[i].path) # 1
    BY <1>1, PathDepth
  <2> QED BY <2>1, <2>2
<1> QED BY <1>1, <1>2, FrontFacts DEF FoldersAt, At

\* Who has a parent among the rows is not at the top.
LEMMA HasParent ==
    ASSUME NEW rs, Sound(rs), NEW i \in Live(rs), rs[i].parent \in Live(rs)
    PROVE  Len(rs[i].path) > 1
<1>1. rs[i].path \in Paths /\ rs[i].parent # NoParent
  BY RowFacts DEF Sound
<1>2. Len(rs[i].path) # 1
  BY <1>1 DEF Sound, ParentsOK
<1> QED BY <1>1, <1>2, PathDepth

\* By parent links or by path prefix, the same rows are found.
LEMMA SubtreeByPath ==
    ASSUME NEW rs, Sound(rs), NEW i \in Live(rs)
    PROVE  Subtree(rs, i) = {j \in Live(rs) : Covers(rs[i].path, rs[j].path)}
<1> DEFINE X == {j \in Live(rs) : Covers(rs[i].path, rs[j].path)}
<1>1. Subtree(rs, i) \subseteq X
  <2>1. i \in X
    BY DEF Covers
  <2>2. ASSUME NEW j \in Live(rs), rs[j].parent \in X PROVE j \in X
    <3>1. Len(rs[j].path) > 1 /\ rs[j].path \in Paths /\ rs[i].path \in Paths
      BY <2>2, HasParent, RowFacts DEF Sound
    <3>2. rs[rs[j].parent].path = Front(rs[j].path)
      BY <3>1, ParentRow
    <3>3. Below(rs[j].path, rs[i].path)
      BY <2>2, <3>1, <3>2, BelowFront
    <3> QED BY <3>3 DEF Covers
  <2> HIDE DEF X
  <2> QED BY <2>1, <2>2, SubtreeLeast
<1>2. X \subseteq Subtree(rs, i)
  <2> DEFINE Good == {n \in Nat : \A j \in X : Len(rs[j].path) <= n => j \in Subtree(rs, i)}
  <2>1. 0 \in Good
    <3>1. \A j \in X : ~(Len(rs[j].path) <= 0)
      BY RowFacts, PathFacts DEF Sound
    <3> QED BY <3>1
  <2>2. ASSUME NEW n \in Nat, n \in Good PROVE n + 1 \in Good
    <3> SUFFICES ASSUME NEW j \in X, Len(rs[j].path) <= n + 1 PROVE j \in Subtree(rs, i)
      OBVIOUS
    <3>1. rs[j].path \in Paths /\ rs[i].path \in Paths
      BY RowFacts DEF Sound
    <3>2. CASE rs[j].path = rs[i].path
      <4>1. j = i
        BY <3>2 DEF Sound, Unique
      <4> QED BY <4>1, SubtreeFacts
    <3>3. CASE Below(rs[j].path, rs[i].path)
      <4>1. Len(rs[j].path) > 1 /\ Covers(rs[i].path, Front(rs[j].path)) /\ Len(rs[j].path) \in Nat
        BY <3>1, <3>3, BelowFront, PathFacts
      <4>2. rs[j].parent \in X /\ Len(rs[rs[j].parent].path) <= n
        BY <4>1, ParentRow
      <4>3. rs[j].parent \in Subtree(rs, i)
        BY <2>2, <4>2
      <4> QED BY <4>3, SubtreeClosed
    <3> QED BY <3>2, <3>3 DEF Covers
  <2> HIDE DEF Good
  <2>3. Nat \subseteq Good
    BY <2>1, <2>2, Induction
  <2>4. \A j \in X : Len(rs[j].path) \in Nat /\ Len(rs[j].path) <= Len(rs[j].path)
    BY RowFacts, PathFacts DEF Sound
  <2> HIDE DEF X
  <2> QED BY <2>3, <2>4 DEF Good
<1> QED BY <1>1, <1>2

\* Every row hangs from the top.
LEMMA HangsFromTop ==
    ASSUME NEW rs, Sound(rs), NEW i \in Live(rs)
    PROVE  \E t \in Children(rs, NoParent) : i \in Subtree(rs, t)
<1> DEFINE Hangs(j) == \E t \in Children(rs, NoParent) : j \in Subtree(rs, t)
           Good == {n \in Nat : \A j \in Live(rs) : Len(rs[j].path) <= n => Hangs(j)}
<1>1. 0 \in Good
  <2>1. \A j \in Live(rs) : ~(Len(rs[j].path) <= 0)
    BY RowFacts, PathFacts DEF Sound
  <2> QED BY <2>1
<1>2. ASSUME NEW n \in Nat, n \in Good PROVE n + 1 \in Good
  <2> SUFFICES ASSUME NEW j \in Live(rs), Len(rs[j].path) <= n + 1 PROVE Hangs(j)
    OBVIOUS
  <2>1. rs[j].path \in Paths /\ Len(rs[j].path) \in Nat /\ Len(rs[j].path) > 0
    BY RowFacts, PathFacts DEF Sound
  <2>2. CASE Len(rs[j].path) = 1
    <3>1. j \in Children(rs, NoParent)
      BY <2>2 DEF Sound, ParentsOK, Children
    <3> QED BY <3>1, SubtreeFacts
  <2>3. CASE Len(rs[j].path) > 1
    <3>1. rs[j].parent \in Live(rs) /\ Len(rs[rs[j].parent].path) <= n
      BY <2>1, <2>3, ParentRow
    <3>2. PICK t \in Children(rs, NoParent) : rs[j].parent \in Subtree(rs, t)
      BY <1>2, <3>1
    <3>3. j \in Subtree(rs, t)
      BY <3>2, SubtreeClosed DEF Children
    <3> QED BY <3>3
  <2>4. Len(rs[j].path) = 1 \/ Len(rs[j].path) > 1
    BY <2>1, PathDepth
  <2> HIDE DEF Hangs
  <2> QED BY <2>2, <2>3, <2>4
<1> HIDE DEF Good
<1>3. Nat \subseteq Good
  BY <1>1, <1>2, Induction
<1>4. Len(rs[i].path) \in Nat /\ Len(rs[i].path) <= Len(rs[i].path)
  BY RowFacts, PathFacts DEF Sound
<1> QED BY <1>3, <1>4 DEF Good

\* So a query for the descendants of a row finds those its path covers.
LEMMA DescendantsByPath ==
    ASSUME NEW rs, Sound(rs), NEW i \in Live(rs)
    PROVE  Descendants(rs, i) = {j \in Live(rs) : Covers(rs[i].path, rs[j].path)}
  BY HangsFromTop, SubtreeByPath DEF Descendants

\* The ancestors of a row are folders.
LEMMA AncestorRows ==
    ASSUME NEW rs, Sound(rs), NEW i \in Live(rs), NEW q \in Ancestors(rs[i].path)
    PROVE  FoldersAt(rs, q) # {}
<1> DEFINE Good == {n \in Nat : \A j \in Live(rs) : Len(rs[j].path) <= n =>
                        \A o \in Ancestors(rs[j].path) : FoldersAt(rs, o) # {}}
<1>1. 0 \in Good
  <2>1. \A j \in Live(rs) : ~(Len(rs[j].path) <= 0)
    BY RowFacts, PathFacts DEF Sound
  <2> QED BY <2>1
<1>2. ASSUME NEW n \in Nat, n \in Good PROVE n + 1 \in Good
  <2> SUFFICES ASSUME NEW j \in Live(rs), Len(rs[j].path) <= n + 1, NEW o \in Ancestors(rs[j].path)
               PROVE  FoldersAt(rs, o) # {}
    OBVIOUS
  <2>1. rs[j].path \in Paths /\ Len(rs[j].path) \in Nat /\ Len(rs[j].path) > 0
    BY RowFacts, PathFacts DEF Sound
  <2>2. Len(rs[j].path) > 1 /\ Ancestors(rs[j].path) = {Front(rs[j].path)} \cup Ancestors(Front(rs[j].path))
    <3>1. Ancestors(rs[j].path) # {}
      OBVIOUS
    <3>2. Len(rs[j].path) # 1
      BY <2>1, <3>1, AncestorsOfFront
    <3> QED BY <2>1, <3>2, AncestorsOfFront, PathDepth
  <2>3. /\ rs[j].parent \in Live(rs) /\ rs[rs[j].parent].path = Front(rs[j].path)
        /\ rs[rs[j].parent].kind = "folder" /\ Len(rs[rs[j].parent].path) <= n
    BY <2>1, <2>2, ParentRow
  <2>4. CASE o = Front(rs[j].path)
    BY <2>3, <2>4 DEF FoldersAt, At
  <2>5. CASE o \in Ancestors(Front(rs[j].path))
    BY <1>2, <2>3, <2>5
  <2> QED BY <2>2, <2>4, <2>5
<1> HIDE DEF Good
<1>3. Nat \subseteq Good
  BY <1>1, <1>2, Induction
<1>4. Len(rs[i].path) \in Nat /\ Len(rs[i].path) <= Len(rs[i].path)
  BY RowFacts, PathFacts DEF Sound
<1> QED BY <1>3, <1>4 DEF Good

\* One row at a path at most.
LEMMA OneRow ==
    ASSUME NEW rs, Unique(rs), NEW i \in Live(rs)
    PROVE  At(rs, rs[i].path) = {i}
  BY DEF Unique, At

-----------------------------------------------------------------------------
(* The folders on the way to a path *)

\* Keys are handed out in order.
Numbered == \A i \in Live(rows) : i[2] <= births[i[1]]

Steady == TypeOK /\ Sound(rows) /\ Numbered

\* The paths of S can all be made folders, with keys for those that are missing.
Passable(S) ==
    /\ S \subseteq Paths
    /\ \A q \in S : Ancestors(q) \subseteq S /\ At(rows, q) = FoldersAt(rows, q)
    /\ Room(Missing(rows, S))

\* Table rs has the rows of the table and those of N besides.
Grown(rs, N) ==
    /\ rs \in Table /\ Live(rs) = Live(rows) \cup N
    /\ \A i \in Live(rows) : rs[i] = rows[i]

\* A new key is the key of no row.
LEMMA NewIdFresh ==
    ASSUME Steady, NEW p \in Paths, births[p] < MaxBirths
    PROVE  NewId(p) \in Ids \ Live(rows) /\ NewId(p)[1] = p
<1>1. births[p] \in 0 .. MaxBirths /\ MaxBirths \in Nat
  BY BoundsAssumption DEF Steady, TypeOK
<1>2. births[p] + 1 \in 1 .. MaxBirths /\ ~(births[p] + 1 <= births[p])
  BY <1>1
<1>3. NewId(p) \in Ids /\ NewId(p)[1] = p /\ NewId(p)[2] = births[p] + 1
  BY <1>2 DEF NewId, Ids
<1> QED BY <1>2, <1>3 DEF Steady, Numbered

\* The folder on the way at q is the row at q, or a new one.
LEMMA FolderIdFacts ==
    ASSUME Steady, NEW S, Passable(S), NEW q \in S
    PROVE  /\ At(rows, q) = {} => /\ FolderId(rows, q) = NewId(q)
                                  /\ FolderId(rows, q) \in Ids \ Live(rows)
                                  /\ FolderId(rows, q)[1] = q
           /\ At(rows, q) # {} => /\ FolderId(rows, q) \in FoldersAt(rows, q)
                                  /\ \A i \in At(rows, q) : i = FolderId(rows, q)
<1>1. ASSUME At(rows, q) = {}
      PROVE  /\ FolderId(rows, q) = NewId(q) /\ FolderId(rows, q) \in Ids \ Live(rows)
             /\ FolderId(rows, q)[1] = q
  <2>1. q \in Paths /\ births[q] < MaxBirths
    BY <1>1 DEF Passable, Missing, Room
  <2> QED BY <1>1, <2>1, NewIdFresh DEF FolderId
<1>2. ASSUME At(rows, q) # {}
      PROVE  FolderId(rows, q) \in FoldersAt(rows, q) /\ \A i \in At(rows, q) : i = FolderId(rows, q)
  <2>1. FoldersAt(rows, q) # {}
    BY <1>2 DEF Passable
  <2>2. FolderId(rows, q) \in FoldersAt(rows, q)
    BY <1>2, <2>1 DEF FolderId
  <2> QED BY <2>2 DEF FoldersAt, At, Steady, Sound, Unique
<1> QED BY <1>1, <1>2

\* Two paths get two folders.
LEMMA FolderIdsDiffer ==
    ASSUME Steady, NEW S, Passable(S), NEW q \in S, NEW o \in S,
           FolderId(rows, q) = FolderId(rows, o)
    PROVE  q = o
<1>1. CASE At(rows, q) = {} /\ At(rows, o) = {}
  BY <1>1, FolderIdFacts
<1>2. CASE At(rows, q) # {} /\ At(rows, o) # {}
  <2>1. FolderId(rows, q) \in At(rows, q) /\ FolderId(rows, q) \in At(rows, o)
    BY <1>2, FolderIdFacts DEF FoldersAt
  <2> QED BY <2>1 DEF At
<1>3. \A x \in S : At(rows, x) # {} => FolderId(rows, x) \in Live(rows)
  BY FolderIdFacts DEF FoldersAt, At
<1>4. \A x \in S : At(rows, x) = {} => FolderId(rows, x) \notin Live(rows)
  BY FolderIdFacts
<1> QED BY <1>1, <1>2, <1>3, <1>4

\* The parent of a new row is the folder at its path without the last name.
LEMMA LastParentIs ==
    ASSUME Steady, NEW S, Passable(S), NEW p \in Paths, Ancestors(p) \subseteq S
    PROVE  LastParent(rows, p) = IF Len(p) = 1 THEN NoParent ELSE FolderId(rows, Front(p))
<1> DEFINE found == Usable(rows, Ancestors(p))
           last == {q \in found : \A o \in found : Len(o) <= Len(q)}
<1>1. found = Ancestors(p)
  BY DEF Passable, Usable
<1>2. LastParent(rows, p) = IF last = {} THEN NoParent ELSE FolderId(rows, CHOOSE q \in last : TRUE)
  BY DEF LastParent
<1> HIDE DEF found
<1>3. CASE Len(p) = 1
  <2>1. last = {}
    BY <1>1, <1>3, AncestorsOfFront
  <2> QED BY <1>2, <1>3, <2>1
<1>4. CASE Len(p) > 1
  <2>1. Front(p) \in Ancestors(p) /\ Len(Front(p)) = Len(p) - 1 /\ Front(p) = SubSeq(p, 1, Len(p) - 1)
    BY <1>4, FrontFacts DEF Front
  <2>2. ASSUME NEW q \in Ancestors(p)
        PROVE  Len(q) <= Len(p) - 1 /\ (Len(q) >= Len(p) - 1 => q = Front(p))
    <3>1. q \in Paths /\ Len(q) \in Nat /\ Len(p) \in Nat
      BY AncestorsArePaths, PathFacts
    <3>2. Len(q) < Len(p) /\ q = SubSeq(p, 1, Len(q))
      BY <3>1, AncestorIsAbove DEF Below
    <3>3. Len(q) <= Len(p) - 1 /\ (Len(q) >= Len(p) - 1 => Len(q) = Len(p) - 1)
      BY <3>1, <3>2
    <3> QED BY <2>1, <3>2, <3>3
  <2>3. last = {Front(p)}
    <3>1. Front(p) \in last
      BY <1>1, <2>1, <2>2
    <3>2. ASSUME NEW q \in last PROVE q = Front(p)
      <4>1. q \in Ancestors(p) /\ Len(q) >= Len(p) - 1
        <5>1. q \in Ancestors(p) /\ Len(Front(p)) <= Len(q)
          BY <1>1, <2>1, <3>2
        <5>2. Len(q) \in Nat /\ Len(p) \in Nat
          BY <5>1, AncestorsArePaths, PathFacts
        <5> QED BY <2>1, <5>1, <5>2
      <4> QED BY <2>2, <4>1
    <3> QED BY <3>1, <3>2
  <2>4. (CHOOSE q \in last : TRUE) = Front(p)
    BY <2>3
  <2>5. Len(p) # 1 /\ last # {}
    BY <1>4, <2>3
  <2> HIDE DEF last
  <2> QED BY <1>2, <2>4, <2>5
<1> QED BY <1>3, <1>4, PathDepth

\* Folders that are there already stay as they are.
LEMMA WithFoldersFacts ==
    ASSUME Steady, NEW S, Passable(S)
    PROVE  LET T == WithFolders(rows, S)
               N == {NewId(q) : q \in Missing(rows, S)}
           IN  /\ T \in Table
               /\ \A i \in Live(rows) : T[i] = rows[i]
               /\ \A q \in Missing(rows, S) :
                    T[NewId(q)] = [path |-> q, parent |-> LastParent(rows, q), kind |-> "folder"]
               /\ Live(T) = Live(rows) \cup N
               /\ N \subseteq Ids \ Live(rows)
<1> DEFINE T == WithFolders(rows, S)
           N == {NewId(q) : q \in Missing(rows, S)}
           ids == {FolderId(rows, q) : q \in S}
           made(q) == [path |-> q, parent |-> LastParent(rows, q), kind |-> "folder"]
<1>0. Usable(rows, S) = S /\ rows \in Table
  BY DEF Passable, Usable, Steady, Sound
<1>1. T \in Table
  BY WithFoldersType DEF Steady, Passable
<1>2. \A i \in Ids : T[i] = IF i \in ids THEN made(CHOOSE o \in S : FolderId(rows, o) = i) ELSE rows[i]
  BY <1>0 DEF WithFolders
<1>3. ASSUME NEW q \in S PROVE FolderId(rows, q) \in Ids => T[FolderId(rows, q)] = made(q)
  <2> DEFINE i == FolderId(rows, q)
             o == CHOOSE x \in S : FolderId(rows, x) = i
  <2>1. o \in S /\ FolderId(rows, o) = i
    OBVIOUS
  <2>2. o = q
    BY <2>1, FolderIdsDiffer
  <2> HIDE DEF o, made
  <2>3. i \in Ids => T[i] = made(o)
    BY <1>2 DEF o
  <2> QED BY <2>2, <2>3
<1>4. ASSUME NEW i \in Live(rows) PROVE T[i] = rows[i]
  <2>1. i \in Ids
    BY DEF Live
  <2>2. CASE i \notin ids
    BY <1>2, <2>1, <2>2
  <2>3. CASE i \in ids
    <3>1. PICK q \in S : i = FolderId(rows, q)
      BY <2>3
    <3>2. At(rows, q) # {}
      BY <3>1, FolderIdFacts
    <3>3. i \in FoldersAt(rows, q)
      BY <3>1, <3>2, FolderIdFacts
    <3>4. q \in Paths /\ rows[i].path = q /\ rows[i].kind = "folder" /\ rows[i] \in Row
      BY <3>3, RowFacts, <1>0 DEF FoldersAt, At
    <3>5. LastParent(rows, q) = rows[i].parent
      <4>1. LastParent(rows, q) = IF Len(q) = 1 THEN NoParent ELSE FolderId(rows, Front(q))
        BY <3>4, LastParentIs DEF Passable
      <4>2. CASE Len(q) = 1
        BY <3>4, <4>1, <4>2 DEF Steady, Sound, ParentsOK
      <4>3. CASE Len(q) > 1
        <5>1. Front(q) \in S
          BY <3>4, <4>3, FrontFacts DEF Passable
        <5>2. rows[i].parent \in At(rows, Front(q))
          BY <3>4, <4>3, ParentRow DEF Steady, At
        <5>3. rows[i].parent = FolderId(rows, Front(q))
          BY <5>1, <5>2, FolderIdFacts
        <5>4. Len(q) # 1
          BY <3>4, <4>3, PathDepth
        <5> QED BY <4>1, <5>3, <5>4
      <4> QED BY <3>4, <4>2, <4>3, PathDepth
    <3>6. made(q) = rows[i]
      BY <3>4, <3>5 DEF Row
    <3> QED BY <1>3, <2>1, <3>1, <3>6
  <2> QED BY <2>2, <2>3
<1>5. ASSUME NEW q \in Missing(rows, S)
      PROVE  T[NewId(q)] = made(q) /\ NewId(q) \in Ids \ Live(rows)
  <2>1. q \in S /\ At(rows, q) = {}
    BY DEF Missing
  <2>2. FolderId(rows, q) = NewId(q) /\ NewId(q) \in Ids \ Live(rows)
    BY <2>1, FolderIdFacts
  <2> QED BY <1>3, <2>1, <2>2
<1>6. ASSUME NEW i \in Ids, i \notin Live(rows), i \notin N PROVE T[i] = NoRow
  <2>1. i \notin ids
    <3> SUFFICES ASSUME NEW q \in S, i = FolderId(rows, q) PROVE FALSE
      OBVIOUS
    <3>1. CASE At(rows, q) = {}
      BY <1>6, <3>1, FolderIdFacts DEF Missing
    <3>2. CASE At(rows, q) # {}
      BY <1>6, <3>2, FolderIdFacts DEF FoldersAt, At
    <3> QED BY <3>1, <3>2
  <2> QED BY <1>2, <1>6, <2>1 DEF Live
<1>7. \A q : made(q) # NoRow \/ q \notin Missing(rows, S)
  <2> SUFFICES ASSUME NEW q \in Missing(rows, S) PROVE made(q) # NoRow
    OBVIOUS
  <2>1. q \in Paths /\ Room(Missing(rows, Ancestors(q)))
    BY DEF Passable, Missing, Room
  <2>2. LastParent(rows, q) \in MaybeId
    BY <2>1, LastParentType DEF Steady
  <2>3. made(q) \in Row
    BY <2>1, <2>2 DEF Row, MaybeId
  <2> QED BY <2>3, NoNullRow
<1>8. Live(T) = Live(rows) \cup N
  <2>1. \A i \in Ids : i \in Live(T) <=> T[i] # NoRow
    BY DEF Live
  <2>2. \A i \in Live(rows) : i \in Ids /\ T[i] # NoRow
    BY <1>4 DEF Live
  <2>3. \A i \in N : i \in Ids /\ T[i] # NoRow
    BY <1>5, <1>7
  <2>4. Live(T) \subseteq Ids
    BY DEF Live
  <2> HIDE DEF T, N
  <2> QED BY <1>6, <2>1, <2>2, <2>3, <2>4
<1> HIDE DEF T
<1> QED BY <1>1, <1>4, <1>5, <1>8 DEF T

-----------------------------------------------------------------------------
(* Creating and copying *)

\* New rows with the parents their paths say do not disturb the others.
LEMMA GrownSound ==
    ASSUME Steady, NEW rs, NEW N, Grown(rs, N), Unique(rs),
           \A i \in N : IF Len(rs[i].path) = 1 THEN rs[i].parent = NoParent
                        ELSE rs[i].parent \in FoldersAt(rs, Front(rs[i].path))
    PROVE  Sound(rs)
<1>1. \A p : FoldersAt(rows, p) \subseteq FoldersAt(rs, p)
  BY DEF FoldersAt, At, Grown
<1>2. ASSUME NEW i \in Live(rs)
      PROVE  IF Len(rs[i].path) = 1 THEN rs[i].parent = NoParent
             ELSE rs[i].parent \in FoldersAt(rs, Front(rs[i].path))
  <2>1. CASE i \in Live(rows)
    <3>1. rs[i] = rows[i]
      BY <2>1 DEF Grown
    <3>2. IF Len(rows[i].path) = 1 THEN rows[i].parent = NoParent
          ELSE rows[i].parent \in FoldersAt(rows, Front(rows[i].path))
      BY <2>1 DEF Steady, Sound, ParentsOK
    <3> QED BY <1>1, <3>1, <3>2
  <2>2. CASE i \in N
    BY <2>2
  <2> QED BY <2>1, <2>2 DEF Grown
<1> QED BY <1>2 DEF Sound, ParentsOK, Grown

\* From an ancestor of p one goes down to p, or to another ancestor.
LEMMA NextDown ==
    ASSUME NEW p \in Paths, NEW q \in Ancestors(p)
    PROVE  \E c \in Paths : Len(c) > 1 /\ Front(c) = q /\ (c = p \/ c \in Ancestors(p))
<1>1. PICK n \in 1 .. Len(p) - 1 : q = SubSeq(p, 1, n)
  BY DEF Ancestors
<1>2. p \in Seq(STRING) /\ Len(p) \in Nat
  BY PathFacts
<1>3. n + 1 \in 1 .. Len(p) /\ n + 1 \in 0 .. Len(p) /\ n \in 0 .. Len(p)
  BY <1>2
<1> DEFINE c == SubSeq(p, 1, n + 1)
<1>4. c \in Paths
  BY <1>3, PathsAssumption
<1>5. Len(c) = n + 1 /\ c \in Seq(STRING) /\ \A i \in 1 .. n + 1 : c[i] = p[i]
  BY <1>2, <1>3, PrefixFacts
<1>6. Len(q) = n /\ q \in Seq(STRING) /\ \A i \in 1 .. n : q[i] = p[i]
  BY <1>1, <1>2, <1>3, PrefixFacts
<1> HIDE DEF c
<1>7. Len(c) > 1 /\ Len(c) - 1 = n
  BY <1>5
<1>8. Front(c) = q
  <2>1. Front(c) \in Seq(STRING) /\ Len(Front(c)) = n /\ \A i \in 1 .. n : Front(c)[i] = c[i]
    BY <1>3, <1>4, <1>5, <1>7, FrontFacts, PathFacts
  <2>2. \A i \in 1 .. n : i \in 1 .. n + 1
    OBVIOUS
  <2>3. \A i \in 1 .. n : Front(c)[i] = q[i]
    BY <1>5, <1>6, <2>1, <2>2
  <2> QED BY <1>6, <2>1, <2>3, SameSequence
<1>9. c = p \/ c \in Ancestors(p)
  <2>1. CASE n + 1 = Len(p)
    BY <1>2, <1>5, <2>1, SameSequence
  <2>2. CASE n + 1 # Len(p)
    <3>1. n + 1 \in 1 .. Len(p) - 1
      BY <1>2, <1>3, <2>2
    <3> QED BY <3>1 DEF Ancestors, c
  <2> QED BY <2>1, <2>2
<1> QED BY <1>4, <1>7, <1>8, <1>9

\* Items at the paths of G, each with the folders on its way.
Planted(rs, S, G, kind) ==
    /\ Passable(S) /\ G \subseteq Paths /\ G \cap S = {} /\ Room(G)
    /\ \A p \in G : Ancestors(p) \subseteq S
    /\ kind \in [G -> Kinds]
    /\ rs = [i \in Ids |-> rs[i]]
    /\ \A p \in G : rs[NewId(p)] = [path |-> p, parent |-> LastParent(rows, p), kind |-> kind[p]]
    /\ \A i \in Ids : i \notin {NewId(p) : p \in G} => rs[i] = WithFolders(rows, S)[i]

New(S, G) == {NewId(q) : q \in Missing(rows, S) \cup G}

\* What has been planted.
LEMMA PlantedRows ==
    ASSUME Steady, NEW rs, NEW S, NEW G, NEW kind, Planted(rs, S, G, kind)
    PROVE  /\ Grown(rs, New(S, G)) /\ New(S, G) \subseteq Ids \ Live(rows)
           /\ \A q \in Missing(rows, S) :
                rs[NewId(q)] = [path |-> q, parent |-> LastParent(rows, q), kind |-> "folder"]
           /\ \A q \in S : FolderId(rows, q) \in FoldersAt(rs, q)
<1> DEFINE T == WithFolders(rows, S)
           M == Missing(rows, S)
           put(p) == [path |-> p, parent |-> LastParent(rows, p), kind |-> kind[p]]
           made(q) == [path |-> q, parent |-> LastParent(rows, q), kind |-> "folder"]
<1>1. /\ T \in Table /\ \A i \in Live(rows) : T[i] = rows[i]
      /\ \A q \in M : T[NewId(q)] = made(q)
      /\ Live(T) = Live(rows) \cup {NewId(q) : q \in M}
  BY WithFoldersFacts DEF Planted
<1>2. \A p \in G : NewId(p) \in Ids \ Live(rows) /\ NewId(p)[1] = p
  BY NewIdFresh DEF Planted, Room
<1>3. \A q \in M : NewId(q) \in Ids \ Live(rows) /\ NewId(q)[1] = q
  BY NewIdFresh DEF Planted, Passable, Missing, Room
<1>4. M \cap G = {}
  BY DEF Planted, Missing
<1>5. \A p \in G : put(p) \in Row /\ rs[NewId(p)] = put(p)
  <2> TAKE p \in G
  <2>1. p \in Paths /\ Room(Missing(rows, Ancestors(p)))
    BY DEF Planted, Passable, Missing, Room
  <2>2. LastParent(rows, p) \in MaybeId
    BY <2>1, LastParentType DEF Steady
  <2>3. kind[p] \in Kinds
    BY DEF Planted
  <2> QED BY <2>1, <2>2, <2>3 DEF Row, MaybeId, Planted
<1>6. \A i \in Ids : i \notin {NewId(p) : p \in G} => rs[i] = T[i]
  BY DEF Planted
<1> HIDE DEF T, M, put, made
<1>7. \A i \in Live(rows) : rs[i] = rows[i]
  <2>1. \A i \in Live(rows) : i \in Ids /\ i \notin {NewId(p) : p \in G}
    BY <1>2 DEF Live
  <2> QED BY <1>1, <1>6, <2>1
<1>8. \A q \in M : rs[NewId(q)] = made(q)
  <2>1. \A q \in M : NewId(q) \in Ids /\ NewId(q) \notin {NewId(p) : p \in G}
    BY <1>2, <1>3, <1>4
  <2> QED BY <1>1, <1>6, <2>1
<1>9. rs \in Table
  <2>1. ASSUME NEW i \in Ids PROVE rs[i] \in Row \cup {NoRow}
    BY <1>1, <1>5, <1>6 DEF Table
  <2>2. rs = [i \in Ids |-> rs[i]]
    BY DEF Planted
  <2> QED BY <2>1, <2>2 DEF Table
<1>10. New(S, G) = {NewId(q) : q \in M} \cup {NewId(p) : p \in G}
  BY DEF New, M
<1>11. Live(rs) = Live(rows) \cup New(S, G)
  <2>1. \A i \in Ids : i \notin {NewId(p) : p \in G} => (i \in Live(rs) <=> i \in Live(T))
    BY <1>6 DEF Live
  <2>2. \A p \in G : NewId(p) \in Live(rs)
    BY <1>2, <1>5, NoNullRow DEF Live
  <2>3. Live(rs) \subseteq Ids /\ Live(T) \subseteq Ids
    BY DEF Live
  <2>4. New(S, G) \subseteq Ids /\ Live(rows) \subseteq Ids
    BY <1>2, <1>3, <1>10 DEF Live
  <2>5. \A i \in Live(rows) : i \notin {NewId(p) : p \in G}
    BY <1>2
  <2> QED BY <1>1, <1>10, <2>1, <2>2, <2>3, <2>4, <2>5
<1>12. ASSUME NEW q \in S PROVE FolderId(rows, q) \in FoldersAt(rs, q)
  <2>1. CASE At(rows, q) = {}
    <3>1. q \in M /\ FolderId(rows, q) = NewId(q)
      BY <2>1, FolderIdFacts DEF Planted, Missing, M
    <3>2. NewId(q) \in Live(rs) /\ rs[NewId(q)] = made(q)
      BY <1>8, <1>10, <1>11, <3>1
    <3> QED BY <3>1, <3>2 DEF FoldersAt, At, made
  <2>2. CASE At(rows, q) # {}
    <3>1. FolderId(rows, q) \in FoldersAt(rows, q)
      BY <2>2, FolderIdFacts DEF Planted
    <3> QED BY <1>7, <1>11, <3>1 DEF FoldersAt, At
  <2> QED BY <2>1, <2>2
<1>13. New(S, G) \subseteq Ids \ Live(rows)
  BY <1>2, <1>3, <1>10
<1> QED BY <1>7, <1>8, <1>9, <1>11, <1>12, <1>13 DEF Grown, made, M

\* The parent of every new row is the folder on its way.
LEMMA PlantedSound ==
    ASSUME Steady, NEW rs, NEW S, NEW G, NEW kind, Planted(rs, S, G, kind), Unique(rs)
    PROVE  Sound(rs)
<1>1. /\ Grown(rs, New(S, G))
      /\ \A q \in Missing(rows, S) :
           rs[NewId(q)] = [path |-> q, parent |-> LastParent(rows, q), kind |-> "folder"]
      /\ \A q \in S : FolderId(rows, q) \in FoldersAt(rs, q)
  BY PlantedRows
<1>2. ASSUME NEW q \in Missing(rows, S) \cup G
      PROVE  /\ rs[NewId(q)].path = q /\ rs[NewId(q)].parent = LastParent(rows, q)
             /\ q \in Paths /\ Ancestors(q) \subseteq S
  <2>1. CASE q \in Missing(rows, S)
    <3>1. q \in S
      BY <2>1 DEF Missing
    <3>2. q \in Paths /\ Ancestors(q) \subseteq S
      BY <3>1 DEF Planted, Passable
    <3>3. rs[NewId(q)] = [path |-> q, parent |-> LastParent(rows, q), kind |-> "folder"]
      BY <1>1, <2>1
    <3> QED BY <3>2, <3>3
  <2>2. CASE q \in G
    <3>1. rs[NewId(q)] = [path |-> q, parent |-> LastParent(rows, q), kind |-> kind[q]]
      BY <2>2 DEF Planted
    <3>2. q \in Paths /\ Ancestors(q) \subseteq S
      BY <2>2 DEF Planted
    <3> QED BY <3>1, <3>2
  <2> QED BY <2>1, <2>2
<1>3. ASSUME NEW i \in New(S, G)
      PROVE  IF Len(rs[i].path) = 1 THEN rs[i].parent = NoParent
             ELSE rs[i].parent \in FoldersAt(rs, Front(rs[i].path))
  <2>1. PICK q \in Missing(rows, S) \cup G : i = NewId(q)
    BY DEF New
  <2>2. /\ rs[i].path = q /\ rs[i].parent = LastParent(rows, q)
        /\ q \in Paths /\ Ancestors(q) \subseteq S
    BY <1>2, <2>1
  <2>3. LastParent(rows, q) = IF Len(q) = 1 THEN NoParent ELSE FolderId(rows, Front(q))
    BY <2>2, LastParentIs DEF Planted
  <2>4. CASE Len(q) = 1
    BY <2>2, <2>3, <2>4
  <2>5. CASE Len(q) > 1
    <3>1. Front(q) \in S /\ Len(q) # 1
      BY <2>2, <2>5, FrontFacts, PathDepth
    <3> QED BY <1>1, <2>2, <2>3, <3>1
  <2> QED BY <2>2, <2>4, <2>5, PathDepth
<1> QED BY <1>1, <1>3, GrownSound

\* Every new folder is on the way to an item, so that it has contents.
LEMMA PlantedFilled ==
    ASSUME Steady, NEW rs, NEW S, NEW G, NEW kind, Planted(rs, S, G, kind),
           \A q \in S : \E p \in G : q \in Ancestors(p),
           NEW spared, Filled(rows, spared)
    PROVE  Filled(rs, spared)
<1>1. /\ Grown(rs, New(S, G))
      /\ \A q \in Missing(rows, S) :
           rs[NewId(q)] = [path |-> q, parent |-> LastParent(rows, q), kind |-> "folder"]
  BY PlantedRows
<1>2. ASSUME NEW i \in Live(rows), Children(rows, i) # {} PROVE Children(rs, i) # {}
  BY <1>1, <1>2 DEF Children, Grown
<1>3. ASSUME NEW q \in Missing(rows, S) PROVE Children(rs, NewId(q)) # {}
  <2>0. q \in S /\ At(rows, q) = {} /\ FolderId(rows, q) = NewId(q)
    BY FolderIdFacts DEF Planted, Missing
  <2>1. PICK p \in G : q \in Ancestors(p)
    BY <2>0
  <2>2. p \in Paths /\ Ancestors(p) \subseteq S
    BY DEF Planted
  <2>3. PICK c \in Paths : Len(c) > 1 /\ Front(c) = q /\ (c = p \/ c \in Ancestors(p))
    BY <2>1, <2>2, NextDown
  <2>4. c \in Missing(rows, S) \cup G
    <3>1. CASE c = p
      BY <3>1
    <3>2. CASE c \in Ancestors(p)
      <4>1. c \in S
        BY <2>2, <3>2
      <4>2. At(rows, c) = {}
        <5> SUFFICES ASSUME NEW i \in At(rows, c) PROVE FALSE
          OBVIOUS
        <5>1. i \in Live(rows) /\ rows[i].path = c
          BY DEF At
        <5>2. rows[i].parent \in At(rows, q)
          BY <2>3, <5>1, ParentRow DEF Steady, At
        <5> QED BY <2>0, <5>2
      <4> QED BY <4>1, <4>2 DEF Missing
    <3> QED BY <2>3, <3>1, <3>2
  <2>5. LastParent(rows, c) = NewId(q)
    <3>1. Ancestors(c) \subseteq S
      BY <2>4 DEF Planted, Passable, Missing
    <3>2. LastParent(rows, c) = IF Len(c) = 1 THEN NoParent ELSE FolderId(rows, Front(c))
      BY <3>1, LastParentIs DEF Planted
    <3>3. Len(c) # 1
      BY <2>3, PathDepth
    <3> QED BY <2>0, <2>3, <3>2, <3>3
  <2>6. rs[NewId(c)].parent = LastParent(rows, c)
    <3>1. CASE c \in G
      <4>1. rs[NewId(c)] = [path |-> c, parent |-> LastParent(rows, c), kind |-> kind[c]]
        BY <3>1 DEF Planted
      <4> QED BY <4>1
    <3>2. CASE c \in Missing(rows, S)
      <4>1. rs[NewId(c)] = [path |-> c, parent |-> LastParent(rows, c), kind |-> "folder"]
        BY <1>1, <3>2
      <4> QED BY <4>1
    <3> QED BY <2>4, <3>1, <3>2
  <2>7. NewId(c) \in Live(rs)
    BY <1>1, <2>4 DEF Grown, New
  <2> QED BY <2>5, <2>6, <2>7 DEF Children
<1>4. ASSUME NEW i \in Live(rs), rs[i].kind = "folder", i # spared PROVE Children(rs, i) # {}
  <2>1. CASE i \in Live(rows)
    BY <1>1, <1>2, <1>4, <2>1 DEF Filled, Grown
  <2>2. CASE i \in New(S, G)
    <3>1. PICK q \in Missing(rows, S) \cup G : i = NewId(q)
      BY <2>2 DEF New
    <3>2. q \notin G
      <4> SUFFICES ASSUME q \in G PROVE FALSE
        OBVIOUS
      <4>1. rs[i] = [path |-> q, parent |-> LastParent(rows, q), kind |-> kind[q]] /\ kind[q] \in Kinds
        BY <3>1 DEF Planted
      <4>2. rs[i].kind = kind[q]
        BY <4>1
      <4> QED BY <1>4, <4>1, <4>2, BoundsAssumption
    <3> QED BY <1>3, <3>1, <3>2
  <2> QED BY <1>1, <2>1, <2>2 DEF Grown
<1> QED BY <1>4 DEF Filled

\* Keys stay in order when each new row has counted a birth.
LEMMA NumberedAfter ==
    ASSUME Steady, NEW S \in SUBSET Paths, Count(S), Live(rows') \subseteq Live(rows) \cup {NewId(q) : q \in S}
    PROVE  Numbered'
<1>1. births' = [p \in Paths |-> IF p \in S THEN births[p] + 1 ELSE births[p]]
  BY DEF Count
<1>2. \A p \in Paths : births[p] \in Nat
  BY BoundsAssumption DEF Steady, TypeOK
<1> SUFFICES ASSUME NEW i \in Live(rows') PROVE i[2] <= births'[i[1]]
  BY DEF Numbered
<1>3. i \in Ids /\ i[1] \in Paths /\ i[2] \in Nat
  BY BoundsAssumption DEF Live, Ids
<1>4. CASE i \in Live(rows)
  <2>1. i[2] <= births[i[1]]
    BY <1>4 DEF Steady, Numbered
  <2> QED BY <1>1, <1>2, <1>3, <2>1
<1>5. CASE i \in {NewId(q) : q \in S}
  BY <1>1, <1>2, <1>3, <1>5 DEF NewId
<1> QED BY <1>4, <1>5

-----------------------------------------------------------------------------
(* Removing *)

\* What is left after rows are removed.
LEMMA RemoveFacts ==
    ASSUME NEW rs, NEW R
    PROVE  /\ Live(Remove(rs, R)) = Live(rs) \ R
           /\ \A i \in Live(rs) \ R : Remove(rs, R)[i] = rs[i]
  BY DEF Live, Remove

\* Rows are removed with all that is below them.
LEMMA RemovedSound ==
    ASSUME NEW rs, Sound(rs), NEW R, \A j \in Live(rs) : rs[j].parent \in R => j \in R
    PROVE  Sound(Remove(rs, R))
<1> DEFINE T == Remove(rs, R)
<1>1. Live(T) = Live(rs) \ R /\ \A i \in Live(T) : T[i] = rs[i] /\ i \in Live(rs)
  BY RemoveFacts
<1>2. T \in Table
  BY RemoveType DEF Sound
<1> HIDE DEF T
<1>3. Unique(T)
  BY <1>1 DEF Sound, Unique
<1>4. ASSUME NEW i \in Live(T)
      PROVE  IF Len(T[i].path) = 1 THEN T[i].parent = NoParent
             ELSE T[i].parent \in FoldersAt(T, Front(T[i].path))
  <2>1. IF Len(rs[i].path) = 1 THEN rs[i].parent = NoParent
        ELSE rs[i].parent \in FoldersAt(rs, Front(rs[i].path))
    BY <1>1 DEF Sound, ParentsOK
  <2>2. rs[i].parent \notin R
    BY <1>1
  <2>3. rs[i].parent \in FoldersAt(rs, Front(rs[i].path)) => rs[i].parent \in FoldersAt(T, Front(rs[i].path))
    BY <1>1, <2>2 DEF FoldersAt, At
  <2> QED BY <1>1, <2>1, <2>3
<1> QED BY <1>2, <1>3, <1>4 DEF Sound, ParentsOK, T

\* Only the parent of what was removed may be left empty.
LEMMA RemovedFilled ==
    ASSUME NEW rs, NEW R, NEW top \in R, NEW spared, Filled(rs, spared), spared \in Live(rs) => spared \in R,
           \A j \in R : j = top \/ rs[j].parent \in R
    PROVE  Filled(Remove(rs, R), rs[top].parent)
<1> DEFINE T == Remove(rs, R)
<1>1. Live(T) = Live(rs) \ R /\ \A i \in Live(T) : T[i] = rs[i] /\ i \in Live(rs)
  BY RemoveFacts
<1> HIDE DEF T
<1>2. ASSUME NEW i \in Live(T), T[i].kind = "folder", i # rs[top].parent PROVE Children(T, i) # {}
  <2>1. PICK c \in Live(rs) : rs[c].parent = i
    BY <1>1, <1>2 DEF Filled, Children
  <2>2. c \notin R
    BY <1>1, <1>2, <2>1
  <2> QED BY <1>1, <2>1, <2>2 DEF Children
<1> QED BY <1>2 DEF Filled, T

\* Nothing is below a row that is no folder.
LEMMA ItemsAreLeaves ==
    ASSUME NEW rs, Sound(rs), NEW i \in Live(rs), rs[i].kind # "folder"
    PROVE  \A j \in Live(rs) : ~Below(rs[j].path, rs[i].path)
<1> SUFFICES ASSUME NEW j \in Live(rs), Below(rs[j].path, rs[i].path) PROVE FALSE
  OBVIOUS
<1>1. rs[i].path \in Ancestors(rs[j].path)
  BY RowFacts, AncestorIsAbove DEF Sound
<1>2. FoldersAt(rs, rs[i].path) # {}
  BY <1>1, AncestorRows
<1> QED BY <1>2, OneRow DEF Sound, FoldersAt

-----------------------------------------------------------------------------
(* A move *)

\* The folders on the way to a path, once made, are a sound table.
LEMMA WithFoldersSound ==
    ASSUME Steady, NEW S, Passable(S)
    PROVE  /\ Sound(WithFolders(rows, S))
           /\ \A q \in S : FolderId(rows, q) \in FoldersAt(WithFolders(rows, S), q)
<1> DEFINE T == WithFolders(rows, S)
           M == Missing(rows, S)
           N == {NewId(q) : q \in M}
<1>1. /\ T \in Table /\ \A i \in Live(rows) : T[i] = rows[i]
      /\ \A q \in M : T[NewId(q)] = [path |-> q, parent |-> LastParent(rows, q), kind |-> "folder"]
      /\ Live(T) = Live(rows) \cup N
  BY WithFoldersFacts
<1> HIDE DEF T
<1>2. \A q \in M : T[NewId(q)].path = q /\ T[NewId(q)].parent = LastParent(rows, q) /\ T[NewId(q)].kind = "folder"
  <2> TAKE q \in M
  <2>1. T[NewId(q)] = [path |-> q, parent |-> LastParent(rows, q), kind |-> "folder"]
    BY <1>1
  <2> QED BY <2>1
<1>3. \A q \in M : q \in S /\ At(rows, q) = {}
  BY DEF Missing
<1> HIDE DEF M
<1>4. Unique(T)
  <2> SUFFICES ASSUME NEW i \in Live(T), NEW j \in Live(T), T[i].path = T[j].path PROVE i = j
    BY DEF Unique
  <2>1. CASE i \in Live(rows) /\ j \in Live(rows)
    BY <1>1, <2>1 DEF Steady, Sound, Unique
  <2>2. CASE i \in N /\ j \in N
    BY <1>2, <2>2
  <2>3. CASE i \in Live(rows) /\ j \in N
    BY <1>1, <1>2, <1>3, <2>3 DEF At
  <2>4. CASE i \in N /\ j \in Live(rows)
    BY <1>1, <1>2, <1>3, <2>4 DEF At
  <2> QED BY <1>1, <2>1, <2>2, <2>3, <2>4
<1>5. ASSUME NEW q \in S PROVE FolderId(rows, q) \in FoldersAt(T, q)
  <2>1. CASE At(rows, q) = {}
    <3>1. q \in M /\ FolderId(rows, q) = NewId(q)
      BY <2>1, FolderIdFacts DEF Missing, M
    <3> QED BY <1>1, <1>2, <3>1 DEF FoldersAt, At
  <2>2. CASE At(rows, q) # {}
    <3>1. FolderId(rows, q) \in FoldersAt(rows, q)
      BY <2>2, FolderIdFacts
    <3> QED BY <1>1, <3>1 DEF FoldersAt, At
  <2> QED BY <2>1, <2>2
<1>6. Grown(T, N)
  BY <1>1 DEF Grown
<1>7. ASSUME NEW i \in N
      PROVE  IF Len(T[i].path) = 1 THEN T[i].parent = NoParent
             ELSE T[i].parent \in FoldersAt(T, Front(T[i].path))
  <2>1. PICK q \in M : i = NewId(q)
    OBVIOUS
  <2>2. q \in Paths /\ Ancestors(q) \subseteq S
    BY <1>3 DEF Passable
  <2>3. LastParent(rows, q) = IF Len(q) = 1 THEN NoParent ELSE FolderId(rows, Front(q))
    BY <2>2, LastParentIs
  <2>4. CASE Len(q) = 1
    BY <1>2, <2>1, <2>3, <2>4
  <2>5. CASE Len(q) > 1
    <3>1. Front(q) \in S /\ Len(q) # 1
      BY <2>2, <2>5, FrontFacts, PathDepth
    <3> QED BY <1>2, <1>5, <2>1, <2>3, <3>1
  <2> QED BY <2>2, <2>4, <2>5, PathDepth
<1> QED BY <1>4, <1>5, <1>6, <1>7, GrownSound DEF T

\* What a request that moves holds agrees with the table.
Moving(m) ==
    /\ m.id \in Live(rows) /\ m.path \in Paths /\ m.dest \in Paths
    /\ rows[m.id] = [path |-> m.path, parent |-> m.parent, kind |-> m.kind]
    /\ ~Covers(m.path, m.dest) /\ ~Conflict(m.dest)
    /\ Room(Missing(rows, Ancestors(m.dest)))

Movers(m) == {j \in Live(rows) : Below(rows[j].path, m.path)}

\* The folders on the way to the target are not among what moves.
LEMMA MovingFacts ==
    ASSUME Steady, NEW m, Moving(m)
    PROVE  /\ Passable(Ancestors(m.dest))
           /\ \A q \in Ancestors(m.dest) : ~Covers(m.path, q)
           /\ m.id \in Ids /\ rows[m.id].path = m.path
           /\ rows[m.id].kind = m.kind /\ rows[m.id].parent = m.parent /\ rows[m.id] \in Row
           /\ \A j \in Live(rows) : Covers(m.path, rows[j].path) <=> j = m.id \/ j \in Movers(m)
           /\ m.id \notin Movers(m)
<1>1. Passable(Ancestors(m.dest))
  BY AncestorsArePaths, AncestorsTransitive DEF Moving, Conflict, Passable
<1>2. \A q \in Ancestors(m.dest) : ~Covers(m.path, q)
  <2> SUFFICES ASSUME NEW q \in Ancestors(m.dest), Covers(m.path, q) PROVE FALSE
    OBVIOUS
  <2>1. q \in Paths /\ m.path \in Paths /\ m.dest \in Paths /\ Below(m.dest, q)
    BY AncestorsArePaths, AncestorIsAbove DEF Moving
  <2> QED BY <2>1, CoversTransitive DEF Moving, Covers
<1>3. /\ m.id \in Ids /\ rows[m.id].path = m.path /\ rows[m.id].kind = m.kind
      /\ rows[m.id].parent = m.parent /\ rows[m.id] \in Row
  BY RowFacts DEF Moving, Steady, Sound
<1>4. \A j \in Live(rows) : rows[j].path = m.path <=> j = m.id
  BY <1>3 DEF Moving, Steady, Sound, Unique
<1>5. m.id \notin Movers(m)
  BY <1>3, PathFacts DEF Movers, Below, Moving
<1> QED BY <1>1, <1>2, <1>3, <1>4, <1>5 DEF Covers, Movers

\* The table in the middle of a move: the folders on the way are made and the
\* row has its new path, the rows below it have not.
Based(m) == WithFolders(rows, Ancestors(m.dest))
Top(m) == [Based(m) EXCEPT ![m.id] = [path |-> m.dest, kind |-> m.kind,
                                      parent |-> LastParent(rows, m.dest)]]
NewFolders(m) == {NewId(q) : q \in Missing(rows, Ancestors(m.dest))}

\* The table with the folders made.
LEMMA BasedFacts ==
    ASSUME Steady, NEW m, Moving(m)
    PROVE  /\ Sound(Based(m)) /\ Live(Based(m)) = Live(rows) \cup NewFolders(m)
           /\ \A i \in Live(rows) : Based(m)[i] = rows[i]
           /\ \A q \in Missing(rows, Ancestors(m.dest)) :
                Based(m)[NewId(q)] = [path |-> q, parent |-> LastParent(rows, q), kind |-> "folder"]
           /\ \A q \in Ancestors(m.dest) : FolderId(rows, q) \in FoldersAt(Based(m), q)
           /\ NewFolders(m) \cap Live(rows) = {}
<1>1. Passable(Ancestors(m.dest))
  BY MovingFacts
<1> QED BY <1>1, WithFoldersFacts, WithFoldersSound DEF Based, NewFolders

\* The table in which the row, but nothing below it, has moved.
LEMMA TopFacts ==
    ASSUME Steady, NEW m, Moving(m)
    PROVE  /\ Live(Top(m)) = Live(Based(m))
           /\ \A i \in Ids : i # m.id => Top(m)[i] = Based(m)[i]
           /\ Top(m)[m.id] = [path |-> m.dest, kind |-> m.kind, parent |-> LastParent(rows, m.dest)]
<1> DEFINE row == [path |-> m.dest, kind |-> m.kind, parent |-> LastParent(rows, m.dest)]
           B == Based(m)
<1>1. B \in Table /\ m.id \in Live(B)
  BY BasedFacts DEF Sound, Moving
<1>2. row \in Row
  <2>1. LastParent(rows, m.dest) \in MaybeId
    BY LastParentType DEF Moving, Steady
  <2>2. m.kind \in Kinds \cup {"folder"}
    BY MovingFacts DEF Row
  <2> QED BY <2>1, <2>2 DEF Row, MaybeId, Moving
<1>3. row # NoRow
  BY <1>2, NoNullRow
<1>4. Top(m) = [B EXCEPT ![m.id] = row]
  BY DEF Top
<1> HIDE DEF row, B
<1>5. \A i \in Ids : Top(m)[i] = IF i = m.id THEN row ELSE B[i]
  BY <1>1, <1>4 DEF Table
<1> QED BY <1>1, <1>3, <1>5 DEF Live, row, B

\* The row that moves is below none of the folders made for it: what is below
\* it by parent links is what was below its old path.
LEMMA TopSubtree ==
    ASSUME Steady, NEW m, Moving(m)
    PROVE  Subtree(Top(m), m.id) = {m.id} \cup Movers(m)
<1> DEFINE T == Top(m)
           X == {m.id} \cup Movers(m)
<1>1. /\ Live(T) = Live(rows) \cup NewFolders(m) /\ m.id \in Live(rows) /\ m.id \in Ids
      /\ \A i \in Live(rows) : i # m.id => T[i] = rows[i]
  <2>1. m.id \in Live(rows) /\ Live(rows) \subseteq Ids
    BY DEF Moving, Live
  <2>2. Live(T) = Live(Based(m)) /\ \A i \in Ids : i # m.id => T[i] = Based(m)[i]
    BY TopFacts
  <2>3. Live(Based(m)) = Live(rows) \cup NewFolders(m) /\ \A i \in Live(rows) : Based(m)[i] = rows[i]
    BY BasedFacts
  <2> HIDE DEF T
  <2> QED BY <2>1, <2>2, <2>3
<1>2. \A q \in Missing(rows, Ancestors(m.dest)) : T[NewId(q)].parent = LastParent(rows, q)
  <2> TAKE q \in Missing(rows, Ancestors(m.dest))
  <2>1. Based(m)[NewId(q)] = [path |-> q, parent |-> LastParent(rows, q), kind |-> "folder"]
    BY BasedFacts
  <2>2. NewId(q) # m.id /\ NewId(q) \in Ids
    BY BasedFacts, <1>1 DEF NewFolders, Live
  <2>3. T[NewId(q)] = Based(m)[NewId(q)]
    BY <2>2, TopFacts
  <2> QED BY <2>1, <2>3
<1>3. Sound(rows) /\ m.path \in Paths
  BY DEF Steady, Moving
<1>4. \A j \in Live(rows) : Covers(m.path, rows[j].path) <=> j \in X
  BY MovingFacts
<1> HIDE DEF T
<1>5. Subtree(T, m.id) \subseteq X
  <2>1. ASSUME NEW j \in Live(T), T[j].parent \in X PROVE j \in X
    <3>1. CASE j \in Live(rows) /\ j # m.id
      <4>1. rows[j].parent \in Live(rows) /\ Covers(m.path, rows[rows[j].parent].path)
        BY <1>1, <1>4, <2>1, <3>1 DEF Movers
      <4>2. Len(rows[j].path) > 1 /\ rows[j].path \in Paths
        BY <1>3, <3>1, <4>1, HasParent, RowFacts DEF Sound
      <4>3. rows[rows[j].parent].path = Front(rows[j].path)
        BY <1>3, <3>1, <4>2, ParentRow
      <4>4. Below(rows[j].path, m.path)
        BY <1>3, <4>1, <4>2, <4>3, BelowFront
      <4> QED BY <3>1, <4>4 DEF Movers
    <3>2. CASE j \in NewFolders(m)
      <4>1. PICK q \in Missing(rows, Ancestors(m.dest)) : j = NewId(q)
        BY <3>2 DEF NewFolders
      <4>2. q \in Ancestors(m.dest) /\ q \in Paths /\ Passable(Ancestors(m.dest))
        BY MovingFacts DEF Missing, Passable
      <4>3. LastParent(rows, q) = IF Len(q) = 1 THEN NoParent ELSE FolderId(rows, Front(q))
        BY <4>2, LastParentIs DEF Passable
      <4>4. LastParent(rows, q) \in X /\ X \subseteq Live(rows)
        BY <1>1, <1>2, <2>1, <4>1 DEF Movers
      <4>5. Len(q) # 1 /\ FolderId(rows, Front(q)) \in Live(rows) /\ Covers(m.path, rows[FolderId(rows, Front(q))].path)
        BY <1>3, <1>4, <4>3, <4>4, RowFacts DEF Sound
      <4>6. Len(q) > 1 /\ Front(q) \in Ancestors(m.dest)
        BY <4>2, <4>5, PathDepth, FrontFacts DEF Passable
      <4>7. rows[FolderId(rows, Front(q))].path = Front(q)
        BY <4>2, <4>5, <4>6, FolderIdFacts DEF FoldersAt, At
      <4> QED BY <4>5, <4>6, <4>7, MovingFacts
    <3>3. CASE j = m.id
      BY <3>3
    <3> QED BY <1>1, <3>1, <3>2, <3>3
  <2>2. m.id \in X
    OBVIOUS
  <2> HIDE DEF X
  <2> QED BY <2>1, <2>2, SubtreeLeast
<1>6. X \subseteq Subtree(T, m.id)
  <2>1. m.id \in Live(T)
    BY <1>1
  <2>2. m.id \in Subtree(T, m.id)
    BY <2>1, SubtreeFacts
  <2>3. ASSUME NEW j \in Live(rows), rows[j].parent \in Subtree(T, m.id) PROVE j \in Subtree(T, m.id)
    <3>1. CASE j = m.id
      BY <2>2, <3>1
    <3>2. CASE j # m.id
      <4>1. T[j].parent \in Subtree(T, m.id) /\ j \in Live(T)
        BY <1>1, <2>3, <3>2
      <4> QED BY <2>1, <4>1, SubtreeClosed
    <3> QED BY <3>1, <3>2
  <2>4. Subtree(rows, m.id) \subseteq Subtree(T, m.id)
    BY <2>2, <2>3, SubtreeLeast
  <2>5. Subtree(rows, m.id) = {j \in Live(rows) : Covers(rows[m.id].path, rows[j].path)}
    BY <1>1, <1>3, SubtreeByPath
  <2>6. rows[m.id].path = m.path /\ X \subseteq Live(rows)
    BY <1>1, MovingFacts DEF Movers
  <2> QED BY <1>4, <2>4, <2>5, <2>6
<1> QED BY <1>5, <1>6 DEF T

\* The query that walks down from the top level comes to the row that moves.
LEMMA TopHangs ==
    ASSUME Steady, NEW m, Moving(m)
    PROVE  \E t \in Children(Top(m), NoParent) : m.id \in Subtree(Top(m), t)
<1> DEFINE T == Top(m)
           B == Based(m)
<1>1. /\ Live(T) = Live(B) /\ m.id \in Live(B) /\ m.id \in Ids
      /\ \A i \in Live(B) : i # m.id => T[i] = B[i]
  <2>1. m.id \in Live(rows) /\ Live(rows) \subseteq Ids /\ Live(B) \subseteq Ids
    BY DEF Moving, Live
  <2> HIDE DEF B, T
  <2> QED BY <2>1, TopFacts, BasedFacts DEF B, T
<1>2. Sound(B) /\ m.path \in Paths /\ m.dest \in Paths /\ Passable(Ancestors(m.dest)) /\ B[m.id].path = m.path
  BY BasedFacts, MovingFacts DEF Moving
<1>3. T[m.id].parent = IF Len(m.dest) = 1 THEN NoParent ELSE FolderId(rows, Front(m.dest))
  <2>1. T[m.id] = [path |-> m.dest, kind |-> m.kind, parent |-> LastParent(rows, m.dest)]
    BY TopFacts
  <2>2. LastParent(rows, m.dest) = IF Len(m.dest) = 1 THEN NoParent ELSE FolderId(rows, Front(m.dest))
    BY <1>2, LastParentIs
  <2> QED BY <2>1, <2>2
<1>4. \A q \in Ancestors(m.dest) : FolderId(rows, q) \in FoldersAt(B, q) /\ ~Covers(m.path, q)
  BY BasedFacts, MovingFacts
<1> HIDE DEF T, B
<1>5. CASE Len(m.dest) = 1
  <2>1. m.id \in Children(T, NoParent)
    BY <1>1, <1>3, <1>5 DEF Children
  <2>2. m.id \in Subtree(T, m.id)
    BY <1>1, SubtreeFacts
  <2> QED BY <2>1, <2>2 DEF T
<1>6. CASE Len(m.dest) > 1
  <2> DEFINE f == FolderId(rows, Front(m.dest))
  <2>1. f \in Live(B) /\ B[f].path = Front(m.dest) /\ ~Covers(m.path, Front(m.dest)) /\ T[m.id].parent = f
    <3>1. Front(m.dest) \in Ancestors(m.dest) /\ Len(m.dest) # 1
      BY <1>2, <1>6, FrontFacts, PathDepth
    <3> QED BY <1>3, <1>4, <3>1 DEF FoldersAt, At
  <2> HIDE DEF f
  <2>2. PICK t \in Children(B, NoParent) : f \in Subtree(B, t)
    BY <1>2, <2>1, HangsFromTop
  <2>3. t \in Live(B) /\ B[t].parent = NoParent
    BY DEF Children
  <2>4. t # m.id
    <3>1. Covers(B[t].path, B[f].path)
      BY <1>2, <2>2, <2>3, SubtreeByPath
    <3> QED BY <1>2, <2>1, <3>1
  <2>5. t \in Children(T, NoParent)
    BY <1>1, <2>3, <2>4 DEF Children
  <2> DEFINE Y == {j \in Live(B) : Covers(m.path, B[j].path)}
             X == Subtree(T, t) \cup Y
  <2>6. t \in X
    BY <1>1, <2>3, SubtreeFacts
  <2>7. ASSUME NEW j \in Live(B), B[j].parent \in X PROVE j \in X
    <3>1. CASE j = m.id
      <4>1. Covers(m.path, B[j].path)
        BY <1>2, <3>1 DEF Covers
      <4> QED BY <4>1
    <3>2. CASE j # m.id /\ B[j].parent \in Subtree(T, t)
      BY <1>1, <2>3, <3>2, SubtreeClosed
    <3>3. CASE B[j].parent \in Y
      <4>1. B[j].parent \in Live(B) /\ Covers(m.path, B[B[j].parent].path)
        BY <3>3
      <4>2. Len(B[j].path) > 1 /\ B[j].path \in Paths
        BY <1>2, <4>1, HasParent, RowFacts DEF Sound
      <4>3. B[B[j].parent].path = Front(B[j].path)
        BY <1>2, <4>2, ParentRow
      <4>4. Below(B[j].path, m.path)
        BY <1>2, <4>1, <4>2, <4>3, BelowFront
      <4> QED BY <4>4 DEF Covers
    <3> QED BY <2>7, <3>1, <3>2, <3>3
  <2>8. f \notin Y
    BY <2>1
  <2> HIDE DEF Y
  <2>9. f \in X
    <3> HIDE DEF X
    <3> QED BY <2>2, <2>6, <2>7, SubtreeLeast
  <2>10. f \in Subtree(T, t)
    BY <2>8, <2>9
  <2>11. m.id \in Subtree(T, t)
    BY <1>1, <2>1, <2>3, <2>10, SubtreeClosed
  <2> QED BY <2>5, <2>11 DEF T
<1> QED BY <1>2, <1>5, <1>6, PathDepth

\* The table once all has moved: the row, and the rows below it, by paths.
LEMMA MovedRows ==
    ASSUME Steady, NEW m, Moving(m)
    PROVE  /\ Live(Moved(m)) = Live(Based(m))
           /\ \A i \in Ids : i # m.id /\ i \notin Movers(m) => Moved(m)[i] = Based(m)[i]
           /\ Moved(m)[m.id] = [path |-> m.dest, kind |-> m.kind, parent |-> LastParent(rows, m.dest)]
           /\ \A i \in Movers(m) : /\ Moved(m)[i].path = Rebase(rows[i].path, m.path, m.dest)
                                   /\ Moved(m)[i].parent = rows[i].parent
                                   /\ Moved(m)[i].kind = rows[i].kind
<1> DEFINE T == Top(m)
           under == IF m.kind = "folder" THEN Descendants(T, m.id) \ {m.id} ELSE {}
           new(i) == [T[i] EXCEPT !.path = Rebase(T[i].path, m.path, m.dest)]
<1>1. under = Movers(m)
  <2>1. CASE m.kind = "folder"
    <3>1. Descendants(T, m.id) = Subtree(T, m.id)
      BY TopHangs DEF Descendants
    <3>2. m.id \notin Movers(m)
      BY MovingFacts
    <3> QED BY <2>1, <3>1, <3>2, TopSubtree
  <2>2. CASE m.kind # "folder"
    <3>1. Sound(rows) /\ m.id \in Live(rows) /\ rows[m.id].kind # "folder" /\ rows[m.id].path = m.path
      BY <2>2, MovingFacts DEF Steady, Moving
    <3>2. Movers(m) = {}
      BY <3>1, ItemsAreLeaves DEF Movers
    <3> QED BY <2>2, <3>2
  <2> QED BY <2>1, <2>2
<1>2. Moved(m) = [i \in Ids |-> IF i \in under THEN new(i) ELSE T[i]]
  BY DEF Moved, Top, Based
<1> HIDE DEF under, new, T
<1>3. m.id \in Live(rows) /\ Live(rows) \subseteq Ids /\ m.id \in Ids /\ m.id \notin Movers(m) /\ Movers(m) \subseteq Live(rows)
  BY MovingFacts DEF Moving, Live, Movers
<1>4. \A i \in Ids : Moved(m)[i] = IF i \in Movers(m) THEN new(i) ELSE T[i]
  BY <1>1, <1>2
<1>5. /\ Live(T) = Live(Based(m)) /\ \A i \in Ids : i # m.id => T[i] = Based(m)[i]
      /\ T[m.id] = [path |-> m.dest, kind |-> m.kind, parent |-> LastParent(rows, m.dest)]
  BY TopFacts DEF T
<1>6. ASSUME NEW i \in Movers(m)
      PROVE  /\ new(i).path = Rebase(rows[i].path, m.path, m.dest)
             /\ new(i).parent = rows[i].parent /\ new(i).kind = rows[i].kind
             /\ new(i) # NoRow
  <2>1. T[i] = rows[i] /\ rows[i] \in Row
    <3>1. Based(m)[i] = rows[i] /\ rows[i] \in Row
      BY <1>3, BasedFacts, RowFacts DEF Steady, Sound
    <3> QED BY <1>3, <1>5, <3>1
  <2>2. new(i) = [T[i] EXCEPT !.path = Rebase(T[i].path, m.path, m.dest)]
    BY DEF new
  <2>3. new(i).path = Rebase(rows[i].path, m.path, m.dest) /\ new(i).parent = rows[i].parent /\ new(i).kind = rows[i].kind
    BY <2>1, <2>2 DEF Row
  <2>4. new(i) # NoRow
    <3>1. /\ rows[i].path \in Paths /\ m.path \in Paths /\ m.dest \in Paths
          /\ Covers(m.path, rows[i].path)
      BY <1>3, RowFacts DEF Moving, Movers, Covers, Steady, Sound
    <3>2. Rebase(rows[i].path, m.path, m.dest) \in Seq(STRING)
      BY <3>1, RebaseFacts
    <3> QED BY <2>1, <2>2, <3>2, NoNullRow
  <2> QED BY <2>3, <2>4
<1>7. Live(Moved(m)) = Live(T)
  <2>1. \A i \in Ids : Moved(m)[i] # NoRow <=> T[i] # NoRow
    <3> TAKE i \in Ids
    <3>1. CASE i \in Movers(m)
      <4>1. i \in Live(Based(m))
        BY <1>3, <3>1, BasedFacts
      <4>2. T[i] # NoRow
        BY <1>5, <4>1 DEF Live
      <4> QED BY <1>4, <1>6, <3>1, <4>2
    <3>2. CASE i \notin Movers(m)
      BY <1>4, <3>2
    <3> QED BY <3>1, <3>2
  <2> QED BY <2>1 DEF Live
<1> QED BY <1>3, <1>4, <1>5, <1>6, <1>7

\* What is not below the row that moves stays where it is.
LEMMA MovedApart ==
    ASSUME Steady, NEW m, Moving(m), NEW q, ~Covers(m.path, q), NEW f \in FoldersAt(Based(m), q)
    PROVE  f \in FoldersAt(Moved(m), q)
<1>1. f \in Live(Based(m)) /\ Based(m)[f].path = q /\ Based(m)[f].kind = "folder" /\ f \in Ids
  BY DEF FoldersAt, At, Live
<1>2. f \in Live(rows) => ~Covers(m.path, rows[f].path)
  BY <1>1, BasedFacts
<1>3. f # m.id /\ f \notin Movers(m)
  <2>1. m.id \in Live(rows) /\ Movers(m) \subseteq Live(rows) /\ Covers(m.path, rows[m.id].path)
    BY MovingFacts DEF Moving, Movers
  <2>2. \A j \in Movers(m) : Covers(m.path, rows[j].path)
    BY MovingFacts DEF Movers
  <2> QED BY <1>2, <2>1, <2>2
<1>4. f \in Live(Moved(m)) /\ Moved(m)[f] = Based(m)[f]
  BY <1>1, <1>3, MovedRows
<1> QED BY <1>1, <1>4 DEF FoldersAt, At

\* The new row, the folders made and the rows below it have the parents their
\* new paths say, and so have the rows that stay.
LEMMA MovedParents ==
    ASSUME Steady, NEW m, Moving(m), NEW i \in Live(Moved(m))
    PROVE  IF Len(Moved(m)[i].path) = 1 THEN Moved(m)[i].parent = NoParent
           ELSE Moved(m)[i].parent \in FoldersAt(Moved(m), Front(Moved(m)[i].path))
<1> DEFINE T == Moved(m)
           B == Based(m)
<1>1. Sound(B) /\ Sound(rows) /\ m.path \in Paths /\ m.dest \in Paths
  BY BasedFacts DEF Steady, Moving
<1>2. i \in Live(B) /\ i \in Ids
  BY MovedRows DEF Live
<1>3. CASE i = m.id
  <2>1. Passable(Ancestors(m.dest))
    BY MovingFacts
  <2>2. T[m.id].path = m.dest /\ T[m.id].parent = LastParent(rows, m.dest)
    <3>1. T[m.id] = [path |-> m.dest, kind |-> m.kind, parent |-> LastParent(rows, m.dest)]
      BY MovedRows
    <3> QED BY <3>1
  <2>3. LastParent(rows, m.dest) = IF Len(m.dest) = 1 THEN NoParent ELSE FolderId(rows, Front(m.dest))
    BY <1>1, <2>1, LastParentIs
  <2>4. CASE Len(m.dest) = 1
    BY <1>3, <2>2, <2>3, <2>4
  <2>5. CASE Len(m.dest) > 1
    <3>1. Front(m.dest) \in Ancestors(m.dest) /\ Len(m.dest) # 1
      BY <1>1, <2>5, FrontFacts, PathDepth
    <3>2. ~Covers(m.path, Front(m.dest)) /\ FolderId(rows, Front(m.dest)) \in FoldersAt(B, Front(m.dest))
      BY <3>1, MovingFacts, BasedFacts
    <3>3. FolderId(rows, Front(m.dest)) \in FoldersAt(T, Front(m.dest))
      BY <3>2, MovedApart
    <3> QED BY <1>3, <2>2, <2>3, <3>1, <3>3
  <2> QED BY <1>1, <2>4, <2>5, PathDepth
<1>4. CASE i \in Movers(m)
  <2>1. i \in Live(rows) /\ Below(rows[i].path, m.path) /\ rows[i].path \in Paths
    BY <1>1, <1>4, RowFacts DEF Movers, Sound
  <2>2. Len(rows[i].path) > 1 /\ Covers(m.path, Front(rows[i].path))
    BY <1>1, <2>1, BelowFront
  <2> DEFINE f == rows[i].parent
  <2>3. f \in Live(rows) /\ rows[f].path = Front(rows[i].path) /\ rows[f].kind = "folder"
    BY <1>1, <2>1, <2>2, ParentRow
  <2>4. Len(Rebase(rows[i].path, m.path, m.dest)) > 1 /\ Rebase(rows[i].path, m.path, m.dest) \in Seq(STRING)
    BY <1>1, <2>1, RebaseFront, RebaseFacts DEF Covers
  <2>5. Front(Rebase(rows[i].path, m.path, m.dest)) = Rebase(Front(rows[i].path), m.path, m.dest)
    BY <1>1, <2>1, RebaseFront
  <2>6. T[i].path = Rebase(rows[i].path, m.path, m.dest) /\ T[i].parent = f
    BY <1>4, MovedRows
  <2> HIDE DEF f, T
  <2>7. f \in Live(T) /\ T[f].path = Rebase(Front(rows[i].path), m.path, m.dest) /\ T[f].kind = "folder"
    <3>1. f = m.id \/ f \in Movers(m)
      BY <2>2, <2>3, MovingFacts
    <3>2. f \in Live(T)
      BY <2>3, MovedRows, BasedFacts DEF T
    <3>3. CASE f = m.id
      <4>1. T[f] = [path |-> m.dest, kind |-> m.kind, parent |-> LastParent(rows, m.dest)]
        BY <3>3, MovedRows DEF T
      <4>2. m.kind = "folder" /\ Front(rows[i].path) = m.path
        BY <2>3, <3>3, MovingFacts
      <4>3. Rebase(m.path, m.path, m.dest) = m.dest
        BY <1>1, RebaseRoot
      <4> QED BY <3>2, <4>1, <4>2, <4>3
    <3>4. CASE f \in Movers(m)
      BY <2>3, <3>2, <3>4, MovedRows DEF T
    <3> QED BY <3>1, <3>3, <3>4
  <2>8. f \in FoldersAt(T, Front(T[i].path))
    BY <2>5, <2>6, <2>7 DEF FoldersAt, At
  <2>9. Len(T[i].path) # 1
    <3> DEFINE b == Rebase(rows[i].path, m.path, m.dest)
               n == Len(b)
    <3>1. b \in Seq(STRING) /\ n > 1
      BY <2>4
    <3> HIDE DEF b
    <3>2. n \in Nat
      BY <3>1
    <3> HIDE DEF n
    <3>3. n # 1
      BY <3>1, <3>2
    <3> QED BY <2>6, <3>3 DEF b, n
  <2> QED BY <2>6, <2>8, <2>9 DEF T
<1>5. CASE i # m.id /\ i \notin Movers(m)
  <2>1. T[i] = B[i]
    BY <1>2, <1>5, MovedRows
  <2>2. CASE Len(B[i].path) = 1
    BY <1>1, <1>2, <2>1, <2>2 DEF Sound, ParentsOK
  <2>3. CASE Len(B[i].path) > 1
    <3>1. B[i].parent \in FoldersAt(B, Front(B[i].path))
      BY <1>1, <1>2, <2>3, ParentRow DEF FoldersAt, At
    <3>2. ~Covers(m.path, Front(B[i].path))
      <4> SUFFICES ASSUME Covers(m.path, Front(B[i].path)) PROVE FALSE
        OBVIOUS
      <4>1. B[i].path \in Paths
        BY <1>1, <1>2, RowFacts DEF Sound
      <4>2. Below(B[i].path, m.path)
        BY <1>1, <2>3, <4>1, BelowFront
      <4>3. CASE i \in Live(rows)
        <5>1. Below(rows[i].path, m.path)
          BY <4>2, <4>3, BasedFacts
        <5> QED BY <1>5, <4>3, <5>1 DEF Movers
      <4>4. CASE i \in NewFolders(m)
        <5>1. PICK q \in Missing(rows, Ancestors(m.dest)) : i = NewId(q)
          BY <4>4 DEF NewFolders
        <5>2. B[i] = [path |-> q, parent |-> LastParent(rows, q), kind |-> "folder"]
          BY <5>1, BasedFacts
        <5>3. q \in Ancestors(m.dest) /\ B[i].path = q
          BY <5>2 DEF Missing
        <5> QED BY <4>2, <5>3, MovingFacts DEF Covers
      <4> QED BY <1>2, <4>3, <4>4, BasedFacts
    <3>3. B[i].parent \in FoldersAt(T, Front(B[i].path))
      BY <3>1, <3>2, MovedApart
    <3>4. Len(B[i].path) # 1
      <4>1. B[i].path \in Paths
        BY <1>1, <1>2, RowFacts DEF Sound
      <4> QED BY <2>3, <4>1, PathDepth
    <3> QED BY <2>1, <3>3, <3>4
  <2>4. B[i].path \in Paths
    BY <1>1, <1>2, RowFacts DEF Sound
  <2> QED BY <2>2, <2>3, <2>4, PathDepth
<1> QED BY <1>3, <1>4, <1>5

\* So the table is sound.
LEMMA MovedSound ==
    ASSUME Steady, NEW m, Moving(m), Moved(m) \in Table, Unique(Moved(m))
    PROVE  Sound(Moved(m))
  BY MovedParents DEF Sound, ParentsOK

\* Only the parent of the row that moved may be left empty, and it is as it was.
LEMMA MovedFilled ==
    ASSUME Steady, NEW m, Moving(m)
    PROVE  /\ Filled(rows, NoParent) => Filled(Moved(m), m.parent)
           /\ m.parent # NoParent => /\ m.parent \in Live(Moved(m))
                                     /\ Moved(m)[m.parent] = rows[m.parent]
                                     /\ rows[m.parent].kind = "folder"
<1> DEFINE T == Moved(m)
           B == Based(m)
           S == Ancestors(m.dest)
<1>0. /\ Passable(S) /\ m.dest \in Paths /\ m.path \in Paths /\ Sound(rows) /\ m.id \in Live(rows)
      /\ rows[m.id].path = m.path /\ rows[m.id].parent = m.parent /\ rows[m.id].kind = m.kind
  BY MovingFacts DEF Moving, Steady
<1>1. /\ Live(T) = Live(rows) \cup NewFolders(m)
      /\ \A i \in Live(rows) : i # m.id => T[i].parent = rows[i].parent
      /\ \A i \in Live(rows) : T[i].kind = rows[i].kind
      /\ T[m.id].parent = LastParent(rows, m.dest)
  <2>1. Live(T) = Live(rows) \cup NewFolders(m)
    BY MovedRows, BasedFacts
  <2>2. T[m.id] = [path |-> m.dest, kind |-> m.kind, parent |-> LastParent(rows, m.dest)]
    BY MovedRows
  <2>3. \A i \in Live(rows) : i # m.id /\ i \notin Movers(m) => T[i] = rows[i]
    <3>1. \A i \in Live(rows) : i \in Ids /\ Based(m)[i] = rows[i]
      BY BasedFacts DEF Live
    <3>2. \A i \in Ids : i # m.id /\ i \notin Movers(m) => T[i] = Based(m)[i]
      BY MovedRows
    <3> QED BY <3>1, <3>2
  <2>4. \A i \in Movers(m) : T[i].parent = rows[i].parent /\ T[i].kind = rows[i].kind
    BY MovedRows
  <2> HIDE DEF T
  <2> QED BY <1>0, <2>1, <2>2, <2>3, <2>4
<1>2. ASSUME NEW q \in Missing(rows, S) PROVE T[NewId(q)].parent = LastParent(rows, q)
  <2>1. B[NewId(q)] = [path |-> q, parent |-> LastParent(rows, q), kind |-> "folder"] /\ NewId(q) \in NewFolders(m)
    BY BasedFacts DEF NewFolders
  <2>2. NewId(q) \notin Live(rows) /\ NewId(q) \in Live(B) /\ NewId(q) \in Ids
    BY <2>1, BasedFacts DEF Live
  <2>3. NewId(q) # m.id /\ NewId(q) \notin Movers(m)
    BY <1>0, <2>2 DEF Movers
  <2>4. T[NewId(q)] = B[NewId(q)]
    BY <2>2, <2>3, MovedRows
  <2> QED BY <2>1, <2>4
<1>3. \A p \in Paths : Ancestors(p) \subseteq S =>
        LastParent(rows, p) = IF Len(p) = 1 THEN NoParent ELSE FolderId(rows, Front(p))
  BY <1>0, LastParentIs
<1> HIDE DEF T
<1>4. ASSUME Filled(rows, NoParent), NEW i \in Live(T), T[i].kind = "folder", i # m.parent
      PROVE  Children(T, i) # {}
  <2>1. CASE i \in Live(rows)
    <3>1. rows[i].kind = "folder" /\ i # NoParent
      BY <1>0, <1>1, <1>4, <2>1, RowFacts DEF Sound
    <3>2. PICK c \in Live(rows) : rows[c].parent = i
      BY <1>4, <2>1, <3>1 DEF Filled, Children
    <3>3. c # m.id
      BY <1>0, <1>4, <3>2
    <3> QED BY <1>1, <3>2, <3>3 DEF Children
  <2>2. CASE i \in NewFolders(m)
    <3>1. PICK q \in Missing(rows, S) : i = NewId(q)
      BY <2>2 DEF NewFolders
    <3>2. q \in S /\ At(rows, q) = {} /\ FolderId(rows, q) = i
      BY <1>0, <3>1, FolderIdFacts DEF Missing
    <3>3. PICK c \in Paths : Len(c) > 1 /\ Front(c) = q /\ (c = m.dest \/ c \in S)
      BY <1>0, <3>2, NextDown
    <3>4. Len(c) # 1 /\ Ancestors(c) \subseteq S
      BY <1>0, <3>3, PathDepth DEF Passable
    <3>5. LastParent(rows, c) = i
      BY <1>3, <3>2, <3>3, <3>4
    <3>6. CASE c = m.dest
      BY <1>0, <1>1, <3>5, <3>6 DEF Children
    <3>7. CASE c \in S /\ At(rows, c) = {}
      <4>1. c \in Missing(rows, S) /\ NewId(c) \in NewFolders(m)
        BY <3>7 DEF Missing, NewFolders
      <4> QED BY <1>1, <1>2, <3>5, <4>1 DEF Children
    <3>8. CASE At(rows, c) # {}
      <4>1. PICK j \in Live(rows) : rows[j].path = c
        BY <3>8 DEF At
      <4>2. q \in Ancestors(rows[j].path)
        BY <3>3, <4>1, FrontFacts
      <4>3. FoldersAt(rows, q) # {}
        BY <1>0, <4>2, AncestorRows
      <4> QED BY <3>2, <4>3 DEF FoldersAt
    <3> QED BY <3>3, <3>6, <3>7, <3>8
  <2> QED BY <1>1, <2>1, <2>2
<1>5. ASSUME m.parent # NoParent
      PROVE  m.parent \in Live(T) /\ T[m.parent] = rows[m.parent] /\ rows[m.parent].kind = "folder"
  <2>1. Len(m.path) > 1
    <3>1. Len(m.path) # 1
      BY <1>0, <1>5 DEF Sound, ParentsOK
    <3> QED BY <1>0, <3>1, PathDepth
  <2>2. m.parent \in Live(rows) /\ rows[m.parent].path = Front(m.path) /\ rows[m.parent].kind = "folder"
    BY <1>0, <2>1, ParentRow
  <2>3. ~Covers(m.path, Front(m.path))
    BY <1>0, <2>1, FrontFacts, PathFacts DEF Covers, Below
  <2>4. m.parent # m.id /\ m.parent \notin Movers(m) /\ m.parent \in Ids
    BY <2>2, <2>3, MovingFacts DEF Live
  <2>5. T[m.parent] = B[m.parent]
    BY <2>4, MovedRows DEF T
  <2>6. B[m.parent] = rows[m.parent]
    BY <2>2, BasedFacts
  <2> QED BY <1>1, <2>2, <2>5, <2>6
<1> QED BY <1>4, <1>5 DEF Filled, T

-----------------------------------------------------------------------------
(* The invariant while calls do not overlap *)

\* What a request holds of its row and of its target agrees with the table.
Agrees(rs, m) ==
    /\ IF m.op = "create" THEN At(rs, m.path) = {} /\ m.kind # "folder"
       ELSE /\ m.id \in Live(rs)
            /\ rs[m.id] = [path |-> m.path, parent |-> m.parent, kind |-> m.kind]
    /\ m.op = "move" => ~Covers(m.path, m.dest)
    /\ m.gone = NoParent

\* So does what it has read before its transaction,
Ready(rs, m) ==
    /\ m.op \in {"create", "move"} =>
          At(rs, m.dest) = {} /\ \A q \in Ancestors(m.dest) : At(rs, q) = FoldersAt(rs, q)
    /\ m.op \in {"delete", "move"} =>
          m.up = m.parent /\ (m.up # NoParent => m.next = rs[m.up].parent)
    /\ m.op = "copy" =>
          m.list = {<<i, rs[i].path>> : i \in
                      {j \in Descendants(rs, m.id) : rs[j].kind \notin {"folder", "secret"}}}

\* and what it reads while it climbs: the ancestor it looks at is a folder, and
\* the only one that may be empty.
Climbs(m) == m.pc \in {"prune", "pruning"}
Climbing(rs, dead, m) ==
    /\ m.gone \notin Live(rs)
    /\ m.up # NoParent => m.up \in Live(rs) /\ rs[m.up].kind = "folder" /\ m.next = rs[m.up].parent
    /\ dead \/ Filled(rs, m.up)
    /\ m.pc = "pruning" =>
          /\ m.up # NoParent /\ Children(rs, m.up) = {}
          /\ m.over = IF m.next = NoParent THEN NoParent ELSE rs[m.next].parent

RequestOK(rs, dead, m) ==
    /\ m.pc \in {"loaded", "checked", "valid"} => Agrees(rs, m)
    /\ m.pc = "valid" => Ready(rs, m)
    /\ Climbs(m) => Climbing(rs, dead, m)

\* While calls do not overlap: one request at most is not idle, and folders have
\* contents unless a worker has died or this request is pruning them.
Alone ==
    /\ Unique(rows) /\ ParentsOK(rows) /\ Numbered
    /\ \A r \in Requests : r # Single => req[r].pc = "idle"
    /\ \A r \in Requests : RequestOK(rows, crashed, req[r])
    /\ crashed \/ Filled(rows, NoParent) \/ \E r \in Requests : Climbs(req[r])

OneInv == IInv /\ (clients = "one" => Alone)

\* While calls do not overlap the table is sound.
LEMMA AloneSteady ==
    ASSUME IInv, Alone
    PROVE  Steady /\ Sound(rows)
  BY DEF IInv, TypeOK, Alone, Steady, Sound, Table

\* A step of the one request that is not idle, whatever it does to the table.
LEMMA GoAlone ==
    ASSUME IInv, Alone, NEW r \in Requests, r = Single, NEW m, Go(r, m),
           Unique(rows'), ParentsOK(rows'), Numbered', RequestOK(rows', crashed', m),
           crashed' \/ Filled(rows', NoParent) \/ Climbs(m)
    PROVE  Alone'
<1>1. req'[r] = m /\ \A s \in Requests : s # r => req'[s] = req[s]
  BY DEF Go, IInv, TypeOK
<1>2. \A s \in Requests : s # Single => req'[s].pc = "idle"
  BY <1>1 DEF Alone
<1>3. ASSUME NEW s \in Requests PROVE RequestOK(rows', crashed', req'[s])
  <2>1. CASE s = r
    BY <1>1, <2>1
  <2>2. CASE s # r
    BY <1>2, <2>2 DEF RequestOK, Climbs
  <2> QED BY <2>1, <2>2
<1> QED BY <1>1, <1>2, <1>3 DEF Alone

\* An idle request holds nothing.
LEMMA IdleIsOK ==
    ASSUME NEW rs, NEW dead
    PROVE  RequestOK(rs, dead, Idle)
<1>1. Idle.pc = "idle"
  BY DEF Idle, Loaded
<1> QED BY <1>1 DEF RequestOK, Climbs

\* A request that ends must have left no empty folder.
LEMMA EndAlone ==
    ASSUME IInv, Alone, NEW r \in Requests, r = Single, End(r),
           Unique(rows'), ParentsOK(rows'), Numbered', crashed' \/ Filled(rows', NoParent)
    PROVE  Alone'
  BY GoAlone, IdleIsOK DEF End

\* What the one request that is not idle may rely on.
LEMMA ActiveIsSingle ==
    ASSUME Alone, NEW r \in Requests, req[r].pc # "idle"
    PROVE  /\ r = Single
           /\ req[r].pc \in {"loaded", "checked", "valid"} => /\ Agrees(rows, req[r])
                                                              /\ crashed \/ Filled(rows, NoParent)
           /\ req[r].pc = "valid" => Ready(rows, req[r])
           /\ Climbs(req[r]) => Climbing(rows, crashed, req[r])
<1>1. r = Single /\ RequestOK(rows, crashed, req[r])
  BY DEF Alone
<1>2. ASSUME ~Climbs(req[r]) PROVE crashed \/ Filled(rows, NoParent)
  <2>1. \A s \in Requests : ~Climbs(req[s])
    BY <1>1, <1>2 DEF Alone, Climbs
  <2> QED BY <2>1 DEF Alone
<1> QED BY <1>1, <1>2 DEF RequestOK, Climbs

\* The actions, one by one: each keeps what a request holds in agreement.
LEMMA BeginAlone ==
    ASSUME IInv, Alone, clients = "one", NEW r \in Requests, NEW op \in Ops, NEW p \in Paths,
           NEW d \in Paths, NEW k \in Kinds \cup {"folder"}, Begin(r, op, p, d, k)
    PROVE  Alone'
<1> DEFINE found == At(rows, p)
           i == IF found = {} THEN NoParent ELSE CHOOSE j \in found : TRUE
           parent == IF found = {} THEN NoParent ELSE rows[i].parent
           m == Loaded(op, p, d, k, i, parent, Active)
<1>1. r = Single /\ Go(r, m) /\ UNCHANGED <<rows, births, crashed>>
  BY DEF Begin
<1>2. /\ m.pc = "loaded" /\ m.op = op /\ m.path = p /\ m.dest = d /\ m.kind = k /\ m.id = i
      /\ m.parent = parent /\ m.gone = NoParent
  BY DEF Loaded
<1>3. Agrees(rows, m)
  <2>1. CASE op = "create"
    <3>1. At(rows, p) = {} /\ k # "folder"
      BY <2>1 DEF Begin
    <3> HIDE DEF m
    <3> QED BY <1>2, <2>1, <3>1 DEF Agrees
  <2>2. CASE op # "create"
    <3>1. PICK j \in found : rows[j].kind = k
      BY <2>2 DEF Begin
    <3>2. i \in found
      BY <3>1
    <3>3. i = j /\ i \in Live(rows) /\ rows[i].path = p /\ parent = rows[i].parent
      BY <3>1, <3>2 DEF At, Alone, Unique
    <3>4. rows[i] \in Row
      BY <3>3, AloneSteady, RowFacts DEF Sound
    <3> HIDE DEF i, parent
    <3>5. rows[i] = [path |-> p, parent |-> parent, kind |-> k]
      BY <3>1, <3>3, <3>4 DEF Row
    <3>6. op = "move" => ~Covers(p, d)
      BY DEF Begin, Covers
    <3> HIDE DEF m
    <3> QED BY <1>2, <2>2, <3>3, <3>5, <3>6 DEF Agrees
  <2> QED BY <2>1, <2>2
<1>4. crashed \/ Filled(rows, NoParent)
  <2>1. req[r].pc = "idle"
    BY DEF Begin
  <2>2. \A s \in Requests : ~Climbs(req[s])
    BY <1>1, <2>1 DEF Alone, Climbs
  <2> QED BY <2>2 DEF Alone
<1> HIDE DEF m
<1>5. RequestOK(rows', crashed', m)
  BY <1>1, <1>2, <1>3 DEF RequestOK, Climbs
<1>6. Unique(rows') /\ ParentsOK(rows') /\ Numbered'
  BY <1>1 DEF Alone, Numbered
<1> QED BY <1>1, <1>4, <1>5, <1>6, GoAlone

\* A request that goes on over the same table.
LEMMA OnwardAlone ==
    ASSUME IInv, Alone, NEW r \in Requests, req[r].pc # "idle", NEW m, Go(r, m),
           UNCHANGED <<rows, births>>, RequestOK(rows, crashed', m),
           crashed' \/ Filled(rows, NoParent) \/ Climbs(m)
    PROVE  Alone'
<1>1. r = Single
  BY ActiveIsSingle
<1>2. Unique(rows') /\ ParentsOK(rows') /\ Numbered'
  BY DEF Alone, Numbered
<1> QED BY <1>1, <1>2, GoAlone

\* A request that gives up before it has changed the table.
LEMMA GivingUpAlone ==
    ASSUME IInv, Alone, NEW r \in Requests, req[r].pc # "idle", End(r),
           UNCHANGED <<rows, births>>, crashed' \/ Filled(rows, NoParent)
    PROVE  Alone'
  BY OnwardAlone, IdleIsOK DEF End

\* Refusals and crashes.
LEMMA EndingAlone ==
    ASSUME IInv, Alone, NEW r \in Requests, Refuse(r) \/ Crash(r)
    PROVE  Alone'
<1>1. CASE Refuse(r)
  <2>1. req[r].pc \in {"loaded", "checked", "valid"} /\ End(r) /\ UNCHANGED <<rows, births, crashed>>
    BY <1>1 DEF Refuse
  <2>2. crashed \/ Filled(rows, NoParent)
    BY <2>1, ActiveIsSingle
  <2> QED BY <2>1, <2>2, GivingUpAlone
<1>2. CASE Crash(r)
  BY <1>2, GivingUpAlone DEF Crash
<1> QED BY <1>1, <1>2

\* The lock check reads no rows.
LEMMA CheckLocksAlone ==
    ASSUME IInv, Alone, NEW r \in Requests, CheckLocks(r)
    PROVE  Alone'
<1> DEFINE pc == IF req[r].op = "save" THEN "valid" ELSE "checked"
           m == [req[r] EXCEPT !.pc = pc]
<1>1. req[r].pc = "loaded" /\ UNCHANGED <<rows, births, crashed>> /\ req[r] \in Held
  BY DEF CheckLocks, IInv, TypeOK
<1>2. Agrees(rows, req[r]) /\ (crashed \/ Filled(rows, NoParent))
  BY <1>1, ActiveIsSingle
<1>3. CASE Refusing(r) \cap Active # {}
  <2>1. End(r)
    BY <1>3 DEF CheckLocks
  <2> QED BY <1>1, <1>2, <2>1, GivingUpAlone
<1>4. CASE Refusing(r) \cap Active = {}
  <2>1. Go(r, m)
    BY <1>4 DEF CheckLocks
  <2>2. /\ m.pc = pc /\ m.op = req[r].op /\ m.path = req[r].path /\ m.dest = req[r].dest
        /\ m.kind = req[r].kind /\ m.id = req[r].id /\ m.parent = req[r].parent /\ m.gone = req[r].gone
    BY <1>1 DEF Held
  <2> HIDE DEF m
  <2>3. Agrees(rows, m)
    BY <1>2, <2>2 DEF Agrees
  <2>4. m.pc = "valid" => Ready(rows, m)
    BY <2>2 DEF Ready
  <2>5. RequestOK(rows, crashed', m)
    BY <2>2, <2>3, <2>4 DEF RequestOK, Climbs
  <2> QED BY <1>1, <1>2, <2>1, <2>5, OnwardAlone
<1> QED BY <1>3, <1>4

\* What Validate reads is what it holds afterwards.
LEMMA ValidateAlone ==
    ASSUME IInv, Alone, NEW r \in Requests, Validate(r)
    PROVE  Alone'
<1> DEFINE m == req[r]
           prunes == m.op \in {"delete", "move"}
           fails == \/ m.op \in {"create", "move"} /\ Conflict(m.dest)
                    \/ prunes /\ m.parent # NoParent /\ rows[m.parent] = NoRow
           up == IF prunes THEN m.parent ELSE NoParent
           next == IF prunes /\ m.parent # NoParent THEN rows[m.parent].parent ELSE NoParent
           list == IF m.op = "copy" THEN Copied(m) ELSE {}
           m2 == [m EXCEPT !.pc = "valid", !.up = up, !.next = next, !.list = list]
<1>1. m.pc = "checked" /\ UNCHANGED <<rows, births, crashed>> /\ m \in Held
  BY DEF Validate, IInv, TypeOK
<1>2. Agrees(rows, m) /\ (crashed \/ Filled(rows, NoParent))
  BY <1>1, ActiveIsSingle
<1>3. CASE fails
  <2>1. End(r)
    BY <1>3 DEF Validate
  <2> QED BY <1>1, <1>2, <2>1, GivingUpAlone
<1>4. CASE ~fails
  <2>1. Go(r, m2)
    BY <1>4 DEF Validate
  <2>2. /\ m2.pc = "valid" /\ m2.op = m.op /\ m2.path = m.path /\ m2.dest = m.dest
        /\ m2.kind = m.kind /\ m2.id = m.id /\ m2.parent = m.parent /\ m2.gone = m.gone
        /\ m2.up = up /\ m2.next = next /\ m2.list = list
    BY <1>1 DEF Held
  <2>3. m.op \in {"create", "move"} =>
          At(rows, m.dest) = {} /\ \A q \in Ancestors(m.dest) : At(rows, q) = FoldersAt(rows, q)
    BY <1>4 DEF Conflict
  <2>4. Copied(m) = {<<i, rows[i].path>> : i \in
                      {j \in Descendants(rows, m.id) : rows[j].kind \notin {"folder", "secret"}}}
    BY DEF Copied
  <2> HIDE DEF m2, m, fails
  <2>5. Agrees(rows, m2)
    BY <1>2, <2>2 DEF Agrees
  <2>6. Ready(rows, m2)
    BY <2>2, <2>3, <2>4 DEF Ready
  <2>7. RequestOK(rows, crashed', m2)
    BY <2>2, <2>5, <2>6 DEF RequestOK, Climbs
  <2> QED BY <1>1, <1>2, <2>1, <2>7, OnwardAlone DEF m
<1> QED BY <1>3, <1>4

-----------------------------------------------------------------------------
(* Transactions *)

\* A transaction commits its table, or is rolled back.
LEMMA CommitAlone ==
    ASSUME IInv, IInv', Alone, NEW r \in Requests, req[r].pc = "valid", NEW rs,
           NEW S \in SUBSET Paths, NEW m, CommitTo(r, rs, S, m), UNCHANGED crashed,
           Room(S) /\ Unique(rs) /\ rs \in Table =>
             /\ ParentsOK(rs) /\ RequestOK(rs, crashed, m)
             /\ crashed \/ Filled(rs, NoParent) \/ Climbs(m)
             /\ Live(rs) \subseteq Live(rows) \cup {NewId(q) : q \in S}
    PROVE  Alone'
<1>1. r = Single /\ (crashed \/ Filled(rows, NoParent)) /\ Steady
  BY ActiveIsSingle, AloneSteady
<1>2. CASE Unique(rs) /\ \A i \in Live(rs) : rs[i].path \in Paths
  <2>1. Room(S) /\ rows' = rs /\ Count(S) /\ Go(r, m) /\ Unique(rs)
    BY <1>2 DEF CommitTo
  <2>2. rs \in Table
    BY <2>1 DEF IInv, TypeOK, Table
  <2>3. /\ ParentsOK(rs) /\ RequestOK(rs, crashed, m)
        /\ crashed \/ Filled(rs, NoParent) \/ Climbs(m)
        /\ Live(rs) \subseteq Live(rows) \cup {NewId(q) : q \in S}
    BY <2>1, <2>2
  <2>4. Numbered'
    BY <1>1, <2>1, <2>3, NumberedAfter
  <2> QED BY <1>1, <2>1, <2>3, <2>4, GoAlone
<1>3. CASE ~(Unique(rs) /\ \A i \in Live(rs) : rs[i].path \in Paths)
  <2>1. UNCHANGED <<rows, births>> /\ End(r)
    BY <1>3 DEF CommitTo
  <2> QED BY <1>1, <2>1, GivingUpAlone
<1> QED BY <1>2, <1>3

\* What is created or copied, and the folders on its way.
LEMMA PlantedOK ==
    ASSUME Steady, NEW rs, NEW S, NEW G, NEW kind, Planted(rs, S, G, kind),
           \A q \in S : \E p \in G : q \in Ancestors(p), Unique(rs),
           NEW dead, dead \/ Filled(rows, NoParent)
    PROVE  /\ ParentsOK(rs) /\ RequestOK(rs, dead, Idle)
           /\ dead \/ Filled(rs, NoParent)
           /\ Live(rs) \subseteq Live(rows) \cup {NewId(q) : q \in Missing(rows, S) \cup G}
<1>1. Sound(rs)
  BY PlantedSound
<1>2. dead \/ Filled(rs, NoParent)
  BY PlantedFilled
<1>3. Grown(rs, New(S, G))
  BY PlantedRows
<1> QED BY <1>1, <1>2, <1>3, IdleIsOK DEF Sound, Grown, New

\* The table after a creation.
Created(m) == [WithFolders(rows, Ancestors(m.path)) EXCEPT
                 ![NewId(m.path)] = [path |-> m.path, kind |-> m.kind,
                                     parent |-> LastParent(rows, m.path)]]

\* A creation plants one item.
LEMMA CreatePlants ==
    ASSUME Steady, NEW m \in Held, m.op = "create", m.dest = m.path, Agrees(rows, m), Ready(rows, m),
           Room(Missing(rows, Ancestors(m.path)) \cup {m.path})
    PROVE  Planted(Created(m), Ancestors(m.path), {m.path}, [p \in {m.path} |-> m.kind])
<1> DEFINE A == Ancestors(m.path)
           row == [path |-> m.path, kind |-> m.kind, parent |-> LastParent(rows, m.path)]
           base == WithFolders(rows, A)
           rs == [base EXCEPT ![NewId(m.path)] = row]
           kind == [p \in {m.path} |-> m.kind]
<1>1. m.path \in Paths /\ A \subseteq Paths
  BY AncestorsArePaths DEF Held
<1>2. m.kind \in Kinds /\ \A q \in A : At(rows, q) = FoldersAt(rows, q)
  BY DEF Agrees, Ready, Held
<1>3. Passable(A)
  <2>1. \A q \in A : Ancestors(q) \subseteq A
    BY <1>1, AncestorsTransitive
  <2>2. Room(Missing(rows, A))
    BY DEF Room
  <2> QED BY <1>1, <1>2, <2>1, <2>2 DEF Passable
<1>4. NewId(m.path) \in Ids
  BY <1>1, NewIdFresh DEF Room
<1>5. base \in Table
  BY <1>3, WithFoldersFacts
<1>6. {m.path} \cap A = {}
  BY <1>1, AncestorIsAbove, PathFacts DEF Below
<1>7. kind \in [{m.path} -> Kinds] /\ kind[m.path] = m.kind
  BY <1>2
<1>8. rs = [i \in Ids |-> rs[i]]
  BY <1>5 DEF Table
<1>9. rs[NewId(m.path)] = row /\ \A i \in Ids : i # NewId(m.path) => rs[i] = base[i]
  BY <1>4, <1>5 DEF Table
<1>10. row = [path |-> m.path, parent |-> LastParent(rows, m.path), kind |-> kind[m.path]]
  BY <1>7
<1>11. Room({m.path})
  BY DEF Room
<1>12. rs = Created(m)
  BY DEF Created
<1> HIDE DEF rs, kind, row
<1>13. /\ \A p \in {m.path} : rs[NewId(p)] = [path |-> p, parent |-> LastParent(rows, p), kind |-> kind[p]]
       /\ \A i \in Ids : i \notin {NewId(p) : p \in {m.path}} => rs[i] = base[i]
  BY <1>9, <1>10
<1>14. Passable(A) /\ {m.path} \subseteq Paths /\ \A p \in {m.path} : Ancestors(p) \subseteq A
  BY <1>1, <1>3
<1> HIDE DEF A
<1>15. Planted(rs, A, {m.path}, kind)
  BY <1>6, <1>7, <1>8, <1>11, <1>13, <1>14 DEF Planted
<1> QED BY <1>12, <1>15 DEF A, kind

\* What a request that creates may rely on.
LEMMA CreateHolds ==
    ASSUME IInv, Alone, NEW r \in Requests, CommitCreate(r)
    PROVE  /\ req[r] \in Held /\ req[r].pc = "valid" /\ req[r].op = "create"
           /\ req[r].path \in Paths /\ req[r].dest = req[r].path
           /\ Agrees(rows, req[r]) /\ Ready(rows, req[r]) /\ (crashed \/ Filled(rows, NoParent))
           /\ CommitTo(r, Created(req[r]), Missing(rows, Ancestors(req[r].path)) \cup {req[r].path}, Idle)
           /\ UNCHANGED crashed
<1> DEFINE m == req[r]
<1>1. /\ m.pc = "valid" /\ m.op = "create" /\ UNCHANGED crashed
      /\ CommitTo(r, Created(m), Missing(rows, Ancestors(m.path)) \cup {m.path}, Idle)
  BY DEF CommitCreate, Created
<1>2. m \in Held /\ HeldOK(m)
  BY DEF IInv, TypeOK
<1>3. Agrees(rows, m) /\ Ready(rows, m) /\ (crashed \/ Filled(rows, NoParent))
  BY <1>1, ActiveIsSingle
<1>4. m.path \in Paths /\ m.dest = m.path
  BY <1>1, <1>2 DEF HeldOK, Held
<1> QED BY <1>1, <1>2, <1>3, <1>4

\* Creating leaves a sound table and no empty folder.
LEMMA CommitCreateAlone ==
    ASSUME IInv, IInv', Alone, NEW r \in Requests, CommitCreate(r)
    PROVE  Alone'
<1> DEFINE m == req[r]
           A == Ancestors(m.path)
           rs == Created(m)
           S == Missing(rows, A) \cup {m.path}
<1>1. /\ m \in Held /\ m.pc = "valid" /\ m.op = "create" /\ m.path \in Paths /\ m.dest = m.path
      /\ Agrees(rows, m) /\ Ready(rows, m) /\ (crashed \/ Filled(rows, NoParent))
      /\ CommitTo(r, rs, S, Idle) /\ UNCHANGED crashed /\ Steady
  BY CreateHolds, AloneSteady
<1>2. ASSUME Room(S), Unique(rs)
      PROVE  /\ ParentsOK(rs) /\ RequestOK(rs, crashed, Idle)
             /\ crashed \/ Filled(rs, NoParent)
             /\ Live(rs) \subseteq Live(rows) \cup {NewId(q) : q \in S}
  <2>1. Planted(rs, A, {m.path}, [p \in {m.path} |-> m.kind])
    BY <1>1, <1>2, CreatePlants
  <2>2. \A q \in A : \E p \in {m.path} : q \in Ancestors(p)
    OBVIOUS
  <2> HIDE DEF rs, A
  <2> QED BY <1>1, <1>2, <2>1, <2>2, PlantedOK DEF S
<1>3. S \in SUBSET Paths
  BY <1>1, AncestorsArePaths DEF Missing
<1> HIDE DEF rs, S
<1> QED BY <1>1, <1>2, <1>3, CommitAlone

\* Moving leaves at most the folder it has moved from empty, and prunes that.
LEMMA CommitMoveAlone ==
    ASSUME IInv, IInv', Alone, NEW r \in Requests, CommitMove(r)
    PROVE  Alone'
<1> DEFINE m == req[r]
           S == Missing(rows, Ancestors(m.dest))
           m2 == [m EXCEPT !.pc = "prune"]
           rs == Moved(m)
<1>1. m.pc = "valid" /\ m.op = "move" /\ CommitTo(r, rs, S, m2) /\ UNCHANGED crashed
  BY DEF CommitMove
<1>2. m \in Held /\ m.path \in Paths /\ m.dest \in Paths /\ Ancestors(m.dest) \subseteq Paths
  <2>1. m \in Held
    BY DEF IInv, TypeOK
  <2> QED BY <2>1, AncestorsArePaths DEF Held
<1>3. Agrees(rows, m) /\ Ready(rows, m) /\ (crashed \/ Filled(rows, NoParent))
  BY <1>1, ActiveIsSingle
<1>4. Steady
  BY AloneSteady
<1>5. /\ m2.pc = "prune" /\ m2.up = m.up /\ m2.next = m.next /\ m2.gone = m.gone
  BY <1>2 DEF Held
<1> HIDE DEF m2
<1>6. ASSUME Room(S), Unique(rs), rs \in Table
      PROVE  /\ ParentsOK(rs) /\ RequestOK(rs, crashed, m2) /\ Climbs(m2)
             /\ Live(rs) \subseteq Live(rows) \cup {NewId(q) : q \in S}
  <2>1. Moving(m)
    BY <1>1, <1>2, <1>3, <1>6 DEF Moving, Agrees, Ready, Conflict
  <2>2. Sound(rs)
    BY <1>4, <1>6, <2>1, MovedSound
  <2>3. /\ Filled(rows, NoParent) => Filled(rs, m.parent)
        /\ m.parent # NoParent => /\ m.parent \in Live(rs) /\ rs[m.parent] = rows[m.parent]
                                  /\ rows[m.parent].kind = "folder"
    BY <1>4, <2>1, MovedFilled
  <2>4. Live(rs) = Live(rows) \cup {NewId(q) : q \in S}
    BY <1>4, <2>1, MovedRows, BasedFacts DEF NewFolders
  <2>5. m.up = m.parent /\ m.gone = NoParent /\ (m.up # NoParent => m.next = rows[m.up].parent)
    BY <1>1, <1>3 DEF Agrees, Ready
  <2>6. NoParent \notin Live(rs)
    BY NoNullRow DEF Live
  <2> HIDE DEF rs, S
  <2>7. Climbing(rs, crashed, m2)
    BY <1>3, <1>5, <2>3, <2>5, <2>6 DEF Climbing
  <2>8. RequestOK(rs, crashed, m2) /\ Climbs(m2)
    BY <1>5, <2>7 DEF RequestOK, Climbs
  <2> QED BY <2>2, <2>4, <2>8 DEF Sound
<1>7. S \in SUBSET Paths
  BY <1>2 DEF Missing
<1> HIDE DEF rs, S
<1> QED BY <1>1, <1>6, <1>7, CommitAlone

\* A save writes the row that is there already.
LEMMA CommitSaveAlone ==
    ASSUME IInv, IInv', Alone, NEW r \in Requests, CommitSave(r)
    PROVE  Alone'
<1> DEFINE m == req[r]
           row == [path |-> m.path, parent |-> m.parent, kind |-> m.kind]
           rs == [rows EXCEPT ![m.id] = row]
<1>1. m.pc = "valid" /\ m.op = "save" /\ UNCHANGED crashed
  BY DEF CommitSave
<1>2. Agrees(rows, m) /\ (crashed \/ Filled(rows, NoParent)) /\ Steady /\ Sound(rows)
  BY <1>1, ActiveIsSingle, AloneSteady
<1>3. CASE m.parent # NoParent /\ rows[m.parent] = NoRow
  <2>1. UNCHANGED <<rows, births>> /\ End(r)
    BY <1>3 DEF CommitSave
  <2> QED BY <1>1, <1>2, <2>1, GivingUpAlone
<1>4. CASE ~(m.parent # NoParent /\ rows[m.parent] = NoRow)
  <2>1. CommitTo(r, rs, {}, Idle)
    BY <1>4 DEF CommitSave
  <2>2. rs = rows
    <3>1. rows[m.id] = row /\ rows \in Table
      BY <1>1, <1>2 DEF Agrees, Sound
    <3> QED BY <3>1 DEF Table
  <2> HIDE DEF rs
  <2>3. ParentsOK(rs) /\ RequestOK(rs, crashed, Idle) /\ (crashed \/ Filled(rs, NoParent))
        /\ Live(rs) \subseteq Live(rows) \cup {NewId(q) : q \in {}}
    BY <1>2, <2>2, IdleIsOK DEF Sound
  <2> QED BY <1>1, <2>1, <2>3, CommitAlone
<1> QED BY <1>3, <1>4

\* The table after a copy.
Target(m, e) == Rebase(e[2], m.path, m.dest)
Targets(m) == {Target(m, e) : e \in m.list}
AboveTargets(m) == UNION {Ancestors(p) : p \in Targets(m)}
KindAt(m, p) == rows[(CHOOSE e \in m.list : Target(m, e) = p)[1]].kind
CopyFails(m) ==
    \/ ~(Targets(m) \subseteq Paths)
    \/ \E e \in m.list : rows[e[1]] = NoRow
    \/ \E p \in Targets(m) : Conflict(p) \/ \E q \in Active : Covers(q, p)
    \/ \E p \in Targets(m) : p \in AboveTargets(m)
Duplicated(m) ==
    [i \in Ids |-> IF i[1] \in Targets(m) /\ i = NewId(i[1])
                   THEN [path |-> i[1], kind |-> KindAt(m, i[1]), parent |-> LastParent(rows, i[1])]
                   ELSE WithFolders(rows, AboveTargets(m))[i]]

\* A copy plants an item at each of its targets.
LEMMA CopyPlants ==
    ASSUME Steady, NEW m, m.op = "copy", Ready(rows, m), ~CopyFails(m), Room(Targets(m)),
           Room(Missing(rows, AboveTargets(m)))
    PROVE  Planted(Duplicated(m), AboveTargets(m), Targets(m), [p \in Targets(m) |-> KindAt(m, p)])
<1> DEFINE targets == Targets(m)
           above == AboveTargets(m)
           base == WithFolders(rows, above)
           put(p) == [path |-> p, kind |-> KindAt(m, p), parent |-> LastParent(rows, p)]
           rs == [i \in Ids |-> IF i[1] \in targets /\ i = NewId(i[1]) THEN put(i[1]) ELSE base[i]]
           kind == [p \in targets |-> KindAt(m, p)]
<1>1. targets \subseteq Paths /\ targets \cap above = {}
  BY DEF CopyFails
<1>2. above \subseteq Paths
  BY <1>1, AncestorsArePaths DEF AboveTargets
<1>3. ASSUME NEW q \in above
      PROVE  Ancestors(q) \subseteq above /\ At(rows, q) = FoldersAt(rows, q)
  <2>1. PICK p \in targets : q \in Ancestors(p)
    BY DEF AboveTargets
  <2>2. Ancestors(q) \subseteq Ancestors(p)
    BY <1>1, <2>1, AncestorsTransitive
  <2>3. ~Conflict(p)
    BY DEF CopyFails
  <2> QED BY <2>1, <2>2, <2>3 DEF Conflict, AboveTargets
<1>4. ASSUME NEW p \in targets PROVE KindAt(m, p) \in Kinds
  <2> DEFINE e == CHOOSE x \in m.list : Target(m, x) = p
  <2>1. e \in m.list
    BY DEF Targets
  <2> HIDE DEF e
  <2>2. PICK i \in Descendants(rows, m.id) : rows[i].kind \notin {"folder", "secret"} /\ e = <<i, rows[i].path>>
    BY <2>1 DEF Ready
  <2>3. e[1] = i /\ i \in Live(rows)
    BY <2>2, DescendantsLive
  <2>4. rows[i].kind \in Kinds
    BY <2>2, <2>3, RowFacts DEF Steady, Sound, Row
  <2> QED BY <2>3, <2>4 DEF e, KindAt
<1>5. kind \in [targets -> Kinds] /\ \A p \in targets : kind[p] = KindAt(m, p)
  BY <1>4
<1>6. \A p \in targets : NewId(p) \in Ids /\ NewId(p)[1] = p
  BY <1>1, NewIdFresh DEF Room
<1>7. /\ \A p \in targets : rs[NewId(p)] = put(p)
      /\ \A i \in Ids : i \notin {NewId(p) : p \in targets} => rs[i] = base[i]
      /\ rs = [i \in Ids |-> rs[i]]
  <2> HIDE DEF put, base, targets
  <2> QED BY <1>6
<1>8. \A p \in targets : put(p) = [path |-> p, parent |-> LastParent(rows, p), kind |-> kind[p]]
  BY <1>5
<1>9. \A p \in targets : Ancestors(p) \subseteq above
  BY DEF AboveTargets
<1>10. rs = Duplicated(m)
  BY DEF Duplicated
<1> HIDE DEF kind, rs, put, targets, above, base
<1>11. Passable(above)
  BY <1>2, <1>3 DEF Passable, above
<1>12. \A p \in targets : rs[NewId(p)] = [path |-> p, parent |-> LastParent(rows, p), kind |-> kind[p]]
  BY <1>7, <1>8
<1>13. Planted(rs, above, targets, kind)
  <2>1. Room(targets)
    BY DEF targets
  <2> QED BY <1>1, <1>5, <1>7, <1>9, <1>11, <1>12, <2>1 DEF Planted, base
<1> QED BY <1>10, <1>13 DEF kind, targets, above

\* A copy either gives up or commits this table.
LEMMA CopyHolds ==
    ASSUME IInv, Alone, NEW r \in Requests, CommitCopy(r)
    PROVE  /\ req[r] \in Held /\ req[r].pc = "valid" /\ req[r].op = "copy" /\ UNCHANGED crashed
           /\ Agrees(rows, req[r]) /\ Ready(rows, req[r]) /\ (crashed \/ Filled(rows, NoParent))
           /\ IF CopyFails(req[r]) THEN UNCHANGED <<rows, births>> /\ End(r)
              ELSE /\ Room(Targets(req[r])) /\ Targets(req[r]) \subseteq Paths
                   /\ CommitTo(r, Duplicated(req[r]),
                               Missing(rows, AboveTargets(req[r])) \cup Targets(req[r]), Idle)
<1> DEFINE m == req[r]
<1>1. m.pc = "valid" /\ m.op = "copy" /\ UNCHANGED crashed /\ m \in Held
  BY DEF CommitCopy, IInv, TypeOK
<1>2. Agrees(rows, m) /\ Ready(rows, m) /\ (crashed \/ Filled(rows, NoParent))
  BY <1>1, ActiveIsSingle
<1>3. IF CopyFails(m) THEN UNCHANGED <<rows, births>> /\ End(r)
      ELSE /\ Room(Targets(m))
           /\ CommitTo(r, Duplicated(m), Missing(rows, AboveTargets(m)) \cup Targets(m), Idle)
  BY DEF CommitCopy, CopyFails, Targets, Target, AboveTargets, Duplicated, KindAt
<1>4. ~CopyFails(m) => Targets(m) \subseteq Paths
  BY DEF CopyFails
<1> QED BY <1>1, <1>2, <1>3, <1>4

\* Copying leaves a sound table and no empty folder.
LEMMA CommitCopyAlone ==
    ASSUME IInv, IInv', Alone, NEW r \in Requests, CommitCopy(r)
    PROVE  Alone'
<1> DEFINE m == req[r]
           rs == Duplicated(m)
           S == Missing(rows, AboveTargets(m)) \cup Targets(m)
<1>1. /\ m.pc = "valid" /\ m.op = "copy" /\ UNCHANGED crashed /\ Steady
      /\ Ready(rows, m) /\ (crashed \/ Filled(rows, NoParent))
  BY CopyHolds, AloneSteady
<1>2. CASE CopyFails(m)
  <2>1. UNCHANGED <<rows, births>> /\ End(r)
    BY <1>2, CopyHolds
  <2> QED BY <1>1, <2>1, GivingUpAlone
<1>3. CASE ~CopyFails(m)
  <2>1. Room(Targets(m)) /\ CommitTo(r, rs, S, Idle) /\ Targets(m) \subseteq Paths
    BY <1>3, CopyHolds
  <2>2. S \in SUBSET Paths
    BY <2>1, AncestorsArePaths DEF Missing, AboveTargets
  <2>3. ASSUME Room(S), Unique(rs)
        PROVE  /\ ParentsOK(rs) /\ RequestOK(rs, crashed, Idle)
               /\ crashed \/ Filled(rs, NoParent)
               /\ Live(rs) \subseteq Live(rows) \cup {NewId(q) : q \in S}
    <3>1. Room(Missing(rows, AboveTargets(m)))
      BY <2>3 DEF Room
    <3>2. Planted(rs, AboveTargets(m), Targets(m), [p \in Targets(m) |-> KindAt(m, p)])
      BY <1>1, <1>3, <2>1, <3>1, CopyPlants
    <3>3. \A q \in AboveTargets(m) : \E p \in Targets(m) : q \in Ancestors(p)
      BY DEF AboveTargets
    <3> HIDE DEF rs
    <3> QED BY <1>1, <2>3, <3>2, <3>3, PlantedOK
  <2> HIDE DEF rs, S
  <2> QED BY <1>1, <2>1, <2>2, <2>3, CommitAlone
<1> QED BY <1>2, <1>3

\* Deleting leaves at most the folder it has deleted from empty, and prunes that.
LEMMA CommitDeleteAlone ==
    ASSUME IInv, IInv', Alone, NEW r \in Requests, CommitDelete(r)
    PROVE  Alone'
<1> DEFINE m == req[r]
           R == IF m.kind = "folder" THEN Descendants(rows, m.id) ELSE Subtree(rows, m.id)
           m2 == [m EXCEPT !.pc = "prune", !.gone = m.id]
           rs == Remove(rows, R)
<1>1. m.pc = "valid" /\ m.op = "delete" /\ rows' = rs /\ Go(r, m2) /\ UNCHANGED <<births, crashed>>
  BY DEF CommitDelete
<1>2. m \in Held /\ m.path \in Paths
  BY DEF IInv, TypeOK, Held
<1>3. Agrees(rows, m) /\ Ready(rows, m) /\ (crashed \/ Filled(rows, NoParent)) /\ r = Single
  BY <1>1, ActiveIsSingle
<1>4. Steady /\ Sound(rows)
  BY AloneSteady
<1>5. /\ m.id \in Live(rows) /\ rows[m.id].path = m.path /\ rows[m.id].parent = m.parent
      /\ m.gone = NoParent /\ m.up = m.parent /\ (m.up # NoParent => m.next = rows[m.up].parent)
  BY <1>1, <1>3 DEF Agrees, Ready
<1>6. m2.pc = "prune" /\ m2.up = m.up /\ m2.next = m.next /\ m2.gone = m.id
  BY <1>2 DEF Held
<1>7. R = Subtree(rows, m.id) /\ R = {j \in Live(rows) : Covers(m.path, rows[j].path)}
  <2>1. Subtree(rows, m.id) = {j \in Live(rows) : Covers(rows[m.id].path, rows[j].path)}
    BY <1>4, <1>5, SubtreeByPath
  <2>2. Descendants(rows, m.id) = {j \in Live(rows) : Covers(rows[m.id].path, rows[j].path)}
    BY <1>4, <1>5, DescendantsByPath
  <2> QED BY <1>5, <2>1, <2>2
<1> HIDE DEF R, m2
<1>8. /\ m.id \in R /\ \A j \in Live(rows) : rows[j].parent \in R => j \in R
      /\ \A j \in R : j = m.id \/ rows[j].parent \in R
  BY <1>5, <1>7, SubtreeFacts, SubtreeClosed
<1>9. Sound(rs) /\ Live(rs) = Live(rows) \ R /\ \A i \in Live(rows) \ R : rs[i] = rows[i]
  BY <1>4, <1>8, RemovedSound, RemoveFacts
<1>10. Filled(rows, NoParent) => Filled(rs, m.parent)
  <2>1. NoParent \notin Live(rows)
    BY NoNullRow DEF Live
  <2> QED BY <1>5, <1>8, <2>1, RemovedFilled
<1>11. ASSUME m.parent # NoParent
       PROVE  m.parent \in Live(rs) /\ rs[m.parent] = rows[m.parent] /\ rows[m.parent].kind = "folder"
  <2>1. Len(m.path) > 1
    <3>1. Len(m.path) # 1
      BY <1>4, <1>5, <1>11 DEF Sound, ParentsOK
    <3> QED BY <1>2, <3>1, PathDepth
  <2>2. m.parent \in Live(rows) /\ rows[m.parent].path = Front(m.path) /\ rows[m.parent].kind = "folder"
    BY <1>4, <1>5, <2>1, ParentRow
  <2>3. ~Covers(m.path, Front(m.path))
    BY <1>2, <2>1, FrontFacts, PathFacts DEF Covers, Below
  <2>4. m.parent \notin R
    BY <1>7, <2>2, <2>3
  <2> QED BY <1>9, <2>2, <2>4
<1> HIDE DEF rs
<1>12. Climbing(rs, crashed, m2)
  BY <1>3, <1>5, <1>6, <1>8, <1>9, <1>10, <1>11 DEF Climbing
<1>13. RequestOK(rs, crashed, m2) /\ Climbs(m2)
  BY <1>6, <1>12 DEF RequestOK, Climbs
<1>14. Numbered'
  BY <1>1, <1>9 DEF Numbered, Alone
<1> QED BY <1>1, <1>3, <1>9, <1>13, <1>14, GoAlone DEF Sound

\* The climb ends only where no folder is left empty.
LEMMA PruneCheckAlone ==
    ASSUME IInv, Alone, NEW r \in Requests, PruneCheck(r)
    PROVE  Alone'
<1> DEFINE m == req[r]
           stop == \/ m.up = NoParent
                   \/ Children(rows, m.up) \ {m.gone} # {}
                   \/ m.next # NoParent /\ rows[m.next] = NoRow
           over == IF m.next = NoParent THEN NoParent ELSE rows[m.next].parent
           m2 == [m EXCEPT !.pc = "pruning", !.over = over]
<1>1. m.pc = "prune" /\ UNCHANGED <<rows, births, crashed>> /\ m \in Held
  BY DEF PruneCheck, IInv, TypeOK
<1>2. Climbing(rows, crashed, m) /\ Sound(rows)
  BY <1>1, ActiveIsSingle, AloneSteady DEF Climbs
<1>3. m.gone \notin Children(rows, m.up)
  BY <1>2 DEF Climbing, Children
<1>4. CASE stop
  <2>1. End(r)
    BY <1>4 DEF PruneCheck
  <2>2. crashed \/ Filled(rows, NoParent)
    <3>1. CASE m.up = NoParent
      BY <1>2, <3>1 DEF Climbing
    <3>2. CASE Children(rows, m.up) # {}
      BY <1>2, <3>2 DEF Climbing, Filled
    <3>3. CASE m.up # NoParent /\ m.next # NoParent
      <4>1. m.up \in Live(rows) /\ rows[m.up].parent = m.next /\ rows[m.up].path \in Paths
        BY <1>2, <3>3, RowFacts DEF Climbing, Sound
      <4>2. Len(rows[m.up].path) > 1
        <5>1. Len(rows[m.up].path) # 1
          BY <1>2, <3>3, <4>1 DEF Sound, ParentsOK
        <5> QED BY <4>1, <5>1, PathDepth
      <4>3. m.next \in Live(rows)
        BY <1>2, <4>1, <4>2, ParentRow
      <4>4. Children(rows, m.up) # {}
        BY <1>4, <3>3, <4>3 DEF Live
      <4> QED BY <3>2, <4>4
    <3> QED BY <1>4, <3>1, <3>2, <3>3
  <2> QED BY <1>1, <2>1, <2>2, GivingUpAlone
<1>5. CASE ~stop
  <2>1. Go(r, m2)
    BY <1>5 DEF PruneCheck
  <2>2. m2.pc = "pruning" /\ m2.up = m.up /\ m2.next = m.next /\ m2.gone = m.gone /\ m2.over = over
    BY <1>1 DEF Held
  <2>3. m.up # NoParent /\ Children(rows, m.up) = {}
    BY <1>3, <1>5
  <2> HIDE DEF m2
  <2>4. Climbing(rows, crashed, m2)
    BY <1>2, <2>2, <2>3 DEF Climbing
  <2>5. RequestOK(rows, crashed', m2) /\ Climbs(m2)
    BY <1>1, <2>2, <2>4 DEF RequestOK, Climbs
  <2> QED BY <1>1, <2>1, <2>5, OnwardAlone
<1> QED BY <1>4, <1>5

\* Pruning a folder leaves at most the folder above it empty.
LEMMA PruneDeleteAlone ==
    ASSUME IInv, Alone, NEW r \in Requests, PruneDelete(r)
    PROVE  Alone'
<1> DEFINE m == req[r]
           gone == IF m.op = "delete" THEN m.up ELSE NoParent
           m2 == [m EXCEPT !.pc = "prune", !.up = m.next, !.next = m.over,
                           !.over = NoParent, !.gone = gone]
           rs == Remove(rows, Subtree(rows, m.up))
<1>1. m.pc = "pruning" /\ rows' = rs /\ Go(r, m2) /\ UNCHANGED <<births, crashed>> /\ m \in Held
  BY DEF PruneDelete, IInv, TypeOK
<1>2. Climbing(rows, crashed, m) /\ Sound(rows) /\ r = Single
  BY <1>1, ActiveIsSingle, AloneSteady DEF Climbs
<1>3. /\ m.up \in Live(rows) /\ rows[m.up].kind = "folder" /\ m.next = rows[m.up].parent
      /\ crashed \/ Filled(rows, m.up)
      /\ Children(rows, m.up) = {} /\ m.over = IF m.next = NoParent THEN NoParent ELSE rows[m.next].parent
  BY <1>1, <1>2 DEF Climbing
<1>4. m2.pc = "prune" /\ m2.up = m.next /\ m2.next = m.over /\ m2.gone = gone
  BY <1>1 DEF Held
<1> HIDE DEF m2
<1>5. Subtree(rows, m.up) = {m.up}
  <2>1. \A j \in Live(rows) : rows[j].parent \notin {m.up}
    BY <1>3 DEF Children
  <2> DEFINE X == {m.up}
  <2>2. m.up \in X /\ \A j \in Live(rows) : rows[j].parent \in X => j \in X
    BY <2>1
  <2> HIDE DEF X
  <2>3. Subtree(rows, m.up) \subseteq X
    BY <2>2, SubtreeLeast
  <2> QED BY <1>3, <2>3, SubtreeFacts DEF X
<1>6. Sound(rs) /\ Live(rs) = Live(rows) \ {m.up} /\ \A i \in Live(rows) \ {m.up} : rs[i] = rows[i]
  <2>1. \A j \in Live(rows) : rows[j].parent \in {m.up} => j \in {m.up}
    BY <1>3 DEF Children
  <2> QED BY <1>2, <1>5, <2>1, RemovedSound, RemoveFacts
<1>7. Filled(rows, m.up) => Filled(rs, m.next)
  <2>1. m.up \in {m.up} /\ \A j \in {m.up} : j = m.up \/ rows[j].parent \in {m.up}
    OBVIOUS
  <2> QED BY <1>3, <1>5, <2>1, RemovedFilled
<1>8. ASSUME m.next # NoParent
      PROVE  m.next \in Live(rs) /\ rs[m.next] = rows[m.next] /\ rows[m.next].kind = "folder"
  <2>1. rows[m.up].path \in Paths
    BY <1>2, <1>3, RowFacts DEF Sound
  <2>2. Len(rows[m.up].path) > 1
    <3>1. Len(rows[m.up].path) # 1
      BY <1>2, <1>3, <1>8 DEF Sound, ParentsOK
    <3> QED BY <2>1, <3>1, PathDepth
  <2>3. m.next \in Live(rows) /\ rows[m.next].kind = "folder"
    BY <1>2, <1>3, <2>2, ParentRow
  <2>4. m.next # m.up
    BY <1>3, <2>3 DEF Children
  <2> QED BY <1>6, <2>3, <2>4
<1>9. gone \notin Live(rs)
  BY <1>6, NoNullRow DEF Live
<1> HIDE DEF rs, gone
<1>10. Climbing(rs, crashed, m2)
  BY <1>3, <1>4, <1>7, <1>8, <1>9 DEF Climbing
<1>11. RequestOK(rs, crashed, m2) /\ Climbs(m2)
  BY <1>4, <1>10 DEF RequestOK, Climbs
<1>12. Numbered'
  BY <1>1, <1>6 DEF Numbered, Alone
<1> QED BY <1>1, <1>2, <1>6, <1>11, <1>12, GoAlone DEF Sound

-----------------------------------------------------------------------------
(* The theorems about the shape of the tree *)

\* There are no rows to begin with.
LEMMA InitAlone ==
    ASSUME Init
    PROVE  Alone
<1>1. /\ \A r \in Requests : req[r].pc = "idle" /\ RequestOK(rows, crashed, req[r])
  <2>1. Idle.pc = "idle"
    BY DEF Idle, Loaded
  <2> QED BY <2>1, IdleIsOK DEF Init
<1>2. Live(rows) = {}
  BY DEF Live, Init
<1> QED BY <1>1, <1>2 DEF Alone, Unique, ParentsOK, Numbered, Filled

\* Every step of a request.
LEMMA StepAlone ==
    ASSUME IInv, IInv', Alone, NEW r \in Requests, Step(r)
    PROVE  Alone'
  <1>1. CASE Refuse(r)
    BY <1>1, EndingAlone
  <1>2. CASE CheckLocks(r)
    BY <1>2, CheckLocksAlone
  <1>3. CASE Validate(r)
    BY <1>3, ValidateAlone
  <1>4. CASE CommitCreate(r)
    BY <1>4, CommitCreateAlone
  <1>5. CASE CommitDelete(r)
    BY <1>5, CommitDeleteAlone
  <1>6. CASE CommitMove(r)
    BY <1>6, CommitMoveAlone
  <1>7. CASE CommitCopy(r)
    BY <1>7, CommitCopyAlone
  <1>8. CASE CommitSave(r)
    BY <1>8, CommitSaveAlone
  <1>9. CASE PruneCheck(r)
    BY <1>9, PruneCheckAlone
  <1>10. CASE PruneDelete(r)
    BY <1>10, PruneDeleteAlone
  <1> QED
    BY <1>1, <1>2, <1>3, <1>4, <1>5, <1>6, <1>7, <1>8, <1>9, <1>10, Zenon DEF Step, Commit

\* Nobody changes how clients behave.
LEMMA ClientsStay == Next => UNCHANGED clients
<1> SUFFICES ASSUME Next PROVE UNCHANGED clients
  OBVIOUS
<1>1. ASSUME NEW r \in Requests, Step(r) \/ Crash(r) PROVE UNCHANGED clients
  BY <1>1, Zenon DEF Step, Commit, Refuse, CheckLocks, Validate, CommitCreate, CommitDelete, CommitMove,
     CommitCopy, CommitSave, PruneCheck, PruneDelete, Crash
<1>2. ASSUME NEW r \in Requests, NEW op, NEW p, NEW d, NEW k, Begin(r, op, p, d, k) PROVE UNCHANGED clients
  BY <1>2 DEF Begin
<1>3. ASSUME NEW p, NEW kind, DeleteLock(p) \/ Expire(p) \/ CreateLock(p, kind) \/ ReplaceLock(p, kind)
      PROVE  UNCHANGED clients
  BY <1>3 DEF DeleteLock, Expire, CreateLock, ReplaceLock, LockStep
<1> QED BY <1>1, <1>2, <1>3, Zenon DEF Next

\* Lock calls overlap with others in the model.
LEMMA LocksNeedMany ==
    ASSUME NEW p, NEW kind, DeleteLock(p) \/ Expire(p) \/ CreateLock(p, kind) \/ ReplaceLock(p, kind)
    PROVE  clients = "many"
  BY DEF DeleteLock, Expire, CreateLock, ReplaceLock, LockStep

\* The invariant with what holds while calls do not overlap.
LEMMA OneInit == Init => OneInv
  BY InitInv, InitAlone DEF OneInv

\* Every step keeps it.
LEMMA OneNext == OneInv /\ [Next]_vars => OneInv'
<1> SUFFICES ASSUME OneInv, [Next]_vars PROVE OneInv'
  OBVIOUS
<1>1. IInv /\ IInv' /\ (clients = "one" => Alone)
  BY NextInv DEF OneInv
<1>2. CASE UNCHANGED vars
  <2>1. UNCHANGED <<rows, births, req, clients, crashed>>
    BY <1>2 DEF vars
  <2>2. Alone => Alone'
    BY <2>1 DEF Alone, Numbered
  <2> QED BY <1>1, <2>1, <2>2 DEF OneInv
<1>3. CASE Next
  <2> SUFFICES ASSUME clients = "one" PROVE Alone'
    BY <1>1, <1>3, ClientsStay DEF OneInv
  <2>1. CASE \E r \in Requests : Step(r) \/ Crash(r)
    BY <1>1, <2>1, StepAlone, EndingAlone
  <2>2. CASE \E r \in Requests, op \in Ops, p \in Paths, d \in Paths, k \in Kinds \cup {"folder"} :
                Begin(r, op, p, d, k)
    BY <1>1, <2>2, BeginAlone
  <2>3. CASE \E p \in Paths, kind \in Lock : DeleteLock(p) \/ Expire(p) \/ CreateLock(p, kind) \/ ReplaceLock(p, kind)
    <3>1. clients = "many"
      BY <2>3, LocksNeedMany
    <3> QED BY <3>1
  <2>4. "none" \in Lock
    BY DEF Lock
  <2> QED BY <1>3, <2>1, <2>2, <2>3, <2>4, Zenon DEF Next
<1> QED BY <1>2, <1>3

\* So it holds in every state.
LEMMA OneInvariance == Spec => []OneInv
  BY OneInit, OneNext, PTL DEF Spec

\* For any paths, kinds and bounds: while calls do not overlap, whatever is
\* created, moved, copied, deleted and pruned and wherever a worker dies, the
\* parent of a row is the folder at its path without the last name.
THEOREM TreeParentsFollowPaths == Spec => []ParentsFollowPaths
<1>1. OneInv => ParentsFollowPaths
  BY DEF OneInv, Alone, ParentsOK, ParentsFollowPaths
<1> QED BY <1>1, OneInvariance, PTL

\* For any paths, kinds and bounds: while calls do not overlap nothing is below
\* an item, and between calls no folder is empty unless a worker has died.
THEOREM TreeFoldersHaveContents == Spec => []FoldersHaveContents
<1>1. OneInv => FoldersHaveContents
  <2> SUFFICES ASSUME OneInv, clients = "one", NEW i \in Live(rows)
               PROVE  IF rows[i].kind = "folder" THEN Resting /\ ~crashed => Children(rows, i) # {}
                      ELSE Children(rows, i) = {}
    BY DEF FoldersHaveContents
  <2>1. Alone /\ Sound(rows)
    BY AloneSteady DEF OneInv
  <2>2. ASSUME rows[i].kind = "folder", Resting, ~crashed PROVE Children(rows, i) # {}
    <3>1. \A r \in Requests : ~Climbs(req[r])
      BY <2>2 DEF Resting, Climbs
    <3>2. Filled(rows, NoParent) /\ i # NoParent
      BY <2>1, <2>2, <3>1, RowFacts DEF Alone, Sound
    <3> QED BY <2>2, <3>2 DEF Filled
  <2>3. ASSUME rows[i].kind # "folder" PROVE Children(rows, i) = {}
    <3> SUFFICES ASSUME NEW j \in Live(rows), rows[j].parent = i PROVE FALSE
      BY DEF Children
    <3>1. Len(rows[j].path) > 1
      BY <2>1, HasParent
    <3>2. rows[i].kind = "folder"
      BY <2>1, <3>1, ParentRow
    <3> QED BY <2>3, <3>2
  <2> QED BY <2>2, <2>3
<1> QED BY <1>1, OneInvariance, PTL

-----------------------------------------------------------------------------
(* Items by path *)

\* The items of a table, as PathTree sees them.
ItemRows(rs) == {j \in Live(rs) : rs[j].kind # "folder"}
Items(rs) == {<<rs[i].path, rs[i].kind>> : i \in ItemRows(rs)}

\* The two ways to say what the items are.
LEMMA ItemsAre == ItemsByPath = Items(rows) /\ ItemsByPath' = Items(rows')
  BY DEF ItemsByPath, Items, ItemRows

\* PathTree's order of paths is the same.
LEMMA SameCovers ==
    ASSUME NEW p \in Paths, NEW q \in Paths
    PROVE  PT!Covers(q, p) <=> Covers(q, p)
<1> DEFINE m == Len(p)
           n == Len(q)
<1>1. p \in Seq(STRING) /\ q \in Seq(STRING) /\ m \in Nat /\ n \in Nat
  BY PathFacts
<1>2. SubSeq(p, 1, m) = p
  <2>1. m \in 0 .. m
    BY <1>1
  <2> DEFINE s == SubSeq(p, 1, m)
  <2>2. s \in Seq(STRING) /\ Len(s) = Len(p) /\ \A i \in 1 .. Len(p) : s[i] = p[i]
    BY <1>1, <2>1, PrefixFacts
  <2> HIDE DEF s
  <2>3. s = p
    BY <1>1, <2>2, SameSequence
  <2> QED BY <2>3 DEF s
<1>3. p = q => m = n
  OBVIOUS
<1>4. PT!Covers(q, p) <=> m >= n /\ SubSeq(p, 1, n) = q
  BY DEF PT!Covers
<1>5. Covers(q, p) <=> p = q \/ (m > n /\ SubSeq(p, 1, n) = q)
  BY DEF Covers, Below
<1> HIDE DEF m, n
<1>6. m >= n <=> m > n \/ m = n
  BY <1>1
<1> QED BY <1>2, <1>3, <1>4, <1>5, <1>6, Zenon

\* An item is a row that is no folder.
LEMMA ItemFacts ==
    ASSUME NEW rs, Sound(rs), NEW e \in Items(rs)
    PROVE  \E i \in ItemRows(rs) : /\ i \in Live(rs) /\ e = <<rs[i].path, rs[i].kind>>
                                   /\ e[1] = rs[i].path /\ e[2] = rs[i].kind /\ e[1] \in Paths /\ e[2] \in Kinds
<1>1. PICK i \in ItemRows(rs) : e = <<rs[i].path, rs[i].kind>>
  BY DEF Items
<1>2. i \in Live(rs) /\ rs[i].kind # "folder" /\ rs[i] \in Row
  BY RowFacts DEF ItemRows, Sound
<1>3. rs[i].path \in Paths /\ rs[i].kind \in Kinds
  BY <1>2 DEF Row
<1> QED BY <1>1, <1>2, <1>3

\* Where the table has no conflict an item may be put.
LEMMA NoConflictIsFree ==
    ASSUME Sound(rows), NEW p \in Paths, ~Conflict(p)
    PROVE  PT!Free(p)
<1>1. \A e \in ItemsByPath : \E i \in ItemRows(rows) : i \in Live(rows) /\ e[1] = rows[i].path /\ e[1] \in Paths
  BY ItemFacts, ItemsAre
<1>2. ASSUME NEW q \in PT!Occupied
      PROVE  \E i \in ItemRows(rows) : i \in Live(rows) /\ q = rows[i].path /\ q \in Paths
  BY <1>1, <1>2 DEF PT!Occupied
<1>3. At(rows, p) = {} /\ \A q \in Ancestors(p) : At(rows, q) = FoldersAt(rows, q)
  BY DEF Conflict
<1>4. p \notin PT!Occupied
  BY <1>2, <1>3 DEF At
<1>5. p \notin PT!Folders
  <2> SUFFICES ASSUME NEW q \in PT!Occupied, q # p, PT!Covers(p, q) PROVE FALSE
    BY DEF PT!Folders
  <2>1. PICK i \in Live(rows) : q = rows[i].path /\ q \in Paths
    BY <1>2
  <2>2. p \in Ancestors(q)
    BY <2>1, SameCovers, AncestorIsAbove DEF Covers
  <2>3. FoldersAt(rows, p) # {}
    BY <2>1, <2>2, AncestorRows
  <2> QED BY <1>3, <2>3 DEF FoldersAt
<1>6. ASSUME NEW q \in PT!Occupied PROVE ~PT!Covers(q, p)
  <2> SUFFICES ASSUME PT!Covers(q, p) PROVE FALSE
    OBVIOUS
  <2>1. PICK i \in ItemRows(rows) : i \in Live(rows) /\ q = rows[i].path /\ q \in Paths
    BY <1>2
  <2>2. q # p
    BY <1>4
  <2>3. q \in Ancestors(p)
    BY <2>1, <2>2, SameCovers, AncestorIsAbove DEF Covers
  <2>4. i \in At(rows, q) /\ i \notin FoldersAt(rows, q)
    BY <2>1 DEF At, FoldersAt, ItemRows
  <2> QED BY <1>3, <2>3, <2>4
<1> QED BY <1>4, <1>5, <1>6 DEF PT!Free

\* What is created or copied.
LEMMA PlantedItems ==
    ASSUME Steady, NEW rs, NEW S, NEW G, NEW kind, Planted(rs, S, G, kind)
    PROVE  Items(rs) = Items(rows) \cup {<<p, kind[p]>> : p \in G}
<1>1. /\ Live(rs) = Live(rows) \cup New(S, G) /\ \A i \in Live(rows) : rs[i] = rows[i]
      /\ New(S, G) \subseteq Ids \ Live(rows)
  BY PlantedRows DEF Grown
<1>2. \A q \in Missing(rows, S) : rs[NewId(q)].kind = "folder"
  <2> TAKE q \in Missing(rows, S)
  <2>1. rs[NewId(q)] = [path |-> q, parent |-> LastParent(rows, q), kind |-> "folder"]
    BY PlantedRows
  <2> QED BY <2>1
<1>3. \A p \in G : rs[NewId(p)].path = p /\ rs[NewId(p)].kind = kind[p] /\ kind[p] # "folder"
  <2> TAKE p \in G
  <2>1. rs[NewId(p)] = [path |-> p, parent |-> LastParent(rows, p), kind |-> kind[p]]
    BY DEF Planted
  <2>2. kind[p] \in Kinds
    BY DEF Planted
  <2> QED BY <2>1, <2>2, BoundsAssumption
<1>4. ItemRows(rs) = ItemRows(rows) \cup {NewId(p) : p \in G}
  BY <1>1, <1>2, <1>3 DEF ItemRows, New
<1>5. \A i \in ItemRows(rows) : rs[i] = rows[i]
  BY <1>1 DEF ItemRows
<1> QED BY <1>3, <1>4, <1>5 DEF Items

\* What is removed by its path.
LEMMA RemovedItems ==
    ASSUME NEW rs, Sound(rs), NEW p \in Paths, NEW R,
           \A j \in Live(rs) : j \in R <=> Covers(p, rs[j].path)
    PROVE  Items(Remove(rs, R)) = {e \in Items(rs) : ~PT!Covers(p, e[1])}
<1> DEFINE T == Remove(rs, R)
<1>1. Live(T) = Live(rs) \ R /\ \A i \in Live(rs) \ R : T[i] = rs[i]
  BY RemoveFacts
<1> HIDE DEF T
<1>2. \A i \in ItemRows(T) : i \in ItemRows(rs) /\ T[i] = rs[i] /\ ~Covers(p, rs[i].path) /\ rs[i].path \in Paths
  <2> TAKE i \in ItemRows(T)
  <2>1. i \in Live(rs) /\ i \notin R /\ T[i] = rs[i]
    BY <1>1 DEF ItemRows
  <2> QED BY <2>1, RowFacts DEF ItemRows, Sound
<1>3. \A i \in ItemRows(rs) : ~Covers(p, rs[i].path) => i \in ItemRows(T) /\ T[i] = rs[i]
  BY <1>1 DEF ItemRows
<1>4. ASSUME NEW e \in Items(T) PROVE e \in Items(rs) /\ ~PT!Covers(p, e[1])
  <2>1. PICK i \in ItemRows(T) : e = <<T[i].path, T[i].kind>>
    BY DEF Items
  <2>2. e = <<rs[i].path, rs[i].kind>> /\ i \in ItemRows(rs) /\ rs[i].path \in Paths /\ ~Covers(p, rs[i].path)
    BY <1>2, <2>1
  <2>3. e[1] = rs[i].path
    BY <2>2
  <2> QED BY <2>2, <2>3, SameCovers DEF Items
<1>5. ASSUME NEW e \in Items(rs), ~PT!Covers(p, e[1]) PROVE e \in Items(T)
  <2>1. PICK i \in ItemRows(rs) : e = <<rs[i].path, rs[i].kind>> /\ e[1] = rs[i].path /\ e[1] \in Paths
    BY ItemFacts
  <2>2. ~Covers(p, rs[i].path)
    BY <1>5, <2>1, SameCovers
  <2>3. i \in ItemRows(T) /\ T[i] = rs[i]
    BY <1>3, <2>2
  <2> QED BY <2>1, <2>3 DEF Items
<1> QED BY <1>4, <1>5 DEF T

\* What moves.
LEMMA MovedItems ==
    ASSUME Steady, NEW m, Moving(m)
    PROVE  Items(Moved(m)) = {e \in Items(rows) : ~PT!Covers(m.path, e[1])}
             \cup {<<Rebase(e[1], m.path, m.dest), e[2]>> : e \in {x \in Items(rows) : PT!Covers(m.path, x[1])}}
<1> DEFINE T == Moved(m)
           Stay == {e \in Items(rows) : ~PT!Covers(m.path, e[1])}
           In == {x \in Items(rows) : PT!Covers(m.path, x[1])}
           new(i) == <<Rebase(rows[i].path, m.path, m.dest), rows[i].kind>>
<1>1. /\ Live(T) = Live(rows) \cup NewFolders(m) /\ Sound(rows) /\ m.path \in Paths /\ m.dest \in Paths
      /\ NewFolders(m) \cap Live(rows) = {}
  BY MovedRows, BasedFacts DEF Steady, Moving
<1>2. \A i \in NewFolders(m) : T[i].kind = "folder"
  <2> TAKE i \in NewFolders(m)
  <2>1. PICK q \in Missing(rows, Ancestors(m.dest)) : i = NewId(q)
    BY DEF NewFolders
  <2>2. Based(m)[i] = [path |-> q, parent |-> LastParent(rows, q), kind |-> "folder"]
    BY <2>1, BasedFacts
  <2>3. i # m.id /\ i \notin Movers(m) /\ i \in Ids
    BY <1>1 DEF Moving, Movers, Live
  <2>4. T[i] = Based(m)[i]
    BY <2>3, MovedRows
  <2> QED BY <2>2, <2>4
<1>3. ASSUME NEW i \in Live(rows)
      PROVE  IF Covers(m.path, rows[i].path)
             THEN T[i].path = Rebase(rows[i].path, m.path, m.dest) /\ T[i].kind = rows[i].kind
             ELSE T[i] = rows[i]
  <2>1. CASE i = m.id
    <3>1. T[i] = [path |-> m.dest, kind |-> m.kind, parent |-> LastParent(rows, m.dest)]
      BY <2>1, MovedRows
    <3>2. rows[i].path = m.path /\ rows[i].kind = m.kind /\ Rebase(m.path, m.path, m.dest) = m.dest
      BY <1>1, <2>1, MovingFacts, RebaseRoot
    <3> QED BY <3>1, <3>2 DEF Covers
  <2>2. CASE i \in Movers(m)
    BY <2>2, MovedRows DEF Movers, Covers
  <2>3. CASE i # m.id /\ i \notin Movers(m)
    <3>1. ~Covers(m.path, rows[i].path) /\ i \in Ids
      BY <2>3, MovingFacts DEF Live
    <3>2. T[i] = Based(m)[i]
      BY <2>3, <3>1, MovedRows
    <3>3. Based(m)[i] = rows[i]
      BY BasedFacts
    <3> QED BY <3>1, <3>2, <3>3
  <2> QED BY <2>1, <2>2, <2>3
<1> HIDE DEF T
<1>4. ItemRows(T) = ItemRows(rows)
  <2>1. \A i \in Live(rows) : T[i].kind = rows[i].kind
    BY <1>3
  <2> QED BY <1>1, <1>2, <2>1 DEF ItemRows
<1>5. \A i \in ItemRows(rows) : i \in Live(rows) /\ rows[i].path \in Paths /\ <<rows[i].path, rows[i].kind>> \in Items(rows)
  BY <1>1, RowFacts DEF ItemRows, Items, Sound
<1>6. ASSUME NEW i \in ItemRows(rows), Covers(m.path, rows[i].path)
      PROVE  <<T[i].path, T[i].kind>> = new(i) /\ <<rows[i].path, rows[i].kind>> \in In
  <2>1. T[i].path = Rebase(rows[i].path, m.path, m.dest) /\ T[i].kind = rows[i].kind
    BY <1>3, <1>5, <1>6
  <2>2. PT!Covers(m.path, rows[i].path)
    BY <1>1, <1>5, <1>6, SameCovers
  <2> QED BY <1>5, <2>1, <2>2
<1>7. ASSUME NEW i \in ItemRows(rows), ~Covers(m.path, rows[i].path)
      PROVE  T[i] = rows[i] /\ <<rows[i].path, rows[i].kind>> \in Stay
  <2>1. ~PT!Covers(m.path, rows[i].path)
    BY <1>1, <1>5, <1>7, SameCovers
  <2> QED BY <1>3, <1>5, <1>7, <2>1
<1>8. ASSUME NEW x \in Items(T)
      PROVE  x \in Stay \cup {<<Rebase(e[1], m.path, m.dest), e[2]>> : e \in In}
  <2>1. PICK i \in ItemRows(rows) : x = <<T[i].path, T[i].kind>>
    BY <1>4 DEF Items
  <2>2. CASE Covers(m.path, rows[i].path)
    <3> DEFINE e == <<rows[i].path, rows[i].kind>>
    <3>1. x = <<Rebase(e[1], m.path, m.dest), e[2]>> /\ e \in In
      BY <1>6, <2>1, <2>2
    <3> HIDE DEF e, In
    <3> QED BY <3>1
  <2>3. CASE ~Covers(m.path, rows[i].path)
    BY <1>7, <2>1, <2>3
  <2> QED BY <2>2, <2>3
<1>9. ASSUME NEW x \in Stay PROVE x \in Items(T)
  <2>1. PICK i \in ItemRows(rows) : x = <<rows[i].path, rows[i].kind>> /\ x[1] = rows[i].path /\ x[1] \in Paths
    BY <1>1, ItemFacts
  <2>2. ~Covers(m.path, rows[i].path)
    BY <1>1, <2>1, SameCovers
  <2>3. x = <<T[i].path, T[i].kind>>
    BY <1>7, <2>1, <2>2
  <2> QED BY <1>4, <2>3 DEF Items
<1>10. ASSUME NEW e \in In PROVE <<Rebase(e[1], m.path, m.dest), e[2]>> \in Items(T)
  <2>1. PICK i \in ItemRows(rows) : e = <<rows[i].path, rows[i].kind>> /\ e[1] = rows[i].path /\ e[2] = rows[i].kind /\ e[1] \in Paths
    BY <1>1, ItemFacts
  <2>2. Covers(m.path, rows[i].path)
    BY <1>1, <2>1, SameCovers
  <2>3. <<Rebase(e[1], m.path, m.dest), e[2]>> = <<T[i].path, T[i].kind>>
    BY <1>6, <2>1, <2>2
  <2> QED BY <1>4, <2>3 DEF Items
<1> QED BY <1>8, <1>9, <1>10 DEF T

\* A transaction commits its table, or the items stay.
LEMMA CommitItems ==
    ASSUME IInv, IInv', NEW r \in Requests, NEW rs, NEW S, NEW m, CommitTo(r, rs, S, m)
    PROVE  \/ rows' = rs /\ rs \in Table /\ Unique(rs) /\ Room(S)
           \/ UNCHANGED ItemsByPath
<1>1. CASE Unique(rs) /\ \A i \in Live(rs) : rs[i].path \in Paths
  <2>1. rows' = rs /\ Room(S)
    BY <1>1 DEF CommitTo
  <2> QED BY <1>1, <2>1 DEF IInv, TypeOK, Table
<1>2. CASE ~(Unique(rs) /\ \A i \in Live(rs) : rs[i].path \in Paths)
  <2>1. UNCHANGED rows
    BY <1>2 DEF CommitTo
  <2> QED BY <2>1 DEF ItemsByPath, Live
<1> QED BY <1>1, <1>2

\* The transactions, one by one, are calls of PathTree.
LEMMA CreateMaps ==
    ASSUME IInv, IInv', Alone, NEW r \in Requests, CommitCreate(r)
    PROVE  PT!Next \/ UNCHANGED ItemsByPath
<1> DEFINE m == req[r]
           A == Ancestors(m.path)
<1>1. /\ m \in Held /\ m.op = "create" /\ m.path \in Paths /\ m.dest = m.path
      /\ Agrees(rows, m) /\ Ready(rows, m) /\ Steady /\ Sound(rows)
      /\ CommitTo(r, Created(m), Missing(rows, A) \cup {m.path}, Idle)
  BY CreateHolds, AloneSteady
<1> SUFFICES ASSUME rows' = Created(m), Room(Missing(rows, A) \cup {m.path}) PROVE PT!Next
  BY <1>1, CommitItems
<1>2. Planted(Created(m), A, {m.path}, [p \in {m.path} |-> m.kind])
  BY <1>1, CreatePlants
<1>3. Items(Created(m)) = Items(rows) \cup {<<p, [x \in {m.path} |-> m.kind][p]>> : p \in {m.path}}
  BY <1>1, <1>2, PlantedItems
<1>4. ItemsByPath' = ItemsByPath \cup {<<m.path, m.kind>>}
  BY <1>3, ItemsAre
<1>5. PT!Free(m.path)
  BY <1>1, NoConflictIsFree DEF Ready, Conflict
<1>6. m.kind \in Kinds
  BY <1>1 DEF Agrees, Held
<1>7. PT!Create(m.path, m.kind)
  BY <1>4, <1>5 DEF PT!Create
<1> QED BY <1>1, <1>6, <1>7 DEF PT!Next

\* A deletion takes away what its path covers.
LEMMA DeleteMaps ==
    ASSUME IInv, IInv', Alone, NEW r \in Requests, CommitDelete(r)
    PROVE  PT!Next
<1> DEFINE m == req[r]
           R == IF m.kind = "folder" THEN Descendants(rows, m.id) ELSE Subtree(rows, m.id)
<1>1. m.pc = "valid" /\ m.op = "delete" /\ rows' = Remove(rows, R) /\ m.path \in Paths
  BY DEF CommitDelete, IInv, TypeOK, Held
<1>2. Sound(rows) /\ m.id \in Live(rows) /\ rows[m.id].path = m.path
  <2>1. Agrees(rows, m) /\ Sound(rows)
    BY <1>1, ActiveIsSingle, AloneSteady
  <2>2. rows[m.id] = [path |-> m.path, parent |-> m.parent, kind |-> m.kind] /\ m.id \in Live(rows)
    BY <1>1, <2>1 DEF Agrees
  <2> QED BY <2>1, <2>2
<1>3. \A j \in Live(rows) : j \in R <=> Covers(m.path, rows[j].path)
  <2>1. Subtree(rows, m.id) = {j \in Live(rows) : Covers(rows[m.id].path, rows[j].path)}
    BY <1>2, SubtreeByPath
  <2>2. Descendants(rows, m.id) = {j \in Live(rows) : Covers(rows[m.id].path, rows[j].path)}
    BY <1>2, DescendantsByPath
  <2> QED BY <1>2, <2>1, <2>2
<1> HIDE DEF R
<1>4. ItemsByPath' = {e \in ItemsByPath : ~PT!Covers(m.path, e[1])}
  BY <1>1, <1>2, <1>3, RemovedItems, ItemsAre
<1>5. PT!Delete(m.path)
  BY <1>4 DEF PT!Delete, PT!Inside
<1> QED BY <1>1, <1>5 DEF PT!Next

\* A move puts what its path covers at the parallel paths.
LEMMA MoveMaps ==
    ASSUME IInv, IInv', Alone, NEW r \in Requests, CommitMove(r)
    PROVE  PT!Next \/ UNCHANGED ItemsByPath
<1> DEFINE m == req[r]
           S == Missing(rows, Ancestors(m.dest))
<1>1. /\ m.pc = "valid" /\ m.op = "move" /\ CommitTo(r, Moved(m), S, [m EXCEPT !.pc = "prune"])
      /\ m.path \in Paths /\ m.dest \in Paths
  BY DEF CommitMove, IInv, TypeOK, Held
<1>2. Agrees(rows, m) /\ Ready(rows, m) /\ Steady /\ Sound(rows)
  BY <1>1, ActiveIsSingle, AloneSteady
<1> SUFFICES ASSUME rows' = Moved(m), Room(S) PROVE PT!Next
  BY <1>1, CommitItems
<1>3. Moving(m)
  BY <1>1, <1>2 DEF Moving, Agrees, Ready, Conflict
<1>4. ItemsByPath' = {e \in ItemsByPath : ~PT!Covers(m.path, e[1])} \cup
        {<<Rebase(e[1], m.path, m.dest), e[2]>> : e \in {x \in ItemsByPath : PT!Covers(m.path, x[1])}}
  BY <1>2, <1>3, MovedItems, ItemsAre
<1>5. PT!Free(m.dest) /\ ~PT!Covers(m.path, m.dest)
  BY <1>1, <1>2, <1>3, NoConflictIsFree, SameCovers DEF Moving
<1>6. PT!Inside(m.path) = {x \in ItemsByPath : PT!Covers(m.path, x[1])}
  BY DEF PT!Inside
<1>7. PT!Placed(PT!Inside(m.path), m.path, m.dest) =
        {<<Rebase(e[1], m.path, m.dest), e[2]>> : e \in {x \in ItemsByPath : PT!Covers(m.path, x[1])}}
  BY <1>6 DEF PT!Placed, Rebase
<1>8. ItemsByPath \ PT!Inside(m.path) = {e \in ItemsByPath : ~PT!Covers(m.path, e[1])}
  BY <1>6
<1>9. PT!Move(m.path, m.dest)
  BY <1>4, <1>5, <1>7, <1>8 DEF PT!Move
<1> QED BY <1>1, <1>9 DEF PT!Next

\* A copy adds the items its path covers, secrets apart, at the parallel paths.
LEMMA CopyMaps ==
    ASSUME IInv, IInv', Alone, NEW r \in Requests, CommitCopy(r)
    PROVE  PT!Next \/ UNCHANGED ItemsByPath
<1> DEFINE m == req[r]
           S == Missing(rows, AboveTargets(m)) \cup Targets(m)
           kind == [p \in Targets(m) |-> KindAt(m, p)]
           In == {e \in PT!Inside(m.path) : e[2] # "secret"}
<1>1. /\ m \in Held /\ m.op = "copy" /\ Agrees(rows, m) /\ Ready(rows, m) /\ Steady /\ Sound(rows)
      /\ m.path \in Paths /\ m.dest \in Paths
  BY CopyHolds, AloneSteady DEF Held
<1>2. CASE CopyFails(m)
  <2>1. UNCHANGED rows
    BY <1>2, CopyHolds
  <2> QED BY <2>1 DEF ItemsByPath, Live
<1>3. CASE ~CopyFails(m)
  <2>1. Room(Targets(m)) /\ Targets(m) \subseteq Paths /\ CommitTo(r, Duplicated(m), S, Idle)
    BY <1>3, CopyHolds
  <2> SUFFICES ASSUME rows' = Duplicated(m), Room(S) PROVE PT!Next
    BY <2>1, CommitItems
  <2>2. Room(Missing(rows, AboveTargets(m)))
    BY DEF Room
  <2>3. Planted(Duplicated(m), AboveTargets(m), Targets(m), kind)
    BY <1>1, <1>3, <2>1, <2>2, CopyPlants
  <2>4. ItemsByPath' = ItemsByPath \cup {<<p, kind[p]>> : p \in Targets(m)}
    BY <1>1, <2>3, PlantedItems, ItemsAre
  <2>5. m.id \in Live(rows) /\ rows[m.id].path = m.path
    BY <1>1 DEF Agrees
  <2>6. m.list = {<<i, rows[i].path>> : i \in {j \in Descendants(rows, m.id) : rows[j].kind \notin {"folder", "secret"}}}
    BY <1>1 DEF Ready
  <2>7. Descendants(rows, m.id) = {j \in Live(rows) : Covers(m.path, rows[j].path)}
    BY <1>1, <2>5, DescendantsByPath
  <2> DEFINE Source == {j \in Live(rows) : Covers(m.path, rows[j].path) /\ rows[j].kind \notin {"folder", "secret"}}
             to(j) == Rebase(rows[j].path, m.path, m.dest)
  <2>8. m.list = {<<j, rows[j].path>> : j \in Source}
    BY <2>6, <2>7
  <2>9. \A j \in Source : j \in Live(rows) /\ rows[j].path \in Paths /\ Covers(m.path, rows[j].path) /\ rows[j].kind \notin {"folder", "secret"}
    BY <1>1, RowFacts DEF Sound
  <2>10. In = {<<rows[j].path, rows[j].kind>> : j \in Source}
    <3>1. ASSUME NEW j \in Source PROVE <<rows[j].path, rows[j].kind>> \in In
      <4>1. <<rows[j].path, rows[j].kind>> \in ItemsByPath
        BY <2>9, ItemsAre DEF Items, ItemRows
      <4>2. PT!Covers(m.path, rows[j].path)
        BY <1>1, <2>9, SameCovers
      <4> QED BY <2>9, <4>1, <4>2 DEF PT!Inside
    <3>2. ASSUME NEW e \in In PROVE e \in {<<rows[j].path, rows[j].kind>> : j \in Source}
      <4>1. e \in Items(rows) /\ PT!Covers(m.path, e[1]) /\ e[2] # "secret"
        BY ItemsAre DEF PT!Inside
      <4>2. PICK i \in ItemRows(rows) : /\ i \in Live(rows) /\ e = <<rows[i].path, rows[i].kind>>
                                        /\ e[1] = rows[i].path /\ e[2] = rows[i].kind /\ e[1] \in Paths
        BY <1>1, <4>1, ItemFacts
      <4>3. Covers(m.path, rows[i].path) /\ rows[i].kind \notin {"folder", "secret"}
        BY <1>1, <4>1, <4>2, SameCovers DEF ItemRows
      <4> QED BY <4>2, <4>3
    <3> QED BY <3>1, <3>2
  <2>11. ASSUME NEW j \in Source PROVE to(j) \in Targets(m) /\ KindAt(m, to(j)) = rows[j].kind
    <3> DEFINE e == CHOOSE x \in m.list : Target(m, x) = to(j)
               y == <<j, rows[j].path>>
    <3>1. y \in m.list /\ Target(m, y) = to(j)
      BY <2>8 DEF Target
    <3>2. e \in m.list /\ Target(m, e) = to(j)
      BY <3>1
    <3> HIDE DEF e
    <3>3. PICK i \in Source : e = <<i, rows[i].path>>
      BY <2>8, <3>2
    <3>4. to(i) = to(j) /\ e[1] = i
      BY <3>2, <3>3 DEF Target
    <3>5. rows[i].path = rows[j].path
      BY <1>1, <2>9, <3>4, RebaseApart
    <3>6. i = j
      BY <1>1, <2>9, <3>5 DEF Sound, Unique
    <3>7. KindAt(m, to(j)) = rows[e[1]].kind
      BY DEF KindAt, e
    <3>8. to(j) \in Targets(m)
      BY <3>1 DEF Targets
    <3> QED BY <3>4, <3>6, <3>7, <3>8
  <2>12. Targets(m) = {to(j) : j \in Source}
    <3>1. ASSUME NEW p \in Targets(m) PROVE \E j \in Source : p = to(j)
      <4>1. PICK e \in m.list : p = Target(m, e)
        BY DEF Targets
      <4>2. PICK j \in Source : e = <<j, rows[j].path>>
        BY <2>8, <4>1
      <4> QED BY <4>1, <4>2 DEF Target
    <3> QED BY <2>11, <3>1
  <2> HIDE DEF Source, to, In
  <2>13. {<<p, kind[p]>> : p \in Targets(m)} = {<<to(j), rows[j].kind>> : j \in Source}
    <3>1. \A p \in Targets(m) : kind[p] = KindAt(m, p)
      OBVIOUS
    <3>2. \A j \in Source : kind[to(j)] = rows[j].kind
      BY <2>11, <3>1
    <3> HIDE DEF kind
    <3> QED BY <2>12, <3>2
  <2>14. PT!Placed(In, m.path, m.dest) = {<<Rebase(e[1], m.path, m.dest), e[2]>> : e \in In}
    BY DEF PT!Placed, Rebase
  <2>15. {<<Rebase(e[1], m.path, m.dest), e[2]>> : e \in In} = {<<to(j), rows[j].kind>> : j \in Source}
    <3> DEFINE x(j) == <<rows[j].path, rows[j].kind>>
               y(e) == <<Rebase(e[1], m.path, m.dest), e[2]>>
    <3>1. \A j \in Source : y(x(j)) = <<to(j), rows[j].kind>>
      BY DEF to
    <3>2. In = {x(j) : j \in Source}
      BY <2>10
    <3> HIDE DEF x, y
    <3>3. {y(e) : e \in In} = {<<to(j), rows[j].kind>> : j \in Source}
      BY <3>1, <3>2
    <3> QED BY <3>3 DEF y
  <2>16. ItemsByPath' = ItemsByPath \cup PT!Placed(In, m.path, m.dest)
    BY <2>4, <2>13, <2>14, <2>15
  <2>17. \A e \in PT!Placed(In, m.path, m.dest) : PT!Free(e[1])
    <3>1. ASSUME NEW j \in Source PROVE PT!Free(to(j))
      <4>1. to(j) \in Paths /\ ~Conflict(to(j))
        BY <1>3, <2>1, <2>11 DEF CopyFails
      <4> QED BY <1>1, <4>1, NoConflictIsFree
    <3>2. ASSUME NEW e \in PT!Placed(In, m.path, m.dest) PROVE PT!Free(e[1])
      <4>1. PICK j \in Source : e = <<to(j), rows[j].kind>>
        BY <2>14, <2>15, <3>2
      <4>2. e[1] = to(j)
        BY <4>1
      <4> QED BY <3>1, <4>2
    <3> QED BY <3>2
  <2>18. PT!Copy(m.path, m.dest)
    BY <2>16, <2>17 DEF PT!Copy, In
  <2> QED BY <1>1, <2>18 DEF PT!Next
<1> QED BY <1>2, <1>3

\* Pruning takes away folders only.
LEMMA PruneMaps ==
    ASSUME IInv, Alone, NEW r \in Requests, PruneDelete(r)
    PROVE  UNCHANGED ItemsByPath
<1> DEFINE m == req[r]
           rs == Remove(rows, Subtree(rows, m.up))
<1>1. m.pc = "pruning" /\ rows' = rs
  BY DEF PruneDelete
<1>2. Climbing(rows, crashed, m)
  BY <1>1, ActiveIsSingle DEF Climbs
<1>3. m.up \in Live(rows) /\ rows[m.up].kind = "folder" /\ Children(rows, m.up) = {}
  BY <1>1, <1>2 DEF Climbing
<1>4. Subtree(rows, m.up) \subseteq {m.up}
  <2> DEFINE X == {m.up}
  <2>1. m.up \in X /\ \A j \in Live(rows) : rows[j].parent \in X => j \in X
    BY <1>3 DEF Children
  <2> HIDE DEF X
  <2>2. Subtree(rows, m.up) \subseteq X
    BY <2>1, SubtreeLeast
  <2> QED BY <2>2 DEF X
<1>5. Live(rs) = Live(rows) \ Subtree(rows, m.up) /\ \A i \in Live(rs) : rs[i] = rows[i]
  BY RemoveFacts
<1> HIDE DEF rs
<1>6. ItemRows(rs) = ItemRows(rows) /\ \A i \in ItemRows(rs) : rs[i] = rows[i]
  BY <1>3, <1>4, <1>5 DEF ItemRows
<1>7. Items(rs) = Items(rows)
  BY <1>6 DEF Items
<1> QED BY <1>1, <1>7, ItemsAre

\* A save changes nothing.
LEMMA SaveMaps ==
    ASSUME IInv, Alone, NEW r \in Requests, CommitSave(r)
    PROVE  UNCHANGED ItemsByPath
<1> DEFINE m == req[r]
           row == [path |-> m.path, parent |-> m.parent, kind |-> m.kind]
           rs == [rows EXCEPT ![m.id] = row]
<1>1. m.pc = "valid" /\ m.op = "save" /\ (rows' = rows \/ rows' = rs)
  BY DEF CommitSave, CommitTo
<1>2. Agrees(rows, m) /\ Sound(rows)
  BY <1>1, ActiveIsSingle, AloneSteady
<1>3. rs = rows
  <2>1. rows[m.id] = row /\ rows \in Table
    BY <1>1, <1>2 DEF Agrees, Sound
  <2> QED BY <2>1 DEF Table
<1> HIDE DEF rs
<1>4. UNCHANGED rows
  BY <1>1, <1>3
<1> QED BY <1>4 DEF ItemsByPath, Live

\* The items are in the rows.
LEMMA RowsStay == UNCHANGED rows => UNCHANGED ItemsByPath
  BY DEF ItemsByPath, Live

\* Every step is a call that takes effect at once, or changes no item.
LEMMA StepMaps ==
    ASSUME OneInv, OneInv', clients = "one", [Next]_vars
    PROVE  PT!Next \/ UNCHANGED ItemsByPath
<1>1. IInv /\ IInv' /\ Alone
  BY DEF OneInv
<1>2. CASE UNCHANGED vars
  BY <1>2, RowsStay DEF vars
<1>3. ASSUME NEW r \in Requests, Step(r) \/ Crash(r) PROVE PT!Next \/ UNCHANGED ItemsByPath
  <2>1. CASE Refuse(r) \/ CheckLocks(r) \/ Validate(r) \/ PruneCheck(r) \/ Crash(r)
    BY <2>1, RowsStay DEF Refuse, CheckLocks, Validate, PruneCheck, Crash
  <2>2. CASE CommitCreate(r)
    BY <1>1, <2>2, CreateMaps
  <2>3. CASE CommitDelete(r)
    BY <1>1, <2>3, DeleteMaps
  <2>4. CASE CommitMove(r)
    BY <1>1, <2>4, MoveMaps
  <2>5. CASE CommitCopy(r)
    BY <1>1, <2>5, CopyMaps
  <2>6. CASE CommitSave(r)
    BY <1>1, <2>6, SaveMaps
  <2>7. CASE PruneDelete(r)
    BY <1>1, <2>7, PruneMaps
  <2> QED BY <1>3, <2>1, <2>2, <2>3, <2>4, <2>5, <2>6, <2>7, Zenon DEF Step, Commit
<1>4. ASSUME NEW r, NEW op, NEW p, NEW d, NEW k, Begin(r, op, p, d, k) PROVE UNCHANGED ItemsByPath
  BY <1>4, RowsStay DEF Begin
<1>5. ASSUME NEW p, NEW kind, DeleteLock(p) \/ Expire(p) \/ CreateLock(p, kind) \/ ReplaceLock(p, kind)
      PROVE  UNCHANGED ItemsByPath
  BY <1>5, RowsStay DEF DeleteLock, Expire, CreateLock, ReplaceLock, LockStep
<1> QED BY <1>2, <1>3, <1>4, <1>5, Zenon DEF Next

\* No rows are no items.
LEMMA InitMaps == Init => PT!Init
<1> SUFFICES ASSUME Init PROVE PT!Init
  OBVIOUS
<1>1. Live(rows) = {}
  BY DEF Live, Init
<1> QED BY <1>1 DEF PT!Init, ItemsByPath

\* For any paths, kinds and bounds: while calls do not overlap, every call is
\* one step of PathTree on the set of items by path, taken by its transaction,
\* and no other step, folders made and pruned included, changes that set.
THEOREM TreeImplementsPathTree == Spec => ImplementsPathTree
<1>1. OneInv /\ OneInv' /\ [Next]_vars => [clients = "one" => PT!Next]_ItemsByPath
  BY StepMaps
<1>2. Spec => PT!Init
  BY InitMaps DEF Spec
<1> QED BY <1>1, <1>2, OneInvariance, PTL DEF Spec, ImplementsPathTree

=============================================================================
