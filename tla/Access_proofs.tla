--------------------------- MODULE Access_proofs ----------------------------
(***************************************************************************)
(* Who may do what: the global rules of administrators, the permissions of a *)
(* namespace and the tokens of resolvers.  For every number of administrators, *)
(* checkers, rules, documents, requests, resolvers, keepers and tokens, what is *)
(* compiled, cached or remembered of them lets nobody do what they refuse. *)
(***************************************************************************)
EXTENDS GlobalRules, Permissions, ResolverTokens,
        SequenceTheorems, FiniteSetTheorems, WellFoundedInduction, TLAPS

-----------------------------------------------------------------------------
(* Global rules: what every check of one may rely on *)

\* A call holds the row it will write, and a move what it has yet to shift.
AdminState ==
    [pc : {"idle"}]
      \cup [pc : {"create", "update", "save", "move"}, row : Rule]
      \cup [pc : {"shift"}, row : Rule, left : SUBSET {r \in Rule : r.pos < CatchAll}]

RulesTypeOK ==
    /\ rules \in [RuleIds -> Rule \cup {NoRule}]
    /\ \A i \in RuleIds : rules[i] # NoRule => rules[i].id = i /\ rules[i].at <= ruleClock
    /\ ruleClock \in Nat
    /\ adm \in [Admins -> AdminState]

\* A key is the number of rules and the stamp of the last change.
Keys == Nat \X (0 .. ruleClock)

ChecksTypeOK ==
    /\ chk \in [Checkers -> [pc : {"idle"}]
                              \cup [pc : {"done"}, was : SUBSET Rule, served : SUBSET Rule]
                              \cup [pc : {"missed"}, key : Keys, was : SUBSET Rule]]
    /\ \A e \in compiled : e.key \in Keys /\ e.list \in SUBSET Rule

\* Whatever is not newer than an entry of the cache is on its list.
EntriesCover ==
    \A e \in compiled : {r \in Rows : r.at <= e.key[2]} \subseteq e.list

RulesInv == RulesTypeOK /\ ChecksTypeOK /\ EntriesCover /\ RulesInForceServed

-----------------------------------------------------------------------------
(* The table *)

\* A bounded set of numbers has a largest member.
LEMMA MaxExists ==
    ASSUME NEW n \in Nat, NEW T, T \subseteq 0 .. n, T # {}
    PROVE  \E m \in T : \A t \in T : t <= m
<1> DEFINE D == {n - t : t \in T}
           R == OpToRel(<, Nat)
<1>1. IsWellFoundedOn(R, Nat)
  BY NatLessThanWellFounded
<1>2. \A x, y \in Nat : y < x => <<y, x>> \in R
  BY DEF OpToRel
<1> HIDE DEF R
<1>3. D \subseteq Nat /\ D # {}
  <2>1. \A t \in T : n - t \in Nat
    OBVIOUS
  <2>2. PICK t \in T : TRUE
    OBVIOUS
  <2>3. n - t \in D
    OBVIOUS
  <2> QED BY <2>1, <2>3
<1>4. PICK d \in D : \A y \in D : ~ (<<y, d>> \in R)
  <2> HIDE DEF D
  <2> QED BY <1>1, <1>3, WFMin
<1>5. PICK m \in T : d = n - m
  OBVIOUS
<1>6. \A t \in T : t <= m
  <2> TAKE t \in T
  <2>1. n - t \in D /\ t \in Nat /\ n - t \in Nat /\ m \in Nat
    OBVIOUS
  <2>2. ~(n - t < n - m)
    BY <2>1, <1>2, <1>3, <1>4, <1>5
  <2> QED BY <2>1, <2>2
<1> QED BY <1>6

LEMMA RowsTyped ==
    ASSUME RulesTypeOK
    PROVE  /\ Rows \subseteq Rule
           /\ \A r \in Rows : r.at \in 0 .. ruleClock /\ r.id \in RuleIds /\ rules[r.id] = r
           /\ IsFiniteSet(Rows)
<1>1. /\ Rows \subseteq Rule
      /\ \A r \in Rows : r.at \in 0 .. ruleClock /\ r.id \in RuleIds /\ rules[r.id] = r
  BY DEF RulesTypeOK, Rows, Rule
<1>2. IsFiniteSet(Rows)
  <2> DEFINE live == {j \in RuleIds : rules[j] # NoRule}
  <2>1. IsFiniteSet(live)
    BY RulesAssumption, FS_Subset
  <2>2. Rows = {rules[i] : i \in live}
    BY DEF Rows
  <2> HIDE DEF live
  <2>3. [i \in live |-> rules[i]] \in Surjection(live, Rows)
    BY <2>2 DEF Surjection
  <2> QED BY <2>1, <2>3, FS_Surjection
<1> QED BY <1>1, <1>2

\* A new rule goes to a position of the table.
LEMMA NextPositionTyped ==
    ASSUME RulesTypeOK
    PROVE  NextPosition \in 1 .. CatchAll
<1> DEFINE below == {r.pos : r \in {q \in Rows : q.pos < CatchAll}}
<1>1. below \subseteq 1 .. CatchAll - 1
  BY RowsTyped, RulesAssumption DEF Rule
<1>2. CASE below = {}
  BY <1>2, RulesAssumption DEF NextPosition
<1>3. CASE below # {}
  <2> DEFINE last == CHOOSE p \in below : \A q \in below : q <= p
  <2> HIDE DEF below
  <2>1. CatchAll \in Nat /\ below \subseteq 0 .. CatchAll
    BY <1>1, RulesAssumption
  <2>2. \E p \in below : \A q \in below : q <= p
    BY <1>3, <2>1, MaxExists
  <2>3. last \in below
    BY <2>2
  <2>4. NextPosition = last + 1
    BY <1>3 DEF NextPosition, below
  <2> HIDE DEF last
  <2>5. last \in 1 .. CatchAll - 1
    BY <2>3, <1>1
  <2> QED BY <2>4, <2>5, RulesAssumption
<1> QED BY <1>2, <1>3

\* The signature bounds the stamps of the table and is one of them.
LEMMA SignatureBounds ==
    ASSUME RulesTypeOK
    PROVE  /\ Signature \in Keys
           /\ Signature[1] = Cardinality(Rows)
           /\ \A r \in Rows : r.at <= Signature[2]
<1> DEFINE stamps == {r.at : r \in Rows}
<1>1. Cardinality(Rows) \in Nat
  BY RowsTyped, FS_CardinalityType
<1>2. stamps \subseteq 0 .. ruleClock
  BY RowsTyped
<1>3. CASE Rows = {}
  <2>1. Signature = <<Cardinality(Rows), 0>>
    BY <1>3 DEF Signature
  <2> QED BY <1>1, <1>3, <2>1 DEF Keys, RulesTypeOK
<1>4. CASE Rows # {}
  <2> DEFINE last == CHOOSE t \in stamps : \A r \in Rows : r.at <= t
  <2>1. stamps # {}
    BY <1>4
  <2>2. \E t \in stamps : \A u \in stamps : u <= t
    <3> HIDE DEF stamps
    <3> QED BY <1>2, <2>1, MaxExists DEF RulesTypeOK
  <2>3. \E t \in stamps : \A r \in Rows : r.at <= t
    BY <2>2
  <2>4. last \in stamps /\ \A r \in Rows : r.at <= last
    BY <2>3
  <2>5. Signature = <<Cardinality(Rows), last>>
    BY <1>4 DEF Signature
  <2> HIDE DEF last, stamps
  <2> QED BY <1>1, <1>2, <2>4, <2>5 DEF Keys
<1> QED BY <1>3, <1>4

\* What a write does to the table: the row written is the newest.
LEMMA WriteKeeps ==
    ASSUME RulesTypeOK, NEW r \in Rule, Write(r)
    PROVE  /\ rules' \in [RuleIds -> Rule \cup {NoRule}]
           /\ \A i \in RuleIds : rules'[i] # NoRule => rules'[i].id = i /\ rules'[i].at <= ruleClock'
           /\ ruleClock' \in Nat /\ ruleClock' = ruleClock + 1
           /\ \A q \in Rows' : q.at <= ruleClock => q \in Rows
<1> DEFINE w == [r EXCEPT !.at = ruleClock + 1]
<1>1. w \in Rule /\ w.id = r.id /\ w.at = ruleClock + 1 /\ r.id \in RuleIds
  BY DEF RulesTypeOK, Rule
<1>2. rules' = [rules EXCEPT ![r.id] = w] /\ ruleClock' = ruleClock + 1
  BY DEF Write
<1> HIDE DEF w
<1>3. \A i \in RuleIds : rules'[i] = IF i = r.id THEN w ELSE rules[i]
  BY <1>2 DEF RulesTypeOK
<1>4. rules' \in [RuleIds -> Rule \cup {NoRule}]
  BY <1>1, <1>2 DEF RulesTypeOK
<1>5. \A i \in RuleIds : rules[i] # NoRule => rules[i].at \in Nat
  BY DEF RulesTypeOK, Rule
<1>6. ASSUME NEW q \in Rows', q.at <= ruleClock
      PROVE  q \in Rows
  <2>1. PICK i \in RuleIds : rules'[i] # NoRule /\ q = rules'[i]
    BY DEF Rows
  <2>2. i # r.id
    BY <1>1, <1>3, <1>6, <2>1 DEF RulesTypeOK
  <2> QED BY <1>3, <2>1, <2>2 DEF Rows
<1> QED BY <1>1, <1>2, <1>3, <1>4, <1>5, <1>6 DEF RulesTypeOK

-----------------------------------------------------------------------------
(* The calls of administrators *)

\* A step of a call leaves the cache alone, keeps the types, and every rule
\* of the table it leaves was there or is newer than all that were.
AdminStep == \/ \E a \in Admins, all \in BOOLEAN : BeginCreate(a, all)
             \/ \E a \in Admins, i \in RuleIds, all \in BOOLEAN : BeginUpdate(a, i, all)
             \/ \E a \in Admins, i \in RuleIds, p \in 1 .. CatchAll : BeginMove(a, i, p)
             \/ \E a \in Admins : \/ ValidateCreate(a) \/ ValidateUpdate(a) \/ SaveRule(a)
                                  \/ SelectShifted(a) \/ ShiftOne(a) \/ PlaceMoved(a) \/ AdminDies(a)
             \/ \E i \in RuleIds : DeleteRule(i)

LEMMA CallTyped ==
    ASSUME RulesTypeOK, NEW a \in Admins
    PROVE  /\ adm[a].pc # "idle" => adm[a].row \in Rule
           /\ adm[a].pc \in {"create", "update", "save", "move"}
                => adm[a] \in [pc : {"create", "update", "save", "move"}, row : Rule]
           /\ adm[a].pc = "shift"
                => adm[a] \in [pc : {"shift"}, row : Rule, left : SUBSET {r \in Rule : r.pos < CatchAll}]
BY DEF RulesTypeOK, AdminState

LEMMA AdmTyped ==
    ASSUME RulesTypeOK, NEW a \in Admins, NEW m \in AdminState, Adm(a, m)
    PROVE  adm' \in [Admins -> AdminState]
BY DEF RulesTypeOK, Adm

LEMMA AdminStepKeeps ==
    ASSUME RulesTypeOK, AdminStep
    PROVE  /\ RulesTypeOK'
           /\ ruleClock <= ruleClock'
           /\ \A q \in Rows' : q.at <= ruleClock => q \in Rows
           /\ UNCHANGED <<compiled, chk>>
<1>0. /\ NoCall \in AdminState
      /\ \A r \in Rule, pc \in {"create", "update", "save", "move"} : [pc |-> pc, row |-> r] \in AdminState
      /\ ruleClock \in Nat
  BY DEF AdminState, NoCall, RulesTypeOK
<1> DEFINE Goal == /\ RulesTypeOK'
                   /\ ruleClock <= ruleClock'
                   /\ \A q \in Rows' : q.at <= ruleClock => q \in Rows
                   /\ UNCHANGED <<compiled, chk>>
<1>1. ASSUME UNCHANGED <<rules, ruleClock>>, adm' \in [Admins -> AdminState], NotChecks
      PROVE  Goal
  BY <1>0, <1>1 DEF RulesTypeOK, Rows, NotChecks
<1>2. ASSUME NEW r \in Rule, Write(r), adm' \in [Admins -> AdminState], NotChecks
      PROVE  Goal
  BY <1>0, <1>2, WriteKeeps DEF RulesTypeOK, NotChecks
<1> HIDE DEF Goal
<1>3. ASSUME NEW a \in Admins, NEW all \in BOOLEAN, BeginCreate(a, all)
      PROVE  Goal
  <2>1. PICK i \in RuleIds :
            Adm(a, [pc |-> "create", row |-> [id |-> i, pos |-> IF all THEN CatchAll ELSE NextPosition,
                                              all |-> all, at |-> 0]])
    BY <1>3 DEF BeginCreate
  <2>2. [id |-> i, pos |-> IF all THEN CatchAll ELSE NextPosition, all |-> all, at |-> 0] \in Rule
    BY NextPositionTyped, RulesAssumption DEF Rule
  <2>3. adm' \in [Admins -> AdminState]
    BY <1>0, <2>1, <2>2, AdmTyped
  <2> QED BY <1>1, <1>3, <2>3 DEF BeginCreate
<1>4. ASSUME NEW a \in Admins, NEW i \in RuleIds, NEW all \in BOOLEAN, BeginUpdate(a, i, all)
      PROVE  Goal
  <2>1. rules[i] \in Rule
    BY <1>4 DEF BeginUpdate, RulesTypeOK
  <2>2. [rules[i] EXCEPT !.all = all] \in Rule
    BY <2>1 DEF Rule
  <2>3. adm' \in [Admins -> AdminState]
    BY <1>0, <1>4, <2>2, AdmTyped DEF BeginUpdate
  <2> QED BY <1>1, <1>4, <2>3 DEF BeginUpdate
<1>5. ASSUME NEW a \in Admins, NEW i \in RuleIds, NEW p \in 1 .. CatchAll, BeginMove(a, i, p)
      PROVE  Goal
  <2>1. rules[i] \in Rule
    BY <1>5 DEF BeginMove, RulesTypeOK
  <2>2. [rules[i] EXCEPT !.pos = p] \in Rule
    BY <2>1 DEF Rule
  <2>3. adm' \in [Admins -> AdminState]
    BY <1>0, <1>5, <2>2, AdmTyped DEF BeginMove
  <2> QED BY <1>1, <1>5, <2>3 DEF BeginMove
<1>6. ASSUME NEW a \in Admins, ValidateCreate(a)
      PROVE  Goal
  <2>1. [adm[a] EXCEPT !.pc = "save"] \in AdminState
    BY <1>6, CallTyped DEF ValidateCreate, AdminState
  <2>2. adm' \in [Admins -> AdminState]
    BY <1>0, <1>6, <2>1, AdmTyped DEF ValidateCreate
  <2> QED BY <1>1, <1>6, <2>2 DEF ValidateCreate
<1>7. ASSUME NEW a \in Admins, ValidateUpdate(a)
      PROVE  Goal
  <2> DEFINE r == adm[a].row
             pos == IF r.all THEN CatchAll ELSE IF r.pos >= CatchAll THEN NextPosition ELSE r.pos
  <2>1. r \in Rule
    BY <1>7, CallTyped DEF ValidateUpdate
  <2>2. [r EXCEPT !.pos = pos] \in Rule
    BY <2>1, NextPositionTyped, RulesAssumption DEF Rule
  <2>3. adm' \in [Admins -> AdminState]
    BY <1>0, <1>7, <2>2, AdmTyped DEF ValidateUpdate
  <2> QED BY <1>1, <1>7, <2>3 DEF ValidateUpdate
<1>8. ASSUME NEW a \in Admins, SaveRule(a)
      PROVE  Goal
  <2>1. adm[a].row \in Rule /\ adm' \in [Admins -> AdminState]
    BY <1>0, <1>8, CallTyped, AdmTyped DEF SaveRule
  <2> QED BY <1>2, <1>8, <2>1 DEF SaveRule
<1>9. ASSUME NEW a \in Admins, SelectShifted(a)
      PROVE  Goal
  <2> DEFINE r == adm[a].row
             left == {b \in Rows : b.pos >= r.pos /\ b.pos < CatchAll /\ b.id # r.id}
  <2>1. r \in Rule
    BY <1>9, CallTyped DEF SelectShifted
  <2>2. left \subseteq {b \in Rule : b.pos < CatchAll}
    BY RowsTyped
  <2>3. [pc |-> "shift", row |-> r, left |-> left] \in AdminState
    BY <2>1, <2>2 DEF AdminState
  <2>4. adm' \in [Admins -> AdminState]
    BY <1>9, <2>3, AdmTyped DEF SelectShifted
  <2> QED BY <1>1, <1>9, <2>4 DEF SelectShifted
<1>10. ASSUME NEW a \in Admins, ShiftOne(a)
       PROVE  Goal
  <2>1. PICK b \in adm[a].left : /\ Write([b EXCEPT !.pos = @ + 1])
                                 /\ Adm(a, [adm[a] EXCEPT !.left = @ \ {b}])
    BY <1>10 DEF ShiftOne
  <2>2. b \in Rule /\ b.pos < CatchAll
    BY <1>10, CallTyped DEF ShiftOne
  <2>3. [b EXCEPT !.pos = @ + 1] \in Rule
    BY <2>2, RulesAssumption DEF Rule
  <2>4. [adm[a] EXCEPT !.left = @ \ {b}] \in AdminState
    BY <1>10, CallTyped DEF ShiftOne, AdminState
  <2>5. adm' \in [Admins -> AdminState]
    BY <2>1, <2>4, AdmTyped
  <2> QED BY <1>2, <1>10, <2>1, <2>3, <2>5 DEF ShiftOne
<1>11. ASSUME NEW a \in Admins, PlaceMoved(a)
       PROVE  Goal
  <2>1. adm[a].row \in Rule /\ adm' \in [Admins -> AdminState]
    BY <1>0, <1>11, CallTyped, AdmTyped DEF PlaceMoved
  <2> QED BY <1>2, <1>11, <2>1 DEF PlaceMoved
<1>12. ASSUME NEW a \in Admins, AdminDies(a)
       PROVE  Goal
  BY <1>0, <1>1, <1>12, AdmTyped DEF AdminDies
<1>13. ASSUME NEW i \in RuleIds, DeleteRule(i)
       PROVE  Goal
  <2>1. \A j \in RuleIds : rules'[j] = IF j = i THEN NoRule ELSE rules[j]
    BY <1>13 DEF DeleteRule, RulesTypeOK
  <2>2. Rows' \subseteq Rows
    BY <2>1 DEF Rows
  <2>3. RulesTypeOK'
    BY <1>13, <2>1 DEF DeleteRule, RulesTypeOK
  <2> QED BY <1>0, <1>13, <2>2, <2>3 DEF DeleteRule, NotChecks, Goal
<1>14. Goal
  BY <1>3, <1>4, <1>5, <1>6, <1>7, <1>8, <1>9, <1>10, <1>11, <1>12, <1>13 DEF AdminStep
<1> QED BY <1>14 DEF Goal

-----------------------------------------------------------------------------
(* The checks *)

CheckStep == \/ \E c \in Checkers : BeginCheck(c) \/ Compile(c)
             \/ \E e \in compiled : EvictRules(e)

\* An entry found under the signature of the table has every rule of it.
LEMMA HitCovers ==
    ASSUME RulesTypeOK, ChecksTypeOK, EntriesCover, Cached(Signature)
    PROVE  LET e == CHOOSE d \in compiled : d.key = Signature
           IN  e \in compiled /\ e.key = Signature /\ Rows \subseteq e.list /\ e.list \subseteq Rule
<1> DEFINE e == CHOOSE d \in compiled : d.key = Signature
<1>1. e \in compiled /\ e.key = Signature
  BY DEF Cached
<1> HIDE DEF e
<1>2. {r \in Rows : r.at <= e.key[2]} \subseteq e.list /\ e.list \subseteq Rule
  BY <1>1 DEF EntriesCover, ChecksTypeOK
<1>3. Rows \subseteq e.list
  BY <1>1, <1>2, SignatureBounds
<1> QED BY <1>1, <1>2, <1>3 DEF e

LEMMA BeginCheckKeeps ==
    ASSUME RulesInv, NEW c \in Checkers, BeginCheck(c)
    PROVE  RulesInv'
<1> DEFINE m == IF Rows = {} THEN [pc |-> "done", was |-> {}, served |-> {}]
                ELSE IF Cached(Signature)
                THEN [pc |-> "done", was |-> Rows,
                      served |-> (CHOOSE e \in compiled : e.key = Signature).list]
                ELSE [pc |-> "missed", key |-> Signature, was |-> Rows]
<1> USE DEF RulesInv
<1>1. UNCHANGED <<rules, ruleClock, adm, compiled>> /\ chk' = [chk EXCEPT ![c] = m]
  BY DEF BeginCheck, NotAdmins, Chk
<1>2. RulesTypeOK' /\ EntriesCover' /\ Keys' = Keys
  BY <1>1 DEF RulesTypeOK, EntriesCover, Rows, Keys
<1>3. /\ m \in [pc : {"done"}, was : SUBSET Rule, served : SUBSET Rule]
                \cup [pc : {"missed"}, key : Keys, was : SUBSET Rule]
      /\ m.pc = "done" => m.was \subseteq m.served
  <2>1. CASE Rows = {}
    BY <2>1
  <2>2. CASE Rows # {} /\ Cached(Signature)
    <3> DEFINE e == CHOOSE d \in compiled : d.key = Signature
    <3>1. Rows \subseteq e.list /\ e.list \subseteq Rule
      BY <2>2, HitCovers
    <3>2. m = [pc |-> "done", was |-> Rows, served |-> e.list]
      BY <2>2
    <3> HIDE DEF m, e
    <3> QED BY <3>1, <3>2, RowsTyped
  <2>3. CASE Rows # {} /\ ~Cached(Signature)
    <3>1. m = [pc |-> "missed", key |-> Signature, was |-> Rows]
      BY <2>3
    <3> HIDE DEF m
    <3> QED BY <3>1, RowsTyped, SignatureBounds
  <2> QED BY <2>1, <2>2, <2>3
<1> HIDE DEF m
<1>4. ChecksTypeOK'
  BY <1>1, <1>2, <1>3 DEF ChecksTypeOK
<1>5. RulesInForceServed'
  BY <1>1, <1>3 DEF RulesInForceServed, ChecksTypeOK
<1> QED BY <1>2, <1>4, <1>5

LEMMA CompileKeeps ==
    ASSUME RulesInv, NEW c \in Checkers, Compile(c)
    PROVE  RulesInv'
<1> USE DEF RulesInv
<1>1. UNCHANGED <<rules, ruleClock, adm>>
  BY DEF Compile, NotAdmins
<1>2. RulesTypeOK' /\ Keys' = Keys /\ Rows' = Rows
  BY <1>1 DEF RulesTypeOK, Rows, Keys
<1>3. chk[c].key \in Keys /\ chk[c].was \subseteq Rule
  BY DEF Compile, ChecksTypeOK
<1>4. CASE OrderValid(Rows)
  <2> DEFINE e == [key |-> chk[c].key, list |-> Rows]
             m == [pc |-> "done", was |-> chk[c].was \cap Rows, served |-> Rows]
  <2>1. /\ compiled' = {d \in compiled : d.key # chk[c].key} \cup {e}
        /\ chk' = [chk EXCEPT ![c] = m]
    BY <1>4 DEF Compile, Chk
  <2>2. e.key \in Keys /\ e.list = Rows /\ Rows \subseteq Rule
    BY <1>3, RowsTyped
  <2>3. m \in [pc : {"done"}, was : SUBSET Rule, served : SUBSET Rule] /\ m.was \subseteq m.served
    BY <1>3, RowsTyped
  <2> HIDE DEF e, m
  <2>4. ChecksTypeOK'
    BY <1>2, <2>1, <2>2, <2>3 DEF ChecksTypeOK
  <2>5. EntriesCover'
    BY <1>2, <2>1, <2>2 DEF EntriesCover
  <2>6. RulesInForceServed'
    BY <2>1, <2>3 DEF RulesInForceServed, ChecksTypeOK
  <2> QED BY <1>2, <2>4, <2>5, <2>6
<1>5. CASE ~OrderValid(Rows)
  <2>1. compiled' = compiled /\ chk' = [chk EXCEPT ![c] = [pc |-> "idle"]]
    BY <1>5 DEF Compile, Chk, NoCheck
  <2>2. ChecksTypeOK'
    BY <1>2, <2>1 DEF ChecksTypeOK
  <2>3. EntriesCover' /\ RulesInForceServed'
    BY <1>2, <2>1 DEF EntriesCover, RulesInForceServed, ChecksTypeOK
  <2> QED BY <1>2, <2>2, <2>3
<1> QED BY <1>4, <1>5

LEMMA EvictKeeps ==
    ASSUME RulesInv, NEW e \in compiled, EvictRules(e)
    PROVE  RulesInv'
<1> USE DEF RulesInv
<1>1. UNCHANGED <<rules, ruleClock, adm, chk>> /\ compiled' \subseteq compiled
  BY DEF EvictRules, NotAdmins
<1>2. RulesTypeOK' /\ Keys' = Keys /\ Rows' = Rows /\ RulesInForceServed'
  BY <1>1 DEF RulesTypeOK, Rows, Keys, RulesInForceServed
<1>3. ChecksTypeOK' /\ EntriesCover'
  BY <1>1, <1>2 DEF ChecksTypeOK, EntriesCover
<1> QED BY <1>2, <1>3

\* A step of an administrator: every rule an entry must have was one it had.
LEMMA AdminsKeepCover ==
    ASSUME RulesInv, AdminStep
    PROVE  RulesInv'
<1> USE DEF RulesInv
<1>1. /\ RulesTypeOK' /\ ruleClock \in Nat /\ ruleClock' \in Nat /\ ruleClock <= ruleClock'
      /\ \A q \in Rows' : q.at <= ruleClock => q \in Rows
      /\ UNCHANGED <<compiled, chk>>
  BY AdminStepKeeps DEF RulesTypeOK
<1>2. Keys \subseteq Keys'
  BY <1>1 DEF Keys
<1>3. ChecksTypeOK'
  BY <1>1, <1>2 DEF ChecksTypeOK
<1>4. EntriesCover'
  <2> SUFFICES ASSUME NEW e \in compiled, NEW r \in Rows', r.at <= e.key[2]
               PROVE  r \in e.list
    BY <1>1 DEF EntriesCover
  <2>1. e.key[2] \in 0 .. ruleClock
    BY DEF ChecksTypeOK, Keys
  <2>2. r.at \in Nat
    BY <1>1 DEF RulesTypeOK, Rows, Rule
  <2>3. r \in Rows
    BY <1>1, <2>1, <2>2
  <2> QED BY <2>3 DEF EntriesCover
<1>5. RulesInForceServed'
  BY <1>1 DEF RulesInForceServed
<1> QED BY <1>1, <1>3, <1>4, <1>5

\* However edits, checks, evictions and lost moves interleave, a check serves
\* every rule that stays in the table unchanged while it gets its list.
THEOREM RulesServed == RulesSpec => []RulesInForceServed
<1>1. RulesInit => RulesInv
  <2> SUFFICES ASSUME RulesInit PROVE RulesInv
    OBVIOUS
  <2>1. RulesTypeOK
    BY DEF RulesInit, RulesTypeOK, AdminState, NoCall
  <2>2. ChecksTypeOK /\ EntriesCover /\ RulesInForceServed
    BY DEF RulesInit, ChecksTypeOK, EntriesCover, RulesInForceServed, NoCheck
  <2> QED BY <2>1, <2>2 DEF RulesInv
<1>2. RulesInv /\ [RulesNext]_ruleVars => RulesInv'
  <2> SUFFICES ASSUME RulesInv, [RulesNext]_ruleVars PROVE RulesInv'
    OBVIOUS
  <2>1. CASE AdminStep
    BY <2>1, AdminsKeepCover
  <2>2. CASE CheckStep
    BY <2>2, BeginCheckKeeps, CompileKeeps, EvictKeeps DEF CheckStep
  <2>3. CASE UNCHANGED ruleVars
    BY <2>3 DEF ruleVars, RulesInv, RulesTypeOK, ChecksTypeOK, EntriesCover,
                RulesInForceServed, Rows, Keys
  <2>4. RulesNext => AdminStep \/ CheckStep
    BY DEF RulesNext, AdminStep, CheckStep
  <2> QED BY <2>1, <2>2, <2>3, <2>4
<1>3. RulesInv => RulesInForceServed
  BY DEF RulesInv
<1> QED BY <1>1, <1>2, <1>3, PTL DEF RulesSpec

-----------------------------------------------------------------------------
(* One after the other *)

\* While calls and checks do not overlap, a check that has missed is alone with
\* the table it saw, and the first half of a key is the size of its list.
AloneInv ==
    ruleMode = "alone" =>
      /\ \A c \in Checkers : chk[c].pc = "missed" =>
            /\ chk[c].was = Rows /\ chk[c].key = Signature
            /\ \A a \in Admins : adm[a].pc = "idle"
      /\ \A e \in compiled : IsFiniteSet(e.list) /\ e.key[1] = Cardinality(e.list)

OneByOneInv == RulesInv /\ AloneInv /\ ServedListIsTable

LEMMA NobodyMovesDuringCheck ==
    ASSUME OneByOneInv, AdminStep, ruleMode = "alone", NEW c \in Checkers
    PROVE  chk[c].pc # "missed"
<1> SUFFICES ASSUME chk[c].pc = "missed" PROVE FALSE
  OBVIOUS
<1>1. \A a \in Admins : adm[a].pc = "idle"
  BY DEF OneByOneInv, AloneInv
<1>2. ~MayBegin
  BY DEF MayBegin, RulesAtRest
<1> QED BY <1>1, <1>2 DEF AdminStep, BeginCreate, BeginUpdate, BeginMove, ValidateCreate, ValidateUpdate,
                          SaveRule, SelectShifted, ShiftOne, PlaceMoved, AdminDies, DeleteRule

\* As many rules as the table, and every rule of the table: the table.
LEMMA HitIsTable ==
    ASSUME OneByOneInv, ruleMode = "alone", Cached(Signature)
    PROVE  (CHOOSE d \in compiled : d.key = Signature).list = Rows
<1> DEFINE e == CHOOSE d \in compiled : d.key = Signature
<1>1. e \in compiled /\ e.key = Signature /\ Rows \subseteq e.list
  BY HitCovers DEF OneByOneInv, RulesInv
<1> HIDE DEF e
<1>2. IsFiniteSet(e.list) /\ Cardinality(e.list) = Cardinality(Rows)
  BY <1>1, SignatureBounds DEF OneByOneInv, AloneInv, RulesInv
<1>3. e.list = Rows
  BY <1>1, <1>2, FS_Subset
<1> QED BY <1>3 DEF e

\* While calls and checks come one after the other, a check applies exactly
\* the rules of the table: the signature tells any two tables apart.
THEOREM ServedIsTable == RulesSpec => []ServedListIsTable
<1>1. RulesInit => OneByOneInv
  <2> SUFFICES ASSUME RulesInit PROVE OneByOneInv
    OBVIOUS
  <2>1. RulesInv
    <3>1. RulesTypeOK
      BY DEF RulesInit, RulesTypeOK, AdminState, NoCall
    <3>2. ChecksTypeOK /\ EntriesCover /\ RulesInForceServed
      BY DEF RulesInit, ChecksTypeOK, EntriesCover, RulesInForceServed, NoCheck
    <3> QED BY <3>1, <3>2 DEF RulesInv
  <2> QED BY <2>1 DEF RulesInit, OneByOneInv, AloneInv, ServedListIsTable, NoCheck
<1>2. OneByOneInv /\ [RulesNext]_ruleVars => OneByOneInv'
  <2> SUFFICES ASSUME OneByOneInv, [RulesNext]_ruleVars PROVE OneByOneInv'
    OBVIOUS
  <2> USE DEF OneByOneInv
  <2>1. CASE AdminStep
    <3>1. RulesInv' /\ UNCHANGED <<compiled, chk, ruleMode>>
      <4>1. NotChecks
        BY <2>1 DEF AdminStep, BeginCreate, BeginUpdate, BeginMove, ValidateCreate, ValidateUpdate,
                    SaveRule, SelectShifted, ShiftOne, PlaceMoved, AdminDies, DeleteRule
      <4> QED BY <4>1, <2>1, AdminsKeepCover DEF NotChecks
    <3>2. ruleMode = "alone" => \A c \in Checkers : chk[c].pc # "missed"
      BY <2>1, NobodyMovesDuringCheck
    <3> QED BY <3>1, <3>2 DEF AloneInv, ServedListIsTable
  <2>2. ASSUME NEW c \in Checkers, BeginCheck(c) PROVE OneByOneInv'
    <3>1. RulesInv' /\ UNCHANGED <<rules, ruleClock, adm, compiled, ruleMode>>
      BY <2>2, BeginCheckKeeps DEF BeginCheck, NotAdmins
    <3>2. Rows' = Rows
      BY <3>1 DEF Rows
    <3>3. Signature' = Signature
      BY <3>2 DEF Signature
    <3>4. ruleMode = "alone" => /\ \A a \in Admins : adm[a].pc = "idle"
                                /\ \A d \in Checkers : chk[d].pc # "missed"
      BY <2>2 DEF BeginCheck, MayBegin, RulesAtRest
    <3>5. chk \in [Checkers -> [pc : {"idle"}]
                              \cup [pc : {"done"}, was : SUBSET Rule, served : SUBSET Rule]
                              \cup [pc : {"missed"}, key : Keys, was : SUBSET Rule]]
      BY DEF RulesInv, ChecksTypeOK
    <3>6. CASE Rows = {}
      <4>1. chk' = [chk EXCEPT ![c] = [pc |-> "done", was |-> {}, served |-> {}]]
        BY <2>2, <3>6 DEF BeginCheck, Chk
      <4> QED BY <3>1, <3>4, <3>5, <4>1 DEF AloneInv, ServedListIsTable
    <3>7. CASE Rows # {} /\ Cached(Signature)
      <4> DEFINE list == (CHOOSE e \in compiled : e.key = Signature).list
      <4>1. chk' = [chk EXCEPT ![c] = [pc |-> "done", was |-> Rows, served |-> list]]
        BY <2>2, <3>7 DEF BeginCheck, Chk
      <4>2. ruleMode = "alone" => list = Rows
        BY <3>7, HitIsTable
      <4> HIDE DEF list
      <4> QED BY <3>1, <3>4, <3>5, <4>1, <4>2 DEF AloneInv, ServedListIsTable
    <3>8. CASE Rows # {} /\ ~Cached(Signature)
      <4>1. chk' = [chk EXCEPT ![c] = [pc |-> "missed", key |-> Signature, was |-> Rows]]
        BY <2>2, <3>8 DEF BeginCheck, Chk
      <4> HIDE DEF Signature
      <4> QED BY <3>1, <3>2, <3>3, <3>4, <3>5, <4>1 DEF AloneInv, ServedListIsTable
    <3> QED BY <3>6, <3>7, <3>8
  <2>3. ASSUME NEW c \in Checkers, Compile(c) PROVE OneByOneInv'
    <3>1. RulesInv' /\ UNCHANGED <<rules, ruleClock, adm, ruleMode>>
      BY <2>3, CompileKeeps DEF Compile, NotAdmins
    <3>2. Rows' = Rows
      BY <3>1 DEF Rows
    <3>3. Signature' = Signature
      BY <3>2 DEF Signature
    <3>4. chk \in [Checkers -> [pc : {"idle"}]
                              \cup [pc : {"done"}, was : SUBSET Rule, served : SUBSET Rule]
                              \cup [pc : {"missed"}, key : Keys, was : SUBSET Rule]]
      BY DEF RulesInv, ChecksTypeOK
    <3>5. CASE OrderValid(Rows)
      <4>1. /\ compiled' = {d \in compiled : d.key # chk[c].key} \cup {[key |-> chk[c].key, list |-> Rows]}
            /\ chk' = [chk EXCEPT ![c] = [pc |-> "done", was |-> chk[c].was \cap Rows, served |-> Rows]]
        BY <2>3, <3>5 DEF Compile, Chk
      <4>2. ruleMode = "alone" => chk[c].was = Rows /\ chk[c].key[1] = Cardinality(Rows)
        BY <2>3, SignatureBounds DEF Compile, AloneInv, RulesInv
      <4>3. IsFiniteSet(Rows)
        BY RowsTyped DEF RulesInv
      <4>4. ServedListIsTable'
        BY <3>1, <3>4, <4>1, <4>2 DEF ServedListIsTable
      <4>5. ASSUME ruleMode = "alone", NEW d \in Checkers, chk'[d].pc = "missed"
            PROVE  /\ chk'[d].was = Rows' /\ chk'[d].key = Signature'
                   /\ \A a \in Admins : adm'[a].pc = "idle"
        <5>1. d # c /\ chk'[d] = chk[d]
          BY <3>4, <4>1, <4>5
        <5> HIDE DEF Signature
        <5> QED BY <3>1, <3>2, <3>3, <4>5, <5>1 DEF AloneInv
      <4>6. ASSUME ruleMode = "alone", NEW e \in compiled'
            PROVE  IsFiniteSet(e.list) /\ e.key[1] = Cardinality(e.list)
        BY <4>1, <4>2, <4>3, <4>6 DEF AloneInv
      <4> QED BY <3>1, <4>4, <4>5, <4>6 DEF AloneInv
    <3>6. CASE ~OrderValid(Rows)
      <4>1. compiled' = compiled /\ chk' = [chk EXCEPT ![c] = [pc |-> "idle"]]
        BY <2>3, <3>6 DEF Compile, Chk, NoCheck
      <4> QED BY <3>1, <3>2, <3>3, <3>4, <4>1 DEF AloneInv, ServedListIsTable
    <3> QED BY <3>5, <3>6
  <2>4. ASSUME NEW e \in compiled, EvictRules(e) PROVE OneByOneInv'
    <3>1. RulesInv' /\ UNCHANGED <<rules, ruleClock, adm, chk, ruleMode>> /\ compiled' \subseteq compiled
      BY <2>4, EvictKeeps DEF EvictRules, NotAdmins
    <3>2. Rows' = Rows
      BY <3>1 DEF Rows
    <3>3. Signature' = Signature
      BY <3>2 DEF Signature
    <3> QED BY <3>1, <3>2, <3>3 DEF AloneInv, ServedListIsTable
  <2>5. CASE UNCHANGED ruleVars
    <3>1. RulesInv'
      BY <2>5 DEF ruleVars, RulesInv, RulesTypeOK, ChecksTypeOK, EntriesCover, RulesInForceServed, Rows, Keys
    <3>2. Rows' = Rows
      BY <2>5 DEF ruleVars, Rows
    <3>3. Signature' = Signature
      BY <3>2 DEF Signature
    <3> QED BY <2>5, <3>1, <3>2, <3>3 DEF ruleVars, AloneInv, ServedListIsTable
  <2>6. RulesNext => AdminStep \/ CheckStep
    BY DEF RulesNext, AdminStep, CheckStep
  <2> QED BY <2>1, <2>2, <2>3, <2>4, <2>5, <2>6 DEF CheckStep
<1>3. OneByOneInv => ServedListIsTable
  BY DEF OneByOneInv
<1> QED BY <1>1, <1>2, <1>3, PTL DEF RulesSpec

-----------------------------------------------------------------------------
(* The order *)

\* At most one rule of the table has a catch-all pattern, in the last position.
OneCatchAll ==
    /\ \A i \in RuleIds : rules[i] # NoRule /\ rules[i].all => rules[i].pos = CatchAll
    /\ \A i, j \in RuleIds : rules[i] # NoRule /\ rules[j] # NoRule /\ rules[i].all /\ rules[j].all => i = j

\* A row that may be written: if its pattern is catch-all no other row's is.
Fits(r) == r.all => /\ r.pos = CatchAll
                    /\ \A j \in RuleIds \ {r.id} : rules[j] # NoRule => ~rules[j].all

CallFits(a) ==
    /\ adm[a].pc = "create" => rules[adm[a].row.id] = NoRule /\ (adm[a].row.all => adm[a].row.pos = CatchAll)
    /\ adm[a].pc = "update" => rules[adm[a].row.id] # NoRule
    /\ adm[a].pc \in {"save", "move", "shift"} => Fits(adm[a].row)
    /\ adm[a].pc = "shift" => \A r \in adm[a].left : ~r.all

AllAloneInv ==
    ruleMode = "alone" =>
      /\ OneCatchAll
      /\ \A a, b \in Admins : adm[a].pc # "idle" /\ adm[b].pc # "idle" => a = b
      /\ \A a \in Admins : CallFits(a)

\* Such a table is in order if nothing else is in the last position.
LEMMA OneCatchAllCompiles ==
    ASSUME RulesTypeOK, OneCatchAll, \A r \in Rows : ~r.all => r.pos < CatchAll
    PROVE  OrderValid(Rows)
<1> SUFFICES ASSUME NEW a \in Rows, a.all, NEW b \in Rows \ {a}
             PROVE  Before(b, a)
  BY DEF OrderValid
<1>1. rules[a.id] = a /\ rules[b.id] = b /\ a.id \in RuleIds /\ b.id \in RuleIds /\ a # NoRule /\ b # NoRule
  BY RowsTyped DEF Rows, RulesTypeOK
<1>2. a.pos = CatchAll /\ ~b.all
  BY <1>1 DEF OneCatchAll
<1>3. b.pos < a.pos
  BY <1>2
<1> QED BY <1>3 DEF Before

LEMMA FitWritten ==
    ASSUME RulesTypeOK, OneCatchAll, NEW r \in Rule, Fits(r), Write(r)
    PROVE  OneCatchAll'
<1> DEFINE w == [r EXCEPT !.at = ruleClock + 1]
<1>1. w.all = r.all /\ w.pos = r.pos /\ r.id \in RuleIds
  BY DEF Rule
<1>2. rules' = [rules EXCEPT ![r.id] = w]
  BY DEF Write
<1> HIDE DEF w
<1>3. \A i \in RuleIds : rules'[i] = IF i = r.id THEN w ELSE rules[i]
  BY <1>2 DEF RulesTypeOK
<1>4. \A i \in RuleIds : rules'[i] # NoRule /\ rules'[i].all => rules'[i].pos = CatchAll
  BY <1>1, <1>3 DEF OneCatchAll, Fits
<1>5. ASSUME NEW i \in RuleIds, NEW j \in RuleIds, rules'[i] # NoRule, rules'[j] # NoRule,
             rules'[i].all, rules'[j].all
      PROVE  i = j
  BY <1>1, <1>3, <1>5 DEF OneCatchAll, Fits
<1> QED BY <1>4, <1>5 DEF OneCatchAll

\* What validation lets through: the order has no place for two of them.
LEMMA CreateFits ==
    ASSUME RulesTypeOK, OneCatchAll, NEW r \in Rule, r.all => r.pos = CatchAll, InsertValid(Rows, r)
    PROVE  Fits(r)
<1> SUFFICES ASSUME r.all, NEW j \in RuleIds \ {r.id}, rules[j] # NoRule, rules[j].all
             PROVE  FALSE
  BY DEF Fits
<1>1. rules[j] \in Rows /\ rules[j].pos = CatchAll
  BY DEF Rows, OneCatchAll
<1>2. r.pos < rules[j].pos
  BY <1>1 DEF InsertValid
<1> QED BY <1>1, <1>2, RulesAssumption

LEMMA UpdateFits ==
    ASSUME RulesTypeOK, NEW r \in Rule, rules[r.id] # NoRule, r.all,
           OrderValid({IF b.id = r.id THEN [b EXCEPT !.all = r.all] ELSE b : b \in Rows}),
           NEW j \in RuleIds \ {r.id}, rules[j] # NoRule, rules[j].all
    PROVE  FALSE
<1> DEFINE ordered == {IF b.id = r.id THEN [b EXCEPT !.all = r.all] ELSE b : b \in Rows}
           x == [rules[r.id] EXCEPT !.all = r.all]
           y == rules[j]
<1>1. /\ r.id \in RuleIds /\ rules[r.id] \in Rows /\ y \in Rows
      /\ rules[r.id].id = r.id /\ y.id = j /\ rules[r.id] \in Rule /\ y \in Rule
  BY DEF Rows, RulesTypeOK, Rule
<1>2. x \in Rule /\ x.all /\ x.id = r.id
  BY <1>1 DEF Rule
<1>3. x \in ordered /\ y \in ordered
  BY <1>1
<1>4. x.pos \in Nat /\ y.pos \in Nat /\ x.id \in Nat /\ y.id \in Nat /\ x # y
  BY <1>1, <1>2, RulesAssumption DEF Rule
<1> HIDE DEF ordered, x, y
<1>5. y.all
  BY DEF y
<1>6. Before(y, x) /\ Before(x, y)
  <2>1. OrderValid(ordered)
    BY DEF ordered
  <2> QED BY <1>2, <1>3, <1>4, <1>5, <2>1 DEF OrderValid
<1> QED BY <1>4, <1>6 DEF Before

\* A call that holds another row than before, of a table that has not changed.
LEMMA CallMoves ==
    ASSUME RulesTypeOK, AllAloneInv, ruleMode = "alone", NEW a \in Admins, NEW m \in AdminState,
           adm' = [adm EXCEPT ![a] = m], UNCHANGED <<rules, ruleMode>>,
           \A b \in Admins \ {a} : adm[b].pc = "idle",
           m.pc = "create" => rules[m.row.id] = NoRule /\ (m.row.all => m.row.pos = CatchAll),
           m.pc = "update" => rules[m.row.id] # NoRule,
           m.pc \in {"save", "move", "shift"} => Fits(m.row),
           m.pc = "shift" => \A r \in m.left : ~r.all
    PROVE  AllAloneInv'
<1>1. \A b \in Admins : adm'[b] = IF b = a THEN m ELSE adm[b]
  BY DEF RulesTypeOK
<1>2. OneCatchAll'
  BY DEF AllAloneInv, OneCatchAll
<1>3. \A b, c \in Admins : adm'[b].pc # "idle" /\ adm'[c].pc # "idle" => b = c
  BY <1>1
<1>4. ASSUME NEW b \in Admins PROVE CallFits(b)'
  <2>1. CASE b = a
    <3>1. adm'[b] = m
      BY <1>1, <2>1
    <3> QED BY <3>1 DEF CallFits, Fits
  <2>2. CASE b # a
    <3>1. adm'[b].pc = "idle"
      BY <1>1, <2>2
    <3> QED BY <3>1 DEF CallFits
  <2> QED BY <2>1, <2>2
<1> QED BY <1>2, <1>3, <1>4 DEF AllAloneInv

\* A call that has written: it holds nothing, or has fewer rules to shift.
LEMMA AloneStepKeeps ==
    ASSUME RulesTypeOK, AllAloneInv, AdminStep, ruleMode = "alone"
    PROVE  AllAloneInv'
<1>0. /\ OneCatchAll /\ ruleMode' = ruleMode
      /\ NoCall \in AdminState /\ NoCall.pc = "idle" /\ NoCall = [pc |-> "idle"]
      /\ \A r \in Rule, pc \in {"create", "update", "save", "move"} : [pc |-> pc, row |-> r] \in AdminState
  <2>1. NotChecks
    BY DEF AdminStep, BeginCreate, BeginUpdate, BeginMove, ValidateCreate, ValidateUpdate,
           SaveRule, SelectShifted, ShiftOne, PlaceMoved, AdminDies, DeleteRule
  <2> QED BY <2>1 DEF AllAloneInv, NotChecks, AdminState, NoCall
<1>1. \A a \in Admins : adm[a].pc # "idle" => \A b \in Admins \ {a} : adm[b].pc = "idle"
  BY DEF AllAloneInv
<1>2. MayBegin => \A b \in Admins : adm[b].pc = "idle"
  BY DEF MayBegin, RulesAtRest
<1>3. \A a \in Admins : CallFits(a)
  BY DEF AllAloneInv
<1>4. ASSUME NEW a \in Admins, NEW all \in BOOLEAN, BeginCreate(a, all)
      PROVE  AllAloneInv'
  <2>1. PICK i \in RuleIds : rules[i] = NoRule /\
            Adm(a, [pc |-> "create", row |-> [id |-> i, pos |-> IF all THEN CatchAll ELSE NextPosition,
                                              all |-> all, at |-> 0]])
    BY <1>4 DEF BeginCreate
  <2> DEFINE r == [id |-> i, pos |-> IF all THEN CatchAll ELSE NextPosition, all |-> all, at |-> 0]
             m == [pc |-> "create", row |-> r]
  <2>2. r \in Rule /\ r.id = i /\ (r.all => r.pos = CatchAll)
    BY NextPositionTyped, RulesAssumption DEF Rule
  <2>3. adm' = [adm EXCEPT ![a] = m] /\ UNCHANGED <<rules, ruleMode>>
    BY <1>0, <1>4, <2>1 DEF BeginCreate, Adm
  <2>4. m \in AdminState /\ m.pc = "create" /\ m.row = r
    BY <1>0, <2>2
  <2> HIDE DEF m, r
  <2> QED BY <1>2, <1>4, <2>1, <2>2, <2>3, <2>4, CallMoves DEF BeginCreate
<1>5. ASSUME NEW a \in Admins, NEW i \in RuleIds, NEW all \in BOOLEAN, BeginUpdate(a, i, all)
      PROVE  AllAloneInv'
  <2> DEFINE r == [rules[i] EXCEPT !.all = all]
             m == [pc |-> "update", row |-> r]
  <2>1. r \in Rule /\ r.id = i /\ rules[i] # NoRule
    BY <1>5 DEF BeginUpdate, RulesTypeOK, Rule
  <2>2. adm' = [adm EXCEPT ![a] = m] /\ UNCHANGED <<rules, ruleMode>>
    BY <1>0, <1>5 DEF BeginUpdate, Adm
  <2>3. m \in AdminState /\ m.pc = "update" /\ m.row = r
    BY <1>0, <2>1
  <2> HIDE DEF m, r
  <2> QED BY <1>2, <1>5, <2>1, <2>2, <2>3, CallMoves DEF BeginUpdate
<1>6. ASSUME NEW a \in Admins, NEW i \in RuleIds, NEW p \in 1 .. CatchAll, BeginMove(a, i, p)
      PROVE  AllAloneInv'
  <2> DEFINE r == [rules[i] EXCEPT !.pos = p]
             m == [pc |-> "move", row |-> r]
  <2>1. r \in Rule /\ r.id = i /\ r.all = rules[i].all /\ r.pos = p /\ rules[i] # NoRule
    BY <1>6 DEF BeginMove, RulesTypeOK, Rule
  <2>2. adm' = [adm EXCEPT ![a] = m] /\ UNCHANGED <<rules, ruleMode>>
    BY <1>0, <1>6 DEF BeginMove, Adm
  <2>3. m \in AdminState /\ m.pc = "move" /\ m.row = r
    BY <1>0, <2>1
  <2>4. Fits(r)
    BY <1>0, <1>6, <2>1 DEF Fits, BeginMove, OneCatchAll
  <2> HIDE DEF m, r
  <2> QED BY <1>2, <1>6, <2>1, <2>2, <2>3, <2>4, CallMoves DEF BeginMove
<1>7. ASSUME NEW a \in Admins, ValidateCreate(a)
      PROVE  AllAloneInv'
  <2> DEFINE m == IF InsertValid(Rows, adm[a].row) THEN [adm[a] EXCEPT !.pc = "save"] ELSE NoCall
  <2>1. adm' = [adm EXCEPT ![a] = m] /\ UNCHANGED <<rules, ruleMode>> /\ adm[a].pc = "create"
    BY <1>0, <1>7 DEF ValidateCreate, Adm
  <2>2. CASE InsertValid(Rows, adm[a].row)
    <3>1. m = [adm[a] EXCEPT !.pc = "save"]
      BY <2>2
    <3>2. m \in AdminState /\ m.pc = "save" /\ m.row = adm[a].row /\ adm[a].row \in Rule
      BY <2>1, <3>1, CallTyped DEF AdminState
    <3>3. Fits(adm[a].row)
      BY <1>0, <1>3, <2>1, <2>2, <3>2, CreateFits DEF CallFits
    <3> HIDE DEF m
    <3> QED BY <1>1, <2>1, <3>2, <3>3, CallMoves
  <2>3. CASE ~InsertValid(Rows, adm[a].row)
    <3>1. m = NoCall
      BY <2>3
    <3> HIDE DEF m
    <3> QED BY <1>0, <1>1, <2>1, <3>1, CallMoves
  <2> QED BY <2>2, <2>3
<1>8. ASSUME NEW a \in Admins, ValidateUpdate(a)
      PROVE  AllAloneInv'
  <2> DEFINE r == adm[a].row
             ordered == {IF b.id = r.id THEN [b EXCEPT !.all = r.all] ELSE b : b \in Rows}
             pos == IF r.all THEN CatchAll ELSE IF r.pos >= CatchAll THEN NextPosition ELSE r.pos
             m == IF OrderValid(ordered) THEN [pc |-> "save", row |-> [r EXCEPT !.pos = pos]] ELSE NoCall
  <2>1. adm' = [adm EXCEPT ![a] = m] /\ UNCHANGED <<rules, ruleMode>> /\ adm[a].pc = "update"
    BY <1>0, <1>8 DEF ValidateUpdate, Adm
  <2>2. r \in Rule /\ rules[r.id] # NoRule
    BY <1>3, <2>1, CallTyped DEF CallFits
  <2>3. CASE OrderValid(ordered)
    <3> DEFINE s == [r EXCEPT !.pos = pos]
    <3>1. s \in Rule /\ s.id = r.id /\ s.all = r.all /\ (s.all => s.pos = CatchAll)
      BY <2>2, NextPositionTyped, RulesAssumption DEF Rule
    <3>2. m = [pc |-> "save", row |-> s]
      BY <2>3
    <3>3. r.all => \A j \in RuleIds \ {r.id} : rules[j] # NoRule => ~rules[j].all
      BY <2>2, <2>3, UpdateFits
    <3> HIDE DEF m, s, ordered, pos
    <3>4. m \in AdminState /\ m.pc = "save" /\ m.row = s
      BY <1>0, <3>1, <3>2
    <3>5. Fits(s)
      BY <3>1, <3>3 DEF Fits
    <3> QED BY <1>1, <2>1, <3>4, <3>5, CallMoves
  <2>4. CASE ~OrderValid(ordered)
    <3>1. m = NoCall
      BY <2>4
    <3> HIDE DEF m
    <3> QED BY <1>0, <1>1, <2>1, <3>1, CallMoves
  <2> QED BY <2>3, <2>4
<1>9. ASSUME NEW a \in Admins, SelectShifted(a)
      PROVE  AllAloneInv'
  <2> DEFINE r == adm[a].row
             left == {b \in Rows : b.pos >= r.pos /\ b.pos < CatchAll /\ b.id # r.id}
             m == [pc |-> "shift", row |-> r, left |-> left]
  <2>1. adm' = [adm EXCEPT ![a] = m] /\ UNCHANGED <<rules, ruleMode>> /\ adm[a].pc = "move"
    BY <1>0, <1>9 DEF SelectShifted, Adm
  <2>2. r \in Rule /\ Fits(r)
    BY <1>3, <2>1, CallTyped DEF CallFits
  <2>3. left \subseteq {b \in Rule : b.pos < CatchAll}
    BY RowsTyped
  <2>4. \A b \in left : ~b.all
    BY <1>0, RulesAssumption DEF OneCatchAll, Rows
  <2>5. m \in AdminState /\ m.pc = "shift" /\ m.row = r /\ m.left = left
    BY <2>2, <2>3 DEF AdminState
  <2> HIDE DEF m, left
  <2> QED BY <1>1, <2>1, <2>2, <2>4, <2>5, CallMoves
<1>10. ASSUME NEW a \in Admins, ShiftOne(a)
       PROVE  AllAloneInv'
  <2>1. PICK b \in adm[a].left : /\ Write([b EXCEPT !.pos = @ + 1])
                                 /\ Adm(a, [adm[a] EXCEPT !.left = @ \ {b}])
    BY <1>10 DEF ShiftOne
  <2>2. adm[a].pc = "shift" /\ b \in Rule /\ b.pos < CatchAll /\ ~b.all /\ Fits(adm[a].row)
    BY <1>3, <1>10, <2>1, CallTyped DEF ShiftOne, CallFits
  <2>3. [b EXCEPT !.pos = @ + 1] \in Rule /\ ~[b EXCEPT !.pos = @ + 1].all
    BY <2>2, RulesAssumption DEF Rule
  <2>4. OneCatchAll'
    BY <1>0, <2>1, <2>3, FitWritten DEF Fits
  <2>5. \A j \in RuleIds : rules'[j] # NoRule /\ rules'[j].all => rules[j] # NoRule /\ rules[j].all
    <3> DEFINE w == [b EXCEPT !.pos = @ + 1]
               v == [w EXCEPT !.at = ruleClock + 1]
    <3>1. ~v.all /\ w.id \in RuleIds
      BY <2>2, <2>3 DEF Rule
    <3>2. rules' = [rules EXCEPT ![w.id] = v]
      BY <2>1 DEF Write
    <3> HIDE DEF v, w
    <3> QED BY <3>1, <3>2 DEF RulesTypeOK
  <2>6. adm' = [adm EXCEPT ![a] = [adm[a] EXCEPT !.left = @ \ {b}]]
    BY <2>1 DEF Adm
  <2>7. /\ adm'[a].pc = "shift" /\ adm'[a].row = adm[a].row /\ adm'[a].left \subseteq adm[a].left
        /\ \A c \in Admins \ {a} : adm'[c].pc = "idle"
    BY <1>1, <2>2, <2>6, CallTyped DEF RulesTypeOK
  <2>8. \A c \in Admins : CallFits(c)'
    BY <1>3, <2>2, <2>5, <2>7 DEF CallFits, Fits
  <2> QED BY <1>0, <2>4, <2>7, <2>8 DEF AllAloneInv
<1>11. ASSUME NEW a \in Admins, adm[a].pc \in {"save", "shift"}, Write(adm[a].row), Adm(a, NoCall)
       PROVE  AllAloneInv'
  <2>1. adm[a].row \in Rule /\ Fits(adm[a].row)
    BY <1>3, <1>11, CallTyped DEF CallFits
  <2>2. OneCatchAll'
    BY <1>0, <1>11, <2>1, FitWritten
  <2>3. \A c \in Admins : adm'[c].pc = "idle"
    BY <1>0, <1>1, <1>11 DEF Adm, RulesTypeOK
  <2> QED BY <1>0, <2>2, <2>3 DEF AllAloneInv, CallFits
<1>12. ASSUME NEW a \in Admins, AdminDies(a)
       PROVE  AllAloneInv'
  BY <1>0, <1>1, <1>12, CallMoves DEF AdminDies, Adm
<1>13. ASSUME NEW i \in RuleIds, DeleteRule(i)
       PROVE  AllAloneInv'
  <2>1. \A j \in RuleIds : rules'[j] = IF j = i THEN NoRule ELSE rules[j]
    BY <1>13 DEF DeleteRule, RulesTypeOK
  <2>2. OneCatchAll'
    BY <1>0, <2>1 DEF OneCatchAll
  <2>3. \A c \in Admins : adm'[c].pc = "idle"
    BY <1>2, <1>13 DEF DeleteRule
  <2> QED BY <1>0, <2>2, <2>3 DEF AllAloneInv, CallFits
<1> QED BY <1>4, <1>5, <1>6, <1>7, <1>8, <1>9, <1>10, <1>11, <1>12, <1>13
        DEF AdminStep, SaveRule, PlaceMoved

\* While calls come one after the other, a move that is lost in the middle
\* included, the table compiles unless a rule was shifted to the last position.
THEOREM TableCompiles == RulesSpec => []RulesCompile
<1> DEFINE Inv == RulesInv /\ AllAloneInv
<1>1. RulesInit => Inv
  <2> SUFFICES ASSUME RulesInit PROVE Inv
    OBVIOUS
  <2>1. RulesTypeOK
    BY DEF RulesInit, RulesTypeOK, AdminState, NoCall
  <2>2. ChecksTypeOK /\ EntriesCover /\ RulesInForceServed
    BY DEF RulesInit, ChecksTypeOK, EntriesCover, RulesInForceServed, NoCheck
  <2>3. AllAloneInv
    BY DEF RulesInit, AllAloneInv, OneCatchAll, CallFits, NoCall
  <2> QED BY <2>1, <2>2, <2>3 DEF RulesInv
<1>2. Inv /\ [RulesNext]_ruleVars => Inv'
  <2> SUFFICES ASSUME RulesInv, AllAloneInv, [RulesNext]_ruleVars PROVE Inv'
    OBVIOUS
  <2>1. CASE AdminStep
    <3>1. ruleMode' = ruleMode
      <4>1. NotChecks
        BY <2>1 DEF AdminStep, BeginCreate, BeginUpdate, BeginMove, ValidateCreate, ValidateUpdate,
                    SaveRule, SelectShifted, ShiftOne, PlaceMoved, AdminDies, DeleteRule
      <4> QED BY <4>1 DEF NotChecks
    <3>2. ruleMode = "alone" => AllAloneInv'
      BY <2>1, AloneStepKeeps DEF RulesInv
    <3>3. ruleMode # "alone" => AllAloneInv'
      BY <3>1 DEF AllAloneInv
    <3> QED BY <2>1, <3>2, <3>3, AdminsKeepCover
  <2>2. CASE CheckStep
    <3>1. RulesInv'
      BY <2>2, BeginCheckKeeps, CompileKeeps, EvictKeeps DEF CheckStep
    <3>2. UNCHANGED <<rules, ruleMode, adm>>
      BY <2>2 DEF CheckStep, BeginCheck, Compile, EvictRules, NotAdmins
    <3> QED BY <3>1, <3>2 DEF AllAloneInv, OneCatchAll, CallFits, Fits
  <2>3. CASE UNCHANGED ruleVars
    <3>1. RulesInv'
      BY <2>3 DEF ruleVars, RulesInv, RulesTypeOK, ChecksTypeOK, EntriesCover, RulesInForceServed, Rows, Keys
    <3> QED BY <2>3, <3>1 DEF ruleVars, AllAloneInv, OneCatchAll, CallFits, Fits
  <2>4. RulesNext => AdminStep \/ CheckStep
    BY DEF RulesNext, AdminStep, CheckStep
  <2> QED BY <2>1, <2>2, <2>3, <2>4
<1>3. Inv => RulesCompile
  BY OneCatchAllCompiles DEF RulesInv, AllAloneInv, RulesCompile
<1> QED BY <1>1, <1>2, <1>3, PTL DEF RulesSpec

-----------------------------------------------------------------------------
(* Permissions: deny over allow, compiled and remembered *)

Versions == 1 .. Len(permDocs)
Tagging  == [PermTags -> 0 .. Len(permDocs)]

\* What a call holds between two of its steps
CallState ==
    [pc : {"idle"}]
      \cup [pc : {"tag"}, tag : PermTags, arg : Nat, active : PermTags]
      \cup [pc : {"update"}, tag : PermTags, arg : Documents, active : PermTags]
      \cup [pc : {"namespace"}, tag : PermTags, arg : {"tag", "other"}, active : PermTags]
      \cup [pc : {"add"}, doc : Documents, tags : Tagging]
      \cup [pc : {"save"}, tags : Tagging]
      \cup [pc : {"saveNs"}, active : PermTags]

AccessState == [open : BOOLEAN, tag : PermTags,
                answers : SUBSET [check : Checks, yes : BOOLEAN], named : SUBSET Versions]

PermTypeOK ==
    /\ permDocs \in Seq(Documents) /\ Len(permDocs) > 0
    /\ permTags \in Tagging /\ activeTag \in PermTags
    /\ permCalls \in [Callers -> CallState]
    /\ access \in [Requests -> AccessState]

\* A compiled document is the one of its version.
CacheInv == \A e \in policyCache : e.key \in Versions /\ e.doc = permDocs[e.key]

\* What the tag of a request names is among what it has named.
NamedInv == \A r \in Requests :
    access[r].open /\ permTags[access[r].tag] # 0 => permTags[access[r].tag] \in access[r].named

PermInv == PermTypeOK /\ CacheInv /\ NamedInv /\ AnswersFollowPolicy

-----------------------------------------------------------------------------
(* Policies *)

\* The buckets that are looked into hold the policies that are about the action.
LEMMA CandidatesAreAbout ==
    ASSUME NEW doc \in Documents, NEW k, NEW effect, NEW p
    PROVE  p \in Candidates(doc, k, effect) /\ Covers(p, k)
             <=> p \in doc /\ p.effect = effect /\ About(p, k)
<1>1. p \in Candidates(doc, k, effect)
        <=> \E type \in {k.type, "*"}, verb \in {k.verb, "*"} :
                p \in doc /\ p.effect = effect /\ <<type, verb>> \in p.actions
  <2>1. p \in Candidates(doc, k, effect)
          <=> \E type \in {k.type, "*"}, verb \in {k.verb, "*"} : p \in Bucket(doc, type, verb, effect)
    BY SMTT(20) DEF Candidates
  <2>2. ASSUME NEW type, NEW verb
        PROVE  p \in Bucket(doc, type, verb, effect)
                 <=> p \in doc /\ p.effect = effect /\ <<type, verb>> \in p.actions
    BY DEF Bucket
  <2> QED BY <2>1, <2>2
<1>2. ASSUME p \in doc
      PROVE  (\E type \in {k.type, "*"}, verb \in {k.verb, "*"} : <<type, verb>> \in p.actions)
               <=> \E a \in p.actions : a[1] \in {k.type, "*"} /\ a[2] \in {k.verb, "*"}
  <2>1. \A a \in p.actions : a = <<a[1], a[2]>>
    BY <1>2, PermAssumption
  <2> QED BY <2>1
<1> QED BY <1>1, <1>2 DEF About

\* check_tree decides by deny over allow.
LEMMA DecideGrants ==
    ASSUME NEW doc \in Documents, NEW k
    PROVE  Decide(doc, k) <=> Granted(doc, k)
BY CandidatesAreAbout DEF Decide, Granted

\* Two checks with one memo key have one answer.
LEMMA MemoKeyDecides ==
    ASSUME NEW doc \in Documents, NEW k, NEW l, MemoKey(k) = MemoKey(l)
    PROVE  /\ k.path = l.path /\ (ImplicitlyAllowed(k) <=> ImplicitlyAllowed(l))
           /\ Granted(doc, k) <=> Granted(doc, l)
<1>1. k.who = l.who /\ k.type = l.type /\ k.verb = l.verb /\ k.path = l.path
  BY DEF MemoKey
<1> QED BY <1>1 DEF ImplicitlyAllowed, Granted, About, Covers

-----------------------------------------------------------------------------
(* Requests *)

\* What makes an answer a right one
RightAnswer(r, k, yes) ==
    \/ k.path \in BuiltinPaths \/ ImplicitlyAllowed(k)
    \/ \E v \in access[r].named : yes = Granted(permDocs[v], k)

LEMMA AnswerKeeps ==
    ASSUME PermInv, NEW r \in Requests, NEW k \in Checks, NEW yes \in BOOLEAN,
           Answer(r, k, yes), NotCalls, RightAnswer(r, k, yes)
    PROVE  PermTypeOK' /\ NamedInv' /\ AnswersFollowPolicy'
<1> USE DEF PermInv
<1>1. UNCHANGED <<permDocs, permTags, activeTag, permCalls>>
  BY DEF NotCalls
<1>2. /\ access[r] \in AccessState
      /\ access' = [access EXCEPT ![r] = [access[r] EXCEPT !.answers = @ \cup {[check |-> k, yes |-> yes]}]]
  BY DEF Answer, PermTypeOK
<1>3. [access[r] EXCEPT !.answers = @ \cup {[check |-> k, yes |-> yes]}] \in AccessState
  BY <1>2 DEF AccessState
<1>4. PermTypeOK'
  BY <1>1, <1>2, <1>3 DEF PermTypeOK, AccessState, CallState, Tagging, Versions
<1>5. \A q \in Requests : /\ access'[q].open = access[q].open /\ access'[q].tag = access[q].tag
                          /\ access'[q].named = access[q].named
                          /\ access'[q].answers = IF q = r THEN access[q].answers \cup {[check |-> k, yes |-> yes]}
                                                  ELSE access[q].answers
  BY <1>2 DEF PermTypeOK, AccessState
<1>6. NamedInv'
  BY <1>1, <1>5 DEF NamedInv
<1>7. AnswersFollowPolicy'
  <2> SUFFICES ASSUME NEW q \in Requests, NEW a \in access'[q].answers
               PROVE  a.check.path \in BuiltinPaths \/ ImplicitlyAllowed(a.check)
                      \/ \E v \in access[q].named : a.yes = Granted(permDocs[v], a.check)
    BY <1>1, <1>5 DEF AnswersFollowPolicy, Granted
  <2>1. CASE a \in access[q].answers
    BY <2>1 DEF AnswersFollowPolicy
  <2>2. CASE q = r /\ a = [check |-> k, yes |-> yes]
    <3>1. a.check = k /\ a.yes = yes
      BY <2>2
    <3> QED BY <2>2, <3>1 DEF RightAnswer
  <2> QED BY <1>5, <2>1, <2>2
<1> QED BY <1>4, <1>6, <1>7

LEMMA CheckWithoutPolicyKeeps ==
    ASSUME PermInv, NEW r \in Requests, NEW k \in Checks, CheckWithoutPolicy(r, k)
    PROVE  PermInv'
<1> USE DEF PermInv
<1>1. NotCalls /\ UNCHANGED policyCache
  BY DEF CheckWithoutPolicy
<1>2. CacheInv'
  BY <1>1 DEF NotCalls, CacheInv, Versions
<1>3. CASE k.path \in BuiltinPaths /\ Answer(r, k, k.who \in NamespaceWriters \ Resolvers)
  <2> DEFINE yes == k.who \in NamespaceWriters \ Resolvers
  <2>1. yes \in BOOLEAN /\ Answer(r, k, yes)
    BY <1>3
  <2> HIDE DEF yes
  <2> QED BY <1>1, <1>2, <1>3, <2>1, AnswerKeeps DEF RightAnswer
<1>4. CASE ImplicitlyAllowed(k) /\ Answer(r, k, TRUE)
  BY <1>1, <1>2, <1>4, AnswerKeeps DEF RightAnswer
<1>5. CASE \E a \in Remembered(r, k) : Answer(r, k, a.yes)
  <2>1. PICK a \in Remembered(r, k) : Answer(r, k, a.yes)
    BY <1>5
  <2>2. a \in access[r].answers /\ MemoKey(a.check) = MemoKey(k) /\ a.yes \in BOOLEAN
    BY DEF Remembered, PermTypeOK, AccessState
  <2>3. access[r].named \subseteq Versions /\ \A v \in Versions : permDocs[v] \in Documents
    BY DEF PermTypeOK, AccessState, Versions
  <2>4. RightAnswer(r, a.check, a.yes)
    BY <2>2 DEF AnswersFollowPolicy, RightAnswer
  <2>5. RightAnswer(r, k, a.yes)
    <3>1. CASE a.check.path \in BuiltinPaths \/ ImplicitlyAllowed(a.check)
      BY <2>2, <3>1, MemoKeyDecides, PermAssumption DEF RightAnswer
    <3>2. CASE \E v \in access[r].named : a.yes = Granted(permDocs[v], a.check)
      <4>1. PICK v \in access[r].named : a.yes = Granted(permDocs[v], a.check)
        BY <3>2
      <4>2. Granted(permDocs[v], a.check) <=> Granted(permDocs[v], k)
        BY <2>2, <2>3, MemoKeyDecides
      <4>3. Granted(permDocs[v], a.check) \in BOOLEAN /\ Granted(permDocs[v], k) \in BOOLEAN
        BY DEF Granted
      <4>4. a.yes = Granted(permDocs[v], k)
        BY <4>1, <4>2, <4>3
      <4> QED BY <4>4 DEF RightAnswer
    <3> QED BY <2>4, <3>1, <3>2 DEF RightAnswer
  <2> QED BY <1>1, <1>2, <2>1, <2>2, <2>5, AnswerKeeps
<1> QED BY <1>3, <1>4, <1>5 DEF CheckWithoutPolicy

LEMMA CheckPolicyKeeps ==
    ASSUME PermInv, NEW r \in Requests, NEW k \in Checks, CheckPolicy(r, k)
    PROVE  PermInv'
<1> USE DEF PermInv
<1> DEFINE v == permTags[access[r].tag]
           hits == {e \in policyCache : e.key = CacheKey(v)}
<1>1. NotCalls /\ v # 0 /\ access[r].open
  BY DEF CheckPolicy
<1>2. v \in access[r].named /\ v \in Versions /\ permDocs[v] \in Documents
  BY <1>1 DEF NamedInv, PermTypeOK, AccessState, Versions
<1>3. ASSUME NEW doc, doc = permDocs[v], Answer(r, k, Decide(doc, k))
      PROVE  PermTypeOK' /\ NamedInv' /\ AnswersFollowPolicy'
  <2>1. Decide(doc, k) = Granted(permDocs[v], k) /\ Decide(doc, k) \in BOOLEAN
    <3>1. Decide(doc, k) <=> Granted(permDocs[v], k)
      BY <1>2, <1>3, DecideGrants
    <3>2. Decide(doc, k) \in BOOLEAN /\ Granted(permDocs[v], k) \in BOOLEAN
      BY DEF Decide, Granted
    <3> QED BY <3>1, <3>2
  <2>2. RightAnswer(r, k, Decide(doc, k))
    BY <1>2, <2>1 DEF RightAnswer
  <2> QED BY <1>1, <1>3, <2>1, <2>2, AnswerKeeps
<1>4. CASE /\ policyCache' = policyCache \cup {[key |-> CacheKey(v), doc |-> permDocs[v]]}
           /\ Answer(r, k, Decide(permDocs[v], k))
  <2>1. CacheInv'
    BY <1>1, <1>2, <1>4 DEF NotCalls, CacheInv, CacheKey, Versions
  <2> QED BY <1>3, <1>4, <2>1
<1>5. CASE UNCHANGED policyCache /\ \E e \in hits : Answer(r, k, Decide(e.doc, k))
  <2>1. CacheInv'
    BY <1>1, <1>5 DEF NotCalls, CacheInv, Versions
  <2>2. PICK e \in hits : Answer(r, k, Decide(e.doc, k))
    BY <1>5
  <2>3. e.doc = permDocs[v]
    BY DEF CacheInv, CacheKey
  <2> QED BY <1>3, <2>1, <2>2, <2>3
<1> QED BY <1>4, <1>5 DEF CheckPolicy

LEMMA RequestKeeps ==
    ASSUME PermInv,
           \/ \E r \in Requests : BeginAccess(r) \/ EndAccess(r)
           \/ \E r \in Requests, k \in Checks : CheckWithoutPolicy(r, k) \/ CheckPolicy(r, k)
           \/ \E e \in policyCache : EvictPolicy(e)
    PROVE  PermInv'
<1>1. ASSUME NEW r \in Requests, NEW m \in AccessState, m.answers = {},
             m.open /\ permTags[m.tag] # 0 => permTags[m.tag] \in m.named,
             NotCalls, access' = [access EXCEPT ![r] = m], UNCHANGED policyCache
      PROVE  PermInv'
  <2>1. UNCHANGED <<permDocs, permTags, activeTag, permCalls, policyCache>>
    BY <1>1 DEF NotCalls
  <2>2. \A q \in Requests : access'[q] = IF q = r THEN m ELSE access[q]
    BY <1>1 DEF PermInv, PermTypeOK
  <2>3. PermTypeOK'
    BY <1>1, <2>1 DEF PermInv, PermTypeOK, AccessState, CallState, Tagging, Versions
  <2>4. CacheInv'
    BY <2>1 DEF PermInv, CacheInv, Versions
  <2>5. NamedInv'
    BY <1>1, <2>1, <2>2 DEF PermInv, NamedInv
  <2>6. AnswersFollowPolicy'
    <3> SUFFICES ASSUME NEW q \in Requests, NEW a \in access'[q].answers
                 PROVE  a.check.path \in BuiltinPaths \/ ImplicitlyAllowed(a.check)
                        \/ \E v \in access'[q].named : a.yes = Granted(permDocs[v], a.check)
      BY <2>1 DEF AnswersFollowPolicy, Granted
    <3>1. q # r /\ access'[q] = access[q]
      BY <1>1, <2>2
    <3> QED BY <3>1 DEF PermInv, AnswersFollowPolicy
  <2> QED BY <2>3, <2>4, <2>5, <2>6 DEF PermInv
<1>2. ASSUME NEW r \in Requests, BeginAccess(r)
      PROVE  PermInv'
  <2> DEFINE m == [open |-> TRUE, tag |-> activeTag, answers |-> {},
                   named |-> IF permTags[activeTag] # 0 THEN {permTags[activeTag]} ELSE {}]
  <2>1. m \in AccessState /\ m.answers = {} /\ (permTags[m.tag] # 0 => permTags[m.tag] \in m.named)
    BY DEF AccessState, PermInv, PermTypeOK, Tagging, Versions
  <2>2. NotCalls /\ access' = [access EXCEPT ![r] = m] /\ UNCHANGED policyCache
    BY <1>2 DEF BeginAccess
  <2> HIDE DEF m
  <2> QED BY <1>1, <2>1, <2>2
<1>3. ASSUME NEW r \in Requests, EndAccess(r)
      PROVE  PermInv'
  <2> DEFINE m == [open |-> FALSE, tag |-> "latest", answers |-> {}, named |-> {}]
  <2>1. m \in AccessState /\ m.answers = {} /\ ~m.open
    BY PermAssumption DEF AccessState
  <2>2. NotCalls /\ access' = [access EXCEPT ![r] = m] /\ UNCHANGED policyCache
    BY <1>3 DEF EndAccess
  <2> HIDE DEF m
  <2> QED BY <1>1, <2>1, <2>2
<1>4. ASSUME NEW e \in policyCache, EvictPolicy(e)
      PROVE  PermInv'
  <2>1. UNCHANGED <<permDocs, permTags, activeTag, permCalls, access>> /\ policyCache' \subseteq policyCache
    BY <1>4 DEF EvictPolicy, NotCalls
  <2>2. PermTypeOK' /\ CacheInv' /\ NamedInv'
    BY <2>1 DEF PermInv, PermTypeOK, AccessState, CallState, Tagging, Versions, CacheInv, NamedInv
  <2>3. AnswersFollowPolicy'
    BY <2>1 DEF PermInv, AnswersFollowPolicy, Granted
  <2> QED BY <2>2, <2>3 DEF PermInv
<1> QED BY <1>2, <1>3, <1>4, CheckWithoutPolicyKeeps, CheckPolicyKeeps

-----------------------------------------------------------------------------
(* Calls *)

\* More versions than before, and those before as they were
LEMMA DocsOnlyGrow ==
    ASSUME PermInv, permDocs' \in Seq(Documents), Len(permDocs) <= Len(permDocs'),
           \A v \in Versions : permDocs'[v] = permDocs[v],
           UNCHANGED <<policyCache, permTags, activeTag, access>>, permCalls' \in [Callers -> CallState']
    PROVE  PermInv'
<1>0. Len(permDocs) \in Nat /\ Len(permDocs') \in Nat
  BY DEF PermInv, PermTypeOK
<1>1. Versions \subseteq Versions' /\ permTags \in Tagging'
  BY <1>0 DEF Versions, Tagging, PermInv, PermTypeOK
<1>2. PermTypeOK'
  BY <1>0, <1>1 DEF PermInv, PermTypeOK, AccessState
<1>3. CacheInv' /\ NamedInv'
  BY <1>1 DEF PermInv, CacheInv, NamedInv
<1>4. AnswersFollowPolicy'
  <2> SUFFICES ASSUME NEW r \in Requests, NEW a \in access[r].answers,
                      NEW v \in access[r].named, a.yes = Granted(permDocs[v], a.check)
               PROVE  a.yes = Granted(permDocs'[v], a.check)
    BY DEF PermInv, AnswersFollowPolicy, ImplicitlyAllowed
  <2>1. v \in Versions
    BY DEF PermInv, PermTypeOK, AccessState
  <2> QED BY <2>1
<1> QED BY <1>2, <1>3, <1>4 DEF PermInv

LEMMA CallKept ==
    ASSUME PermInv, UNCHANGED permDocs, NEW c \in Callers, NEW m \in CallState, Hold(c, m)
    PROVE  permCalls' \in [Callers -> CallState']
BY DEF PermInv, PermTypeOK, Hold, CallState, Tagging

\* A step that only moves the call along
LEMMA OnlyCallMoves ==
    ASSUME PermInv, NEW c \in Callers, NEW m \in CallState, Hold(c, m),
           UNCHANGED <<permDocs, permTags, activeTag, access, policyCache>>
    PROVE  PermInv'
<1>1. permCalls' \in [Callers -> CallState']
  BY CallKept
<1>2. permDocs' \in Seq(Documents) /\ Len(permDocs) <= Len(permDocs')
  BY DEF PermInv, PermTypeOK
<1> QED BY <1>1, <1>2, DocsOnlyGrow

LEMMA AddPolicyKeeps ==
    ASSUME PermInv, NEW c \in Callers, AddPolicy(c)
    PROVE  PermInv'
<1> DEFINE m == permCalls[c]
<1>1. /\ m \in [pc : {"add"}, doc : Documents, tags : Tagging]
      /\ Len(permDocs) \in Nat /\ permDocs \in Seq(Documents)
  BY DEF AddPolicy, PermInv, PermTypeOK, CallState
<1>2. UNCHANGED <<policyCache, permTags, activeTag, access>>
  BY DEF AddPolicy, NotChecked
<1>3. CASE m.doc = permDocs[Len(permDocs)]
  <2>1. Hold(c, [pc |-> "save", tags |-> m.tags]) /\ UNCHANGED permDocs
    BY <1>3 DEF AddPolicy
  <2>2. [pc |-> "save", tags |-> m.tags] \in CallState
    BY <1>1 DEF CallState
  <2> QED BY <1>2, <2>1, <2>2, OnlyCallMoves
<1>4. CASE m.doc # permDocs[Len(permDocs)]
  <2> DEFINE saved == [pc |-> "save", tags |-> [m.tags EXCEPT !["latest"] = Len(permDocs) + 1]]
  <2>1. permDocs' = Append(permDocs, m.doc) /\ Hold(c, saved)
    BY <1>4 DEF AddPolicy
  <2>2. /\ permDocs' \in Seq(Documents) /\ Len(permDocs') = Len(permDocs) + 1
        /\ \A v \in Versions : permDocs'[v] = permDocs[v]
    BY <1>1, <2>1 DEF Versions
  <2>3. Tagging \subseteq Tagging' /\ [m.tags EXCEPT !["latest"] = Len(permDocs) + 1] \in Tagging'
    BY <1>1, <2>2, PermAssumption DEF Tagging
  <2>4. CallState \subseteq CallState' /\ saved \in CallState'
    BY <2>3 DEF CallState
  <2> HIDE DEF saved
  <2>5. permCalls' \in [Callers -> CallState']
    BY <2>1, <2>4 DEF Hold, PermInv, PermTypeOK
  <2> QED BY <1>1, <1>2, <2>2, <2>5, DocsOnlyGrow
<1> QED BY <1>3, <1>4

LEMMA SavePermItemKeeps ==
    ASSUME PermInv, NEW c \in Callers, SavePermItem(c)
    PROVE  PermInv'
<1> DEFINE tags == permCalls[c].tags
<1>1. tags \in Tagging /\ permTags' = tags
  BY DEF SavePermItem, SaveTags, PermInv, PermTypeOK, CallState
<1>2. UNCHANGED <<permDocs, activeTag, policyCache>>
  BY DEF SavePermItem, NotChecked
<1>3. permCalls' \in [Callers -> CallState']
  <2>1. Hold(c, [pc |-> "idle"]) /\ [pc |-> "idle"] \in CallState
    BY DEF SavePermItem, CallState
  <2> QED BY <1>2, <2>1, CallKept
<1>4. \A r \in Requests : access'[r] = [access[r] EXCEPT !.named = @ \cup Named(r, tags)]
  BY DEF SavePermItem, SaveTags
<1>5. \A r \in Requests : /\ access[r] \in AccessState /\ Named(r, tags) \subseteq Versions
                          /\ access[r].open /\ tags[access[r].tag] # 0 => tags[access[r].tag] \in Named(r, tags)
  BY <1>1 DEF PermInv, PermTypeOK, AccessState, Named, Tagging, Versions
<1> HIDE DEF tags
<1>6. \A r \in Requests : /\ access'[r] \in AccessState
                          /\ access'[r].open = access[r].open /\ access'[r].tag = access[r].tag
                          /\ access'[r].answers = access[r].answers
                          /\ access'[r].named = access[r].named \cup Named(r, tags)
  <2> SUFFICES ASSUME NEW r \in Requests, NEW x, x = access[r], NEW more, more = Named(r, tags)
               PROVE  /\ access'[r] \in AccessState
                      /\ access'[r].open = x.open /\ access'[r].tag = x.tag
                      /\ access'[r].answers = x.answers /\ access'[r].named = x.named \cup more
    OBVIOUS
  <2>1. access'[r] = [x EXCEPT !.named = @ \cup more] /\ x \in AccessState /\ more \subseteq Versions
    BY <1>4, <1>5
  <2> QED BY <2>1 DEF AccessState
<1>7. access' \in [Requests -> AccessState]
  BY <1>6 DEF SavePermItem, SaveTags
<1>8. PermTypeOK'
  BY <1>1, <1>2, <1>3, <1>7 DEF PermInv, PermTypeOK, AccessState, Tagging, Versions
<1>9. CacheInv' /\ NamedInv'
  BY <1>1, <1>2, <1>5, <1>6 DEF PermInv, CacheInv, NamedInv, Versions
<1>10. AnswersFollowPolicy'
  BY <1>2, <1>6 DEF PermInv, AnswersFollowPolicy, Granted
<1> QED BY <1>8, <1>9, <1>10 DEF PermInv

CallStep ==
    \/ \E c \in Callers, t \in PermTags \ {"latest"}, v \in 0 .. MaxPolicies : BeginPermCall(c, "tag", t, v)
    \/ \E c \in Callers, d \in Documents : BeginPermCall(c, "update", "latest", d)
    \/ \E c \in Callers, t \in PermTags, f \in {"tag", "other"} : BeginPermCall(c, "namespace", t, f)
    \/ \E c \in Callers : \/ LoadTags(c) \/ LoadConfig(c) \/ AddPolicy(c) \/ SavePermItem(c)
                          \/ CheckActive(c) \/ SaveNamespace(c) \/ PermCallDies(c)

LEMMA BeginPermCallKeeps ==
    ASSUME PermInv, NEW c \in Callers, NEW op, NEW tag, NEW arg, BeginPermCall(c, op, tag, arg),
           [pc |-> op, tag |-> tag, arg |-> arg, active |-> activeTag] \in CallState
    PROVE  PermInv'
BY OnlyCallMoves DEF BeginPermCall, NotChecked

LEMMA CallKeeps ==
    ASSUME PermInv, CallStep
    PROVE  PermInv'
<1>0. activeTag \in PermTags /\ "latest" \in PermTags /\ permTags \in Tagging /\ MaxPolicies \in Nat
  BY PermAssumption DEF PermInv, PermTypeOK
<1>1. ASSUME NEW c \in Callers, NEW t \in PermTags, NEW v \in 0 .. MaxPolicies, BeginPermCall(c, "tag", t, v)
      PROVE  PermInv'
  <2>1. [pc |-> "tag", tag |-> t, arg |-> v, active |-> activeTag] \in CallState
    BY <1>0 DEF CallState
  <2> QED BY <1>1, <2>1, BeginPermCallKeeps
<1>2. ASSUME NEW c \in Callers, NEW d \in Documents, BeginPermCall(c, "update", "latest", d)
      PROVE  PermInv'
  <2>1. [pc |-> "update", tag |-> "latest", arg |-> d, active |-> activeTag] \in CallState
    BY <1>0 DEF CallState
  <2> QED BY <1>2, <2>1, BeginPermCallKeeps
<1>3. ASSUME NEW c \in Callers, NEW t \in PermTags, NEW f \in {"tag", "other"}, BeginPermCall(c, "namespace", t, f)
      PROVE  PermInv'
  <2>1. [pc |-> "namespace", tag |-> t, arg |-> f, active |-> activeTag] \in CallState
    BY <1>0 DEF CallState
  <2> QED BY <1>3, <2>1, BeginPermCallKeeps
<1>4. ASSUME NEW c \in Callers, LoadTags(c)
      PROVE  PermInv'
  <2> DEFINE m == permCalls[c]
             ok == IF m.arg # 0 THEN m.arg <= Len(permDocs) /\ permTags[m.tag] # m.arg ELSE MayDelete(m)
             next == IF ok THEN [pc |-> "save", tags |-> [permTags EXCEPT ![m.tag] = m.arg]] ELSE [pc |-> "idle"]
  <2>1. m \in [pc : {"tag"}, tag : PermTags, arg : Nat, active : PermTags]
    BY <1>4 DEF LoadTags, PermInv, PermTypeOK, CallState
  <2>2. ok => m.arg \in 0 .. Len(permDocs)
    BY <2>1 DEF PermInv, PermTypeOK
  <2>3. ok => [permTags EXCEPT ![m.tag] = m.arg] \in Tagging
    BY <1>0, <2>1, <2>2 DEF Tagging
  <2>4. Hold(c, next) /\ UNCHANGED <<permDocs, permTags, activeTag, access, policyCache>>
    BY <1>4 DEF LoadTags, NotChecked
  <2> HIDE DEF ok
  <2>5. next \in CallState
    BY <2>3 DEF CallState
  <2> HIDE DEF next
  <2> QED BY <2>4, <2>5, OnlyCallMoves
<1>5. ASSUME NEW c \in Callers, LoadConfig(c)
      PROVE  PermInv'
  <2>1. permCalls[c] \in [pc : {"update"}, tag : PermTags, arg : Documents, active : PermTags]
    BY <1>5 DEF LoadConfig, PermInv, PermTypeOK, CallState
  <2>2. [pc |-> "add", doc |-> permCalls[c].arg, tags |-> permTags] \in CallState
    BY <1>0, <2>1 DEF CallState
  <2> QED BY <1>5, <2>2, OnlyCallMoves DEF LoadConfig, NotChecked
<1>6. ASSUME NEW c \in Callers, CheckActive(c)
      PROVE  PermInv'
  <2> DEFINE m == permCalls[c]
             next == IF m.arg = "other" THEN [pc |-> "saveNs", active |-> m.active]
                     ELSE IF permTags[m.tag] # 0 THEN [pc |-> "saveNs", active |-> m.tag]
                     ELSE [pc |-> "idle"]
  <2>1. m \in [pc : {"namespace"}, tag : PermTags, arg : {"tag", "other"}, active : PermTags]
    BY <1>6 DEF CheckActive, PermInv, PermTypeOK, CallState
  <2>2. next \in CallState
    BY <2>1 DEF CallState
  <2>3. Hold(c, next) /\ UNCHANGED <<permDocs, permTags, activeTag, access, policyCache>>
    BY <1>6 DEF CheckActive, NotChecked
  <2> HIDE DEF next
  <2> QED BY <2>2, <2>3, OnlyCallMoves
<1>7. ASSUME NEW c \in Callers, SaveNamespace(c)
      PROVE  PermInv'
  <2>1. activeTag' \in PermTags /\ Hold(c, [pc |-> "idle"]) /\ [pc |-> "idle"] \in CallState
    BY <1>7 DEF SaveNamespace, PermInv, PermTypeOK, CallState
  <2>2. UNCHANGED <<permDocs, permTags, access, policyCache>>
    BY <1>7 DEF SaveNamespace, NotChecked
  <2>3. permCalls' \in [Callers -> CallState']
    BY <2>1, <2>2, CallKept
  <2>4. PermTypeOK' /\ CacheInv' /\ NamedInv'
    BY <2>1, <2>2, <2>3 DEF PermInv, PermTypeOK, AccessState, Tagging, Versions, CacheInv, NamedInv
  <2>5. AnswersFollowPolicy'
    BY <2>2 DEF PermInv, AnswersFollowPolicy, Granted
  <2> QED BY <2>4, <2>5 DEF PermInv
<1>8. ASSUME NEW c \in Callers, PermCallDies(c)
      PROVE  PermInv'
  <2>1. [pc |-> "idle"] \in CallState
    BY DEF CallState
  <2> QED BY <1>8, <2>1, OnlyCallMoves DEF PermCallDies, NotChecked
<1> QED BY <1>1, <1>2, <1>3, <1>4, <1>5, <1>6, <1>7, <1>8, AddPolicyKeeps, SavePermItemKeeps DEF CallStep

-----------------------------------------------------------------------------
LEMMA PermInitInv == PermInit => PermInv
<1> SUFFICES ASSUME PermInit PROVE PermInv
  OBVIOUS
<1>1. permDocs \in Seq(Documents) /\ Len(permDocs) = 1
  BY PermAssumption DEF PermInit
<1>2. permTags \in Tagging /\ activeTag \in PermTags
  BY <1>1, PermAssumption DEF PermInit, Tagging
<1>3. permCalls \in [Callers -> CallState] /\ access \in [Requests -> AccessState]
  BY PermAssumption DEF PermInit, CallState, AccessState
<1>4. CacheInv /\ NamedInv /\ AnswersFollowPolicy
  BY DEF PermInit, CacheInv, NamedInv, AnswersFollowPolicy
<1> QED BY <1>1, <1>2, <1>3, <1>4 DEF PermInv, PermTypeOK

LEMMA PermInvKept == PermInv /\ [PermNext]_permVars => PermInv'
<1> SUFFICES ASSUME PermInv, [PermNext]_permVars PROVE PermInv'
  OBVIOUS
<1>1. CASE CallStep
  BY <1>1, CallKeeps
<1>2. CASE \/ \E r \in Requests : BeginAccess(r) \/ EndAccess(r)
           \/ \E r \in Requests, k \in Checks : CheckWithoutPolicy(r, k) \/ CheckPolicy(r, k)
           \/ \E e \in policyCache : EvictPolicy(e)
  BY <1>2, RequestKeeps
<1>3. CASE UNCHANGED permVars
  <2>1. PermTypeOK' /\ CacheInv' /\ NamedInv'
    BY <1>3 DEF permVars, PermInv, PermTypeOK, AccessState, CallState, Tagging, Versions, CacheInv, NamedInv
  <2>2. AnswersFollowPolicy'
    BY <1>3 DEF permVars, PermInv, AnswersFollowPolicy, Granted
  <2> QED BY <2>1, <2>2 DEF PermInv
<1> QED BY <1>1, <1>2, <1>3 DEF PermNext, CallStep

\* However calls, checks, evictions and deaths interleave, a request is answered
\* by deny over allow, from a document that its tag named while it lasted.
THEOREM AnswersAreThePolicys == PermSpec => []AnswersFollowPolicy
<1>1. PermInv => AnswersFollowPolicy
  BY DEF PermInv
<1> QED BY <1>1, PermInitInv, PermInvKept, PTL DEF PermSpec

-----------------------------------------------------------------------------
(* The active tag *)

OneCaller == \A c, d \in Callers : c = d

\* With one call at a time, what the call holds of the namespace and of the tags
\* is what they are, and what it will save leaves the active tag a version.
ActiveInv ==
    OneCaller =>
      /\ permTags[activeTag] # 0
      /\ \A c \in Callers :
            /\ permCalls[c].pc \in {"tag", "namespace"} => permCalls[c].active = activeTag
            /\ permCalls[c].pc = "add" => permCalls[c].tags = permTags
            /\ permCalls[c].pc = "save" => permCalls[c].tags[activeTag] # 0
            /\ permCalls[c].pc = "saveNs" => permTags[permCalls[c].active] # 0

LEMMA ActiveKept ==
    ASSUME PermInv, ActiveInv, [PermNext]_permVars
    PROVE  ActiveInv'
<1> SUFFICES ASSUME OneCaller PROVE ActiveInv'
  BY DEF ActiveInv, OneCaller
<1> USE DEF ActiveInv
<1>0. /\ permTags \in Tagging /\ activeTag \in PermTags /\ permCalls \in [Callers -> CallState]
      /\ Len(permDocs) \in Nat
  BY DEF PermInv, PermTypeOK
<1>1. ASSUME NEW c \in Callers, NEW m, Hold(c, m), UNCHANGED <<permTags, activeTag>>,
             /\ m.pc \in {"tag", "namespace"} => m.active = activeTag
             /\ m.pc = "add" => m.tags = permTags
             /\ m.pc = "save" => m.tags[activeTag] # 0
             /\ m.pc = "saveNs" => permTags[m.active] # 0
      PROVE  ActiveInv'
  <2>1. \A d \in Callers : permCalls'[d] = m
    BY <1>0, <1>1 DEF OneCaller, Hold
  <2> QED BY <1>1, <2>1
<1>2. ASSUME NEW c \in Callers, NEW op, NEW tag, NEW arg, BeginPermCall(c, op, tag, arg),
             op \in {"tag", "update", "namespace"}
      PROVE  ActiveInv'
  <2> DEFINE m == [pc |-> op, tag |-> tag, arg |-> arg, active |-> activeTag]
  <2>1. m.pc = op /\ m.active = activeTag /\ Hold(c, m) /\ UNCHANGED <<permTags, activeTag>>
    BY <1>2 DEF BeginPermCall
  <2> HIDE DEF m
  <2> QED BY <1>1, <1>2, <2>1
<1>3. ASSUME NEW c \in Callers, LoadTags(c)
      PROVE  ActiveInv'
  <2> DEFINE m == permCalls[c]
             ok == IF m.arg # 0 THEN m.arg <= Len(permDocs) /\ permTags[m.tag] # m.arg ELSE MayDelete(m)
             next == IF ok THEN [pc |-> "save", tags |-> [permTags EXCEPT ![m.tag] = m.arg]] ELSE [pc |-> "idle"]
  <2>1. m \in [pc : {"tag"}, tag : PermTags, arg : Nat, active : PermTags] /\ m.active = activeTag
    BY <1>0, <1>3 DEF LoadTags, CallState
  <2>2. ok => [permTags EXCEPT ![m.tag] = m.arg][activeTag] # 0
    BY <1>0, <2>1 DEF MayDelete, Tagging
  <2>3. Hold(c, next) /\ UNCHANGED <<permTags, activeTag>>
    BY <1>3 DEF LoadTags
  <2> HIDE DEF ok
  <2>4. /\ next.pc \in {"save", "idle"}
        /\ next.pc = "save" => next.tags[activeTag] # 0
    BY <2>2
  <2> HIDE DEF next
  <2> QED BY <1>1, <2>3, <2>4
<1>4. ASSUME NEW c \in Callers, LoadConfig(c)
      PROVE  ActiveInv'
  BY <1>1, <1>4 DEF LoadConfig
<1>5. ASSUME NEW c \in Callers, AddPolicy(c)
      PROVE  ActiveInv'
  <2>1. permCalls[c].tags = permTags /\ UNCHANGED <<permTags, activeTag>>
    BY <1>5 DEF AddPolicy
  <2>2. PICK tags : /\ tags \in {permTags, [permTags EXCEPT !["latest"] = Len(permDocs) + 1]}
                    /\ Hold(c, [pc |-> "save", tags |-> tags])
    BY <1>5, <2>1 DEF AddPolicy
  <2>3. tags[activeTag] # 0
    BY <1>0, <2>2 DEF Tagging
  <2> QED BY <1>1, <2>1, <2>2, <2>3
<1>6. ASSUME NEW c \in Callers, SavePermItem(c)
      PROVE  ActiveInv'
  <2>1. permTags' = permCalls[c].tags /\ permTags'[activeTag] # 0 /\ activeTag' = activeTag
    BY <1>6 DEF SavePermItem, SaveTags
  <2>2. \A d \in Callers : permCalls'[d].pc = "idle"
    BY <1>0, <1>6 DEF SavePermItem, Hold, OneCaller
  <2> QED BY <2>1, <2>2
<1>7. ASSUME NEW c \in Callers, CheckActive(c)
      PROVE  ActiveInv'
  BY <1>1, <1>7 DEF CheckActive
<1>8. ASSUME NEW c \in Callers, SaveNamespace(c)
      PROVE  ActiveInv'
  <2>1. permTags' = permTags /\ permTags[activeTag'] # 0
    BY <1>8 DEF SaveNamespace
  <2>2. \A d \in Callers : permCalls'[d].pc = "idle"
    BY <1>0, <1>8 DEF SaveNamespace, Hold, OneCaller
  <2> QED BY <2>1, <2>2
<1>9. ASSUME NEW c \in Callers, PermCallDies(c)
      PROVE  ActiveInv'
  BY <1>1, <1>9 DEF PermCallDies
<1>10. ASSUME UNCHANGED <<permTags, activeTag, permCalls>>
       PROVE  ActiveInv'
  BY <1>10
<1>11. ASSUME \/ \E r \in Requests : BeginAccess(r) \/ EndAccess(r)
              \/ \E r \in Requests, k \in Checks : CheckWithoutPolicy(r, k) \/ CheckPolicy(r, k)
              \/ \E e \in policyCache : EvictPolicy(e)
              \/ UNCHANGED permVars
       PROVE  ActiveInv'
  <2>1. UNCHANGED <<permTags, activeTag, permCalls>>
    BY <1>11 DEF BeginAccess, EndAccess, CheckWithoutPolicy, CheckPolicy, EvictPolicy, NotCalls, permVars
  <2> QED BY <1>10, <2>1
<1> HIDE DEF ActiveInv
<1> QED BY <1>2, <1>3, <1>4, <1>5, <1>6, <1>7, <1>8, <1>9, <1>11 DEF PermNext

\* While calls come one after the other, whoever dies in the middle of one, the
\* active tag of the namespace names a version of its policies.
THEOREM ActiveTagIsSafe == PermSpec => []ActiveTagNamesPolicy
<1>1. PermInit => PermInv /\ ActiveInv
  <2> SUFFICES ASSUME PermInit PROVE ActiveInv
    BY PermInitInv
  <2> QED BY PermAssumption DEF PermInit, ActiveInv
<1>2. PermInv /\ ActiveInv /\ [PermNext]_permVars => (PermInv /\ ActiveInv)'
  BY PermInvKept, ActiveKept
<1>3. PermInv /\ ActiveInv => ActiveTagNamesPolicy
  BY DEF PermInv, PermTypeOK, Tagging, ActiveInv, ActiveTagNamesPolicy, OneCaller
<1> QED BY <1>1, <1>2, <1>3, PTL DEF PermSpec

-----------------------------------------------------------------------------
(* Resolver tokens: old ones do not come back, none is held twice *)

Row == [slots : [Slots -> Nat], enabled : BOOLEAN]

KeepingState ==
    [pc : {"idle"}] \cup
    [pc : {"loaded"}, id : ResolverIds, row : Row, fresh : BOOLEAN,
     call : {"rotate", "update", "switch", "delete", "copy"}]

ConsumingState ==
    [pc : {"idle"}] \cup
    [pc : {"stamp", "known", "admitted"}, id : ResolverIds, row : Row, on : BOOLEAN]

TokenTypeOK ==
    /\ resolverRows \in [ResolverIds -> Row \cup {NoResolver}]
    /\ tokensMade \in Nat
    /\ keeping \in [Keepers -> KeepingState]
    /\ consuming \in [Consumers -> ConsumingState]
    /\ lastRotated \in [ResolverIds -> [Slots -> Nat]]
    /\ lastSwitched \in [ResolverIds -> BOOLEAN]
    /\ overwritten \subseteq ResolverIds

\* A row that has not changed since it was loaded is the stored one.
FreshInv ==
    \A k \in Keepers :
        keeping[k].pc = "loaded" /\ keeping[k].fresh =>
            /\ keeping[k].row = resolverRows[keeping[k].id]
            /\ keeping[k].row # NoResolver

\* The row is the row of resolver id, in the table or in the hands of a keeper.
IsRowOf(row, id) ==
    \/ row = resolverRows[id] /\ row # NoResolver
    \/ \E k \in Keepers : keeping[k].pc = "loaded" /\ keeping[k].id = id /\ keeping[k].row = row

\* Tokens are generated once, and a row holds tokens of its own resolver only.
OwnerInv ==
    \A i, j \in ResolverIds, row, other \in Row : IsRowOf(row, i) /\ IsRowOf(other, j) =>
        \A s, u \in Slots :
            /\ row.slots[s] <= tokensMade
            /\ row.slots[s] = other.slots[u] /\ row.slots[s] # 0 => i = j

\* A consumer knows whether its resolver was enabled when the token was presented.
KnownInv ==
    \A c \in Consumers :
        /\ consuming[c].pc # "idle" /\ consuming[c].id \notin overwritten =>
                consuming[c].row.enabled = consuming[c].on
        /\ consuming[c].pc = "admitted" => consuming[c].row.enabled

TokenInv == TokenTypeOK /\ FreshInv /\ TokensAsRotated /\ OwnerInv /\ KnownInv

-----------------------------------------------------------------------------
\* What a save does to the keepers.
LEMMA OutdatedType ==
    ASSUME TokenTypeOK, NEW id \in ResolverIds
    PROVE  /\ Outdated(id) \in [Keepers -> KeepingState]
           /\ \A k \in Keepers :
                 /\ Outdated(id)[k].pc = keeping[k].pc
                 /\ keeping[k].pc = "loaded" =>
                       /\ Outdated(id)[k].id = keeping[k].id
                       /\ Outdated(id)[k].row = keeping[k].row
                       /\ Outdated(id)[k].fresh <=> keeping[k].fresh /\ keeping[k].id # id
<1>1. ASSUME NEW k \in Keepers
      PROVE  /\ Outdated(id)[k] \in KeepingState
             /\ Outdated(id)[k].pc = keeping[k].pc
             /\ keeping[k].pc = "loaded" =>
                   /\ Outdated(id)[k].id = keeping[k].id
                   /\ Outdated(id)[k].row = keeping[k].row
                   /\ Outdated(id)[k].fresh <=> keeping[k].fresh /\ keeping[k].id # id
  <2>1. keeping[k] \in KeepingState
    BY DEF TokenTypeOK
  <2>2. CASE keeping[k].pc = "loaded" /\ keeping[k].id = id
    <3>1. Outdated(id)[k] = [keeping[k] EXCEPT !.fresh = FALSE]
      BY <2>2 DEF Outdated
    <3>2. keeping[k] \in [pc : {"loaded"}, id : ResolverIds, row : Row, fresh : BOOLEAN,
                          call : {"rotate", "update", "switch", "delete", "copy"}]
      BY <2>1, <2>2 DEF KeepingState
    <3> QED BY <2>2, <3>1, <3>2 DEF KeepingState
  <2>3. CASE ~(keeping[k].pc = "loaded" /\ keeping[k].id = id)
    <3>1. Outdated(id)[k] = keeping[k]
      BY <2>3 DEF Outdated
    <3>2. keeping[k].pc = "loaded" => keeping[k].fresh \in BOOLEAN
      BY <2>1 DEF KeepingState
    <3> QED BY <2>1, <2>3, <3>1, <3>2
  <2> QED BY <2>2, <2>3
<1> QED BY <1>1 DEF Outdated

\* The change of one row by keeper k: the new row has tokens of the row it replaces
\* or of the row that was held, and at most one new one.
LEMMA ChangeKeeps ==
    ASSUME TokenInv, NEW k \in Keepers, NEW id \in ResolverIds,
           keeping[k].pc = "loaded", keeping[k].id = id,
           NEW row \in Row \cup {NoResolver},
           resolverRows' = [resolverRows EXCEPT ![id] = row],
           keeping' = [Outdated(id) EXCEPT ![k] = NotKeeping],
           tokensMade' \in {tokensMade, tokensMade + 1},
           row # NoResolver => \E old \in Row :
               /\ IsRowOf(old, id)
               /\ \A s \in Slots : \/ row.slots[s] = old.slots[s]
                                   \/ row.slots[s] = tokensMade + 1 /\ tokensMade' = tokensMade + 1,
           UNCHANGED consuming,
           lastRotated' \in [ResolverIds -> [Slots -> Nat]], lastSwitched' \in [ResolverIds -> BOOLEAN],
           overwritten' \in SUBSET ResolverIds, overwritten \subseteq overwritten',
           \A i \in ResolverIds \ {id} : lastRotated'[i] = lastRotated[i] /\ lastSwitched'[i] = lastSwitched[i],
           id \notin overwritten' /\ row # NoResolver =>
               row.slots = lastRotated'[id] /\ row.enabled = lastSwitched'[id]
    PROVE  TokenInv'
<1> USE DEF TokenInv
<1>1. /\ \A q \in Keepers : keeping'[q] = IF q = k THEN NotKeeping ELSE Outdated(id)[q]
      /\ \A i \in ResolverIds : resolverRows'[i] = IF i = id THEN row ELSE resolverRows[i]
  BY OutdatedType DEF TokenTypeOK
<1>2. TokenTypeOK'
  <2>1. keeping' \in [Keepers -> KeepingState]
    BY OutdatedType DEF KeepingState, NotKeeping
  <2>2. resolverRows' \in [ResolverIds -> Row \cup {NoResolver}] /\ tokensMade' \in Nat
    BY DEF TokenTypeOK
  <2> QED BY <2>1, <2>2 DEF TokenTypeOK
<1>3. FreshInv'
  <2> SUFFICES ASSUME NEW q \in Keepers, keeping'[q].pc = "loaded", keeping'[q].fresh
               PROVE  /\ keeping'[q].row = resolverRows'[keeping'[q].id]
                      /\ keeping'[q].row # NoResolver
    BY DEF FreshInv
  <2>1. q # k /\ keeping[q].pc = "loaded" /\ keeping[q].fresh /\ keeping[q].id # id
        /\ keeping'[q].id = keeping[q].id /\ keeping'[q].row = keeping[q].row
    BY <1>1, OutdatedType DEF NotKeeping
  <2>2. keeping[q].id \in ResolverIds
    BY <2>1 DEF TokenTypeOK, KeepingState
  <2> QED BY <1>1, <2>1, <2>2 DEF FreshInv
<1>4. TokensAsRotated'
  BY <1>1 DEF TokensAsRotated, TokenTypeOK
<1>5. ASSUME NEW i \in ResolverIds, NEW new \in Row, IsRowOf(new, i)'
      PROVE  \E old \in Row :
               /\ IsRowOf(old, i)
               /\ \A s \in Slots : \/ new.slots[s] = old.slots[s]
                                   \/ i = id /\ new.slots[s] = tokensMade + 1 /\ tokensMade' = tokensMade + 1
  <2>1. CASE i = id /\ new = row /\ row # NoResolver
    BY <2>1
  <2>2. CASE IsRowOf(new, i)
    BY <2>2
  <2>3. \/ i = id /\ new = row /\ row # NoResolver
        \/ i # id /\ new = resolverRows[i] /\ new # NoResolver
        \/ \E q \in Keepers : keeping[q].pc = "loaded" /\ keeping[q].id = i /\ keeping[q].row = new
    <3>1. CASE new = resolverRows'[i] /\ new # NoResolver
      BY <1>1, <3>1
    <3>2. ASSUME NEW q \in Keepers,
                 keeping'[q].pc = "loaded" /\ keeping'[q].id = i /\ keeping'[q].row = new
          PROVE  keeping[q].pc = "loaded" /\ keeping[q].id = i /\ keeping[q].row = new
      BY <1>1, <3>2, OutdatedType DEF NotKeeping
    <3> QED BY <1>5, <3>1, <3>2 DEF IsRowOf
  <2> QED BY <2>1, <2>2, <2>3 DEF IsRowOf
<1>6. OwnerInv'
  <2> SUFFICES ASSUME NEW i \in ResolverIds, NEW j \in ResolverIds, NEW new \in Row, NEW other \in Row,
                      IsRowOf(new, i)', IsRowOf(other, j)', NEW s \in Slots, NEW u \in Slots
               PROVE  /\ new.slots[s] <= tokensMade'
                      /\ new.slots[s] = other.slots[u] /\ new.slots[s] # 0 => i = j
    BY DEF OwnerInv
  <2>1. PICK old \in Row : /\ IsRowOf(old, i)
                           /\ \/ new.slots[s] = old.slots[s]
                              \/ i = id /\ new.slots[s] = tokensMade + 1 /\ tokensMade' = tokensMade + 1
    BY <1>5
  <2>2. PICK old2 \in Row : /\ IsRowOf(old2, j)
                            /\ \/ other.slots[u] = old2.slots[u]
                               \/ j = id /\ other.slots[u] = tokensMade + 1 /\ tokensMade' = tokensMade + 1
    BY <1>5
  <2>3. /\ old.slots[s] <= tokensMade /\ old2.slots[u] <= tokensMade
        /\ old.slots[s] = old2.slots[u] /\ old.slots[s] # 0 => i = j
    BY <2>1, <2>2 DEF OwnerInv
  <2>4. /\ old.slots[s] \in Nat /\ old2.slots[u] \in Nat /\ tokensMade \in Nat
        /\ new.slots[s] \in Nat /\ other.slots[u] \in Nat
    BY DEF Row, TokenTypeOK
  <2> QED BY <2>1, <2>2, <2>3, <2>4
<1>7. KnownInv'
  BY DEF KnownInv
<1> QED BY <1>2, <1>3, <1>4, <1>6, <1>7

\* Rotations, updates, switches and deletions
LEMMA KeeperKeeps ==
    ASSUME TokenInv, NEW k \in Keepers,
           \/ \E s \in Slots : RotateToken(k, s)
           \/ \E on \in BOOLEAN : SwitchResolver(k, on)
           \/ UpdateResolver(k) \/ RemoveResolver(k)
    PROVE  TokenInv'
<1> DEFINE id == keeping[k].id
           held == keeping[k].row
<1>1. /\ keeping[k].pc = "loaded" /\ id \in ResolverIds /\ held \in Row /\ keeping[k].fresh \in BOOLEAN
      /\ IsRowOf(held, id)
  BY DEF RotateToken, SwitchResolver, UpdateResolver, RemoveResolver, TokenInv, TokenTypeOK, KeepingState, IsRowOf
<1>2. keeping[k].fresh => held = resolverRows[id] /\ held # NoResolver
  BY <1>1 DEF TokenInv, FreshInv
<1>3. ASSUME NEW s \in Slots, RotateToken(k, s)
      PROVE  TokenInv'
  <2> DEFINE row == [held EXCEPT !.slots[s] = tokensMade + 1]
  <2>1. /\ row \in Row /\ row.enabled = held.enabled
        /\ row.slots = [held.slots EXCEPT ![s] = tokensMade + 1]
        /\ \A u \in Slots : row.slots[u] = IF u = s THEN tokensMade + 1 ELSE held.slots[u]
    <3> HIDE DEF held
    <3>1. held \in [slots : [Slots -> Nat], enabled : BOOLEAN] /\ tokensMade + 1 \in Nat
      BY <1>1 DEF Row, TokenInv, TokenTypeOK
    <3>2. row = [held EXCEPT !.slots = [held.slots EXCEPT ![s] = tokensMade + 1]]
      BY <3>1
    <3>3. [held.slots EXCEPT ![s] = tokensMade + 1] \in [Slots -> Nat]
      BY <3>1
    <3> QED BY <3>1, <3>2, <3>3 DEF Row
  <2>2. /\ resolverRows' = [resolverRows EXCEPT ![id] = row]
        /\ keeping' = [Outdated(id) EXCEPT ![k] = NotKeeping]
        /\ overwritten' = IF keeping[k].fresh THEN overwritten ELSE overwritten \cup {id}
        /\ tokensMade' = tokensMade + 1
        /\ lastRotated' = [lastRotated EXCEPT ![id] = [lastRotated[id] EXCEPT ![s] = tokensMade + 1]]
        /\ UNCHANGED <<consuming, lastSwitched>>
    BY <1>3, <1>1 DEF RotateToken, SaveWhole, TokenInv, TokenTypeOK
  <2>3. /\ lastRotated' \in [ResolverIds -> [Slots -> Nat]] /\ lastSwitched' \in [ResolverIds -> BOOLEAN]
        /\ overwritten' \in SUBSET ResolverIds /\ overwritten \subseteq overwritten'
        /\ \A i \in ResolverIds \ {id} : lastRotated'[i] = lastRotated[i] /\ lastSwitched'[i] = lastSwitched[i]
    BY <1>1, <2>2 DEF TokenInv, TokenTypeOK
  <2>4. id \notin overwritten' => row.slots = lastRotated'[id] /\ row.enabled = lastSwitched'[id]
    <3> SUFFICES ASSUME id \notin overwritten' PROVE row.slots = lastRotated'[id] /\ row.enabled = lastSwitched'[id]
      OBVIOUS
    <3>1. held.slots = lastRotated[id] /\ held.enabled = lastSwitched[id]
      BY <1>1, <1>2, <2>2 DEF TokenInv, TokensAsRotated
    <3> QED BY <1>1, <2>1, <2>2, <3>1 DEF TokenInv, TokenTypeOK
  <2>5. \E old \in Row : /\ IsRowOf(old, id)
                         /\ \A u \in Slots : \/ row.slots[u] = old.slots[u]
                                             \/ row.slots[u] = tokensMade + 1 /\ tokensMade' = tokensMade + 1
    BY <1>1, <2>1, <2>2
  <2> HIDE DEF id, row
  <2> QED BY <1>1, <2>1, <2>2, <2>3, <2>4, <2>5, ChangeKeeps DEF id
<1>4. CASE UpdateResolver(k)
  <2>1. /\ resolverRows' = [resolverRows EXCEPT ![id] = held]
        /\ keeping' = [Outdated(id) EXCEPT ![k] = NotKeeping]
        /\ overwritten' = IF keeping[k].fresh THEN overwritten ELSE overwritten \cup {id}
        /\ UNCHANGED <<tokensMade, consuming, lastRotated, lastSwitched>>
    BY <1>4 DEF UpdateResolver, SaveWhole
  <2>2. /\ lastRotated' \in [ResolverIds -> [Slots -> Nat]] /\ lastSwitched' \in [ResolverIds -> BOOLEAN]
        /\ overwritten' \in SUBSET ResolverIds /\ overwritten \subseteq overwritten'
    BY <1>1, <2>1 DEF TokenInv, TokenTypeOK
  <2>3. id \notin overwritten' => held.slots = lastRotated'[id] /\ held.enabled = lastSwitched'[id]
    BY <1>1, <1>2, <2>1 DEF TokenInv, TokensAsRotated
  <2> HIDE DEF id, held
  <2> QED BY <1>1, <2>1, <2>2, <2>3, ChangeKeeps DEF id
<1>5. CASE RemoveResolver(k)
  <2>1. /\ resolverRows' = [resolverRows EXCEPT ![id] = NoResolver]
        /\ keeping' = [Outdated(id) EXCEPT ![k] = NotKeeping]
        /\ UNCHANGED <<tokensMade, consuming, lastRotated, lastSwitched, overwritten>>
    BY <1>5 DEF RemoveResolver
  <2>2. /\ lastRotated' \in [ResolverIds -> [Slots -> Nat]] /\ lastSwitched' \in [ResolverIds -> BOOLEAN]
        /\ overwritten' \in SUBSET ResolverIds
    BY <2>1 DEF TokenInv, TokenTypeOK
  <2> HIDE DEF id
  <2> QED BY <1>1, <2>1, <2>2, ChangeKeeps DEF id
<1>6. ASSUME NEW on \in BOOLEAN, SwitchResolver(k, on)
      PROVE  TokenInv'
  <2>1. CASE held.enabled = on \/ resolverRows[id] = NoResolver
    <3>1. /\ keeping' = [keeping EXCEPT ![k] = NotKeeping]
          /\ UNCHANGED <<resolverRows, tokensMade, consuming, lastRotated, lastSwitched, overwritten>>
      BY <1>6, <2>1 DEF SwitchResolver
    <3>2. TokenTypeOK' /\ FreshInv' /\ TokensAsRotated' /\ KnownInv'
      BY <3>1 DEF TokenInv, TokenTypeOK, KeepingState, NotKeeping, FreshInv, TokensAsRotated, KnownInv
    <3>3. \A i \in ResolverIds, row \in Row : IsRowOf(row, i)' => IsRowOf(row, i)
      BY <3>1 DEF IsRowOf, NotKeeping, TokenInv, TokenTypeOK
    <3>4. OwnerInv'
      BY <3>1, <3>3 DEF TokenInv, OwnerInv
    <3> QED BY <3>2, <3>4 DEF TokenInv
  <2>2. CASE ~(held.enabled = on \/ resolverRows[id] = NoResolver)
    <3> DEFINE row == [resolverRows[id] EXCEPT !.enabled = on]
    <3>1. /\ resolverRows' = [resolverRows EXCEPT ![id] = row]
          /\ keeping' = [Outdated(id) EXCEPT ![k] = NotKeeping]
          /\ lastSwitched' = [lastSwitched EXCEPT ![id] = on]
          /\ UNCHANGED <<tokensMade, consuming, lastRotated, overwritten>>
      BY <1>1, <1>6, <2>2 DEF SwitchResolver, TokenInv, TokenTypeOK
    <3>2. /\ resolverRows[id] \in Row /\ IsRowOf(resolverRows[id], id)
          /\ row \in Row /\ row.slots = resolverRows[id].slots /\ row.enabled = on
      BY <1>1, <2>2 DEF Row, TokenInv, TokenTypeOK, IsRowOf
    <3>3. /\ lastRotated' \in [ResolverIds -> [Slots -> Nat]] /\ lastSwitched' \in [ResolverIds -> BOOLEAN]
          /\ overwritten' \in SUBSET ResolverIds
          /\ \A i \in ResolverIds \ {id} : lastRotated'[i] = lastRotated[i] /\ lastSwitched'[i] = lastSwitched[i]
      BY <1>1, <3>1 DEF TokenInv, TokenTypeOK
    <3>4. id \notin overwritten' => row.slots = lastRotated'[id] /\ row.enabled = lastSwitched'[id]
      BY <1>1, <2>2, <3>1, <3>2 DEF TokenInv, TokensAsRotated, TokenTypeOK
    <3> HIDE DEF id, row
    <3> QED BY <1>1, <3>1, <3>2, <3>3, <3>4, ChangeKeeps DEF id
  <2> QED BY <2>1, <2>2
<1> QED BY <1>3, <1>4, <1>5, <1>6

\* A new resolver has one new token and nothing in its other slot.
LEMMA InsertKeeps ==
    ASSUME TokenInv, NEW id \in ResolverIds, NEW enabled \in BOOLEAN,
           InsertResolver(id, OnlyFirst(tokensMade + 1), enabled),
           keeping' = keeping \/ \E k \in Keepers : keeping' = [keeping EXCEPT ![k] = NotKeeping]
    PROVE  TokenInv'
<1> DEFINE row == [slots |-> OnlyFirst(tokensMade + 1), enabled |-> enabled]
<1>1. /\ resolverRows[id] = NoResolver /\ tokensMade' = tokensMade + 1
      /\ resolverRows' = [resolverRows EXCEPT ![id] = row]
      /\ lastRotated' = [lastRotated EXCEPT ![id] = row.slots]
      /\ lastSwitched' = [lastSwitched EXCEPT ![id] = enabled]
      /\ UNCHANGED <<consuming, overwritten>>
  BY DEF InsertResolver
<1>2. /\ row \in Row /\ row.slots \in [Slots -> Nat] /\ row.enabled = enabled
      /\ \A s \in Slots : row.slots[s] \in {0, tokensMade + 1}
  BY DEF Row, OnlyFirst, Slots, TokenInv, TokenTypeOK
<1>3. \A k \in Keepers : keeping'[k] = keeping[k] \/ keeping'[k] = NotKeeping
  BY DEF TokenInv, TokenTypeOK
<1> HIDE DEF row
<1>4. TokenTypeOK'
  <2>1. keeping' \in [Keepers -> KeepingState]
    BY DEF TokenInv, TokenTypeOK, KeepingState, NotKeeping
  <2> QED BY <1>1, <1>2, <2>1 DEF TokenInv, TokenTypeOK
<1>5. FreshInv'
  <2> SUFFICES ASSUME NEW k \in Keepers, keeping'[k].pc = "loaded", keeping'[k].fresh
               PROVE  /\ keeping'[k].row = resolverRows'[keeping'[k].id]
                      /\ keeping'[k].row # NoResolver
    BY DEF FreshInv
  <2>1. keeping'[k] = keeping[k] /\ keeping[k].id \in ResolverIds
    BY <1>3 DEF NotKeeping, TokenInv, TokenTypeOK, KeepingState
  <2>2. keeping[k].row = resolverRows[keeping[k].id] /\ keeping[k].row # NoResolver
    BY <2>1 DEF TokenInv, FreshInv
  <2> QED BY <1>1, <2>1, <2>2 DEF TokenInv, TokenTypeOK
<1>6. TokensAsRotated'
  BY <1>1, <1>2 DEF TokenInv, TokensAsRotated, TokenTypeOK
<1>7. ASSUME NEW i \in ResolverIds, NEW new \in Row, IsRowOf(new, i)'
      PROVE  IsRowOf(new, i) \/ (i = id /\ new = row)
  <2>1. CASE new = resolverRows'[i] /\ new # NoResolver
    BY <1>1, <2>1 DEF IsRowOf, TokenInv, TokenTypeOK
  <2>2. ASSUME NEW k \in Keepers,
               keeping'[k].pc = "loaded" /\ keeping'[k].id = i /\ keeping'[k].row = new
        PROVE  keeping[k].pc = "loaded" /\ keeping[k].id = i /\ keeping[k].row = new
    BY <1>3, <2>2 DEF NotKeeping
  <2> QED BY <1>7, <2>1, <2>2 DEF IsRowOf
<1>8. OwnerInv'
  <2> SUFFICES ASSUME NEW i \in ResolverIds, NEW j \in ResolverIds, NEW new \in Row, NEW other \in Row,
                      IsRowOf(new, i)', IsRowOf(other, j)', NEW s \in Slots, NEW u \in Slots
               PROVE  /\ new.slots[s] <= tokensMade'
                      /\ new.slots[s] = other.slots[u] /\ new.slots[s] # 0 => i = j
    BY DEF OwnerInv
  <2>1. \/ IsRowOf(new, i) /\ new.slots[s] <= tokensMade
        \/ i = id /\ new.slots[s] \in {0, tokensMade + 1}
    BY <1>2, <1>7 DEF TokenInv, OwnerInv
  <2>2. \/ IsRowOf(other, j) /\ other.slots[u] <= tokensMade
        \/ j = id /\ other.slots[u] \in {0, tokensMade + 1}
    BY <1>2, <1>7 DEF TokenInv, OwnerInv
  <2>3. IsRowOf(new, i) /\ IsRowOf(other, j) =>
            (new.slots[s] = other.slots[u] /\ new.slots[s] # 0 => i = j)
    BY DEF TokenInv, OwnerInv
  <2>4. tokensMade \in Nat /\ new.slots[s] \in Nat /\ other.slots[u] \in Nat
    BY DEF Row, TokenInv, TokenTypeOK
  <2> QED BY <1>1, <2>1, <2>2, <2>3, <2>4
<1>9. KnownInv'
  BY <1>1 DEF TokenInv, KnownInv
<1> QED BY <1>4, <1>5, <1>6, <1>8, <1>9 DEF TokenInv

LEMMA CreateOrCopyKeeps ==
    ASSUME TokenInv, NEW id \in ResolverIds,
           CreateResolver(id) \/ \E k \in Keepers : CopyResolver(k, id)
    PROVE  TokenInv'
<1>1. CASE CreateResolver(id)
  BY <1>1, InsertKeeps DEF CreateResolver
<1>2. ASSUME NEW k \in Keepers, CopyResolver(k, id)
      PROVE  TokenInv'
  <2>1. /\ InsertResolver(id, OnlyFirst(tokensMade + 1), keeping[k].row.enabled)
        /\ keeping' = [keeping EXCEPT ![k] = NotKeeping] /\ keeping[k].pc = "loaded"
    BY <1>2 DEF CopyResolver, CopyTokens
  <2>2. keeping[k].row.enabled \in BOOLEAN
    BY <2>1 DEF TokenInv, TokenTypeOK, KeepingState, Row
  <2> QED BY <2>1, <2>2, InsertKeeps
<1> QED BY <1>1, <1>2

\* Steps that leave the table alone
LEMMA LoadKeeps ==
    ASSUME TokenInv, NEW k \in Keepers,
           \/ KeeperGivesUp(k)
           \/ \E id \in ResolverIds, call \in {"rotate", "update", "switch", "delete", "copy"} :
                 LoadResolver(k, id, call)
    PROVE  TokenInv'
<1>1. /\ UNCHANGED <<resolverRows, tokensMade, consuming, lastRotated, lastSwitched, overwritten>>
      /\ \/ keeping' = [keeping EXCEPT ![k] = NotKeeping]
         \/ \E id \in ResolverIds, call \in {"rotate", "update", "switch", "delete", "copy"} :
               /\ resolverRows[id] # NoResolver
               /\ keeping' = [keeping EXCEPT ![k] =
                     [pc |-> "loaded", id |-> id, row |-> resolverRows[id], call |-> call, fresh |-> TRUE]]
  BY DEF KeeperGivesUp, LoadResolver
<1>2. /\ \A q \in Keepers \ {k} : keeping'[q] = keeping[q]
      /\ \/ keeping'[k] = NotKeeping
         \/ \E id \in ResolverIds, call \in {"rotate", "update", "switch", "delete", "copy"} :
               /\ resolverRows[id] # NoResolver /\ resolverRows[id] \in Row
               /\ keeping'[k] = [pc |-> "loaded", id |-> id, row |-> resolverRows[id],
                                 call |-> call, fresh |-> TRUE]
  BY <1>1 DEF TokenInv, TokenTypeOK
<1>3. /\ keeping'[k] \in KeepingState
      /\ keeping'[k].pc = "loaded" =>
            /\ keeping'[k].id \in ResolverIds
            /\ keeping'[k].row = resolverRows[keeping'[k].id] /\ keeping'[k].row # NoResolver
  <2>1. CASE keeping'[k] = NotKeeping
    BY <2>1 DEF KeepingState, NotKeeping
  <2>2. ASSUME NEW id \in ResolverIds, NEW call \in {"rotate", "update", "switch", "delete", "copy"},
               resolverRows[id] # NoResolver, resolverRows[id] \in Row,
               keeping'[k] = [pc |-> "loaded", id |-> id, row |-> resolverRows[id],
                              call |-> call, fresh |-> TRUE]
        PROVE  /\ keeping'[k] \in KeepingState
               /\ keeping'[k].id = id /\ keeping'[k].row = resolverRows[id]
    BY <2>2 DEF KeepingState
  <2> QED BY <1>2, <2>1, <2>2 DEF NotKeeping
<1>4. TokenTypeOK'
  <2>1. keeping' \in [Keepers -> KeepingState]
    BY <1>1, <1>3 DEF TokenInv, TokenTypeOK
  <2> QED BY <1>1, <2>1 DEF TokenInv, TokenTypeOK
<1>5. FreshInv'
  BY <1>1, <1>2, <1>3 DEF TokenInv, FreshInv
<1>6. \A i \in ResolverIds, row \in Row : IsRowOf(row, i)' => IsRowOf(row, i)
  BY <1>1, <1>2, <1>3 DEF IsRowOf
<1>7. OwnerInv'
  BY <1>1, <1>6 DEF TokenInv, OwnerInv
<1> QED BY <1>1, <1>4, <1>5, <1>7 DEF TokenInv, TokensAsRotated, KnownInv

LEMMA ConsumerKeeps ==
    ASSUME TokenInv, NEW c \in Consumers,
           \/ \E t \in Token : PresentToken(c, t)
           \/ StampToken(c) \/ AdmitConsumer(c) \/ EndConsuming(c)
    PROVE  TokenInv'
<1>1. UNCHANGED <<resolverRows, tokensMade, keeping, lastRotated, lastSwitched, overwritten>>
  <2>1. CASE StampToken(c)
    <3>1. consuming[c].pc = "stamp" /\ consuming[c].id \in ResolverIds
      BY <2>1 DEF StampToken, TokenInv, TokenTypeOK, ConsumingState
    <3> QED BY <2>1, <3>1 DEF StampToken, Stamped, TokenInv, TokenTypeOK
  <2> QED BY <2>1 DEF PresentToken, AdmitConsumer, EndConsuming
<1>2. FreshInv' /\ TokensAsRotated' /\ OwnerInv'
  BY <1>1 DEF TokenInv, FreshInv, TokensAsRotated, OwnerInv, IsRowOf
<1>3. ASSUME NEW new \in ConsumingState, consuming' = [consuming EXCEPT ![c] = new],
             new.pc # "idle" /\ new.id \notin overwritten => new.row.enabled = new.on,
             new.pc = "admitted" => new.row.enabled
      PROVE  TokenTypeOK' /\ KnownInv'
  <2>1. TokenTypeOK'
    BY <1>1, <1>3 DEF TokenInv, TokenTypeOK
  <2>2. KnownInv'
    BY <1>1, <1>3 DEF TokenInv, TokenTypeOK, KnownInv
  <2> QED BY <2>1, <2>2
<1>4. consuming' = [consuming EXCEPT ![c] = NotConsuming] => TokenTypeOK' /\ KnownInv'
  <2>1. NotConsuming \in ConsumingState /\ NotConsuming.pc = "idle"
    BY DEF NotConsuming, ConsumingState
  <2> HIDE DEF NotConsuming
  <2> QED BY <1>3, <2>1
<1>5. ASSUME NEW t \in Token, PresentToken(c, t)
      PROVE  TokenTypeOK' /\ KnownInv'
  <2>1. PICK id \in ResolverIds :
            /\ Holders(t) = {id}
            /\ consuming' = [consuming EXCEPT ![c] =
                 [pc |-> "stamp", id |-> id, row |-> resolverRows[id], on |-> lastSwitched[id]]]
    BY <1>5 DEF PresentToken
  <2>2. resolverRows[id] # NoResolver /\ resolverRows[id] \in Row /\ lastSwitched[id] \in BOOLEAN
    BY <2>1 DEF Holders, TokenInv, TokenTypeOK
  <2>3. [pc |-> "stamp", id |-> id, row |-> resolverRows[id], on |-> lastSwitched[id]] \in ConsumingState
    BY <2>2 DEF ConsumingState
  <2>4. id \notin overwritten => resolverRows[id].enabled = lastSwitched[id]
    BY <2>2 DEF TokenInv, TokensAsRotated
  <2> QED BY <1>3, <2>1, <2>3, <2>4
<1>6. ASSUME StampToken(c) PROVE TokenTypeOK' /\ KnownInv'
  <2>1. consuming[c] \in [pc : {"stamp"}, id : ResolverIds, row : Row, on : BOOLEAN]
    BY <1>6 DEF StampToken, TokenInv, TokenTypeOK, ConsumingState
  <2> DEFINE new == [consuming[c] EXCEPT !.pc = "known"]
  <2>2. /\ new \in ConsumingState /\ new.pc = "known"
        /\ new.id = consuming[c].id /\ new.row = consuming[c].row /\ new.on = consuming[c].on
    BY <2>1 DEF ConsumingState
  <2>3. \/ consuming' = [consuming EXCEPT ![c] = NotConsuming]
        \/ consuming' = [consuming EXCEPT ![c] = new]
    BY <1>6 DEF StampToken, TokenInv, TokenTypeOK
  <2>4. consuming[c].id \notin overwritten => consuming[c].row.enabled = consuming[c].on
    BY <2>1 DEF TokenInv, KnownInv
  <2> HIDE DEF new
  <2> QED BY <1>3, <1>4, <2>1, <2>2, <2>3, <2>4
<1>7. ASSUME AdmitConsumer(c) PROVE TokenTypeOK' /\ KnownInv'
  <2>1. consuming[c] \in [pc : {"known"}, id : ResolverIds, row : Row, on : BOOLEAN]
    BY <1>7 DEF AdmitConsumer, TokenInv, TokenTypeOK, ConsumingState
  <2> DEFINE new == [consuming[c] EXCEPT !.pc = "admitted"]
  <2>2. /\ new \in ConsumingState /\ new.pc = "admitted"
        /\ new.id = consuming[c].id /\ new.row = consuming[c].row /\ new.on = consuming[c].on
    BY <2>1 DEF ConsumingState
  <2>3. \/ consuming' = [consuming EXCEPT ![c] = NotConsuming]
        \/ /\ consuming' = [consuming EXCEPT ![c] = new]
           /\ consuming[c].row.enabled
    BY <1>7 DEF AdmitConsumer, Admits, TokenInv, TokenTypeOK
  <2>4. consuming[c].id \notin overwritten => consuming[c].row.enabled = consuming[c].on
    BY <2>1 DEF TokenInv, KnownInv
  <2> HIDE DEF new
  <2> QED BY <1>3, <1>4, <2>1, <2>2, <2>3, <2>4
<1>8. ASSUME EndConsuming(c) PROVE TokenTypeOK' /\ KnownInv'
  BY <1>4, <1>8 DEF EndConsuming
<1> QED BY <1>2, <1>5, <1>6, <1>7, <1>8 DEF TokenInv

LEMMA TokenInitInv == TokenInit => TokenInv
<1> SUFFICES ASSUME TokenInit PROVE TokenInv
  OBVIOUS
<1>1. PICK first \in ResolverIds :
         /\ resolverRows = [id \in ResolverIds |->
               IF id = first THEN [slots |-> OnlyFirst(1), enabled |-> TRUE] ELSE NoResolver]
         /\ lastRotated = [id \in ResolverIds |-> IF id = first THEN OnlyFirst(1) ELSE OnlyFirst(0)]
  BY DEF TokenInit
<1>2. /\ OnlyFirst(0) \in [Slots -> Nat] /\ OnlyFirst(1) \in [Slots -> Nat]
      /\ \A s \in Slots : OnlyFirst(1)[s] <= 1
  BY DEF OnlyFirst, Slots
<1>3. TokenTypeOK
  BY <1>1, <1>2 DEF TokenInit, TokenTypeOK, Row, KeepingState, NotKeeping, ConsumingState, NotConsuming
<1>4. FreshInv /\ KnownInv
  BY DEF TokenInit, FreshInv, KnownInv, NotKeeping, NotConsuming
<1>5. TokensAsRotated
  BY <1>1 DEF TokenInit, TokensAsRotated
<1>6. \A i \in ResolverIds, row \in Row :
         IsRowOf(row, i) => i = first /\ row = [slots |-> OnlyFirst(1), enabled |-> TRUE]
  BY <1>1 DEF TokenInit, IsRowOf, NotKeeping
<1>7. OwnerInv
  BY <1>2, <1>6 DEF TokenInit, OwnerInv
<1> QED BY <1>3, <1>4, <1>5, <1>7 DEF TokenInv

LEMMA TokenInvKept == TokenInv /\ [TokenNext]_tokenVars => TokenInv'
<1> SUFFICES ASSUME TokenInv, [TokenNext]_tokenVars PROVE TokenInv'
  OBVIOUS
<1>1. CASE UNCHANGED tokenVars
  BY <1>1 DEF tokenVars, TokenInv, TokenTypeOK, FreshInv, TokensAsRotated, OwnerInv, IsRowOf, KnownInv
<1> QED BY <1>1, KeeperKeeps, CreateOrCopyKeeps, LoadKeeps, ConsumerKeeps DEF TokenNext

-----------------------------------------------------------------------------
\* Neither switching a resolver nor the use of its token, which save what they read
\* earlier, brings an old token or an old flag back.
THEOREM RotatedTokensStay == TokenSpec => []TokensAsRotated
<1>1. TokenInv => TokensAsRotated
  BY DEF TokenInv
<1> QED BY <1>1, TokenInitInv, TokenInvKept, PTL DEF TokenSpec

\* However creations, copies, rotations and saves of old rows overlap, a token
\* identifies one resolver.
THEOREM TokensIdentify == TokenSpec => []OneHolder
<1>1. TokenInv => OneHolder
  <2> SUFFICES ASSUME TokenInv, NEW t \in Token, NEW i \in Holders(t), NEW j \in Holders(t)
               PROVE  i = j
    BY DEF OneHolder
  <2>1. /\ i \in ResolverIds /\ resolverRows[i] # NoResolver
        /\ j \in ResolverIds /\ resolverRows[j] # NoResolver
    BY DEF Holders
  <2>2. PICK s \in Slots : resolverRows[i].slots[s] = t
    BY DEF Holders
  <2>3. PICK u \in Slots : resolverRows[j].slots[u] = t
    BY DEF Holders
  <2>4. resolverRows[i] \in Row /\ resolverRows[j] \in Row
    BY <2>1 DEF TokenInv, TokenTypeOK
  <2>5. IsRowOf(resolverRows[i], i) /\ IsRowOf(resolverRows[j], j)
    BY <2>1 DEF IsRowOf
  <2>6. t # 0
    BY DEF Token
  <2> QED BY <2>1, <2>2, <2>3, <2>4, <2>5, <2>6 DEF TokenInv, OwnerInv
<1> QED BY <1>1, TokenInitInv, TokenInvKept, PTL DEF TokenSpec

\* A resolver that is disabled when its token is presented is not let in.
THEOREM DisabledStayOut == TokenSpec => []DisabledIsRefused
<1>1. TokenInv => DisabledIsRefused
  BY DEF TokenInv, KnownInv, DisabledIsRefused
<1> QED BY <1>1, TokenInitInv, TokenInvKept, PTL DEF TokenSpec

=============================================================================
