---------------------------- MODULE GlobalRules ----------------------------
(***************************************************************************)
(* The global permission rules: an ordered table that administrators edit, *)
(* and the compiled list that the checks of one worker process cache under *)
(* the number of rules and the time of the last change.                    *)
(*                                                                         *)
(* No call runs in a transaction: each statement is a step, and whatever a *)
(* call has read may be out of date when it writes.  The clock that stamps *)
(* updated_at is taken to move between two writes.                         *)
(***************************************************************************)
EXTENDS Integers, FiniteSets

CONSTANTS
    Admins,         \* calls of administrators in flight
    Checkers,       \* threads that check permissions
    RuleIds,        \* primary keys, ordered as the database orders them
    CatchAll,       \* CATCH_ALL_POSITION
    RuleModes,      \* {"alone"}: calls and checks one after the other
    MaxRuleWrites,  \* bound: rows written in a behaviour
    MaxChecks,      \* bound: checks begun in a behaviour
    NoRule

ASSUME RulesAssumption ==
    /\ RuleIds \subseteq Nat /\ IsFiniteSet(RuleIds)
    /\ CatchAll \in Nat \ {0}
    /\ MaxRuleWrites \in Nat /\ MaxChecks \in Nat
    /\ RuleModes \subseteq {"alone", "overlapping"}

VARIABLES
    rules,      \* the table: position, whether the pattern is * or **, stamp
    ruleClock,  \* the last stamp of updated_at
    compiled,   \* _global_cache: what was compiled under each signature
    adm,        \* what each administrator's call holds
    chk,        \* what each check holds
    checks,     \* checks begun so far
    ruleMode

ruleVars == <<rules, ruleClock, compiled, adm, chk, checks, ruleMode>>

Rule == [id : RuleIds, pos : 1 .. CatchAll, all : BOOLEAN, at : Nat]

NoCall  == [pc |-> "idle"]
NoCheck == [pc |-> "idle"]

Rows == {rules[i] : i \in {j \in RuleIds : rules[j] # NoRule}}

\* ORDER BY position, id
Before(a, b) == a.pos < b.pos \/ (a.pos = b.pos /\ a.id < b.id)

\* validate_global_rules_order: a catch-all pattern is the last one
OrderValid(S) == \A a \in S : a.all => \A b \in S \ {a} : Before(b, a)

\* _ordered_rule_dicts_after_insert: a new rule comes after those at its position
InsertValid(S, new) ==
    /\ \A a \in S : a.all => (\A b \in S \ {a} : Before(b, a)) /\ new.pos < a.pos
    /\ new.all => \A b \in S : b.pos <= new.pos

NextPosition ==
    LET below == {r.pos : r \in {q \in Rows : q.pos < CatchAll}}
    IN  IF below = {} THEN 1 ELSE (CHOOSE p \in below : \A q \in below : q <= p) + 1

-----------------------------------------------------------------------------
(* Administrators *)

RulesAtRest == /\ \A a \in Admins : adm[a].pc = "idle"
               /\ \A c \in Checkers : chk[c].pc # "missed"
MayBegin    == ruleMode = "alone" => RulesAtRest

Adm(a, m)  == adm' = [adm EXCEPT ![a] = m]
\* save(): the whole row, with a new stamp; a row deleted since is inserted again
Write(r)   == /\ ruleClock < MaxRuleWrites
              /\ ruleClock' = ruleClock + 1
              /\ rules' = [rules EXCEPT ![r.id] = [r EXCEPT !.at = ruleClock + 1]]
NotChecks  == UNCHANGED <<compiled, chk, checks, ruleMode>>

\* create: the position is chosen, and then the order read and validated
BeginCreate(a, all) ==
    /\ adm[a].pc = "idle" /\ MayBegin
    /\ \E i \in RuleIds :
          /\ rules[i] = NoRule /\ \A b \in Admins : adm[b].pc # "idle" => adm[b].row.id # i
          /\ Adm(a, [pc |-> "create", row |-> [id |-> i, pos |-> IF all THEN CatchAll ELSE NextPosition,
                                               all |-> all, at |-> 0]])
    /\ NotChecks /\ UNCHANGED <<rules, ruleClock>>

\* Mutant: the new rule is not validated among the others
ValidateCreateAlone(a) ==
    /\ adm[a].pc = "create"
    /\ Adm(a, [adm[a] EXCEPT !.pc = "save"])
    /\ NotChecks /\ UNCHANGED <<rules, ruleClock>>

ValidateCreate(a) ==
    /\ adm[a].pc = "create"
    /\ Adm(a, IF InsertValid(Rows, adm[a].row) THEN [adm[a] EXCEPT !.pc = "save"] ELSE NoCall)
    /\ NotChecks /\ UNCHANGED <<rules, ruleClock>>

\* update: the rule is loaded and gets a pattern, the order is validated with it
BeginUpdate(a, i, all) ==
    /\ adm[a].pc = "idle" /\ MayBegin
    /\ rules[i] # NoRule
    /\ Adm(a, [pc |-> "update", row |-> [rules[i] EXCEPT !.all = all]])
    /\ NotChecks /\ UNCHANGED <<rules, ruleClock>>

ValidateUpdate(a) ==
    /\ adm[a].pc = "update"
    /\ LET r == adm[a].row
           ordered == {IF b.id = r.id THEN [b EXCEPT !.all = r.all] ELSE b : b \in Rows}
           pos == IF r.all THEN CatchAll ELSE IF r.pos >= CatchAll THEN NextPosition ELSE r.pos
       IN  Adm(a, IF OrderValid(ordered)
                  THEN [pc |-> "save", row |-> [r EXCEPT !.pos = pos]] ELSE NoCall)
    /\ NotChecks /\ UNCHANGED <<rules, ruleClock>>

\* The row of a create or an update is written
SaveRule(a) ==
    /\ adm[a].pc = "save"
    /\ Write(adm[a].row) /\ Adm(a, NoCall) /\ NotChecks

\* move: the rule is loaded, and then the rules to shift, as they are then
BeginMove(a, i, p) ==
    /\ adm[a].pc = "idle" /\ MayBegin
    /\ rules[i] # NoRule /\ (rules[i].all => p = CatchAll) /\ (~rules[i].all => p < CatchAll)
    /\ Adm(a, [pc |-> "move", row |-> [rules[i] EXCEPT !.pos = p]])
    /\ NotChecks /\ UNCHANGED <<rules, ruleClock>>

SelectShifted(a) ==
    /\ adm[a].pc = "move"
    /\ LET r == adm[a].row
       IN  Adm(a, [pc |-> "shift", row |-> r, left |->
                     {b \in Rows : b.pos >= r.pos /\ b.pos < CatchAll /\ b.id # r.id}])
    /\ NotChecks /\ UNCHANGED <<rules, ruleClock>>

\* One of them is saved one further, in order; at last the rule itself.  The
\* order is validated after that, and nothing is undone when it is not valid.
ShiftOne(a) ==
    /\ adm[a].pc = "shift"
    /\ \E b \in adm[a].left :
          /\ \A c \in adm[a].left \ {b} : Before(b, c)
          /\ Write([b EXCEPT !.pos = @ + 1])
          /\ Adm(a, [adm[a] EXCEPT !.left = @ \ {b}])
    /\ NotChecks

PlaceMoved(a) ==
    /\ adm[a].pc = "shift" /\ adm[a].left = {}
    /\ Write(adm[a].row) /\ Adm(a, NoCall) /\ NotChecks

DeleteRule(i) ==
    /\ MayBegin /\ rules[i] # NoRule
    /\ rules' = [rules EXCEPT ![i] = NoRule]
    /\ UNCHANGED <<ruleClock, adm>> /\ NotChecks

\* The worker of a call dies: a move stops where it is
AdminDies(a) ==
    /\ adm[a].pc # "idle" /\ Adm(a, NoCall)
    /\ NotChecks /\ UNCHANGED <<rules, ruleClock>>

-----------------------------------------------------------------------------
(* Checks *)

\* Mutant: only the time of the last change is looked at
LatestOnly ==
    <<1, IF Rows = {} THEN 0 ELSE CHOOSE t \in {r.at : r \in Rows} : \A r \in Rows : r.at <= t>>

\* Mutant: only the number of rules is looked at
CountOnly == <<Cardinality(Rows), 0>>

\* cache_signature
Signature ==
    <<Cardinality(Rows),
      IF Rows = {} THEN 0 ELSE CHOOSE t \in {r.at : r \in Rows} : \A r \in Rows : r.at <= t>>

Chk(c, m)   == chk' = [chk EXCEPT ![c] = m]
NotAdmins   == UNCHANGED <<rules, ruleClock, adm, ruleMode>>
Cached(key) == \E e \in compiled : e.key = key

\* load_global_rules: the signature, and what is cached under it.  was is
\* history: the table when the signature was read.
BeginCheck(c) ==
    /\ chk[c].pc # "missed" /\ MayBegin /\ checks < MaxChecks
    /\ checks' = checks + 1
    /\ Chk(c, IF Rows = {} THEN [pc |-> "done", was |-> {}, served |-> {}]
              ELSE IF Cached(Signature)
              THEN [pc |-> "done", was |-> Rows,
                    served |-> (CHOOSE e \in compiled : e.key = Signature).list]
              ELSE [pc |-> "missed", key |-> Signature, was |-> Rows])
    /\ NotAdmins /\ UNCHANGED compiled

\* Otherwise the rows are read, compiled (an order that is not valid is an
\* error) and cached under the signature.  was keeps what is still there.
Compile(c) ==
    /\ chk[c].pc = "missed"
    /\ IF OrderValid(Rows)
       THEN /\ compiled' = {e \in compiled : e.key # chk[c].key}
                             \cup {[key |-> chk[c].key, list |-> Rows]}
            /\ Chk(c, [pc |-> "done", was |-> chk[c].was \cap Rows, served |-> Rows])
       ELSE Chk(c, NoCheck) /\ UNCHANGED compiled
    /\ NotAdmins /\ UNCHANGED checks

\* An entry is the least recently used, or the process starts anew
EvictRules(e) ==
    /\ compiled' = compiled \ {e}
    /\ NotAdmins /\ UNCHANGED <<chk, checks>>

-----------------------------------------------------------------------------
RulesInit ==
    /\ rules = [i \in RuleIds |-> NoRule]
    /\ ruleClock = 0 /\ checks = 0
    /\ compiled = {}
    /\ adm = [a \in Admins |-> NoCall]
    /\ chk = [c \in Checkers |-> NoCheck]
    /\ ruleMode \in RuleModes

RulesNext ==
    \/ \E a \in Admins, all \in BOOLEAN : BeginCreate(a, all)
    \/ \E a \in Admins, i \in RuleIds, all \in BOOLEAN : BeginUpdate(a, i, all)
    \/ \E a \in Admins, i \in RuleIds, p \in 1 .. CatchAll : BeginMove(a, i, p)
    \/ \E a \in Admins : \/ ValidateCreate(a) \/ ValidateUpdate(a) \/ SaveRule(a)
                         \/ SelectShifted(a) \/ ShiftOne(a) \/ PlaceMoved(a) \/ AdminDies(a)
    \/ \E i \in RuleIds : DeleteRule(i)
    \/ \E c \in Checkers : BeginCheck(c) \/ Compile(c)
    \/ \E e \in compiled : EvictRules(e)

RulesSpec == RulesInit /\ [][RulesNext]_ruleVars

-----------------------------------------------------------------------------
(* Properties *)

\* However edits, checks, evictions and lost moves interleave: a rule that is in
\* the table, unchanged, from the moment a check reads the signature until it has
\* its list is on the list, at its position, whoever compiled it and when.
RulesInForceServed ==
    \A c \in Checkers : chk[c].pc = "done" => chk[c].was \subseteq chk[c].served

\* While calls and checks come one after the other, a check applies exactly the
\* rules of the table: no two tables have had the same signature.
ServedListIsTable ==
    ruleMode = "alone" => \A c \in Checkers : chk[c].pc = "done" => chk[c].served = chk[c].was

\* While calls come one after the other the table always compiles, during a move
\* and after one that was lost too, unless a move has shifted a rule to the
\* position of the catch-all rule.
RulesCompile ==
    ruleMode = "alone" /\ (\A r \in Rows : ~r.all => r.pos < CatchAll) => OrderValid(Rows)

=============================================================================
