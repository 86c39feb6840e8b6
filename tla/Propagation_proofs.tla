------------------------- MODULE Propagation_proofs -------------------------
(***************************************************************************)
(* What a propagation does to its targets, for every rule and every number *)
(* of targets and versions.                                                *)
(***************************************************************************)
EXTENDS Propagation, SequenceTheorems, WellFoundedInduction, TLAPS

Doc     == [head : Nat, own : Nat]
Target  == [there : BOOLEAN, locked : BOOLEAN, docs : Seq(Doc)]
Planned == [of : Targets, doc : Doc]
Result  == [of : Targets, status : {"skipped", "unchanged", "error", "updated"}]

RunState ==
    [pc : {"idle"}]
      \cup [pc : {"read", "write", "failed", "done"}, v : Nat, left : SUBSET Targets,
            plan : SUBSET Planned, result : SUBSET Result]

PropTypeOK ==
    /\ sources \in Nat /\ edits \in Nat /\ meddled \subseteq Targets
    /\ targets \in [Targets -> Target] /\ \A t \in Targets : Len(targets[t].docs) > 0
    /\ ownKeys \in [Targets -> Nat]
    /\ run \in RunState

\* A target that nobody has meddled with is as it was read until it is written.
PlanInv ==
    InFlight =>
      /\ \A p \in run.plan :
            /\ p.of \notin run.left
            /\ \A q \in run.plan : q.of = p.of => q = p
            /\ p.of \notin meddled =>
                 targets[p.of].there /\ ~targets[p.of].locked /\ p.doc = Referred(p.of)
      /\ Targets = run.left \cup {p.of : p \in run.plan} \cup {r.of : r \in run.result}
      /\ run.pc = "write" => run.left = {}

\* What is reported of a target stays so until somebody meddles with it.
Reported(r) ==
    \/ r.status = "updated" /\ Latest(r.of).head = run.v
    \/ r.status = "unchanged" /\ Referred(r.of).head = run.v
    \/ r.status = "skipped" /\ (targets[r.of].locked \/ r.of \in Forbidden)

ResultInv == InFlight => \A r \in run.result : r.of \notin meddled => Reported(r)

PropInv == PropTypeOK /\ PlanInv /\ ResultInv /\ OwnKeysKept

-----------------------------------------------------------------------------
\* The first of some targets is one of them.
LEMMA FirstIsOne ==
    ASSUME NEW S, S \subseteq Targets, S # {}
    PROVE  First(S) \in S
<1> DEFINE R == OpToRel(<, Nat)
<1>1. S \subseteq Nat
  BY PropAssumption
<1>2. IsWellFoundedOn(R, Nat)
  BY NatLessThanWellFounded
<1>3. \A x, y \in Nat : y < x => <<y, x>> \in R
  BY DEF OpToRel
<1> HIDE DEF R
<1>4. PICK t \in S : \A u \in S : ~ (<<u, t>> \in R)
  BY <1>1, <1>2, WFMin
<1>5. \A u \in S : t <= u
  <2> TAKE u \in S
  <2>1. t \in Nat /\ u \in Nat /\ ~(u < t)
    BY <1>1, <1>3, <1>4
  <2> QED BY <2>1
<1> QED BY <1>5 DEF First

\* The latest version and the one referred to are documents.
LEMMA VersionsTyped ==
    ASSUME PropTypeOK, NEW t \in Targets
    PROVE  /\ targets[t] \in Target /\ Latest(t) \in Doc /\ Referred(t) \in Doc
           /\ RefOf[t] = "latest" => Referred(t) = Latest(t)
BY DEF PropTypeOK, Target, Latest, Referred

\* What a new version changes of a target, and what it does not
LEMMA AddVersion ==
    ASSUME PropTypeOK, NEW t \in Targets, NEW d \in Doc,
           targets' = [targets EXCEPT ![t].docs = Append(@, d)]
    PROVE  /\ targets' \in [Targets -> Target] /\ \A u \in Targets : Len(targets'[u].docs) > 0
           /\ \A u \in Targets : /\ targets'[u].there = targets[u].there
                                 /\ targets'[u].locked = targets[u].locked
                                 /\ u # t => targets'[u] = targets[u]
           /\ Latest(t)' = d
           /\ Referred(t)' = IF RefOf[t] = "latest" THEN d ELSE Referred(t)
<1> DEFINE docs == targets[t].docs
<1>1. targets[t] \in Target /\ docs \in Seq(Doc) /\ Len(docs) > 0 /\ Len(docs) \in Nat
  BY DEF PropTypeOK, Target
<1>2. targets' = [targets EXCEPT ![t] = [targets[t] EXCEPT !.docs = Append(docs, d)]]
  OBVIOUS
<1>3. /\ Append(docs, d) \in Seq(Doc) /\ Len(Append(docs, d)) = Len(docs) + 1
      /\ Append(docs, d)[Len(docs) + 1] = d /\ Append(docs, d)[1] = docs[1]
  BY <1>1
<1> HIDE DEF docs
<1>4. [targets[t] EXCEPT !.docs = Append(docs, d)] \in Target
  BY <1>1, <1>3 DEF Target
<1>5. targets' \in [Targets -> Target]
  BY <1>2, <1>4 DEF PropTypeOK
<1>6. \A u \in Targets : /\ u # t => targets'[u] = targets[u]
                         /\ u = t => /\ targets'[u].docs = Append(docs, d)
                                     /\ targets'[u].there = targets[u].there
                                     /\ targets'[u].locked = targets[u].locked
  BY <1>1, <1>2 DEF PropTypeOK, Target
<1>7. Latest(t)' = d
  BY <1>3, <1>6, <1>1 DEF Latest
<1>8. Referred(t)' = IF RefOf[t] = "latest" THEN d ELSE Referred(t)
  BY <1>3, <1>6, <1>7 DEF Referred, docs
<1>9. \A u \in Targets : Len(targets'[u].docs) > 0
  BY <1>1, <1>3, <1>6 DEF PropTypeOK
<1> QED BY <1>5, <1>6, <1>7, <1>8, <1>9

-----------------------------------------------------------------------------
(* Users *)

\* Whatever a user does to one target while a propagation is in flight, nothing
\* is said of that target any more, and the others are as they were.
LEMMA UserKeeps ==
    ASSUME PropInv, NEW t \in Targets, UNCHANGED run,
           targets' \in [Targets -> Target], \A u \in Targets : Len(targets'[u].docs) > 0,
           \A u \in Targets : u # t => targets'[u] = targets[u],
           ownKeys' \in [Targets -> Nat], sources' \in Nat, edits' \in Nat,
           meddled' \subseteq Targets, InFlight => meddled' = meddled \cup {t}
    PROVE  PropTypeOK' /\ PlanInv' /\ ResultInv'
<1>1. PropTypeOK'
  BY DEF PropInv, PropTypeOK
<1>2. \A u \in Targets : u # t => Latest(u)' = Latest(u) /\ Referred(u)' = Referred(u)
  BY DEF Latest, Referred
<1>3. run \in RunState
  BY DEF PropInv, PropTypeOK
<1>4. PlanInv'
  BY <1>2, <1>3 DEF PropInv, PlanInv, InFlight, RunState, Planned
<1>5. ResultInv'
  BY <1>2, <1>3 DEF PropInv, ResultInv, InFlight, Reported, RunState, Result
<1> QED BY <1>1, <1>4, <1>5
LEMMA UserStepKeeps ==
    ASSUME PropInv,
           \/ AddSource
           \/ \E t \in Targets, head \in 0 .. MaxSources : EditTarget(t, head)
           \/ \E t \in Targets : LockTarget(t) \/ DeleteTarget(t)
    PROVE  PropInv'
<1>0. PropTypeOK /\ MaxSources \in Nat
  BY PropAssumption DEF PropInv
<1>1. CASE AddSource
  <2>1. PropTypeOK'
    BY <1>0, <1>1 DEF AddSource, PropTypeOK
  <2>2. PlanInv' /\ ResultInv' /\ OwnKeysKept'
    BY <1>1 DEF AddSource, PropInv, PlanInv, ResultInv, OwnKeysKept, InFlight, Reported, Latest, Referred
  <2> QED BY <2>1, <2>2 DEF PropInv
<1>2. ASSUME NEW t \in Targets, NEW head \in 0 .. MaxSources, EditTarget(t, head)
      PROVE  PropInv'
  <2> DEFINE d == [head |-> head, own |-> edits + 1]
  <2>1. d \in Doc /\ d.own = edits + 1
    BY <1>0 DEF Doc, PropTypeOK
  <2>2. targets' = [targets EXCEPT ![t].docs = Append(@, d)]
    BY <1>2 DEF EditTarget
  <2> HIDE DEF d
  <2>3. /\ targets' \in [Targets -> Target] /\ \A u \in Targets : Len(targets'[u].docs) > 0
        /\ \A u \in Targets : u # t => targets'[u] = targets[u]
        /\ Latest(t)' = d
    BY <1>0, <2>1, <2>2, AddVersion
  <2>4. ownKeys' = [ownKeys EXCEPT ![t] = edits + 1] /\ ownKeys' \in [Targets -> Nat]
    BY <1>0, <1>2 DEF EditTarget, PropTypeOK
  <2>5. /\ UNCHANGED <<sources, run>> /\ edits' = edits + 1
        /\ meddled' = IF InFlight THEN meddled \cup {t} ELSE meddled \ {t}
    BY <1>2 DEF EditTarget
  <2>6. sources' \in Nat /\ edits' \in Nat /\ meddled' \subseteq Targets
    BY <1>0, <2>5 DEF PropTypeOK
  <2>7. PropTypeOK' /\ PlanInv' /\ ResultInv'
    BY <2>3, <2>4, <2>5, <2>6, UserKeeps
  <2>8. OwnKeysKept'
    <3> SUFFICES ASSUME NEW u \in Targets \ meddled', RefOf[u] = "latest"
                 PROVE  Latest(u)'.own = ownKeys'[u]
      BY DEF OwnKeysKept
    <3>1. CASE u = t
      BY <1>0, <2>1, <2>3, <2>4, <3>1 DEF PropTypeOK
    <3>2. CASE u # t
      BY <1>0, <2>3, <2>4, <2>5, <3>2 DEF PropInv, OwnKeysKept, Latest, PropTypeOK
    <3> QED BY <3>1, <3>2
  <2> QED BY <2>7, <2>8 DEF PropInv
<1>3. ASSUME NEW t \in Targets, LockTarget(t) \/ DeleteTarget(t)
      PROVE  PropInv'
  <2>1. /\ UNCHANGED <<sources, run, ownKeys>> /\ edits' = edits + 1
        /\ meddled' = IF InFlight THEN meddled \cup {t} ELSE meddled
        /\ \/ targets' = [targets EXCEPT ![t] = [targets[t] EXCEPT !.locked = ~@]]
           \/ targets' = [targets EXCEPT ![t] = [targets[t] EXCEPT !.there = FALSE]]
    BY <1>3 DEF LockTarget, DeleteTarget, Meddle
  <2>2. targets[t] \in Target
    BY <1>0 DEF PropTypeOK
  <2>3. /\ targets' \in [Targets -> Target]
        /\ \A u \in Targets : targets'[u].docs = targets[u].docs /\ (u # t => targets'[u] = targets[u])
    <3>1. PICK x \in Target : x.docs = targets[t].docs /\ targets' = [targets EXCEPT ![t] = x]
      <4>1. CASE targets' = [targets EXCEPT ![t] = [targets[t] EXCEPT !.locked = ~@]]
        <5>1. /\ [targets[t] EXCEPT !.locked = ~@] \in Target
              /\ [targets[t] EXCEPT !.locked = ~@].docs = targets[t].docs
          BY <2>2 DEF Target
        <5> QED BY <4>1, <5>1
      <4>2. CASE targets' = [targets EXCEPT ![t] = [targets[t] EXCEPT !.there = FALSE]]
        <5>1. /\ [targets[t] EXCEPT !.there = FALSE] \in Target
              /\ [targets[t] EXCEPT !.there = FALSE].docs = targets[t].docs
          BY <2>2 DEF Target
        <5> QED BY <4>2, <5>1
      <4> QED BY <2>1, <4>1, <4>2
    <3> QED BY <1>0, <3>1 DEF PropTypeOK
  <2>4. /\ sources' \in Nat /\ edits' \in Nat /\ meddled' \subseteq Targets /\ ownKeys' \in [Targets -> Nat]
    BY <1>0, <2>1 DEF PropTypeOK
  <2>5. \A u \in Targets : Len(targets'[u].docs) > 0
    BY <1>0, <2>3 DEF PropTypeOK
  <2>6. PropTypeOK' /\ PlanInv' /\ ResultInv'
    BY <2>1, <2>3, <2>4, <2>5, UserKeeps
  <2>7. OwnKeysKept'
    BY <2>1, <2>3 DEF PropInv, OwnKeysKept, Latest
  <2> QED BY <2>6, <2>7 DEF PropInv
<1> QED BY <1>1, <1>2, <1>3

-----------------------------------------------------------------------------
(* The propagation *)

LEMMA OwnKeysUntouched ==
    ASSUME PropInv, UNCHANGED <<targets, meddled, ownKeys>>
    PROVE  OwnKeysKept'
BY DEF PropInv, OwnKeysKept, Latest

\* It begins with nothing planned and everything to read, or ends.
LEMMA BeginOrEndKeeps ==
    ASSUME PropInv,
           \/ \E v \in 1 .. MaxSources : SetTag(v) \/ PropagateManually(v)
           \/ AllRead \/ EndRun \/ PropagationDies
    PROVE  PropInv'
<1>0. PropTypeOK
  BY DEF PropInv
<1>1. UNCHANGED <<sources, edits, meddled, targets, ownKeys>>
  BY DEF SetTag, PropagateManually, AllRead, EndRun, PropagationDies, NotBegun, NotEdited
<1>2. Targets' = Targets /\ OwnKeysKept'
  BY <1>1, OwnKeysUntouched
<1>3. \/ run' = NoRun
      \/ \E v \in 1 .. MaxSources : run' = Start(v)
      \/ run.pc = "read" /\ run.left = {} /\ run' = [run EXCEPT !.pc = "write"]
      \/ run.pc = "write" /\ run' = [run EXCEPT !.pc = "done"]
  BY DEF SetTag, PropagateManually, AllRead, EndRun, PropagationDies
<1>4. CASE run' = NoRun
  <2>1. PropTypeOK'
    BY <1>0, <1>1, <1>4 DEF PropTypeOK, RunState, NoRun
  <2> QED BY <1>2, <1>4, <2>1 DEF PropInv, PlanInv, ResultInv, InFlight, NoRun
<1>5. ASSUME NEW v \in 1 .. MaxSources, run' = Start(v)
      PROVE  PropInv'
  <2>1. Start(v) \in RunState
    BY PropAssumption DEF Start, RunState
  <2>2. PropTypeOK'
    BY <1>0, <1>1, <1>5, <2>1 DEF PropTypeOK
  <2> QED BY <1>2, <1>5, <2>2 DEF PropInv, PlanInv, ResultInv, InFlight, Start
<1>6. CASE \/ run.pc = "read" /\ run.left = {} /\ run' = [run EXCEPT !.pc = "write"]
           \/ run.pc = "write" /\ run' = [run EXCEPT !.pc = "done"]
  <2>1. /\ run \in [pc : {"read", "write", "failed", "done"}, v : Nat, left : SUBSET Targets,
                    plan : SUBSET Planned, result : SUBSET Result]
        /\ InFlight
    BY <1>0, <1>6 DEF PropTypeOK, RunState, InFlight
  <2>2. /\ run' \in RunState /\ UNCHANGED <<run.v, run.left, run.plan, run.result>>
        /\ run'.pc = "write" => run.left = {}
    BY <1>6, <2>1 DEF RunState
  <2>3. PropTypeOK'
    BY <1>0, <1>1, <2>2 DEF PropTypeOK
  <2>4. PlanInv' /\ ResultInv'
    BY <1>1, <2>1, <2>2 DEF PropInv, PlanInv, ResultInv, InFlight, Reported, Latest, Referred
  <2> QED BY <1>2, <2>3, <2>4 DEF PropInv
<1> QED BY <1>3, <1>4, <1>5, <1>6

LEMMA ReadTargetKeeps ==
    ASSUME PropInv, ReadTarget
    PROVE  PropInv'
<1> DEFINE t == First(run.left)
<1>0. /\ PropTypeOK /\ InFlight
      /\ run \in [pc : {"read", "write", "failed", "done"}, v : Nat, left : SUBSET Targets,
                  plan : SUBSET Planned, result : SUBSET Result]
      /\ run.pc = "read"
  BY DEF PropInv, PropTypeOK, RunState, ReadTarget, InFlight
<1>1. UNCHANGED <<sources, edits, meddled, targets, ownKeys>>
  BY DEF ReadTarget, NotBegun, NotEdited
<1>2. t \in run.left /\ t \in Targets /\ OwnKeysKept'
  BY <1>0, <1>1, FirstIsOne, OwnKeysUntouched DEF ReadTarget
<1>3. \/ run' = [run EXCEPT !.pc = "failed"]
      \/ targets[t].locked /\ run' = [run EXCEPT !.left = @ \ {t},
                                               !.result = @ \cup {[of |-> t, status |-> "skipped"]}]
      \/ targets[t].there /\ ~targets[t].locked
         /\ run' = [run EXCEPT !.left = @ \ {t}, !.plan = @ \cup {[of |-> t, doc |-> Referred(t)]}]
  BY DEF ReadTarget
<1> HIDE DEF t
<1>4. CASE run' = [run EXCEPT !.pc = "failed"]
  <2>1. run' \in RunState /\ run'.pc = "failed"
    BY <1>0, <1>4 DEF RunState
  <2>2. PropTypeOK'
    BY <1>0, <1>1, <2>1 DEF PropTypeOK
  <2> QED BY <1>2, <2>1, <2>2 DEF PropInv, PlanInv, ResultInv, InFlight
<1>5. CASE targets[t].locked /\ run' = [run EXCEPT !.left = @ \ {t},
                                               !.result = @ \cup {[of |-> t, status |-> "skipped"]}]
  <2> DEFINE x == [of |-> t, status |-> "skipped"]
  <2>1. x \in Result /\ x.of = t /\ x.status = "skipped"
    BY <1>2 DEF Result
  <2>2. /\ run'.pc = run.pc /\ run'.v = run.v /\ run'.left = run.left \ {t}
        /\ run'.plan = run.plan /\ run'.result = run.result \cup {x}
    BY <1>0, <1>5
  <2> HIDE DEF x
  <2>3. run' \in RunState
    BY <1>0, <1>5, <2>1 DEF RunState, x
  <2>4. PropTypeOK'
    BY <1>0, <1>1, <2>3 DEF PropTypeOK
  <2>5. PlanInv'
    BY <1>0, <1>1, <1>2, <2>1, <2>2 DEF PropInv, PlanInv, InFlight, Latest, Referred
  <2>6. ResultInv'
    BY <1>0, <1>1, <1>5, <2>1, <2>2 DEF PropInv, ResultInv, InFlight, Reported, Latest, Referred
  <2> QED BY <1>2, <2>4, <2>5, <2>6 DEF PropInv
<1>6. CASE targets[t].there /\ ~targets[t].locked
           /\ run' = [run EXCEPT !.left = @ \ {t}, !.plan = @ \cup {[of |-> t, doc |-> Referred(t)]}]
  <2> DEFINE p == [of |-> t, doc |-> Referred(t)]
  <2>1. p \in Planned /\ p.of = t /\ p.doc = Referred(t)
    BY <1>0, <1>2, VersionsTyped DEF Planned
  <2>2. /\ run'.pc = run.pc /\ run'.v = run.v /\ run'.left = run.left \ {t}
        /\ run'.plan = run.plan \cup {p} /\ run'.result = run.result
    BY <1>0, <1>6
  <2> HIDE DEF p
  <2>3. run' \in RunState
    BY <1>0, <1>6, <2>1 DEF RunState, p
  <2>4. PropTypeOK'
    BY <1>0, <1>1, <2>3 DEF PropTypeOK
  <2>5. PlanInv'
    BY <1>0, <1>1, <1>2, <1>6, <2>1, <2>2 DEF PropInv, PlanInv, InFlight, Latest, Referred
  <2>6. ResultInv'
    BY <1>0, <1>1, <2>2 DEF PropInv, ResultInv, InFlight, Reported, Latest, Referred
  <2> QED BY <1>2, <2>4, <2>5, <2>6 DEF PropInv
<1> QED BY <1>3, <1>4, <1>5, <1>6
\* A target is worked through: only its versions have changed, if anything has.
LEMMA FinishKeeps ==
    ASSUME PropInv, run.pc = "write", NEW p \in run.plan,
           NEW status \in {"skipped", "unchanged", "error", "updated"}, Finish(p, status),
           UNCHANGED <<sources, edits, meddled, ownKeys>>,
           targets' \in [Targets -> Target], \A u \in Targets : Len(targets'[u].docs) > 0,
           \A u \in Targets : u # p.of => targets'[u] = targets[u],
           \A r \in run.result : r.of = p.of /\ p.of \notin meddled => Reported(r)',
           p.of \notin meddled => Reported([of |-> p.of, status |-> status])'
    PROVE  PropTypeOK' /\ PlanInv' /\ ResultInv'
<1> DEFINE x == [of |-> p.of, status |-> status]
<1>0. /\ PropTypeOK /\ InFlight
      /\ run \in [pc : {"read", "write", "failed", "done"}, v : Nat, left : SUBSET Targets,
                  plan : SUBSET Planned, result : SUBSET Result]
  BY DEF PropInv, PropTypeOK, RunState, InFlight
<1>1. p.of \in Targets /\ x \in Result /\ x.of = p.of
  BY <1>0 DEF Planned, Result
<1>2. run' = [run EXCEPT !.plan = @ \ {p}, !.result = @ \cup {x}]
  BY DEF Finish
<1>3. p.of \notin meddled => Reported(x)'
  OBVIOUS
<1> HIDE DEF x
<1>4. /\ run'.pc = run.pc /\ run'.v = run.v /\ run'.left = run.left
      /\ run'.plan = run.plan \ {p} /\ run'.result = run.result \cup {x} /\ run' \in RunState
  BY <1>0, <1>1, <1>2 DEF RunState
<1>5. PropTypeOK'
  BY <1>0, <1>4 DEF PropTypeOK
<1>6. \A u \in Targets : u # p.of => Latest(u)' = Latest(u) /\ Referred(u)' = Referred(u)
  BY DEF Latest, Referred
<1>7. PlanInv'
  <2> SUFFICES /\ \A q \in run.plan \ {p} :
                     /\ q.of \notin run.left
                     /\ \A y \in run.plan \ {p} : y.of = q.of => y = q
                     /\ q.of \notin meddled => /\ targets'[q.of].there /\ ~targets'[q.of].locked
                                               /\ q.doc = Referred(q.of)'
               /\ Targets = run.left \cup {q.of : q \in run.plan \ {p}} \cup {r.of : r \in run.result \cup {x}}
               /\ run.pc = "write" => run.left = {}
    BY <1>4 DEF PlanInv
  <2>1. ASSUME NEW q \in run.plan \ {p}
        PROVE  /\ q.of \notin run.left
               /\ \A y \in run.plan \ {p} : y.of = q.of => y = q
               /\ q.of \notin meddled => /\ targets'[q.of].there /\ ~targets'[q.of].locked
                                         /\ q.doc = Referred(q.of)'
    <3>1. q.of \in Targets /\ q.of # p.of
      BY <1>0, <2>1 DEF PropInv, PlanInv, Planned
    <3> QED BY <1>0, <1>6, <2>1, <3>1 DEF PropInv, PlanInv
  <2>2. Targets = run.left \cup {q.of : q \in run.plan \ {p}} \cup {r.of : r \in run.result \cup {x}}
    <3>1. Targets = run.left \cup {q.of : q \in run.plan} \cup {r.of : r \in run.result}
      BY <1>0 DEF PropInv, PlanInv
    <3>2. \A u \in Targets : u \in run.left \cup {q.of : q \in run.plan \ {p}} \cup {r.of : r \in run.result \cup {x}}
      BY <1>1, <3>1
    <3>3. {q.of : q \in run.plan \ {p}} \subseteq Targets /\ {r.of : r \in run.result \cup {x}} \subseteq Targets
      BY <1>0, <1>1 DEF Planned, Result
    <3> QED BY <1>0, <3>2, <3>3
  <2>3. run.pc = "write" => run.left = {}
    BY <1>0 DEF PropInv, PlanInv
  <2> QED BY <2>1, <2>2, <2>3
<1>8. ResultInv'
  <2> SUFFICES ASSUME NEW r \in run.result \cup {x}, r.of \notin meddled
               PROVE  Reported(r)'
    BY <1>4 DEF ResultInv
  <2>1. CASE r = x
    BY <1>1, <1>3, <2>1
  <2>2. CASE r \in run.result /\ r.of = p.of
    BY <2>2
  <2>3. CASE r \in run.result /\ r.of # p.of
    <3>1. r.of \in Targets /\ Reported(r)
      BY <1>0, <2>3 DEF PropInv, ResultInv, Result
    <3> QED BY <1>4, <1>6, <2>3, <3>1 DEF Reported
  <2> QED BY <2>1, <2>2, <2>3
<1> QED BY <1>5, <1>7, <1>8

LEMMA WriteTargetKeeps ==
    ASSUME PropInv, WriteTarget
    PROVE  PropInv'
<1>0. /\ PropTypeOK /\ InFlight /\ run.pc = "write" /\ run.plan # {}
      /\ run \in [pc : {"read", "write", "failed", "done"}, v : Nat, left : SUBSET Targets,
                  plan : SUBSET Planned, result : SUBSET Result]
  BY DEF PropInv, PropTypeOK, RunState, WriteTarget, InFlight
<1>1. PICK p \in run.plan : p = CHOOSE q \in run.plan : q.of = First({x.of : x \in run.plan})
  <2>1. {x.of : x \in run.plan} \subseteq Targets /\ {x.of : x \in run.plan} # {}
    BY <1>0 DEF Planned
  <2>2. First({x.of : x \in run.plan}) \in {x.of : x \in run.plan}
    BY <2>1, FirstIsOne
  <2> QED BY <2>2
<1> DEFINE t == p.of
<1>2. PICK doc : doc = Merged(p.doc, run.v)
  OBVIOUS
<1>3. /\ t \in Targets /\ p.doc \in Doc
      /\ doc \in Doc /\ doc.head = run.v /\ doc.own = p.doc.own
  BY <1>0, <1>1, <1>2 DEF Merged, Doc, Planned
<1> DEFINE writable == targets[t].there /\ ~targets[t].locked
<1>4. \/ doc = p.doc /\ Finish(p, "unchanged") /\ UNCHANGED targets
      \/ /\ doc # p.doc /\ ~(writable /\ t \notin Forbidden)
         /\ Finish(p, IF t \in Forbidden /\ targets[t].there THEN "skipped" ELSE "error")
         /\ UNCHANGED targets
      \/ /\ doc # p.doc /\ writable /\ t \notin Forbidden
         /\ Finish(p, "updated")
         /\ targets' = IF AddsVersion(t, doc) THEN [targets EXCEPT ![t].docs = Append(@, doc)] ELSE targets
  BY <1>1, <1>2 DEF WriteTarget
<1>5. UNCHANGED <<sources, edits, meddled, ownKeys>>
  BY DEF WriteTarget, NotBegun, NotEdited
<1>6. t \notin meddled => targets[t].there /\ ~targets[t].locked /\ p.doc = Referred(t)
  BY <1>0, <1>1 DEF PropInv, PlanInv
<1>7. ASSUME UNCHANGED targets, NEW status \in {"skipped", "unchanged", "error", "updated"}, Finish(p, status),
             t \notin meddled => \/ status = "updated" /\ Latest(t).head = run.v
                                 \/ status = "unchanged" /\ Referred(t).head = run.v
                                 \/ status = "skipped" /\ t \in Forbidden
      PROVE  PropInv'
  <2> DEFINE x == [of |-> t, status |-> status]
  <2>1. run'.v = run.v
    BY <1>0, <1>7 DEF Finish
  <2>2. \A u \in Targets : Latest(u)' = Latest(u) /\ Referred(u)' = Referred(u)
    BY <1>7 DEF Latest, Referred
  <2>3. t \notin meddled => Reported(x)'
    <3>1. x.of = t /\ x.status = status
      OBVIOUS
    <3> HIDE DEF x
    <3> QED BY <1>3, <1>7, <2>1, <2>2, <3>1 DEF Reported
  <2>4. \A r \in run.result : r.of = t /\ t \notin meddled => Reported(r)'
    BY <1>0, <1>3, <1>7, <2>1, <2>2 DEF PropInv, ResultInv, Reported
  <2>5. targets' \in [Targets -> Target] /\ \A u \in Targets : Len(targets'[u].docs) > 0
    BY <1>0, <1>7 DEF PropTypeOK
  <2>6. PropTypeOK' /\ PlanInv' /\ ResultInv'
    BY <1>0, <1>3, <1>5, <1>7, <2>3, <2>4, <2>5, FinishKeeps
  <2>7. OwnKeysKept'
    BY <1>5, <1>7, OwnKeysUntouched
  <2> QED BY <2>6, <2>7 DEF PropInv
<1>8. CASE doc = p.doc /\ Finish(p, "unchanged") /\ UNCHANGED targets
  BY <1>3, <1>6, <1>7, <1>8
<1>9. CASE /\ doc # p.doc /\ ~(writable /\ t \notin Forbidden)
           /\ Finish(p, IF t \in Forbidden /\ targets[t].there THEN "skipped" ELSE "error")
           /\ UNCHANGED targets
  <2> DEFINE status == IF t \in Forbidden /\ targets[t].there THEN "skipped" ELSE "error"
  <2>1. status \in {"skipped", "error"} /\ (t \notin meddled => status = "skipped" /\ t \in Forbidden)
    BY <1>6, <1>9
  <2>2. Finish(p, status)
    BY <1>9
  <2> HIDE DEF status
  <2> QED BY <1>7, <1>9, <2>1, <2>2
<1>10. CASE /\ doc # p.doc /\ writable /\ t \notin Forbidden
           /\ Finish(p, "updated")
           /\ targets' = IF AddsVersion(t, doc) THEN [targets EXCEPT ![t].docs = Append(@, doc)] ELSE targets
  <2>1. CASE ~AddsVersion(t, doc)
    BY <1>3, <1>7, <1>10, <2>1 DEF AddsVersion
  <2>2. CASE AddsVersion(t, doc)
    <3>1. targets' = [targets EXCEPT ![t].docs = Append(@, doc)]
      BY <1>10, <2>2
    <3>2. /\ targets' \in [Targets -> Target] /\ \A u \in Targets : Len(targets'[u].docs) > 0
          /\ \A u \in Targets : /\ targets'[u].locked = targets[u].locked
                                /\ u # t => targets'[u] = targets[u]
          /\ Latest(t)' = doc
          /\ Referred(t)' = IF RefOf[t] = "latest" THEN doc ELSE Referred(t)
      BY <1>0, <1>3, <3>1, AddVersion
    <3>3. run'.v = run.v
      BY <1>0, <1>10 DEF Finish
    <3>4. t \notin meddled => Reported([of |-> t, status |-> "updated"])'
      BY <1>3, <3>2, <3>3 DEF Reported
    <3>5. \A r \in run.result : r.of = t /\ t \notin meddled => Reported(r)'
      BY <1>0, <1>3, <3>2, <3>3 DEF PropInv, ResultInv, Reported
    <3>6. PropTypeOK' /\ PlanInv' /\ ResultInv'
      BY <1>0, <1>3, <1>5, <1>10, <3>2, <3>4, <3>5, FinishKeeps
    <3>7. OwnKeysKept'
      <4> SUFFICES ASSUME NEW u \in Targets \ meddled, RefOf[u] = "latest"
                   PROVE  Latest(u)'.own = ownKeys[u]
        BY <1>5 DEF OwnKeysKept
      <4>1. CASE u = t
        <5>1. Referred(t) = Latest(t) /\ Latest(t).own = ownKeys[t]
          BY <1>0, <4>1, VersionsTyped DEF PropInv, OwnKeysKept
        <5> QED BY <1>3, <1>6, <3>2, <4>1, <5>1
      <4>2. CASE u # t
        BY <3>2, <4>2 DEF PropInv, OwnKeysKept, Latest
      <4> QED BY <4>1, <4>2
    <3> QED BY <3>6, <3>7 DEF PropInv
  <2> QED BY <2>1, <2>2
<1> QED BY <1>4, <1>8, <1>9, <1>10

-----------------------------------------------------------------------------
LEMMA PropInitInv == PropInit => PropInv
<1> SUFFICES ASSUME PropInit PROVE PropInv
  OBVIOUS
<1> DEFINE d == [head |-> 0, own |-> 0]
           x == [there |-> TRUE, locked |-> FALSE, docs |-> <<d>>]
<1>1. d \in Doc /\ <<d>> \in Seq(Doc) /\ Len(<<d>>) = 1 /\ <<d>>[1] = d /\ d.own = 0
  BY DEF Doc
<1>2. targets = [t \in Targets |-> x] /\ x.docs = <<d>>
  BY DEF PropInit
<1> HIDE DEF d
<1>3. x \in Target
  BY <1>1 DEF Target
<1> HIDE DEF x
<1>4. \A t \in Targets : Len(targets[t].docs) > 0 /\ Latest(t) = d
  <2> SUFFICES ASSUME NEW t \in Targets PROVE Len(targets[t].docs) > 0 /\ Latest(t) = d
    OBVIOUS
  <2>1. targets[t].docs = <<d>>
    BY <1>2
  <2> QED BY <1>1, <2>1 DEF Latest
<1>5. PropTypeOK
  BY <1>2, <1>3, <1>4 DEF PropInit, PropTypeOK, RunState, NoRun
<1>6. OwnKeysKept
  BY <1>1, <1>4 DEF PropInit, OwnKeysKept
<1>7. PlanInv /\ ResultInv
  BY DEF PropInit, PlanInv, ResultInv, InFlight, NoRun
<1> QED BY <1>5, <1>6, <1>7 DEF PropInv

LEMMA PropInvKept == PropInv /\ [PropNext]_propVars => PropInv'
<1> SUFFICES ASSUME PropInv, [PropNext]_propVars PROVE PropInv'
  OBVIOUS
<1>1. CASE UNCHANGED propVars
  <2>1. PropTypeOK'
    BY <1>1 DEF propVars, PropInv, PropTypeOK
  <2>2. PlanInv' /\ ResultInv' /\ OwnKeysKept'
    BY <1>1 DEF propVars, PropInv, PlanInv, ResultInv, OwnKeysKept, InFlight, Reported, Latest, Referred
  <2> QED BY <2>1, <2>2 DEF PropInv
<1> QED BY <1>1, UserStepKeeps, BeginOrEndKeeps, ReadTargetKeeps, WriteTargetKeeps DEF PropNext

\* However many versions are propagated, whoever dies in the middle too, a target
\* keeps the own keys that users last gave it.
THEOREM PropagationKeepsOwnKeys == PropSpec => []OwnKeysKept
<1>1. PropInv => OwnKeysKept
  BY DEF PropInv
<1> QED BY <1>1, PropInitInv, PropInvKept, PTL DEF PropSpec

\* When a propagation has worked through its targets, each one that nobody has
\* meddled with has the payload, or was locked or forbidden.
THEOREM PropagationArrives == PropSpec => []PayloadArrives
<1>1. PropInv => PayloadArrives
  <2> SUFFICES ASSUME PropInv, run.pc = "write", run.plan = {}
               PROVE  /\ {r.of : r \in run.result} = Targets
                      /\ \A r \in run.result : r.of \notin meddled => Reported(r)
    BY DEF PayloadArrives, Reported
  <2> QED BY DEF PropInv, PlanInv, ResultInv, InFlight
<1> QED BY <1>1, PropInitInv, PropInvKept, PTL DEF PropSpec

=============================================================================
