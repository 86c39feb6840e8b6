---------------------------- MODULE Propagation ----------------------------
(***************************************************************************)
(* Propagation: when a tag is set on a source config, the payload of the   *)
(* tagged version is merged into its targets, one after the other, each    *)
(* from the version of the target that was read before any was written.    *)
(*                                                                         *)
(* A document is what it holds for the keys of the payload (head, one      *)
(* number per source version) and for the keys of the target's own (own).  *)
(***************************************************************************)
EXTENDS Integers, FiniteSets, Sequences

CONSTANTS
    Targets,        \* the targets of the rule, numbered in its order
    RefOf,          \* what the rule names of a target: "latest" or "pinned"
    Forbidden,      \* targets the caller may not write
    PropMayDie,     \* workers may die
    MaxSources,     \* bound: versions of the source
    MaxTargets,     \* bound: versions of a target
    MaxPropCalls,   \* bound: tags set and manual propagations
    MaxEdits        \* bound: edits of targets by users

ASSUME PropAssumption ==
    /\ Targets \subseteq Nat /\ IsFiniteSet(Targets) /\ Forbidden \subseteq Targets
    /\ RefOf \in [Targets -> {"latest", "pinned"}]
    /\ PropMayDie \in BOOLEAN
    /\ {MaxSources, MaxTargets, MaxPropCalls, MaxEdits} \subseteq Nat

VARIABLES
    sources,        \* versions of the source config
    sourceTag,      \* the version its tag names
    trigger,        \* the trigger of its rule
    targets,        \* each target: its versions, and whether it exists and is locked
    run,            \* the propagation in flight
    tagCalls,       \* calls begun so far
    edits,          \* edits so far
    ownKeys,        \* history: what users have last saved as each target's own keys,
    meddled         \* and the targets they changed while a propagation was in flight

propVars == <<sources, sourceTag, trigger, targets, run, tagCalls, edits, ownKeys, meddled>>

NoRun  == [pc |-> "idle"]
Latest(t) == targets[t].docs[Len(targets[t].docs)]

\* resolve_version: a pinned tag names the first version
Referred(t) == IF RefOf[t] = "latest" THEN Latest(t) ELSE targets[t].docs[1]

First(S)  == CHOOSE t \in S : \A u \in S : t <= u
InFlight  == run.pc \in {"read", "write"}
NotEdited == UNCHANGED <<sources, trigger, edits, ownKeys, meddled>>

-----------------------------------------------------------------------------
(* Users *)

\* A new version of the source
AddSource ==
    /\ sources < MaxSources
    /\ sources' = sources + 1
    /\ UNCHANGED <<sourceTag, trigger, targets, run, tagCalls, edits, ownKeys, meddled>>

\* A user saves a target with other keys of its own, and any payload
EditTarget(t, head) ==
    /\ edits < MaxEdits
    /\ targets[t].there /\ ~targets[t].locked /\ Len(targets[t].docs) < MaxTargets
    /\ edits' = edits + 1
    /\ targets' = [targets EXCEPT ![t].docs = Append(@, [head |-> head, own |-> edits + 1])]
    /\ ownKeys' = [ownKeys EXCEPT ![t] = edits + 1]
    /\ meddled' = IF InFlight THEN meddled \cup {t} ELSE meddled \ {t}
    /\ UNCHANGED <<sources, sourceTag, trigger, run, tagCalls>>

Meddle(t) == meddled' = IF InFlight THEN meddled \cup {t} ELSE meddled

\* It is locked, unlocked, or deleted
LockTarget(t) ==
    /\ edits < MaxEdits /\ targets[t].there
    /\ edits' = edits + 1
    /\ targets' = [targets EXCEPT ![t].locked = ~@]
    /\ Meddle(t)
    /\ UNCHANGED <<sources, sourceTag, trigger, run, tagCalls, ownKeys>>

DeleteTarget(t) ==
    /\ edits < MaxEdits /\ targets[t].there /\ ~targets[t].locked
    /\ edits' = edits + 1
    /\ targets' = [targets EXCEPT ![t].there = FALSE]
    /\ Meddle(t)
    /\ UNCHANGED <<sources, sourceTag, trigger, run, tagCalls, ownKeys>>

-----------------------------------------------------------------------------
(* set_config_tag and propagate_config *)

Start(v) == [pc |-> "read", v |-> v, left |-> Targets, plan |-> {}, result |-> {}]

\* The tag is saved first; one that names the version already is an error, and
\* the rule may be triggered by hand only
SetTag(v) ==
    /\ ~InFlight /\ tagCalls < MaxPropCalls
    /\ v \in 1 .. sources /\ v # sourceTag
    /\ tagCalls' = tagCalls + 1
    /\ sourceTag' = v
    /\ run' = IF trigger = "tag" THEN Start(v) ELSE NoRun
    /\ UNCHANGED targets /\ NotEdited

PropagateManually(v) ==
    /\ ~InFlight /\ tagCalls < MaxPropCalls
    /\ v \in 1 .. sources /\ trigger = "manual"
    /\ tagCalls' = tagCalls + 1
    /\ run' = Start(v)
    /\ UNCHANGED <<sourceTag, targets>> /\ NotEdited

NotBegun == UNCHANGED <<sourceTag, tagCalls>> /\ NotEdited

\* The first target not yet read.  A missing one ends the call with an error, a
\* locked one is skipped, of another the version referred to is read.
ReadTarget ==
    /\ run.pc = "read" /\ run.left # {}
    /\ LET t == First(run.left)
       IN  run' = IF ~targets[t].there THEN [run EXCEPT !.pc = "failed"]
                  ELSE IF targets[t].locked
                  THEN [run EXCEPT !.left = @ \ {t}, !.result = @ \cup {[of |-> t, status |-> "skipped"]}]
                  ELSE [run EXCEPT !.left = @ \ {t}, !.plan = @ \cup {[of |-> t, doc |-> Referred(t)]}]
    /\ UNCHANGED targets /\ NotBegun

AllRead ==
    /\ run.pc = "read" /\ run.left = {}
    /\ run' = [run EXCEPT !.pc = "write"]
    /\ UNCHANGED targets /\ NotBegun

\* Mutant: the payload replaces the document
Replaced(doc, v) == [head |-> v, own |-> 0]

\* Mutant: the target wins on a conflict
MergedUnder(doc, v) == IF doc.head = 0 THEN [doc EXCEPT !.head = v] ELSE doc

\* merge_target: the keys of the payload from the source, the others kept
Merged(doc, v) == [doc EXCEPT !.head = v]

\* _generic_update_versioned: content that is the last version's adds none
AddsVersion(t, doc) == doc # Latest(t)

Finish(p, status) ==
    run' = [run EXCEPT !.plan = @ \ {p}, !.result = @ \cup {[of |-> p.of, status |-> status]}]

\* The first target planned: it is left alone when the merge changes nothing of
\* what was read, skipped when the caller may not write it, in error when it is
\* locked or gone by now, and else updated
WriteTarget ==
    /\ run.pc = "write" /\ run.plan # {}
    /\ LET p == CHOOSE q \in run.plan : q.of = First({x.of : x \in run.plan})
           t == p.of
           doc == Merged(p.doc, run.v)
           writable == targets[t].there /\ ~targets[t].locked
       IN  \/ doc = p.doc /\ Finish(p, "unchanged") /\ UNCHANGED targets
           \/ /\ doc # p.doc /\ ~(writable /\ t \notin Forbidden)
              /\ Finish(p, IF t \in Forbidden /\ targets[t].there THEN "skipped" ELSE "error")
              /\ UNCHANGED targets
           \/ /\ doc # p.doc /\ writable /\ t \notin Forbidden
              /\ Finish(p, "updated")
              /\ targets' = IF AddsVersion(t, doc) THEN [targets EXCEPT ![t].docs = Append(@, doc)]
                            ELSE targets
    /\ NotBegun

EndRun ==
    /\ run.pc = "write" /\ run.plan = {}
    /\ run' = [run EXCEPT !.pc = "done"]
    /\ UNCHANGED targets /\ NotBegun

\* The worker dies: the tag is saved, some targets are written
PropagationDies ==
    /\ PropMayDie /\ InFlight
    /\ run' = NoRun
    /\ UNCHANGED targets /\ NotBegun

-----------------------------------------------------------------------------
PropInit ==
    /\ sources = 1 /\ sourceTag = 0 /\ trigger \in {"tag", "manual"}
    /\ targets = [t \in Targets |-> [there |-> TRUE, locked |-> FALSE, docs |-> <<[head |-> 0, own |-> 0]>>]]
    /\ run = NoRun
    /\ tagCalls = 0 /\ edits = 0
    /\ ownKeys = [t \in Targets |-> 0]
    /\ meddled = {}

PropNext ==
    \/ AddSource
    \/ \E t \in Targets, head \in 0 .. MaxSources : EditTarget(t, head)
    \/ \E t \in Targets : LockTarget(t) \/ DeleteTarget(t)
    \/ \E v \in 1 .. MaxSources : SetTag(v) \/ PropagateManually(v)
    \/ ReadTarget \/ AllRead \/ WriteTarget \/ EndRun \/ PropagationDies

PropSpec == PropInit /\ [][PropNext]_propVars

-----------------------------------------------------------------------------
(* Properties *)

\* Whatever users do meanwhile to other targets: when a propagation has worked
\* through its targets, the latest version of a target it reports as updated has
\* the payload, the version it refers to has it when it reports the target as
\* unchanged, and it has skipped only what is locked or forbidden.
PayloadArrives ==
    run.pc = "write" /\ run.plan = {} =>
        /\ {r.of : r \in run.result} = Targets
        /\ \A r \in run.result : r.of \notin meddled =>
              \/ r.status = "updated" /\ Latest(r.of).head = run.v
              \/ r.status = "unchanged" /\ Referred(r.of).head = run.v
              \/ r.status = "skipped" /\ (targets[r.of].locked \/ r.of \in Forbidden)

\* However many versions are propagated, by workers that may die in the middle
\* too: the latest version of a target keeps the own keys that users last gave
\* it, unless they did while a propagation was in flight, or the rule refers to
\* another version than the latest.
OwnKeysKept ==
    \A t \in Targets \ meddled : RefOf[t] = "latest" => Latest(t).own = ownKeys[t]

=============================================================================
