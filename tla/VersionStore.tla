---------------------------- MODULE VersionStore ----------------------------
(***************************************************************************)
(* What docs/concepts/versions-and-tags.md promises of one versioned item: *)
(* every call is one atomic step on a history of numbered contents, latest *)
(* always names the highest live version, and the other tags move only     *)
(* when somebody moves them.                                               *)
(***************************************************************************)
EXTENDS Naturals

CONSTANTS Docs, Names, MaxVersion, Absent, Cleared

VARIABLES exists, history, latest, pins

storeVars == <<exists, history, latest, pins>>

Numbers == 1 .. MaxVersion
Used(h) == {n \in Numbers : h[n] # Absent}
Alive(h) == {n \in Numbers : h[n] \in Docs}

Greatest(n, S) == (S = {} /\ n = 0) \/ (n \in S /\ \A m \in S : m <= n)

\* every change of the history carries latest with it
SetHistory(h) ==
    /\ history' = h
    /\ Greatest(latest', Alive(h))

Empty   == [n \in Numbers |-> Absent]
NoPins  == [t \in Names |-> 0]

Create(d) ==
    /\ ~exists
    /\ exists' = TRUE
    /\ SetHistory([Empty EXCEPT ![1] = d])
    /\ pins' = NoPins

\* content equal to the newest version's makes no new version
Publish(d) ==
    /\ exists
    /\ \E n \in Numbers :
          /\ \E m \in 0 .. MaxVersion :
                /\ Greatest(m, Used(history))
                /\ n = m + 1
                /\ m > 0 => history[m] # d
          /\ SetHistory([history EXCEPT ![n] = d])
    /\ UNCHANGED <<exists, pins>>

Pin(t, v) ==
    /\ exists
    /\ v \in Used(history)
    /\ pins' = [pins EXCEPT ![t] = v]
    /\ UNCHANGED <<exists, history, latest>>

Unpin(t) ==
    /\ pins' = [pins EXCEPT ![t] = 0]
    /\ UNCHANGED <<exists, history, latest>>

Clear(v) ==
    /\ v \in Alive(history)
    /\ SetHistory([history EXCEPT ![v] = Cleared])
    /\ UNCHANGED <<exists, pins>>

Remove ==
    /\ exists' = FALSE
    /\ SetHistory(Empty)
    /\ pins' = NoPins

Init ==
    /\ exists = FALSE
    /\ history = Empty
    /\ latest = 0
    /\ pins = NoPins

Next ==
    \/ \E d \in Docs : Create(d) \/ Publish(d)
    \/ \E t \in Names : Unpin(t) \/ \E v \in Numbers : Pin(t, v)
    \/ \E v \in Numbers : Clear(v)
    \/ Remove

Spec == Init /\ [][Next]_storeVars
=============================================================================
