------------------------------ MODULE PathTree ------------------------------
(***************************************************************************)
(* What the tree of a namespace promises: a set of items, each at a path   *)
(* of its own, with the folders that their paths imply and no others.  A   *)
(* folder is not made or removed on its own account; deleting, moving or   *)
(* copying one means the items below it, in one step.                      *)
(***************************************************************************)
EXTENDS Integers, Sequences

CONSTANTS Paths, Kinds

VARIABLE items   \* the set of <<path, kind>>

Covers(q, p) == Len(p) >= Len(q) /\ SubSeq(p, 1, Len(q)) = q
Occupied     == {e[1] : e \in items}
Folders      == {p \in Paths : \E q \in Occupied : q # p /\ Covers(p, q)}
\* An item may be put at p: p is no item and no folder, and not below an item
Free(p)      == p \notin Occupied \cup Folders /\ \A q \in Occupied : ~Covers(q, p)
Inside(p)    == {e \in items : Covers(p, e[1])}
Placed(S, p, d) == {<<d \o SubSeq(e[1], Len(p) + 1, Len(e[1])), e[2]>> : e \in S}

Create(p, k) == Free(p) /\ items' = items \cup {<<p, k>>}

Delete(p)    == items' = items \ Inside(p)

Move(p, d)   == /\ Free(d) /\ ~Covers(p, d)
                /\ items' = (items \ Inside(p)) \cup Placed(Inside(p), p, d)

\* A copy leaves secrets out, and each item needs a free place
Copy(p, d)   ==
    LET S == {e \in Inside(p) : e[2] # "secret"}
    IN  /\ \A e \in Placed(S, p, d) : Free(e[1])
        /\ items' = items \cup Placed(S, p, d)

Init == items = {}

Next == \/ \E p \in Paths, k \in Kinds : Create(p, k)
        \/ \E p \in Paths : Delete(p)
        \/ \E p, d \in Paths : Move(p, d) \/ Copy(p, d)

Spec == Init /\ [][Next]_items

=============================================================================
