-------------------------- MODULE Iteration_proofs --------------------------
(***************************************************************************)
(* Induction over the numbers, in a form first-order provers can use: a set *)
(* that has 0 and with every number the next has them all.  It gives meaning *)
(* to recursive functions: what is carried on from one number to the next, *)
(* by a function on a set, is a function on all of them.                   *)
(***************************************************************************)
EXTENDS Integers, FiniteSets, WellFoundedInduction, FiniteSetTheorems, TLAPS

Less == {p \in Nat \X Nat : p[1] < p[2]}
\* The order of the numbers is well-founded.
LEMMA LessWF == IsWellFoundedOn(Less, Nat)
  BY NatLessThanWellFounded DEF OpToRel, Less

\* Induction, for sets.
LEMMA Induction ==
    ASSUME NEW S, 0 \in S, \A n \in Nat : n \in S => n + 1 \in S
    PROVE  Nat \subseteq S
<1> DEFINE T == {n \in Nat : n \notin S}
<1> SUFFICES ASSUME T # {} PROVE FALSE
  OBVIOUS
<1>1. PICK n \in T : \A k \in T : <<k, n>> \notin Less
  <2> HIDE DEF T
  <2>1. T \subseteq Nat
    BY DEF T
  <2> QED BY <2>1, LessWF, WFMin
<1>2. n \in Nat /\ n \notin S /\ n # 0
  BY <1>1
<1>3. n - 1 \in Nat /\ n - 1 + 1 = n
  BY <1>2
<1>4. <<n - 1, n>> \in Less
  BY <1>2, <1>3 DEF Less
<1>5. n - 1 \notin T
  BY <1>1, <1>4
<1> QED BY <1>2, <1>3, <1>5

\* A value can be carried on from one number to the next forever.
Iterates(f, s, step) == f = [n \in Nat |-> IF n = 0 THEN s ELSE step[f[n - 1]]]

Goes(f, s, step, n) == /\ f[0] = s
                       /\ \A k \in 1 .. n : f[k] = step[f[k - 1]]

\* A value can be carried on to any number,
LEMMA PrefixesExist ==
    ASSUME NEW S, NEW s \in S, NEW step \in [S -> S]
    PROVE  \A n \in Nat : \E f \in [0 .. n -> S] : Goes(f, s, step, n)
<1> DEFINE Done == {n \in Nat : \E f \in [0 .. n -> S] : Goes(f, s, step, n)}
<1>1. 0 \in Done
  <2>1. [k \in 0 .. 0 |-> s] \in [0 .. 0 -> S] /\ Goes([k \in 0 .. 0 |-> s], s, step, 0)
    BY DEF Goes
  <2> QED BY <2>1
<1>2. ASSUME NEW n \in Nat, n \in Done PROVE n + 1 \in Done
  <2>1. PICK f \in [0 .. n -> S] : Goes(f, s, step, n)
    BY <1>2
  <2> DEFINE g == [k \in 0 .. n + 1 |-> IF k = n + 1 THEN step[f[n]] ELSE f[k]]
  <2>2. g \in [0 .. n + 1 -> S]
    OBVIOUS
  <2>3. \A k \in 0 .. n : g[k] = f[k]
    OBVIOUS
  <2>4. g[n + 1] = step[f[n]]
    OBVIOUS
  <2> HIDE DEF g
  <2>5. ASSUME NEW k \in 1 .. n + 1 PROVE g[k] = step[g[k - 1]]
    <3>1. CASE k = n + 1
      BY <2>3, <2>4, <3>1
    <3>2. CASE k # n + 1
      <4>1. k \in 1 .. n /\ k \in 0 .. n /\ k - 1 \in 0 .. n
        BY <3>2
      <4> QED BY <2>1, <2>3, <4>1 DEF Goes
    <3> QED BY <3>1, <3>2
  <2>6. g[0] = s
    BY <2>1, <2>3 DEF Goes
  <2> QED BY <2>2, <2>5, <2>6 DEF Goes
<1> HIDE DEF Done
<1>3. Nat \subseteq Done
  BY <1>1, <1>2, Induction
<1> QED BY <1>3 DEF Done

\* in one way only,
LEMMA PrefixesAgree ==
    ASSUME NEW S, NEW s \in S, NEW step \in [S -> S], NEW m \in Nat, NEW n \in Nat,
           NEW f \in [0 .. m -> S], Goes(f, s, step, m),
           NEW g \in [0 .. n -> S], Goes(g, s, step, n)
    PROVE  \A k \in Nat : k <= m /\ k <= n => f[k] = g[k]
<1> DEFINE Same == {k \in Nat : k <= m /\ k <= n => f[k] = g[k]}
<1>1. 0 \in Same
  BY DEF Goes
<1>2. ASSUME NEW k \in Nat, k \in Same PROVE k + 1 \in Same
  <2> SUFFICES ASSUME k + 1 <= m, k + 1 <= n PROVE f[k + 1] = g[k + 1]
    OBVIOUS
  <2>1. k + 1 \in 1 .. m /\ k + 1 \in 1 .. n /\ k + 1 - 1 = k
    OBVIOUS
  <2> QED BY <1>2, <2>1 DEF Goes
<1> HIDE DEF Same
<1>3. Nat \subseteq Same
  BY <1>1, <1>2, Induction
<1> QED BY <1>3 DEF Same

\* so that the recursive definition has a function that it defines.
LEMMA Iteration ==
    ASSUME NEW S, NEW s \in S, NEW step \in [S -> S]
    PROVE  \E f \in [Nat -> S] : Iterates(f, s, step)
<1> DEFINE pre == [n \in Nat |-> CHOOSE f \in [0 .. n -> S] : Goes(f, s, step, n)]
           g == [n \in Nat |-> pre[n][n]]
<1>1. \A n \in Nat : pre[n] \in [0 .. n -> S] /\ Goes(pre[n], s, step, n)
  <2> TAKE n \in Nat
  <2>1. \E f \in [0 .. n -> S] : Goes(f, s, step, n)
    BY PrefixesExist
  <2>2. pre[n] = CHOOSE f \in [0 .. n -> S] : Goes(f, s, step, n)
    OBVIOUS
  <2> HIDE DEF pre
  <2> QED BY <2>1, <2>2
<1> HIDE DEF pre
<1>2. g \in [Nat -> S] /\ \A n \in Nat : g[n] = pre[n][n]
  BY <1>1
<1> HIDE DEF g
<1>3. g[0] = s
  BY <1>1, <1>2 DEF Goes
<1>4. ASSUME NEW n \in Nat, n # 0 PROVE g[n] = step[g[n - 1]]
  <2>1. n - 1 \in Nat /\ n \in 1 .. n /\ n - 1 <= n
    BY <1>4
  <2>2. pre[n][n] = step[pre[n][n - 1]]
    BY <1>1, <2>1 DEF Goes
  <2>3. pre[n][n - 1] = pre[n - 1][n - 1]
    BY <1>1, <2>1, PrefixesAgree
  <2> QED BY <1>2, <2>1, <2>2, <2>3
<1>5. \A n \in Nat : g[n] = IF n = 0 THEN s ELSE step[g[n - 1]]
  BY <1>3, <1>4
<1>6. g = [n \in Nat |-> IF n = 0 THEN s ELSE step[g[n - 1]]]
  BY <1>2, <1>5
<1> QED BY <1>2, <1>6 DEF Iterates

=============================================================================
