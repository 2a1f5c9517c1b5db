------------------------------ MODULE Induction ------------------------------
(***************************************************************************)
(* Induction over the naturals for the proofs about the recursive          *)
(* functions of the models, from the well-foundedness of the naturals: a   *)
(* property is given as a set and a step as a function, so that the lemmas *)
(* take no operator.                                                       *)
(***************************************************************************)
EXTENDS Integers, WellFoundedInduction, TLAPS

\* A set of naturals that is not empty has a least element.
LEMMA LeastNumber ==
  ASSUME NEW T \in SUBSET Nat, T # {}
  PROVE  \E n \in T : \A m \in T : n <= m
  <1> DEFINE R == {ss \in Nat \X Nat : ss[1] < ss[2]}
  <1>1. IsWellFoundedOn(R, Nat)
    BY NatLessThanWellFounded, Zenon DEF OpToRel
  <1>2. PICK n \in T : \A m \in T : ~(<<m, n>> \in R)
    BY <1>1, WFMin, Zenon
  <1>3. \A m, k \in Nat : m < k => <<m, k>> \in R
    OBVIOUS
  <1> HIDE DEF R
  <1>4. \A m \in T : ~(m < n)
    BY <1>2, <1>3, Zenon
  <1> QED
    BY <1>4

\* A set with 0 and with the successor of each natural in it has them all.
LEMMA SetInduction ==
  ASSUME NEW T, 0 \in T, \A n \in Nat : n \in T => n + 1 \in T
  PROVE  Nat \subseteq T
  <1> SUFFICES ASSUME Nat \ T # {} PROVE FALSE
    OBVIOUS
  <1>1. PICK n \in Nat \ T : \A m \in Nat \ T : n <= m
    BY LeastNumber
  <1>2. n # 0 /\ n - 1 \in Nat
    BY <1>1
  <1>3. n - 1 \in T
    BY <1>1, <1>2
  <1> QED
    BY <1>2, <1>3

\* A loop of n turns has a result after each turn: the recursion
\* after[i] = turn[i][after[i - 1]] has a solution.
IsRun(after, S, start, n, turn) ==
  /\ after \in [0..n -> S]
  /\ after[0] = start
  /\ \A i \in 1..n : after[i] = turn[i][after[i - 1]]

LEMMA LoopRuns ==
  ASSUME NEW S, NEW start \in S, NEW n \in Nat, NEW turn \in [1..n -> [S -> S]]
  PROVE  \E after : IsRun(after, S, start, n, turn)
  <1> DEFINE Runs(after, k) ==
               /\ after[0] = start
               /\ \A i \in 1..k : after[i] = turn[i][after[i - 1]]
             T == {k \in Nat : k <= n => \E after \in [0..k -> S] : Runs(after, k)}
  <1>1. 0 \in T
    <2>1. [i \in 0..0 |-> start] \in [0..0 -> S]
      OBVIOUS
    <2>2. Runs([i \in 0..0 |-> start], 0)
      OBVIOUS
    <2> HIDE DEF Runs
    <2> QED
      BY <2>1, <2>2
  <1>2. ASSUME NEW k \in Nat, k \in T PROVE k + 1 \in T
    <2> SUFFICES ASSUME k + 1 <= n
                 PROVE  \E after \in [0..(k + 1) -> S] : Runs(after, k + 1)
      <3> HIDE DEF Runs
      <3> QED
        OBVIOUS
    <2>1. PICK after \in [0..k -> S] : Runs(after, k)
      <3> HIDE DEF Runs
      <3> QED
        BY <1>2
    <2> DEFINE more == [i \in 0..(k + 1) |->
                          IF i = k + 1 THEN turn[k + 1][after[k]]
                          ELSE after[i]]
    <2>2. turn[k + 1][after[k]] \in S
      OBVIOUS
    <2>3. more \in [0..(k + 1) -> S]
      BY <2>2
    <2>4. Runs(more, k + 1)
      BY <2>1
    <2> HIDE DEF Runs
    <2> QED
      BY <2>3, <2>4
  <1> HIDE DEF T
  <1>3. n \in T
    BY <1>1, <1>2, SetInduction
  <1> QED
    BY <1>3 DEF T, IsRun

=============================================================================
