-------------------------------- MODULE Induction --------------------------------
(***************************************************************************)
(* Induction over the natural numbers, for a set of numbers: the functions *)
(* the modules define by recursion are reasoned about with it.             *)
(***************************************************************************)
EXTENDS Naturals, FiniteSets, FiniteSetTheorems, TLAPS

\* A set that has 0 and the successor of each of its numbers has them all:
\* otherwise 0 .. t, with a gap at t, would fit one to one into 1 .. t.
LEMMA InductionOverNat ==
  ASSUME NEW A, 0 \in A, \A n \in Nat : n \in A => n + 1 \in A
  PROVE  \A n \in Nat : n \in A
<1> SUFFICES ASSUME NEW t \in Nat, t \notin A PROVE FALSE
  OBVIOUS
<1> DEFINE g == [x \in 0..t |-> IF x \in A THEN x + 1 ELSE x]
<1>1. g \in [0..t -> 1..t]
  <2> SUFFICES ASSUME NEW x \in 0..t PROVE (IF x \in A THEN x + 1 ELSE x) \in 1..t
    OBVIOUS
  <2>1. x \in Nat /\ x <= t
    OBVIOUS
  <2>2. x \in A => x # t
    OBVIOUS
  <2>3. x \notin A => x # 0
    OBVIOUS
  <2> QED BY <2>1, <2>2, <2>3
<1>2. \A x, y \in 0..t : g[x] = g[y] => x = y
  <2> SUFFICES ASSUME NEW x \in 0..t, NEW y \in 0..t, g[x] = g[y] PROVE x = y
    OBVIOUS
  <2>1. x \in Nat /\ y \in Nat
    OBVIOUS
  <2>2. x \in A => x + 1 \in A
    BY <2>1
  <2>3. y \in A => y + 1 \in A
    BY <2>1
  <2> QED BY <2>1, <2>2, <2>3
<1>3. IsFiniteSet(0..t) /\ Cardinality(0..t) = t + 1
  BY FS_Interval
<1>4. IsFiniteSet(1..t) /\ Cardinality(1..t) = t
  BY FS_Interval
<1>5. Cardinality(1..t) < Cardinality(0..t)
  BY <1>3, <1>4
<1> HIDE DEF g
<1>6. \E x, y \in 0..t : x # y /\ g[x] = g[y]
  BY <1>1, <1>3, <1>4, <1>5, FS_PigeonHole
<1> QED
  BY <1>2, <1>6

==================================================================================
