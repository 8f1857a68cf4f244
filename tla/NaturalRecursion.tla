-------------------------- MODULE NaturalRecursion --------------------------
(***************************************************************************)
(* Induction and primitive recursion over an initial segment of the        *)
(* naturals, stated with sets and functions in place of predicates and     *)
(* operators, so that a proof can use them by naming the set or function.  *)
(* The proofs about commands applied in order and features replayed in     *)
(* order (functions f[n \in 0..N] defined from f[n - 1]) rest on these.    *)
(***************************************************************************)
EXTENDS Integers, WellFoundedInduction, TLAPS

(* Every inhabited set of naturals has a least element. *)
LEMMA LeastNatural ==
    ASSUME NEW T \in SUBSET Nat, T # {}
    PROVE  \E x \in T : \A y \in T : x <= y
<1> DEFINE R == OpToRel(<, Nat)
<1>1. IsWellFoundedOn(R, Nat)
  BY NatLessThanWellFounded
<1>2. \A x, y \in Nat : y < x => <<y, x>> \in R
  BY DEF OpToRel
<1> HIDE DEF R
<1>3. PICK x \in T : \A y \in T : ~(<<y, x>> \in R)
  BY <1>1, WFMin
<1>4. \A y \in T : x <= y
  <2> SUFFICES ASSUME NEW y \in T PROVE x <= y
    OBVIOUS
  <2>1. x \in Nat /\ y \in Nat /\ ~(<<y, x>> \in R)
    BY <1>3
  <2>2. ~(y < x)
    BY <1>2, <2>1
  <2> QED
    BY <2>1, <2>2
<1> QED
  BY <1>3, <1>4

(* A set that holds 0 and the successor of each member below N holds all   *)
(* of 0..N.                                                                *)
LEMMA SegmentInduction ==
    ASSUME NEW N \in Nat, NEW T, 0 \in T,
           \A n \in 0..N : n \in T /\ n < N => n + 1 \in T
    PROVE  \A n \in 0..N : n \in T
<1> DEFINE Rest == {n \in 0..N : n \notin T}
<1> SUFFICES ASSUME Rest # {} PROVE FALSE
  OBVIOUS
<1>1. PICK m \in Rest : \A n \in Rest : m <= n
  <2>1. Rest \in SUBSET Nat
    OBVIOUS
  <2> HIDE DEF Rest
  <2> QED
    BY <2>1, LeastNatural
<1>2. m - 1 \in 0..N /\ m - 1 < N /\ m - 1 \in T
  BY <1>1
<1>3. m - 1 + 1 = m
  BY <1>1
<1> QED
  BY <1>1, <1>2, <1>3

(* f starts at a and goes on by the step g. *)
Iterates(f, S, a, N, g) ==
    f \in [0..N -> S] /\ f[0] = a /\ \A n \in 1..N : f[n] = g[<<f[n - 1], n>>]

(* There is a function that starts at a and goes on by the step g.         *)
LEMMA SegmentRecursion ==
    ASSUME NEW S, NEW a \in S, NEW N \in Nat, NEW g \in [S \X (1..N) -> S]
    PROVE  \E f : Iterates(f, S, a, N, g)
<1> DEFINE Upto(m, f) == /\ f \in [0..m -> S] /\ f[0] = a
                         /\ \A n \in 1..m : f[n] = g[<<f[n - 1], n>>]
           T == {m \in 0..N : \E f : Upto(m, f)}
<1>1. 0 \in T
  <2> DEFINE h == [n \in 0..0 |-> a]
  <2>1. Upto(0, h)
    OBVIOUS
  <2> HIDE DEF Upto, h
  <2>2. \E f : Upto(0, f)
    BY <2>1
  <2> QED
    BY <2>2
<1>2. ASSUME NEW m \in 0..N, m \in T, m < N PROVE m + 1 \in T
  <2>1. PICK f : Upto(m, f)
    BY <1>2
  <2> DEFINE h == [n \in 0..(m + 1) |-> IF n = m + 1 THEN g[<<f[m], m + 1>>]
                                        ELSE f[n]]
  <2>2. g[<<f[m], m + 1>>] \in S
    BY <1>2, <2>1
  <2>3. h \in [0..(m + 1) -> S] /\ h[0] = a
    BY <2>1, <2>2
  <2>4. ASSUME NEW n \in 1..(m + 1) PROVE h[n] = g[<<h[n - 1], n>>]
    <3>1. CASE n = m + 1
      <4>1. n - 1 = m /\ n - 1 # m + 1 /\ n - 1 \in 0..(m + 1)
        BY <3>1
      <4>2. h[n - 1] = f[m]
        BY <4>1
      <4>3. h[n] = g[<<f[m], m + 1>>]
        BY <3>1
      <4> QED
        BY <3>1, <4>2, <4>3
    <3>2. CASE n # m + 1
      <4>1. n \in 1..m /\ n - 1 \in 0..m
        BY <3>2
      <4> QED
        BY <2>1, <4>1
    <3> QED
      BY <3>1, <3>2
  <2>5. Upto(m + 1, h)
    BY <2>3, <2>4
  <2>6. \E f2 : Upto(m + 1, f2)
    <3> HIDE DEF Upto, h
    <3> QED
      BY <2>5
  <2>7. m + 1 \in 0..N
    BY <1>2
  <2> HIDE DEF Upto, h
  <2> QED
    BY <2>6, <2>7
<1>3. N \in T
  <2> HIDE DEF T
  <2> QED
    BY <1>1, <1>2, SegmentInduction
<1> QED
  <2>1. PICK f : Upto(N, f)
    BY <1>3
  <2>2. Iterates(f, S, a, N, g)
    BY <2>1 DEF Iterates
  <2> QED
    BY <2>2

=============================================================================
