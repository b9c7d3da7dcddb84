----------------------------- MODULE Induction -----------------------------
(***************************************************************************)
(* Induction over an interval of numbers, stated about sets and functions, *)
(* so that a proof can cite it as it cites any other fact.                 *)
(***************************************************************************)
EXTENDS Integers, FiniteSetTheorems, WellFoundedInduction, TLAPS

\* A set of natural numbers that has a member has a least one: among the finite
\* sets 0..k of its members k one has none of the others inside it.
LEMMA Least ==
    ASSUME NEW T, T \subseteq Nat, T # {}
    PROVE  \E m \in T : \A k \in T : m <= k
  <1> DEFINE F == {0..k : k \in T}
  <1>1. F \subseteq FiniteSubsetsOf(Nat)
    <2>1. \A k \in T : IsFiniteSet(0..k) /\ 0..k \subseteq Nat
      BY FS_Interval
    <2> QED
      BY <2>1 DEF FiniteSubsetsOf
  <1>2. F # {}
    OBVIOUS
  <1>3. PICK x \in F : \A y \in F : ~ (<<y, x>> \in StrictSubsetOrdering(Nat))
    <2> HIDE DEF F
    <2> QED
      BY <1>1, <1>2, FS_StrictSubsetOrderingWellFounded, WFMin
  <1>4. PICK m \in T : x = 0..m
    OBVIOUS
  <1>5. ASSUME NEW k \in T, k < m PROVE FALSE
    <2>1. m \in 0..m /\ m \notin 0..k
      BY <1>5
    <2>2. 0..k \in SUBSET Nat /\ 0..m \in SUBSET Nat /\ 0..k \subseteq 0..m /\ 0..k # 0..m
      BY <1>5, <2>1
    <2>3. <<0..k, 0..m>> \in StrictSubsetOrdering(Nat)
      BY <2>2 DEF StrictSubsetOrdering
    <2> QED
      BY <1>3, <1>4, <2>3
  <1> QED
    BY <1>5

\* A set that has 0 and with every number below n the next one has all up to n.
LEMMA UpTo ==
    ASSUME NEW n \in Nat, NEW S, 0 \in S, \A i \in 0..(n - 1) : i \in S => i + 1 \in S
    PROVE  \A i \in 0..n : i \in S
  <1> SUFFICES ASSUME NEW j \in 0..n, j \notin S PROVE FALSE
    OBVIOUS
  <1> DEFINE T == {i \in 0..n : i \notin S}
  <1>1. T \subseteq Nat /\ T # {}
    OBVIOUS
  <1>2. PICK m \in T : \A k \in T : m <= k
    <2> HIDE DEF T
    <2> QED
      BY <1>1, Least
  <1>3. m # 0 /\ m - 1 \in 0..(n - 1) /\ m - 1 \notin T
    BY <1>2
  <1> QED
    BY <1>2, <1>3

-----------------------------------------------------------------------------
(***************************************************************************)
(* Sums.  Sums(w, n, g): g gives the sums of the first i weights, for every*)
(* i up to n.                                                              *)
(***************************************************************************)
Sums(w, n, g) == g[0] = 0 /\ \A i \in 1..n : g[i] = g[i - 1] + w[i]

\* There is such a function.
LEMMA SumsExist ==
    ASSUME NEW n \in Nat, NEW w, \A i \in 1..n : w[i] \in Int
    PROVE  \E g \in [0..n -> Int] : Sums(w, n, g)
  <1> DEFINE S == {m \in 0..n : \E g \in [0..n -> Int] : Sums(w, m, g)}
  <1>1. 0 \in S
    <2>1. [i \in 0..n |-> 0] \in [0..n -> Int] /\ Sums(w, 0, [i \in 0..n |-> 0])
      BY DEF Sums
    <2> QED
      BY <2>1
  <1>2. ASSUME NEW m \in 0..(n - 1), m \in S PROVE m + 1 \in S
    <2>1. PICK g \in [0..n -> Int] : Sums(w, m, g)
      BY <1>2
    <2> DEFINE h == [g EXCEPT ![m + 1] = g[m] + w[m + 1]]
    <2>2. h \in [0..n -> Int]
      OBVIOUS
    <2>3. h[m + 1] = h[m] + w[m + 1] /\ \A i \in 0..m : h[i] = g[i]
      OBVIOUS
    <2>4. Sums(w, m + 1, h)
      <3> HIDE DEF h
      <3> SUFFICES ASSUME NEW i \in 1..(m + 1) PROVE h[i] = h[i - 1] + w[i]
        BY <2>1, <2>3 DEF Sums
      <3>1. CASE i = m + 1
        BY <2>3, <3>1
      <3>2. CASE i # m + 1
        <4>1. i \in 1..m /\ i - 1 \in 0..m
          BY <3>2
        <4> QED
          BY <2>1, <2>3, <4>1 DEF Sums
      <3> QED
        BY <3>1, <3>2
    <2> HIDE DEF h
    <2> QED
      BY <2>2, <2>4
  <1>3. n \in S
    <2> HIDE DEF S
    <2>1. \A i \in 0..n : i \in S
      BY <1>1, <1>2, UpTo
    <2> QED
      BY <2>1
  <1> QED
    BY <1>3

\* And only one.
LEMMA SumsAgree ==
    ASSUME NEW n \in Nat, NEW w, NEW g, NEW h, Sums(w, n, g), Sums(w, n, h)
    PROVE  g[n] = h[n]
  <1> DEFINE S == {i \in 0..n : g[i] = h[i]}
  <1>1. 0 \in S
    BY DEF Sums
  <1>2. ASSUME NEW i \in 0..(n - 1), i \in S PROVE i + 1 \in S
    <2>1. i + 1 \in 1..n /\ (i + 1) - 1 = i
      OBVIOUS
    <2> QED
      BY <1>2, <2>1 DEF Sums
  <1>3. n \in S
    <2> HIDE DEF S
    <2>1. \A i \in 0..n : i \in S
      BY <1>1, <1>2, UpTo
    <2> QED
      BY <2>1
  <1> QED
    BY <1>3
=============================================================================
