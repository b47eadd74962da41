------------------------------ MODULE SumsProofs ------------------------------
(***************************************************************************)
(* What Sum computes, for every length.  The library's induction theorems   *)
(* take the predicate as an operator parameter, which the provers cannot    *)
(* instantiate; LeastNatural is the same principle stated about a set (a    *)
(* nonempty set of naturals has a least element), obtained from the         *)
(* well-foundedness of strict inclusion between finite sets.                *)
(***************************************************************************)
EXTENDS Sums, FiniteSetTheorems, WellFoundedInduction, TLAPS

(* Every nonempty set of natural numbers has a least element: induction     *)
(* without a predicate parameter.                                           *)
LEMMA LeastNatural ==
  ASSUME NEW T \in SUBSET Nat, T # {}
  PROVE  \E m \in T : \A k \in T : m <= k
<1> DEFINE Segments == {0..n : n \in T}
<1>1. Segments \subseteq FiniteSubsetsOf(Nat)
  <2>1. \A n \in Nat : IsFiniteSet(0..n)
    BY FS_Interval
  <2>2. QED
    BY <2>1 DEF FiniteSubsetsOf
<1>2. Segments # {}
  OBVIOUS
<1>3. IsWellFoundedOn(StrictSubsetOrdering(Nat), FiniteSubsetsOf(Nat))
  BY FS_StrictSubsetOrderingWellFounded
<1> HIDE DEF Segments
<1>4. \E x \in Segments : \A y \in Segments :
        ~ (<<y, x>> \in StrictSubsetOrdering(Nat))
  BY <1>1, <1>2, <1>3, WFMin
<1>5. PICK m \in T :
        \A k \in T : <<0..k, 0..m>> \notin StrictSubsetOrdering(Nat)
  BY <1>4 DEF Segments
<1>6. ASSUME NEW k \in T
      PROVE  m <= k
  <2>1. SUFFICES ASSUME k < m
                 PROVE  FALSE
    OBVIOUS
  <2>2. 0..k \subseteq 0..m /\ 0..k # 0..m
    BY <2>1
  <2>3. 0..k \in SUBSET Nat /\ 0..m \in SUBSET Nat
    OBVIOUS
  <2>4. QED
    BY <2>2, <2>3, <1>5 DEF StrictSubsetOrdering
<1> QED
  BY <1>6

(* A nonempty set of naturals with a bound has a greatest element.            *)
LEMMA GreatestNatural ==
  ASSUME NEW m \in Nat, NEW T \in SUBSET (0..m), T # {}
  PROVE  \E k \in T : \A j \in T : j <= k
<1> DEFINE U == {u \in Nat : \A j \in T : j <= u}
<1>1. m \in U /\ U \in SUBSET Nat /\ U # {}
  OBVIOUS
<1>2. PICK u \in U : \A v \in U : u <= v
  BY <1>1, LeastNatural
<1>3. u \in T
  <2> SUFFICES ASSUME u \notin T
               PROVE  FALSE
    OBVIOUS
  <2>1. u \in Nat /\ \A j \in T : j \in Nat /\ j <= u /\ j # u
    OBVIOUS
  <2>2. PICK j \in T : j \in Nat /\ j <= u /\ j # u
    BY <2>1
  <2>3. u - 1 \in Nat /\ u - 1 < u /\ \A k \in T : k <= u - 1
    BY <2>2, <2>1
  <2>4. u - 1 \in U
    BY <2>3
  <2>5. QED
    BY <1>2, <2>1, <2>3, <2>4
<1>4. QED
  BY <1>3

-------------------------------------------------------------------------------
(* The defining equation of PartialSums has a solution, for every length.   *)
LEMMA PartialSumsExist ==
  ASSUME NEW n \in Nat, NEW f \in [1..n -> Int]
  PROVE  \E s \in [0..n -> Int] :
           s = [i \in 0..n |-> IF i = 0 THEN 0 ELSE s[i - 1] + f[i]]
<1> DEFINE Solves(s, m) == s = [i \in 0..m |-> IF i = 0 THEN 0 ELSE s[i - 1] + f[i]]
           Bad == {m \in 0..n : ~ \E s \in [0..m -> Int] : Solves(s, m)}
<1>1. SUFFICES ASSUME Bad # {}
               PROVE  FALSE
  <2>1. n \in 0..n
    OBVIOUS
  <2>2. Bad = {} => \E s \in [0..n -> Int] : Solves(s, n)
    BY <2>1
  <2>3. QED
    BY <2>2
<1> HIDE DEF Bad
<1>2. PICK m \in Bad : \A k \in Bad : m <= k
  <2>1. Bad \in SUBSET Nat
    BY DEF Bad
  <2>2. QED
    BY <1>1, <2>1, LeastNatural
<1>3. m \in 0..n /\ ~ \E s \in [0..m -> Int] : Solves(s, m)
  BY <1>2 DEF Bad
<1>4. CASE m = 0
  <2>1. [i \in 0..0 |-> 0] \in [0..m -> Int]
    BY <1>4
  <2>2. Solves([i \in 0..0 |-> 0], m)
    BY <1>4
  <2>3. QED
    BY <1>3, <2>1, <2>2
<1>5. CASE m # 0
  <2>1. m - 1 \in 0..n /\ m \in 1..n
    BY <1>3, <1>5
  <2>2. m - 1 \notin Bad
    BY <1>2, <2>1
  <2>3. PICK s \in [0..(m-1) -> Int] : Solves(s, m - 1)
    BY <2>1, <2>2 DEF Bad
  <2> DEFINE t == [i \in 0..m |-> IF i = m THEN s[m - 1] + f[m] ELSE s[i]]
  <2>4. t \in [0..m -> Int]
    BY <2>1
  <2>5. ASSUME NEW i \in 0..m
        PROVE  t[i] = IF i = 0 THEN 0 ELSE t[i - 1] + f[i]
    <3>1. CASE i = m
      BY <3>1, <1>5, <2>1
    <3>2. CASE i # m
      <4>1. i \in 0..(m - 1)
        BY <3>2, <2>1
      <4>2. s[i] = IF i = 0 THEN 0 ELSE s[i - 1] + f[i]
        BY <2>3, <4>1
      <4>3. QED
        BY <3>2, <4>1, <4>2, <2>1
    <3>3. QED
      BY <3>1, <3>2
  <2>6. Solves(t, m)
    BY <2>4, <2>5
  <2>7. QED
    BY <1>3, <2>4, <2>6
<1>6. QED
  BY <1>4, <1>5

(* PartialSums satisfies the recurrence it is defined by. *)
LEMMA PartialSumsDef ==
  ASSUME NEW n \in Nat, NEW f \in [1..n -> Int]
  PROVE  /\ PartialSums(f, n) \in [0..n -> Int]
         /\ PartialSums(f, n)[0] = 0
         /\ \A i \in 1..n :
              PartialSums(f, n)[i] = PartialSums(f, n)[i - 1] + f[i]
<1> DEFINE Ps == PartialSums(f, n)
<1>1. Ps = [i \in 0..n |-> IF i = 0 THEN 0 ELSE Ps[i - 1] + f[i]]
  BY PartialSumsExist, ZenonT(30) DEF PartialSums
<1> HIDE DEF Ps
<1>2. Ps[0] = 0 /\ DOMAIN Ps = 0..n
  BY <1>1
<1>3. \A i \in 1..n : Ps[i] = Ps[i - 1] + f[i]
  BY <1>1
<1> DEFINE Bad == {i \in 0..n : Ps[i] \notin Int}
<1>4. Bad = {}
  <2>1. SUFFICES ASSUME Bad # {}
                 PROVE  FALSE
    OBVIOUS
  <2> HIDE DEF Bad
  <2>2. PICK m \in Bad : \A k \in Bad : m <= k
    <3>1. Bad \in SUBSET Nat
      BY DEF Bad
    <3>2. QED
      BY <2>1, <3>1, LeastNatural
  <2>3. m \in 1..n /\ Ps[m] \notin Int
    BY <2>2, <1>2 DEF Bad
  <2>4. Ps[m - 1] \in Int
    BY <2>2, <2>3 DEF Bad
  <2>5. QED
    BY <2>3, <2>4, <1>3
<1>5. Ps \in [0..n -> Int]
  BY <1>1, <1>4
<1>6. QED
  BY <1>2, <1>3, <1>5 DEF Ps

-------------------------------------------------------------------------------
(* A sum is an integer. *)
LEMMA SumType ==
  ASSUME NEW n \in Nat, NEW f \in [1..n -> Int]
  PROVE  Sum(f, n) \in Int
BY PartialSumsDef DEF Sum

(* Changing one term changes the sum by the same amount. *)
LEMMA SumUpdate ==
  ASSUME NEW n \in Nat, NEW f \in [1..n -> Int], NEW g \in [1..n -> Int],
         NEW k \in 1..n, \A i \in 1..n : i # k => g[i] = f[i]
  PROVE  Sum(g, n) = Sum(f, n) - f[k] + g[k]
<1> DEFINE F == PartialSums(f, n)
           G == PartialSums(g, n)
           Same(i) == G[i] = F[i] + IF i < k THEN 0 ELSE g[k] - f[k]
           Bad == {i \in 0..n : ~ Same(i)}
<1>1. /\ F \in [0..n -> Int] /\ F[0] = 0 /\ \A i \in 1..n : F[i] = F[i - 1] + f[i]
      /\ G \in [0..n -> Int] /\ G[0] = 0 /\ \A i \in 1..n : G[i] = G[i - 1] + g[i]
  BY PartialSumsDef
<1> HIDE DEF F, G
<1>2. Bad = {}
  <2>1. SUFFICES ASSUME Bad # {}
                 PROVE  FALSE
    OBVIOUS
  <2>2. PICK m \in Bad : \A i \in Bad : m <= i
    <3>1. Bad \in SUBSET Nat
      OBVIOUS
    <3> HIDE DEF Bad
    <3>2. QED
      BY <2>1, <3>1, LeastNatural
  <2>3. m \in 1..n
    BY <2>2, <1>1
  <2>4. Same(m - 1)
    BY <2>2, <2>3
  <2>5. Same(m)
    <3>1. /\ F[m - 1] \in Int /\ G[m - 1] \in Int
          /\ f[m] \in Int /\ g[m] \in Int /\ f[k] \in Int /\ g[k] \in Int
          /\ F[m] = F[m - 1] + f[m] /\ G[m] = G[m - 1] + g[m]
      <4>1. m - 1 \in 0..n /\ m \in 1..n /\ k \in 1..n
        BY <2>3
      <4>2. F[m - 1] \in Int /\ G[m - 1] \in Int
        BY <1>1, <4>1
      <4>3. F[m] = F[m - 1] + f[m] /\ G[m] = G[m - 1] + g[m]
        BY <1>1, <4>1
      <4>4. f[m] \in Int /\ g[m] \in Int /\ f[k] \in Int /\ g[k] \in Int
        BY <4>1
      <4>5. QED
        BY <4>2, <4>3, <4>4
    <3>2. m # k => g[m] = f[m]
      BY <2>3
    <3>3. CASE m < k
      <4>1. m - 1 < k
        BY <3>3, <2>3
      <4>2. QED
        BY <3>1, <3>2, <3>3, <4>1, <2>4
    <3>4. CASE m = k
      BY <3>1, <3>4, <2>4
    <3>5. CASE m > k
      <4>1. ~ (m - 1 < k) /\ ~ (m < k)
        BY <3>5, <2>3
      <4>2. QED
        BY <3>1, <3>2, <3>5, <4>1, <2>4
    <3>6. QED
      BY <2>3, <3>3, <3>4, <3>5
  <2>6. QED
    BY <2>2, <2>5
<1>3. n \in 0..n /\ ~ (n < k)
  OBVIOUS
<1>4. Same(n)
  BY <1>2, <1>3
<1>5. QED
  BY <1>1, <1>3, <1>4 DEF Sum, F, G

(* The sum of nonnegative terms is at least each of them. *)
LEMMA SumBoundsTerm ==
  ASSUME NEW n \in Nat, NEW f \in [1..n -> Nat]
  PROVE  /\ Sum(f, n) \in Nat
         /\ \A k \in 1..n : f[k] <= Sum(f, n)
<1> DEFINE F == PartialSums(f, n)
           Fine(i) == F[i] >= 0 /\ \A j \in 1..i : f[j] <= F[i]
           Bad == {i \in 0..n : ~ Fine(i)}
<1>1. F \in [0..n -> Int] /\ F[0] = 0 /\ \A i \in 1..n : F[i] = F[i - 1] + f[i]
  <2>1. f \in [1..n -> Int]
    OBVIOUS
  <2>2. QED
    BY <2>1, PartialSumsDef
<1> HIDE DEF F
<1>2. Bad = {}
  <2>1. SUFFICES ASSUME Bad # {}
                 PROVE  FALSE
    OBVIOUS
  <2>2. PICK m \in Bad : \A i \in Bad : m <= i
    <3>1. Bad \in SUBSET Nat
      OBVIOUS
    <3> HIDE DEF Bad
    <3>2. QED
      BY <2>1, <3>1, LeastNatural
  <2>3. m \in 1..n
    BY <2>2, <1>1
  <2>4. Fine(m - 1)
    BY <2>2, <2>3
  <2>5. Fine(m)
    <3>1. /\ F[m - 1] \in Int /\ f[m] \in Nat /\ F[m] = F[m - 1] + f[m]
          /\ F[m - 1] >= 0
      BY <1>1, <2>3, <2>4
    <3>2. ASSUME NEW j \in 1..m
          PROVE  f[j] <= F[m]
      <4>1. CASE j = m
        BY <3>1, <4>1
      <4>2. CASE j \in 1..(m - 1)
        <5>1. f[j] <= F[m - 1] /\ f[j] \in Nat
          BY <2>3, <2>4, <4>2
        <5>2. QED
          BY <3>1, <5>1
      <4>3. QED
        BY <2>3, <4>1, <4>2
    <3>3. QED
      BY <3>1, <3>2
  <2>6. QED
    BY <2>2, <2>5
<1>3. n \in 0..n
  OBVIOUS
<1>4. Fine(n)
  BY <1>2, <1>3
<1>5. QED
  BY <1>1, <1>3, <1>4 DEF Sum, F

(* A sum of zeros is zero. *)
LEMMA SumZero ==
  ASSUME NEW n \in Nat, NEW f \in [1..n -> Int], \A i \in 1..n : f[i] = 0
  PROVE  Sum(f, n) = 0
<1> DEFINE F == PartialSums(f, n)
           Bad == {i \in 0..n : F[i] # 0}
<1>1. F \in [0..n -> Int] /\ F[0] = 0 /\ \A i \in 1..n : F[i] = F[i - 1] + f[i]
  BY PartialSumsDef
<1> HIDE DEF F
<1>2. Bad = {}
  <2>1. SUFFICES ASSUME Bad # {}
                 PROVE  FALSE
    OBVIOUS
  <2>2. PICK m \in Bad : \A i \in Bad : m <= i
    <3>1. Bad \in SUBSET Nat
      OBVIOUS
    <3> HIDE DEF Bad
    <3>2. QED
      BY <2>1, <3>1, LeastNatural
  <2>3. m \in 1..n /\ F[m - 1] = 0
    BY <2>2, <1>1
  <2>4. QED
    BY <1>1, <2>2, <2>3
<1>3. n \in 0..n
  OBVIOUS
<1>4. QED
  BY <1>2, <1>3 DEF Sum, F
===============================================================================
