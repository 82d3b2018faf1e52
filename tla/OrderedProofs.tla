--------------------------- MODULE OrderedProofs ---------------------------
(***************************************************************************)
(* What Ascending returns, for every finite set of numbers, and that every *)
(* set of naturals has a least element.                                    *)
(***************************************************************************)
EXTENDS Ordered, FiniteSetTheorems, WellFoundedInduction, TLAPS

\* Induction over the naturals: a set without a least element is empty.
LEMMA LeastNat ==
    ASSUME NEW T, T \subseteq Nat, T # {}
    PROVE  \E m \in T : \A n \in T : m <= n
  <1> DEFINE R == OpToRel(<, Nat)
  <1>1. IsWellFoundedOn(R, Nat)
    BY NatLessThanWellFounded
  <1>2. \A x, y \in Nat : y < x => <<y, x>> \in R
    BY DEF OpToRel
  <1> HIDE DEF R
  <1>3. PICK m \in T : \A y \in T : ~(<<y, m>> \in R)
    BY <1>1, WFMin
  <1>4. ASSUME NEW n \in T PROVE m <= n
    <2>1. m \in Nat /\ n \in Nat
      OBVIOUS
    <2>2. ~(n < m)
      BY <1>2, <1>3, <2>1
    <2> QED
      BY <2>1, <2>2
  <1> QED
    BY <1>4

Below(S, n) == {m \in S : m < n}

\* An element of a finite set has fewer elements below it than a larger one.
LEMMA Ranks ==
    ASSUME NEW S, S \subseteq Int, IsFiniteSet(S), NEW x \in S
    PROVE  /\ Cardinality(Below(S, x)) \in 0..(Cardinality(S) - 1)
           /\ \A y \in S : x < y => Cardinality(Below(S, x)) < Cardinality(Below(S, y))
  <1>1. ASSUME NEW T, T \subseteq S, Below(S, x) \subseteq T, x \in T
        PROVE  /\ Cardinality(Below(S, x)) \in Nat /\ Cardinality(T) \in Nat
               /\ Cardinality(Below(S, x)) < Cardinality(T)
    <2>1. IsFiniteSet(T) /\ IsFiniteSet(Below(S, x))
      BY <1>1, FS_Subset DEF Below
    <2>2. Cardinality(T) \in Nat /\ Cardinality(Below(S, x)) \in Nat
      BY <2>1, FS_CardinalityType
    <2>3. x \notin Below(S, x)
      BY DEF Below
    <2>4. Cardinality(Below(S, x)) <= Cardinality(T)
          /\ (Cardinality(T) = Cardinality(Below(S, x)) => T = Below(S, x))
      BY <1>1, <2>1, FS_Subset
    <2> QED
      BY <1>1, <2>2, <2>3, <2>4
  <1>2. Cardinality(Below(S, x)) \in 0..(Cardinality(S) - 1)
    <2>1. Below(S, x) \subseteq S
      BY DEF Below
    <2> QED
      BY <1>1, <2>1
  <1>3. ASSUME NEW y \in S, x < y
        PROVE  Cardinality(Below(S, x)) < Cardinality(Below(S, y))
    <2>1. Below(S, y) \subseteq S /\ Below(S, x) \subseteq Below(S, y) /\ x \in Below(S, y)
      <3>1. \A m \in S : m < x => m < y
        <4> TAKE m \in S
        <4>1. m \in Int /\ x \in Int /\ y \in Int
          OBVIOUS
        <4> QED
          BY <1>3, <4>1
      <3> QED
        BY <1>3, <3>1 DEF Below
    <2> QED
      BY <1>1, <2>1
  <1> QED
    BY <1>2, <1>3

\* Every place has an element: there are as many ranks as elements.
LEMMA Ranked ==
    ASSUME NEW S, S \subseteq Int, IsFiniteSet(S), NEW i \in 1..Cardinality(S)
    PROVE  \E n \in S : Cardinality(Below(S, n)) = i - 1
  <1> DEFINE N == Cardinality(S)
             f == [n \in S |-> Cardinality(Below(S, n))]
             T == 0..(N - 1)
  <1>1. N \in Nat
    BY FS_CardinalityType
  <1>2. f \in [S -> T]
    BY Ranks
  <1>3. ASSUME NEW x \in S, NEW y \in S, f[x] = f[y] PROVE x = y
    <2>1. x \in Int /\ y \in Int
      OBVIOUS
    <2>2. f[x] \in Int /\ f[y] \in Int
      BY <1>2
    <2>3. x < y => f[x] < f[y]
      BY Ranks
    <2>4. y < x => f[y] < f[x]
      BY Ranks
    <2> HIDE DEF f
    <2> QED
      BY <1>3, <2>1, <2>2, <2>3, <2>4
  <1>4. IsFiniteSet(T) /\ Cardinality(T) = N
    <2>1. N - 1 \in Int /\ 0 \in Int
      BY <1>1
    <2>2. IsFiniteSet(0..(N - 1))
          /\ Cardinality(0..(N - 1)) = IF 0 > N - 1 THEN 0 ELSE (N - 1) - 0 + 1
      BY <2>1, FS_Interval
    <2> QED
      BY <1>1, <2>2
  <1> HIDE DEF f, T, N
  <1>5. f \in Injection(S, T)
    BY <1>2, <1>3 DEF Injection, IsInjective
  <1>6. f \in Surjection(S, T)
    BY <1>4, <1>5, FS_Injection DEF N
  <1>7. i - 1 \in T
    BY <1>1 DEF T, N
  <1>8. PICK n \in S : f[n] = i - 1
    BY <1>6, <1>7 DEF Surjection
  <1> QED
    BY <1>8 DEF f

\* Ascending has all elements of the set, each once, in their order.
LEMMA AscendingSorts ==
    ASSUME NEW S, S \subseteq Int, IsFiniteSet(S)
    PROVE  /\ Cardinality(S) \in Nat
           /\ Ascending(S) \in [1..Cardinality(S) -> S]
           /\ \A i, j \in 1..Cardinality(S) : i < j => Ascending(S)[i] < Ascending(S)[j]
           /\ \A n \in S : \E i \in 1..Cardinality(S) : Ascending(S)[i] = n
  <1> DEFINE N == Cardinality(S)
             a == Ascending(S)
  <1>1. N \in Nat
    BY FS_CardinalityType
  <1>2. ASSUME NEW i \in 1..N
        PROVE  a[i] \in S /\ Cardinality(Below(S, a[i])) = i - 1
    BY Ranked DEF Ascending, Below
  <1>3. a \in [1..N -> S]
    BY <1>2 DEF Ascending
  <1> HIDE DEF a, N
  <1>4. ASSUME NEW i \in 1..N, NEW j \in 1..N, i < j PROVE a[i] < a[j]
    <2>1. a[i] \in Int /\ a[j] \in Int /\ a[i] \in S /\ a[j] \in S
      BY <1>2
    <2>2. Cardinality(Below(S, a[i])) < Cardinality(Below(S, a[j]))
      BY <1>1, <1>2, <1>4
    <2>3. a[j] < a[i] => Cardinality(Below(S, a[j])) < Cardinality(Below(S, a[i]))
      BY <2>1, Ranks
    <2>4. Cardinality(Below(S, a[i])) \in Int /\ Cardinality(Below(S, a[j])) \in Int
      BY <1>1, <1>2
    <2>5. a[i] # a[j]
      BY <2>2, <2>4
    <2> QED
      BY <2>1, <2>2, <2>3, <2>4, <2>5
  <1>5. ASSUME NEW n \in S PROVE \E i \in 1..N : a[i] = n
    <2> DEFINE r == Cardinality(Below(S, n))
    <2>1. r \in 0..(N - 1)
      BY Ranks DEF N
    <2>2. r + 1 \in 1..N /\ r \in Int /\ (r + 1) - 1 = r
      BY <1>1, <2>1
    <2>3. a[r + 1] \in S /\ Cardinality(Below(S, a[r + 1])) = r
      BY <1>2, <2>2
    <2>4. n \in Int /\ a[r + 1] \in Int
      BY <2>3
    <2>5. n < a[r + 1] => r < Cardinality(Below(S, a[r + 1]))
      BY <2>3, Ranks
    <2>6. a[r + 1] < n => Cardinality(Below(S, a[r + 1])) < r
      BY <2>3, Ranks
    <2> HIDE DEF r
    <2> QED
      BY <2>2, <2>3, <2>4, <2>5, <2>6
  <1> QED
    BY <1>1, <1>3, <1>4, <1>5 DEF a, N
=============================================================================
