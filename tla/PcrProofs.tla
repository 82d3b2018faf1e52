----------------------------- MODULE PcrProofs -----------------------------
(***************************************************************************)
(* Proofs about PcrValues, for every selection, batch size and number of   *)
(* processes.                                                              *)
(*                                                                         *)
(* The walk over a selection and the lists of a tpm2_pcrs are flattened    *)
(* sequences, and Ascending sorts; what these return is proved first, from *)
(* the shortest counterexample (LeastNat).  Reading in batches is then a   *)
(* matter of counting: what was read and what is left are together at most *)
(* as many as the labels, and if they are as many, they are the labels in  *)
(* their order (Walking).                                                  *)
(*                                                                         *)
(* Ready, what is true of one process at a time, is inductive.  That       *)
(* checkquote accepts what one quote has written needs to know in addition *)
(* that every quote has a number of its own (Distinct), that the PCR file  *)
(* goes with the message of its quote (Matching), and what a checkquote    *)
(* has loaded from where (Traced).                                         *)
(***************************************************************************)
EXTENDS PcrValues, OrderedProofs, SequenceTheorems

-----------------------------------------------------------------------------
(* Lists.  Nothing here is about PCRs.                                     *)

\* g has at i the first i of the sequences, one after the other.
Flattens(seqs, S, g) ==
    /\ g \in [1..Len(seqs) -> Seq(S)]
    /\ \A i \in 1..Len(seqs) : g[i] = IF i = 1 THEN seqs[i] ELSE g[i - 1] \o seqs[i]

\* Flattening is defined for every sequence of sequences.
LEMMA FlattenExists ==
    ASSUME NEW S, NEW seqs \in Seq(Seq(S))
    PROVE  \E g : Flattens(seqs, S, g)
  <1> DEFINE P(n, g) == /\ g \in [1..n -> Seq(S)]
                        /\ \A i \in 1..n : g[i] = IF i = 1 THEN seqs[i] ELSE g[i - 1] \o seqs[i]
             T == {n \in 0..Len(seqs) : ~\E g : P(n, g)}
  <1>1. Len(seqs) \in Nat /\ \A i \in 1..Len(seqs) : seqs[i] \in Seq(S)
    OBVIOUS
  <1>2. T = {}
    <2> SUFFICES ASSUME T # {} PROVE FALSE
      OBVIOUS
    <2>1. T \subseteq Nat
      BY <1>1
    <2>2. PICK m \in T : \A n \in T : m <= n
      BY <2>1, LeastNat
    <2>3. m \in 0..Len(seqs) /\ ~\E g : P(m, g)
      OBVIOUS
    <2>4. CASE m = 0
      <3>1. P(0, <<>>)
        BY <1>1
      <3> QED
        BY <2>3, <2>4, <3>1
    <2>5. CASE m # 0
      <3>1. m - 1 \in 0..Len(seqs) /\ m \in 1..Len(seqs) /\ m \in Nat
        BY <1>1, <2>3, <2>5
      <3>2. m - 1 \notin T
        <4>1. ~(m <= m - 1)
          BY <3>1
        <4> QED
          BY <2>2, <4>1
      <3>3. PICK g : P(m - 1, g)
        BY <3>1, <3>2
      <3> DEFINE h == [i \in 1..m |-> IF i = m THEN IF m = 1 THEN seqs[m] ELSE g[m - 1] \o seqs[m]
                                      ELSE g[i]]
      <3>4. ASSUME NEW i \in 1..m
            PROVE  h[i] \in Seq(S) /\ h[i] = IF i = 1 THEN seqs[i] ELSE h[i - 1] \o seqs[i]
        <4>1. CASE i = m
          <5>1. CASE m = 1
            BY <1>1, <3>1, <4>1, <5>1
          <5>2. CASE m # 1
            <6>1. m - 1 \in 1..(m - 1) /\ m - 1 \in 1..m /\ m - 1 # m
              BY <3>1, <5>2
            <6>2. h[m - 1] = g[m - 1] /\ g[m - 1] \in Seq(S)
              BY <3>3, <6>1
            <6>3. h[m] = g[m - 1] \o seqs[m]
              BY <4>1, <5>2
            <6>4. seqs[m] \in Seq(S)
              BY <1>1, <3>1
            <6>5. g[m - 1] \o seqs[m] \in Seq(S)
              BY <6>2, <6>4
            <6> HIDE DEF h
            <6> QED
              BY <4>1, <5>2, <6>2, <6>3, <6>5
          <5> QED
            BY <5>1, <5>2
        <4>2. CASE i # m
          <5>1. i \in 1..(m - 1) /\ (i # 1 => i - 1 \in 1..m /\ i - 1 # m)
            BY <3>1, <4>2
          <5>2. h[i] = g[i] /\ (i # 1 => h[i - 1] = g[i - 1])
            BY <4>2, <5>1
          <5>3. g[i] \in Seq(S) /\ g[i] = IF i = 1 THEN seqs[i] ELSE g[i - 1] \o seqs[i]
            BY <3>3, <5>1
          <5> HIDE DEF h
          <5> QED
            BY <5>2, <5>3
        <4> QED
          BY <4>1, <4>2
      <3>5. h \in [1..m -> Seq(S)]
        <4>1. \A i \in 1..m : h[i] \in Seq(S)
          BY <3>4
        <4> QED
          BY <4>1
      <3>6. P(m, h)
        <4> HIDE DEF h
        <4> QED
          BY <3>4, <3>5
      <3> QED
        BY <2>3, <3>6
    <2> QED
      BY <2>4, <2>5
  <1>3. Len(seqs) \in 0..Len(seqs)
    BY <1>1
  <1>4. PICK g : P(Len(seqs), g)
    <2> HIDE DEF P
    <2> QED
      BY <1>2, <1>3
  <1> QED
    BY <1>4 DEF Flattens

\* The first k elements are the same.
Agree(s, t, k) == \A i \in 1..k : s[i] = t[i]

\* Where two sequences of sequences agree, so do they flattened.
LEMMA FlattenAgrees ==
    ASSUME NEW S, NEW s \in Seq(Seq(S)), NEW t \in Seq(Seq(S)),
           NEW g, Flattens(s, S, g), NEW h, Flattens(t, S, h),
           NEW k \in Nat, k <= Len(s), k <= Len(t), Agree(s, t, k)
    PROVE  Agree(g, h, k)
  <1> USE DEF Agree
  <1> DEFINE T == {i \in 1..k : g[i] # h[i]}
  <1>1. T = {}
    <2> SUFFICES ASSUME T # {} PROVE FALSE
      OBVIOUS
    <2>1. T \subseteq Nat
      OBVIOUS
    <2>2. PICK m \in T : \A n \in T : m <= n
      BY <2>1, LeastNat
    <2>3. m \in 1..k /\ g[m] # h[m] /\ m \in 1..Len(s) /\ m \in 1..Len(t)
      OBVIOUS
    <2>4. m # 1 => m - 1 \in 1..k /\ m - 1 \notin T
      BY <2>2, <2>3
    <2>5. m # 1 => g[m - 1] = h[m - 1]
      BY <2>4
    <2>6. s[m] = t[m]
      BY <2>3
    <2>7. /\ g[m] = IF m = 1 THEN s[m] ELSE g[m - 1] \o s[m]
          /\ h[m] = IF m = 1 THEN t[m] ELSE h[m - 1] \o t[m]
      BY <2>3 DEF Flattens
    <2> HIDE DEF T
    <2> QED
      BY <2>3, <2>5, <2>6, <2>7
  <1> QED
    BY <1>1

\* FlattenSeq is what such a function has at its end.
LEMMA FlattenIs ==
    ASSUME NEW S, NEW seqs \in Seq(Seq(S)), NEW g, Flattens(seqs, S, g)
    PROVE  FlattenSeq(seqs) = IF Len(seqs) = 0 THEN <<>> ELSE g[Len(seqs)]
  <1>1. CASE Len(seqs) = 0
    BY <1>1 DEF FlattenSeq
  <1>2. CASE Len(seqs) # 0
    <2> DEFINE flatten[i \in 1..Len(seqs)] ==
                 IF i = 1 THEN seqs[i] ELSE flatten[i - 1] \o seqs[i]
               Def(f) == [i \in 1..Len(seqs) |-> IF i = 1 THEN seqs[i] ELSE f[i - 1] \o seqs[i]]
    <2>1. FlattenSeq(seqs) = flatten[Len(seqs)]
      BY <1>2 DEF FlattenSeq
    <2>2. flatten = CHOOSE f : f = Def(f)
      OBVIOUS
    <2>3. g = Def(g)
      BY DEF Flattens
    <2>4. ASSUME NEW f, f = Def(f) PROVE f = g
      <3> DEFINE T == {i \in 1..Len(seqs) : f[i] # g[i]}
      <3>1. T = {}
        <4> SUFFICES ASSUME T # {} PROVE FALSE
          OBVIOUS
        <4>1. T \subseteq Nat
          OBVIOUS
        <4>2. PICK m \in T : \A n \in T : m <= n
          BY <4>1, LeastNat
        <4>3. m \in 1..Len(seqs) /\ f[m] # g[m]
          OBVIOUS
        <4>4. m # 1 => m - 1 \in 1..Len(seqs) /\ m - 1 \notin T
          BY <4>2, <4>3
        <4>5. m # 1 => f[m - 1] = g[m - 1]
          BY <4>4
        <4>6. f[m] = Def(f)[m] /\ g[m] = Def(g)[m]
          BY <2>3, <2>4
        <4> HIDE DEF T
        <4> QED
          BY <4>3, <4>5, <4>6
      <3>2. \A i \in 1..Len(seqs) : f[i] = g[i]
        BY <3>1
      <3>3. DOMAIN f = 1..Len(seqs) /\ DOMAIN g = 1..Len(seqs)
        <4>1. DOMAIN Def(f) = 1..Len(seqs) /\ DOMAIN Def(g) = 1..Len(seqs)
          OBVIOUS
        <4> QED
          BY <2>3, <2>4, <4>1
      <3>4. f = [i \in 1..Len(seqs) |-> f[i]] /\ g = [i \in 1..Len(seqs) |-> g[i]]
        <4>1. /\ Def(f) = [i \in 1..Len(seqs) |-> Def(f)[i]]
              /\ Def(g) = [i \in 1..Len(seqs) |-> Def(g)[i]]
          OBVIOUS
        <4> QED
          BY <2>3, <2>4, <4>1
      <3> QED
        BY <3>2, <3>4
    <2>5. (CHOOSE f : f = Def(f)) = g
      <3> HIDE DEF Def
      <3> QED
        BY <2>3, <2>4
    <2>6. flatten = g
      BY <2>2, <2>5
    <2> HIDE DEF flatten
    <2> QED
      BY <1>2, <2>1, <2>6
  <1> QED
    BY <1>1, <1>2

\* FlattenSeq puts sequences one after the other.
LEMMA FlattenAppend ==
    ASSUME NEW S, NEW seqs \in Seq(Seq(S)), NEW s \in Seq(S)
    PROVE  /\ FlattenSeq(seqs) \in Seq(S)
           /\ FlattenSeq(Append(seqs, s)) \in Seq(S)
           /\ FlattenSeq(Append(seqs, s)) = FlattenSeq(seqs) \o s
  <1> DEFINE t == Append(seqs, s)
             n == Len(seqs)
  <1>1. /\ t \in Seq(Seq(S)) /\ Len(t) = n + 1 /\ n \in Nat
        /\ t[n + 1] = s /\ \A i \in 1..n : t[i] = seqs[i]
    BY AppendProperties
  <1> HIDE DEF t
  <1>2. PICK g : Flattens(seqs, S, g)
    BY FlattenExists
  <1>3. PICK h : Flattens(t, S, h)
    BY <1>1, FlattenExists
  <1>4. FlattenSeq(seqs) = IF n = 0 THEN <<>> ELSE g[n]
    BY <1>2, FlattenIs
  <1>5. FlattenSeq(t) = h[n + 1]
    <2>1. Len(t) # 0
      BY <1>1
    <2> QED
      BY <1>1, <1>3, <2>1, FlattenIs
  <1>6. Agree(g, h, n)
    <2>1. Agree(seqs, t, n)
      BY <1>1 DEF Agree
    <2>2. n <= Len(seqs) /\ n <= Len(t) /\ n \in Nat
      BY <1>1
    <2>3. t \in Seq(Seq(S))
      BY <1>1
    <2> HIDE DEF n
    <2> QED
      BY <1>2, <1>3, <2>1, <2>2, <2>3, FlattenAgrees
  <1>7. h[n + 1] = IF n = 0 THEN s ELSE h[n] \o s
    <2>1. PICK j : j = n + 1
      OBVIOUS
    <2>2. j \in 1..Len(t) /\ (j = 1 <=> n = 0) /\ j - 1 = n
      BY <1>1, <2>1
    <2>3. h[j] = IF j = 1 THEN t[j] ELSE h[j - 1] \o t[j]
      BY <1>3, <2>2 DEF Flattens
    <2> HIDE DEF n
    <2> QED
      BY <1>1, <2>1, <2>2, <2>3
  <1>8. FlattenSeq(seqs) \in Seq(S)
    <2>1. n # 0 => n \in 1..n
      BY <1>1
    <2>2. g \in [1..n -> Seq(S)]
      BY <1>2 DEF Flattens
    <2>3. <<>> \in Seq(S)
      OBVIOUS
    <2> HIDE DEF n
    <2>4. n # 0 => g[n] \in Seq(S)
      BY <2>1, <2>2
    <2>5. CASE n = 0
      BY <1>4, <2>3, <2>5
    <2>6. CASE n # 0
      BY <1>4, <2>4, <2>6
    <2> QED
      BY <2>5, <2>6
  <1>9. FlattenSeq(t) = FlattenSeq(seqs) \o s
    <2>1. CASE n = 0
      <3>1. FlattenSeq(seqs) = <<>> /\ FlattenSeq(t) = s
        <4> HIDE DEF n
        <4> QED
          BY <1>4, <1>5, <1>7, <2>1
      <3> QED
        BY <3>1, ConcatEmptySeq
    <2>2. CASE n # 0
      <3>1. n \in 1..n
        BY <1>1, <2>2
      <3>2. g[n] = h[n]
        BY <1>6, <3>1 DEF Agree
      <3> HIDE DEF n
      <3> QED
        BY <1>4, <1>5, <1>7, <2>2, <3>2
    <2> QED
      BY <2>1, <2>2
  <1>10. FlattenSeq(t) \in Seq(S)
    BY <1>8, <1>9, ConcatProperties
  <1> QED
    BY <1>8, <1>9, <1>10 DEF t

\* Flattening a sequence of one sequence.
LEMMA FlattenOne ==
    ASSUME NEW S, NEW s \in Seq(S)
    PROVE  FlattenSeq(<<>>) = <<>> /\ FlattenSeq(<<s>>) = s
  <1>1. <<>> \in Seq(Seq(S)) /\ Append(<<>>, s) = <<s>> /\ Len(<<>>) = 0
    OBVIOUS
  <1>2. FlattenSeq(<<>>) = <<>>
    BY <1>1 DEF FlattenSeq
  <1>3. FlattenSeq(<<s>>) = <<>> \o s
    BY <1>1, <1>2, FlattenAppend
  <1> QED
    BY <1>2, <1>3, ConcatEmptySeq

-----------------------------------------------------------------------------
\* The first m numbers ascend.
Increasing(f, m) == \A i, j \in 1..m : i < j => f[i] < f[j]

\* Numbers that grow, from above k on, grow at least as fast as their places.
LEMMA Grow ==
    ASSUME NEW m \in Nat, NEW k \in Nat, NEW n \in Nat,
           NEW f \in [1..m -> (k + 1)..n],
           Increasing(f, m)
    PROVE  \A i \in 1..m : k + i <= f[i] /\ f[i] <= n - (m - i)
  <1> USE DEF Increasing
  <1>1. \A i \in 1..m : f[i] \in (k + 1)..n /\ f[i] \in Int
    OBVIOUS
  <1>2. \A i \in 1..m : k + i <= f[i]
    <2> DEFINE T == {i \in 1..m : ~(k + i <= f[i])}
    <2>1. T = {}
      <3> SUFFICES ASSUME T # {} PROVE FALSE
        OBVIOUS
      <3>1. T \subseteq Nat
        OBVIOUS
      <3>2. PICK i \in T : \A j \in T : i <= j
        BY <3>1, LeastNat
      <3>3. i \in 1..m /\ ~(k + i <= f[i]) /\ f[i] \in (k + 1)..n
        BY <1>1
      <3>4. i # 1
        BY <3>3
      <3>5. i - 1 \in 1..m /\ ~(i <= i - 1) /\ i - 1 < i
        BY <3>3, <3>4
      <3>6. i - 1 \notin T
        BY <3>2, <3>5
      <3>7. k + (i - 1) <= f[i - 1] /\ f[i - 1] < f[i] /\ f[i - 1] \in Int
        BY <1>1, <3>3, <3>5, <3>6
      <3> QED
        BY <3>3, <3>7
    <2> QED
      BY <2>1
  <1>3. \A i \in 1..m : f[i] <= n - (m - i)
    <2> DEFINE T == {d \in 0..(m - 1) : ~(f[m - d] <= n - d)}
    <2>1. T = {}
      <3> SUFFICES ASSUME T # {} PROVE FALSE
        OBVIOUS
      <3>1. T \subseteq Nat
        OBVIOUS
      <3>2. PICK d \in T : \A j \in T : d <= j
        BY <3>1, LeastNat
      <3>3. d \in 0..(m - 1) /\ ~(f[m - d] <= n - d) /\ m - d \in 1..m
        OBVIOUS
      <3>4. f[m - d] \in (k + 1)..n
        BY <1>1, <3>3
      <3>5. d # 0
        BY <3>3, <3>4
      <3>6. d - 1 \in 0..(m - 1) /\ ~(d <= d - 1) /\ m - (d - 1) \in 1..m /\ m - d < m - (d - 1)
        BY <3>3, <3>5
      <3>7. d - 1 \notin T
        BY <3>2, <3>6
      <3>8. f[m - (d - 1)] <= n - (d - 1)
        BY <3>6, <3>7
      <3>9. f[m - d] < f[m - (d - 1)] /\ f[m - (d - 1)] \in Int
        BY <1>1, <3>3, <3>6
      <3> QED
        BY <3>3, <3>4, <3>8, <3>9
    <2>2. ASSUME NEW i \in 1..m PROVE f[i] <= n - (m - i)
      <3>1. m - i \in 0..(m - 1) /\ m - (m - i) = i
        OBVIOUS
      <3>2. m - i \notin T
        BY <2>1
      <3>3. f[m - (m - i)] <= n - (m - i)
        BY <3>1, <3>2
      <3> QED
        BY <3>1, <3>3
    <2> QED
      BY <2>2
  <1> QED
    BY <1>2, <1>3

\* m numbers between k and n, ascending, that are all of them if there are as many.
Filling(f, m, k, n) ==
    /\ m <= n - k
    /\ m = n - k => \A i \in 1..m : f[i] = k + i
    /\ (\A j \in (k + 1)..n : \E i \in 1..m : f[i] = j) => m = n - k

\* There are not more of them than fit, and if none is missing it is these.
LEMMA GrowFull ==
    ASSUME NEW m \in Nat, NEW k \in Nat, NEW n \in Nat, k <= n,
           NEW f \in [1..m -> (k + 1)..n],
           Increasing(f, m)
    PROVE  Filling(f, m, k, n)
  <1>1. \A i \in 1..m : k + i <= f[i] /\ f[i] <= n - (m - i) /\ f[i] \in (k + 1)..n
    BY Grow
  <1>2. m <= n - k
    <2>1. CASE m = 0
      BY <2>1
    <2>2. CASE m # 0
      <3>1. m \in 1..m
        BY <2>2
      <3>2. k + m <= f[m] /\ f[m] \in (k + 1)..n
        BY <1>1, <3>1
      <3> QED
        BY <3>2
    <2> QED
      BY <2>1, <2>2
  <1>3. m = n - k => \A i \in 1..m : f[i] = k + i
    <2> SUFFICES ASSUME m = n - k, NEW i \in 1..m PROVE f[i] = k + i
      OBVIOUS
    <2>1. k + i <= f[i] /\ f[i] <= n - (m - i) /\ f[i] \in (k + 1)..n
      BY <1>1
    <2> QED
      BY <2>1
  <1>4. ASSUME \A j \in (k + 1)..n : \E i \in 1..m : f[i] = j
        PROVE  m = n - k
    <2> DEFINE T == {j \in 1..(n - k) : ~(j <= m /\ f[j] = k + j)}
    <2>1. T = {}
      <3> SUFFICES ASSUME T # {} PROVE FALSE
        OBVIOUS
      <3>1. T \subseteq Nat
        OBVIOUS
      <3>2. PICK j \in T : \A i \in T : j <= i
        BY <3>1, LeastNat
      <3>3. j \in 1..(n - k) /\ ~(j <= m /\ f[j] = k + j) /\ k + j \in (k + 1)..n
        OBVIOUS
      <3>4. PICK i \in 1..m : f[i] = k + j
        BY <1>4, <3>3
      <3>5. i < j => f[i] = k + i
        <4> HAVE i < j
        <4>1. i \in 1..(n - k) /\ ~(j <= i)
          BY <3>3
        <4>2. i \notin T
          BY <3>2, <4>1
        <4> QED
          BY <4>1, <4>2
      <3>6. ~(i < j)
        BY <3>3, <3>4, <3>5
      <3>7. j \in 1..m
        BY <3>3, <3>6
      <3>8. j < i => f[j] < f[i]
        BY <3>7 DEF Increasing
      <3>9. k + j <= f[j] /\ f[j] \in (k + 1)..n
        BY <1>1, <3>7
      <3> QED
        BY <3>3, <3>4, <3>6, <3>7, <3>8, <3>9
    <2>2. n - k # 0 => n - k \in 1..(n - k)
      OBVIOUS
    <2>3. n - k # 0 => n - k <= m
      BY <2>1, <2>2
    <2> QED
      BY <1>2, <2>3
  <1> QED
    BY <1>2, <1>3, <1>4 DEF Filling
-----------------------------------------------------------------------------
(* The walk over a selection.                                              *)
\* The walk over one bank of a selection: one of the sequences that Places joins.
Row(s) ==
    LET pcrs == Ascending(s.pcrs)
    IN  [j \in DOMAIN pcrs |-> [bank |-> s.bank, pcr |-> pcrs[j]]]

\* The PCRs of one bank, in ascending order.
LEMMA RowIs ==
    ASSUME NEW s \in Selection
    PROVE  /\ Row(s) \in Seq(Place)
           /\ \A j \in 1..Len(Row(s)) : Row(s)[j].bank = s.bank /\ Row(s)[j].pcr \in s.pcrs
           /\ \A i, j \in 1..Len(Row(s)) : i < j => Row(s)[i].pcr < Row(s)[j].pcr
           /\ \A n \in s.pcrs : \E j \in 1..Len(Row(s)) : Row(s)[j].pcr = n
  <1> DEFINE a == Ascending(s.pcrs)
             N == Cardinality(s.pcrs)
  <1>1. s.pcrs \subseteq Pcrs /\ s.bank \in Banks
    BY DEF Selection
  <1>2. s.pcrs \subseteq Int /\ IsFiniteSet(s.pcrs)
    <2>1. Pcrs \subseteq Int /\ IsFiniteSet(Pcrs)
      BY PcrAssumption
    <2>2. IsFiniteSet(s.pcrs)
      BY <1>1, <2>1, FS_Subset
    <2> QED
      BY <1>1, <2>1, <2>2
  <1>3. /\ N \in Nat /\ a \in [1..N -> s.pcrs]
        /\ \A i, j \in 1..N : i < j => a[i] < a[j]
        /\ \A n \in s.pcrs : \E i \in 1..N : a[i] = n
    BY <1>2, AscendingSorts
  <1>4. Row(s) = [j \in 1..N |-> [bank |-> s.bank, pcr |-> a[j]]]
    <2>1. DOMAIN a = 1..N
      BY <1>3
    <2> HIDE DEF N
    <2> QED
      BY <2>1 DEF Row
  <1> HIDE DEF a, N
  <1>5. \A j \in 1..N : Row(s)[j] = [bank |-> s.bank, pcr |-> a[j]] /\ a[j] \in s.pcrs
    BY <1>3, <1>4
  <1>6. Row(s) \in Seq(Place) /\ Len(Row(s)) = N
    <2>1. \A j \in 1..N : [bank |-> s.bank, pcr |-> a[j]] \in Place
      BY <1>1, <1>3 DEF Place
    <2> QED
      BY <1>3, <1>4, <2>1
  <1> QED
    BY <1>3, <1>5, <1>6

\* The walks over the banks of a selection, one after the other.
Rows(sel) == [i \in DOMAIN sel |-> Row(sel[i])]

\* The rows of a selection, one per bank.
LEMMA RowsType ==
    ASSUME NEW sel \in Seq(Selection)
    PROVE  /\ Places(sel) = FlattenSeq(Rows(sel))
           /\ Rows(sel) \in Seq(Seq(Place)) /\ Len(Rows(sel)) = Len(sel)
           /\ \A i \in 1..Len(sel) : Rows(sel)[i] = Row(sel[i]) /\ Row(sel[i]) \in Seq(Place)
  <1>1. Places(sel) = FlattenSeq(Rows(sel))
    BY DEF Places, Rows, Row
  <1>2. \A i \in 1..Len(sel) : Row(sel[i]) \in Seq(Place)
    BY RowIs
  <1>3. DOMAIN sel = 1..Len(sel) /\ Len(sel) \in Nat
    OBVIOUS
  <1>4. Rows(sel) \in Seq(Seq(Place)) /\ Len(Rows(sel)) = Len(sel)
    BY <1>2, <1>3 DEF Rows
  <1>5. \A i \in 1..Len(sel) : Rows(sel)[i] = Row(sel[i])
    BY <1>3 DEF Rows
  <1> QED
    BY <1>1, <1>2, <1>4, <1>5

\* A walk over a selection yields places.
LEMMA PlacesType ==
    ASSUME NEW sel \in Seq(Selection)
    PROVE  /\ Places(sel) \in Seq(Place) /\ Len(Places(sel)) \in Nat
           /\ DOMAIN Places(sel) = 1..Len(Places(sel))
           /\ \A k \in 1..Len(Places(sel)) : Places(sel)[k] \in Place
  <1>1. Places(sel) \in Seq(Place)
    <2>1. <<>> \in Seq(Place)
      OBVIOUS
    <2> QED
      BY <2>1, RowsType, FlattenAppend
  <1> QED
    BY <1>1

\* Nothing is selected by no selection.
LEMMA PlacesNone == Places(<<>>) = <<>>
  <1>1. <<>> \in Seq(Selection) /\ Len(<<>>) = 0
    OBVIOUS
  <1>2. Rows(<<>>) = <<>>
    <2>1. Rows(<<>>) \in Seq(Seq(Place)) /\ Len(Rows(<<>>)) = 0
      BY <1>1, RowsType
    <2> QED
      BY <2>1
  <1>3. Places(<<>>) = FlattenSeq(Rows(<<>>))
    BY <1>1, RowsType
  <1>4. FlattenSeq(<<>>) = <<>>
    BY DEF FlattenSeq
  <1> QED
    BY <1>2, <1>3, <1>4

\* A selection is walked bank by bank.
LEMMA PlacesAppend ==
    ASSUME NEW sel \in Seq(Selection), NEW s \in Selection
    PROVE  Places(Append(sel, s)) = Places(sel) \o Row(s)
  <1> DEFINE u == Append(sel, s)
             v == Append(Rows(sel), Row(s))
  <1>1. /\ u \in Seq(Selection) /\ Len(u) = Len(sel) + 1 /\ Len(sel) \in Nat
        /\ u[Len(sel) + 1] = s /\ \A i \in 1..Len(sel) : u[i] = sel[i]
    BY AppendProperties
  <1>2. Rows(sel) \in Seq(Seq(Place)) /\ Len(Rows(sel)) = Len(sel) /\ Row(s) \in Seq(Place)
    BY RowsType, RowIs
  <1>3. /\ v \in Seq(Seq(Place)) /\ Len(v) = Len(sel) + 1
        /\ v[Len(sel) + 1] = Row(s) /\ \A i \in 1..Len(sel) : v[i] = Rows(sel)[i]
    BY <1>2, AppendProperties
  <1> HIDE DEF u, v
  <1>4. /\ Rows(u) \in Seq(Seq(Place)) /\ Len(Rows(u)) = Len(sel) + 1
        /\ \A i \in 1..(Len(sel) + 1) : Rows(u)[i] = Row(u[i])
    BY <1>1, RowsType
  <1>5. \A i \in 1..Len(sel) : Rows(sel)[i] = Row(sel[i])
    BY RowsType
  <1>6. \A i \in 1..(Len(sel) + 1) : Rows(u)[i] = v[i]
    <2> TAKE i \in 1..(Len(sel) + 1)
    <2>1. CASE i = Len(sel) + 1
      BY <1>1, <1>3, <1>4, <2>1
    <2>2. CASE i # Len(sel) + 1
      <3>1. i \in 1..Len(sel)
        BY <1>1, <2>2
      <3> QED
        BY <1>1, <1>3, <1>4, <1>5, <3>1
    <2> QED
      BY <2>1, <2>2
  <1>7. Rows(u) = v
    BY <1>3, <1>4, <1>6, SeqEqual
  <1>8. FlattenSeq(v) = FlattenSeq(Rows(sel)) \o Row(s)
    BY <1>2, FlattenAppend DEF v
  <1>9. Places(u) = FlattenSeq(Rows(u)) /\ Places(sel) = FlattenSeq(Rows(sel))
    BY <1>1, RowsType
  <1> QED
    BY <1>7, <1>8, <1>9 DEF u

(***************************************************************************)
(* w says of which turn over the banks each place of a walk is: walks go   *)
(* bank by bank, through the PCRs of each in ascending order, and leave    *)
(* out none.                                                               *)
(***************************************************************************)
Walks(sel, w) ==
    LET places == Places(sel)
    IN  /\ w \in [1..Len(places) -> 1..Len(sel)]
        /\ \A k \in 1..Len(places) : /\ places[k].bank = sel[w[k]].bank
                                      /\ places[k].pcr \in sel[w[k]].pcrs
        /\ \A j, k \in 1..Len(places) : j < k =>
              w[j] < w[k] \/ (w[j] = w[k] /\ places[j].pcr < places[k].pcr)
        /\ \A i \in 1..Len(sel) : \A n \in sel[i].pcrs :
              \E k \in 1..Len(places) : w[k] = i /\ places[k].pcr = n

\* One more bank is one more turn.
LEMMA WalkAppend ==
    ASSUME NEW sel \in Seq(Selection), NEW s \in Selection, NEW w, Walks(sel, w)
    PROVE  \E x : Walks(Append(sel, s), x)
  <1> DEFINE u == Append(sel, s)
             n == Len(Places(sel))
             m == Len(Row(s))
             l == Len(sel)
             x == [k \in 1..(n + m) |-> IF k <= n THEN w[k] ELSE l + 1]
  <1>1. /\ u \in Seq(Selection) /\ Len(u) = l + 1 /\ l \in Nat
        /\ u[l + 1] = s /\ \A i \in 1..l : u[i] = sel[i]
    BY AppendProperties
  <1>2. /\ Row(s) \in Seq(Place) /\ m \in Nat
        /\ \A j \in 1..m : Row(s)[j].bank = s.bank /\ Row(s)[j].pcr \in s.pcrs
        /\ \A i, j \in 1..m : i < j => Row(s)[i].pcr < Row(s)[j].pcr
        /\ \A a \in s.pcrs : \E j \in 1..m : Row(s)[j].pcr = a
    BY RowIs
  <1>3. Places(sel) \in Seq(Place) /\ n \in Nat
    BY PlacesType
  <1>4. /\ Len(Places(u)) = n + m
        /\ \A k \in 1..(n + m) :
              Places(u)[k] = IF k <= n THEN Places(sel)[k] ELSE Row(s)[k - n]
    <2>1. Places(u) = Places(sel) \o Row(s)
      BY PlacesAppend
    <2> QED
      BY <1>2, <1>3, <2>1, ConcatProperties
  <1>5. /\ w \in [1..n -> 1..l]
        /\ \A k \in 1..n : /\ Places(sel)[k].bank = sel[w[k]].bank
                            /\ Places(sel)[k].pcr \in sel[w[k]].pcrs
        /\ \A j, k \in 1..n : j < k =>
              w[j] < w[k] \/ (w[j] = w[k] /\ Places(sel)[j].pcr < Places(sel)[k].pcr)
        /\ \A i \in 1..l : \A a \in sel[i].pcrs :
              \E k \in 1..n : w[k] = i /\ Places(sel)[k].pcr = a
    BY DEF Walks
  <1> HIDE DEF u, n, m, l
  <1>6. \A k \in 1..n : k \in 1..(n + m) /\ x[k] = w[k] /\ w[k] \in 1..l
    BY <1>2, <1>3, <1>5
  <1>7. \A k \in 1..m : n + k \in 1..(n + m) /\ ~(n + k <= n) /\ x[n + k] = l + 1 /\ (n + k) - n = k
    BY <1>2, <1>3
  <1>8. \A k \in 1..(n + m) : k \in 1..n \/ (~(k <= n) /\ k - n \in 1..m /\ n + (k - n) = k)
    BY <1>2, <1>3
  <1>9. x \in [1..(n + m) -> 1..(l + 1)]
    <2>1. ASSUME NEW k \in 1..(n + m) PROVE x[k] \in 1..(l + 1)
      <3> HIDE DEF x
      <3>1. CASE k \in 1..n
        BY <1>1, <1>6, <3>1
      <3>2. CASE k - n \in 1..m /\ n + (k - n) = k
        BY <1>1, <1>7, <3>2
      <3> QED
        BY <1>8, <3>1, <3>2
    <2> QED
      BY <2>1
  <1> HIDE DEF x
  <1>10. ASSUME NEW k \in 1..(n + m)
         PROVE  Places(u)[k].bank = u[x[k]].bank /\ Places(u)[k].pcr \in u[x[k]].pcrs
    <2>1. CASE k \in 1..n
      <3>1. Places(u)[k] = Places(sel)[k] /\ x[k] = w[k] /\ u[w[k]] = sel[w[k]]
        BY <1>1, <1>3, <1>4, <1>6, <2>1
      <3> QED
        BY <1>5, <2>1, <3>1
    <2>2. CASE ~(k <= n) /\ k - n \in 1..m /\ n + (k - n) = k
      <3>1. Places(u)[k] = Row(s)[k - n] /\ x[k] = l + 1 /\ u[l + 1] = s
        BY <1>1, <1>4, <1>7, <2>2
      <3> QED
        BY <1>2, <2>2, <3>1
    <2> QED
      BY <1>8, <2>1, <2>2
  <1>11. ASSUME NEW j \in 1..(n + m), NEW k \in 1..(n + m), j < k
         PROVE  x[j] < x[k] \/ (x[j] = x[k] /\ Places(u)[j].pcr < Places(u)[k].pcr)
    <2>1. CASE j \in 1..n /\ k \in 1..n
      <3>1. /\ x[j] = w[j] /\ x[k] = w[k]
            /\ Places(u)[j] = Places(sel)[j] /\ Places(u)[k] = Places(sel)[k]
        BY <1>3, <1>4, <1>6, <2>1
      <3>2. w[j] < w[k] \/ (w[j] = w[k] /\ Places(sel)[j].pcr < Places(sel)[k].pcr)
        BY <1>5, <1>11, <2>1
      <3> QED
        BY <3>1, <3>2
    <2>2. CASE j \in 1..n /\ (~(k <= n) /\ k - n \in 1..m /\ n + (k - n) = k)
      <3>1. x[j] = w[j] /\ w[j] \in 1..l /\ x[k] = l + 1
        BY <1>6, <1>7, <2>2
      <3> QED
        BY <1>1, <3>1
    <2>3. CASE /\ ~(j <= n) /\ j - n \in 1..m /\ n + (j - n) = j
               /\ ~(k <= n) /\ k - n \in 1..m /\ n + (k - n) = k
      <3>1. /\ x[j] = l + 1 /\ x[k] = l + 1
            /\ Places(u)[j] = Row(s)[j - n] /\ Places(u)[k] = Row(s)[k - n]
        BY <1>4, <1>7, <2>3
      <3>2. j - n < k - n
        BY <1>3, <1>11
      <3>3. Row(s)[j - n].pcr < Row(s)[k - n].pcr
        BY <1>2, <2>3, <3>2
      <3> QED
        BY <3>1, <3>3
    <2>4. CASE ~(j <= n) /\ k \in 1..n
      <3>1. FALSE
        BY <1>3, <1>11, <2>4
      <3> QED
        BY <3>1
    <2> QED
      BY <1>8, <2>1, <2>2, <2>3, <2>4
  <1>12. ASSUME NEW i \in 1..(l + 1), NEW a \in u[i].pcrs
         PROVE  \E k \in 1..(n + m) : x[k] = i /\ Places(u)[k].pcr = a
    <2>1. CASE i \in 1..l
      <3>1. a \in sel[i].pcrs
        BY <1>1, <2>1
      <3>2. PICK k \in 1..n : w[k] = i /\ Places(sel)[k].pcr = a
        BY <1>5, <2>1, <3>1
      <3>3. k \in 1..(n + m) /\ x[k] = i /\ Places(u)[k] = Places(sel)[k]
        BY <1>3, <1>4, <1>6, <3>2
      <3> QED
        BY <3>2, <3>3
    <2>2. CASE i = l + 1
      <3>1. PICK j \in 1..m : Row(s)[j].pcr = a
        BY <1>1, <1>2, <2>2
      <3>2. n + j \in 1..(n + m) /\ x[n + j] = i /\ Places(u)[n + j] = Row(s)[j]
        BY <1>4, <1>7, <2>2
      <3> QED
        BY <3>1, <3>2
    <2>3. i \in 1..l \/ i = l + 1
      BY <1>1
    <2> QED
      BY <2>1, <2>2, <2>3
  <1>13. Walks(u, x)
    BY <1>1, <1>4, <1>9, <1>10, <1>11, <1>12 DEF Walks
  <1> QED
    BY <1>13 DEF u

\* Every selection has its walk.
LEMMA WalkExists ==
    ASSUME NEW sel \in Seq(Selection)
    PROVE  \E w : Walks(sel, w)
  <1> DEFINE T == {n \in Nat : \E s \in Seq(Selection) : Len(s) = n /\ ~\E w : Walks(s, w)}
  <1>1. T = {}
    <2> SUFFICES ASSUME T # {} PROVE FALSE
      OBVIOUS
    <2>1. T \subseteq Nat
      OBVIOUS
    <2>2. PICK n \in T : \A m \in T : n <= m
      BY <2>1, LeastNat
    <2>3. PICK s \in Seq(Selection) : Len(s) = n /\ ~\E w : Walks(s, w)
      BY <2>2
    <2>4. CASE s = <<>>
      <3>1. Len(s) = 0 /\ Places(s) = <<>> /\ Len(Places(s)) = 0
        BY <2>4, PlacesNone
      <3>2. Walks(s, <<>>)
        <4>1. 1..Len(Places(s)) = {} /\ 1..Len(s) = {}
          BY <3>1
        <4> DEFINE places == Places(s)
        <4>2. <<>> \in [1..Len(places) -> 1..Len(s)]
          BY <4>1
        <4>3. Walks(s, <<>>) <=>
                /\ <<>> \in [1..Len(places) -> 1..Len(s)]
                /\ \A k \in 1..Len(places) : /\ places[k].bank = s[<<>>[k]].bank
                                              /\ places[k].pcr \in s[<<>>[k]].pcrs
                /\ \A j, k \in 1..Len(places) : j < k =>
                      <<>>[j] < <<>>[k] \/ (<<>>[j] = <<>>[k] /\ places[j].pcr < places[k].pcr)
                /\ \A i \in 1..Len(s) : \A a \in s[i].pcrs :
                      \E k \in 1..Len(places) : <<>>[k] = i /\ places[k].pcr = a
          BY DEF Walks
        <4> QED
          BY <4>1, <4>2, <4>3
      <3> QED
        BY <2>3, <3>2
    <2>5. CASE s # <<>>
      <3>1. PICK t \in Seq(Selection), e \in Selection : s = Append(t, e)
        BY <2>5, SequenceEmptyOrAppend
      <3>2. Len(t) \in Nat /\ n = Len(t) + 1
        BY <2>3, <3>1
      <3>3. ~(n <= Len(t))
        BY <3>2
      <3>4. Len(t) \notin T
        BY <2>2, <3>3
      <3>5. PICK w : Walks(t, w)
        BY <3>2, <3>4
      <3> QED
        BY <2>3, <3>1, <3>5, WalkAppend
    <2> QED
      BY <2>4, <2>5
  <1> QED
    BY <1>1
\* f tells where a walk over sub is in a walk over sel: at the places of K.
Thins(sel, sub, K, f) ==
    /\ f \in [1..Len(Places(sub)) -> 1..Len(Places(sel))]
    /\ Increasing(f, Len(Places(sub)))
    /\ \A k \in 1..Len(Places(sub)) :
          Places(sub)[k] = Places(sel)[f[k]] /\ Places(sub)[k] \in K
    /\ \A j \in 1..Len(Places(sel)) :
          Places(sel)[j] \in K => \E k \in 1..Len(Places(sub)) : f[k] = j

\* sub has of sel what is in K.
Keeps(sel, sub, K) ==
    /\ Len(sub) = Len(sel)
    /\ \A i \in 1..Len(sel) :
          /\ sub[i].bank = sel[i].bank
          /\ sub[i].pcrs = {n \in sel[i].pcrs : [bank |-> sel[i].bank, pcr |-> n] \in K}

\* A place is its bank and its PCR.
LEMMA PlaceIs ==
    ASSUME NEW x \in Place
    PROVE  x = [bank |-> x.bank, pcr |-> x.pcr] /\ x.pcr \in Int
  <1>1. x = [bank |-> x.bank, pcr |-> x.pcr] /\ x.pcr \in Pcrs
    BY DEF Place
  <1> QED
    BY <1>1, PcrAssumption

\* Part of a selection is walked like the whole, leaving out what is not in it.
LEMMA Thinned ==
    ASSUME NEW sel \in Seq(Selection), NEW sub \in Seq(Selection), NEW K, Keeps(sel, sub, K)
    PROVE  \E f : Thins(sel, sub, K, f)
  <1> DEFINE P == Places(sel)
             Q == Places(sub)
             n == Len(P)
             m == Len(Q)
             l == Len(sel)
  <1>1. /\ n \in Nat /\ m \in Nat /\ l \in Nat /\ Len(sub) = l
        /\ \A k \in 1..n : P[k] \in Place
        /\ \A k \in 1..m : Q[k] \in Place
    BY PlacesType DEF Keeps
  <1>2. PICK w : Walks(sel, w)
    BY WalkExists
  <1>3. PICK v : Walks(sub, v)
    BY WalkExists
  <1>4. /\ w \in [1..n -> 1..l]
        /\ \A k \in 1..n : P[k].bank = sel[w[k]].bank /\ P[k].pcr \in sel[w[k]].pcrs
        /\ \A j, k \in 1..n : j < k => w[j] < w[k] \/ (w[j] = w[k] /\ P[j].pcr < P[k].pcr)
        /\ \A i \in 1..l : \A a \in sel[i].pcrs : \E k \in 1..n : w[k] = i /\ P[k].pcr = a
    BY <1>2 DEF Walks
  <1>5. /\ v \in [1..m -> 1..l]
        /\ \A k \in 1..m : Q[k].bank = sub[v[k]].bank /\ Q[k].pcr \in sub[v[k]].pcrs
        /\ \A j, k \in 1..m : j < k => v[j] < v[k] \/ (v[j] = v[k] /\ Q[j].pcr < Q[k].pcr)
        /\ \A i \in 1..l : \A a \in sub[i].pcrs : \E k \in 1..m : v[k] = i /\ Q[k].pcr = a
    BY <1>1, <1>3 DEF Walks
  <1>6. /\ \A k \in 1..n : P[k] = [bank |-> P[k].bank, pcr |-> P[k].pcr] /\ P[k].pcr \in Int
        /\ \A k \in 1..m : Q[k] = [bank |-> Q[k].bank, pcr |-> Q[k].pcr] /\ Q[k].pcr \in Int
    BY <1>1, PlaceIs
  <1> HIDE DEF P, Q, n, m, l
  <1> DEFINE Same(k, j) == w[j] = v[k] /\ P[j].pcr = Q[k].pcr
             f == [k \in 1..m |-> CHOOSE j \in 1..n : Same(k, j)]
  <1>7. ASSUME NEW k \in 1..m PROVE f[k] \in 1..n /\ Same(k, f[k])
    <2>1. v[k] \in 1..l /\ Q[k].pcr \in sub[v[k]].pcrs
      BY <1>5
    <2>2. Q[k].pcr \in sel[v[k]].pcrs
      BY <2>1 DEF Keeps, l
    <2>3. \E j \in 1..n : Same(k, j)
      BY <1>4, <2>1, <2>2
    <2>4. f[k] = CHOOSE j \in 1..n : Same(k, j)
      OBVIOUS
    <2> HIDE DEF Same, f
    <2> QED
      BY <2>3, <2>4
  <1>8. f \in [1..m -> 1..n]
    <2>1. \A k \in 1..m : f[k] \in 1..n
      BY <1>7
    <2> QED
      BY <2>1
  <1> HIDE DEF f
  <1>9. ASSUME NEW i \in 1..m, NEW k \in 1..m, i < k PROVE f[i] < f[k]
    <2>1. v[i] < v[k] \/ (v[i] = v[k] /\ Q[i].pcr < Q[k].pcr)
      BY <1>5, <1>9
    <2>2. Same(i, f[i]) /\ Same(k, f[k]) /\ f[i] \in 1..n /\ f[k] \in 1..n
      BY <1>7
    <2>3. v[i] \in Int /\ v[k] \in Int /\ Q[i].pcr \in Int /\ Q[k].pcr \in Int
      <3>1. v[i] \in 1..l /\ v[k] \in 1..l
        BY <1>5
      <3>2. Q[i].pcr \in Int /\ Q[k].pcr \in Int
        BY <1>6
      <3> QED
        BY <1>1, <3>1, <3>2
    <2>4. f[k] # f[i]
      BY <2>1, <2>2, <2>3
    <2>5. ~(f[k] < f[i])
      <3> SUFFICES ASSUME f[k] < f[i] PROVE FALSE
        OBVIOUS
      <3>1. w[f[k]] < w[f[i]] \/ (w[f[k]] = w[f[i]] /\ P[f[k]].pcr < P[f[i]].pcr)
        BY <1>4, <2>2
      <3> QED
        BY <2>1, <2>2, <2>3, <3>1
    <2> QED
      BY <1>1, <2>2, <2>4, <2>5
  <1>10. ASSUME NEW k \in 1..m PROVE Q[k] = P[f[k]] /\ Q[k] \in K
    <2>1. f[k] \in 1..n /\ w[f[k]] = v[k] /\ P[f[k]].pcr = Q[k].pcr /\ v[k] \in 1..l
      BY <1>5, <1>7
    <2>2. /\ P[f[k]].bank = sel[v[k]].bank /\ Q[k].bank = sub[v[k]].bank
          /\ Q[k].pcr \in sub[v[k]].pcrs
      BY <1>4, <1>5, <2>1
    <2>3. sub[v[k]].bank = sel[v[k]].bank /\ [bank |-> sel[v[k]].bank, pcr |-> Q[k].pcr] \in K
      BY <2>1, <2>2 DEF Keeps, l
    <2>4. Q[k] = [bank |-> Q[k].bank, pcr |-> Q[k].pcr]
      BY <1>6
    <2>5. P[f[k]] = [bank |-> P[f[k]].bank, pcr |-> P[f[k]].pcr]
      BY <1>6, <2>1
    <2> QED
      BY <2>1, <2>2, <2>3, <2>4, <2>5
  <1>11. ASSUME NEW j \in 1..n, P[j] \in K PROVE \E k \in 1..m : f[k] = j
    <2>1. w[j] \in 1..l /\ P[j].bank = sel[w[j]].bank /\ P[j].pcr \in sel[w[j]].pcrs
      BY <1>4
    <2>2. [bank |-> sel[w[j]].bank, pcr |-> P[j].pcr] \in K
      BY <1>6, <1>11, <2>1
    <2>3. P[j].pcr \in sub[w[j]].pcrs
      BY <2>1, <2>2 DEF Keeps, l
    <2>4. PICK k \in 1..m : v[k] = w[j] /\ Q[k].pcr = P[j].pcr
      BY <1>5, <2>1, <2>3
    <2>5. f[k] \in 1..n /\ w[f[k]] = w[j] /\ P[f[k]].pcr = P[j].pcr
      BY <1>7, <2>4
    <2>6. w[j] \in Int /\ P[j].pcr \in Int
      <3>1. P[j].pcr \in Int
        BY <1>6
      <3> QED
        BY <1>1, <2>1, <3>1
    <2>7. ~(f[k] < j) /\ ~(j < f[k])
      BY <1>4, <2>5, <2>6
    <2>8. f[k] = j
      BY <1>1, <2>5, <2>7
    <2> QED
      BY <2>8
  <1>12. Increasing(f, m)
    BY <1>9 DEF Increasing
  <1> QED
    BY <1>8, <1>10, <1>11, <1>12 DEF P, Q, n, m, l, Thins

\* What FirstOf returns.
LEMMA FirstOfIs ==
    ASSUME NEW S, NEW s \in Seq(S), NEW m \in Nat
    PROVE  /\ FirstOf(m, s) \in Seq(S)
           /\ Len(FirstOf(m, s)) = IF m < Len(s) THEN m ELSE Len(s)
           /\ \A i \in 1..Len(FirstOf(m, s)) : FirstOf(m, s)[i] = s[i]
  <1> DEFINE n == IF m < Len(s) THEN m ELSE Len(s)
  <1>1. n \in Nat /\ n <= Len(s) /\ Len(s) \in Nat
    OBVIOUS
  <1>2. FirstOf(m, s) = SubSeq(s, 1, n)
    BY DEF FirstOf
  <1> HIDE DEF n
  <1>3. \A i \in 1..n : s[i] \in S
    BY <1>1
  <1>4. /\ SubSeq(s, 1, n) \in Seq(S)
        /\ Len(SubSeq(s, 1, n)) = IF 1 <= n THEN n - 1 + 1 ELSE 0
        /\ \A i \in 1..(n - 1 + 1) : SubSeq(s, 1, n)[i] = s[1 + i - 1]
    BY <1>1, <1>3, SubSeqProperties
  <1>5. Len(SubSeq(s, 1, n)) = n
    BY <1>1, <1>4
  <1>6. \A i \in 1..n : i \in 1..(n - 1 + 1) /\ 1 + i - 1 = i
    BY <1>1
  <1>7. \A i \in 1..n : SubSeq(s, 1, n)[i] = s[i]
    BY <1>4, <1>6
  <1> QED
    BY <1>2, <1>4, <1>5, <1>7 DEF n

\* What is read is taken off a selection as off the list of its places, unless
\* a place is there twice: then less is left.
LEMMA Taken ==
    ASSUME NEW left \in Seq(Selection), NEW m \in 0..Len(Places(left)), NEW R \in Seq(Place),
           Len(R) = m, \A i \in 1..m : R[i] = Places(left)[i]
    PROVE  LET P == Places(left)
               Q == Places(Without(left, R))
           IN  /\ Without(left, R) \in Seq(Selection)
               /\ Len(Q) <= Len(P) - m
               /\ Len(Q) = Len(P) - m => \A j \in 1..Len(Q) : Q[j] = P[m + j]
               /\ (\A i, j \in 1..Len(P) : P[i] = P[j] => i = j) => Len(Q) = Len(P) - m
  <1> DEFINE P == Places(left)
             K == {x \in Place : x \notin ToSet(R)}
             sub == Without(left, R)
  <1>1. /\ Len(left) \in Nat /\ DOMAIN left = 1..Len(left)
        /\ \A i \in 1..Len(left) : left[i] \in Selection
    OBVIOUS
  <1>2. /\ DOMAIN sub = 1..Len(left)
        /\ \A i \in 1..Len(left) : sub[i] = [left[i] EXCEPT
              !.pcrs = {n \in @ : [bank |-> left[i].bank, pcr |-> n] \notin ToSet(R)}]
    BY <1>1 DEF Without
  <1>3. \A i \in 1..Len(left) :
          /\ sub[i] \in Selection
          /\ sub[i].bank = left[i].bank
          /\ sub[i].pcrs = {n \in left[i].pcrs : [bank |-> left[i].bank, pcr |-> n] \notin ToSet(R)}
    <2> TAKE i \in 1..Len(left)
    <2>1. left[i] \in Selection
      BY <1>1
    <2> DEFINE S == {n \in left[i].pcrs : [bank |-> left[i].bank, pcr |-> n] \notin ToSet(R)}
    <2>2. S \subseteq left[i].pcrs
      OBVIOUS
    <2>3. sub[i] = [left[i] EXCEPT !.pcrs = S]
      BY <1>2
    <2> HIDE DEF S, sub
    <2>4. sub[i] \in Selection /\ sub[i].bank = left[i].bank /\ sub[i].pcrs = S
      BY <2>1, <2>2, <2>3 DEF Selection
    <2> QED
      BY <2>4 DEF S
  <1>4. sub \in Seq(Selection) /\ Len(sub) = Len(left)
    <2>1. sub = [i \in 1..Len(left) |-> sub[i]]
      BY <1>1 DEF Without
    <2> HIDE DEF sub
    <2> QED
      BY <1>1, <1>3, <2>1
  <1> HIDE DEF sub
  <1>5. Keeps(left, sub, K)
    <2>1. ASSUME NEW i \in 1..Len(left)
          PROVE  sub[i].pcrs = {n \in left[i].pcrs : [bank |-> left[i].bank, pcr |-> n] \in K}
      <3>1. \A n \in left[i].pcrs : [bank |-> left[i].bank, pcr |-> n] \in Place
        BY <1>1 DEF Selection, Place
      <3> QED
        BY <1>3, <3>1
    <2> HIDE DEF K
    <2> QED
      BY <1>3, <1>4, <2>1 DEF Keeps
  <1> DEFINE Q == Places(sub)
  <1>6. PICK f : Thins(left, sub, K, f)
    <2> HIDE DEF K
    <2> QED
      BY <1>4, <1>5, Thinned
  <1>7. /\ Len(P) \in Nat /\ Len(Q) \in Nat /\ m \in Nat /\ m <= Len(P)
        /\ \A j \in 1..Len(P) : P[j] \in Place
    BY <1>4, PlacesType
  <1>8. ToSet(R) = {P[i] : i \in 1..m}
    <2>1. DOMAIN R = 1..m
      OBVIOUS
    <2>2. ToSet(R) = {R[i] : i \in 1..m}
      BY <2>1 DEF ToSet
    <2> HIDE DEF P
    <2> QED
      BY <2>2 DEF P
  <1>9. /\ f \in [1..Len(Q) -> 1..Len(P)]
        /\ Increasing(f, Len(Q))
        /\ \A k \in 1..Len(Q) : Q[k] = P[f[k]] /\ Q[k] \in K
        /\ \A j \in 1..Len(P) : P[j] \in K => \E k \in 1..Len(Q) : f[k] = j
    BY <1>6 DEF Thins
  <1> HIDE DEF P, Q
  <1>10. f \in [1..Len(Q) -> (m + 1)..Len(P)]
    <2>1. ASSUME NEW k \in 1..Len(Q) PROVE f[k] \in (m + 1)..Len(P)
      <3>1. f[k] \in 1..Len(P) /\ P[f[k]] \notin ToSet(R)
        BY <1>9
      <3>2. f[k] \notin 1..m
        BY <1>8, <3>1
      <3> QED
        BY <1>7, <3>1, <3>2
    <2>2. f \in [1..Len(Q) -> 1..Len(P)]
      BY <1>9
    <2> QED
      BY <2>1, <2>2
  <1>11. /\ Len(Q) <= Len(P) - m
         /\ Len(Q) = Len(P) - m => \A i \in 1..Len(Q) : f[i] = m + i
         /\ (\A j \in (m + 1)..Len(P) : \E i \in 1..Len(Q) : f[i] = j) => Len(Q) = Len(P) - m
    <2>1. Increasing(f, Len(Q)) /\ Len(P) \in Nat /\ Len(Q) \in Nat /\ m \in Nat /\ m <= Len(P)
      BY <1>7, <1>9
    <2>2. Filling(f, Len(Q), m, Len(P))
      BY <1>10, <2>1, GrowFull
    <2> QED
      BY <2>2 DEF Filling
  <1>12. ASSUME \A i, j \in 1..Len(P) : P[i] = P[j] => i = j
         PROVE  Len(Q) = Len(P) - m
    <2>1. ASSUME NEW j \in (m + 1)..Len(P) PROVE \E i \in 1..Len(Q) : f[i] = j
      <3>1. j \in 1..Len(P) /\ \A i \in 1..m : i \in 1..Len(P) /\ i # j
        BY <1>7
      <3>2. P[j] \notin ToSet(R)
        BY <1>8, <1>12, <3>1
      <3>3. P[j] \in K
        BY <1>7, <3>1, <3>2
      <3> QED
        BY <1>9, <3>1, <3>3
    <2> QED
      BY <1>11, <2>1
  <1>13. Len(Q) = Len(P) - m => \A j \in 1..Len(Q) : Q[j] = P[m + j]
    BY <1>9, <1>11
  <1> QED
    BY <1>4, <1>11, <1>12, <1>13 DEF P, Q, sub

\* Nothing is left when there is no place left.
LEMMA UnsetIs ==
    ASSUME NEW sel \in Seq(Selection)
    PROVE  Unset(sel) <=> Len(Places(sel)) = 0
  <1>1. PICK w : Walks(sel, w)
    BY WalkExists
  <1>2. DOMAIN sel = 1..Len(sel) /\ Len(Places(sel)) \in Nat
    BY PlacesType
  <1>3. ASSUME Unset(sel) PROVE Len(Places(sel)) = 0
    <2> SUFFICES ASSUME Len(Places(sel)) # 0 PROVE FALSE
      OBVIOUS
    <2>1. 1 \in 1..Len(Places(sel))
      BY <1>2
    <2>2. w[1] \in 1..Len(sel) /\ Places(sel)[1].pcr \in sel[w[1]].pcrs
      BY <1>1, <2>1 DEF Walks
    <2> QED
      BY <1>2, <1>3, <2>2 DEF Unset
  <1>4. ASSUME Len(Places(sel)) = 0 PROVE Unset(sel)
    <2>1. 1..Len(Places(sel)) = {}
      BY <1>4
    <2>2. \A i \in 1..Len(sel) : \A n \in sel[i].pcrs : \E k \in 1..Len(Places(sel)) : TRUE
      BY <1>1 DEF Walks
    <2>3. \A i \in 1..Len(sel) : sel[i].pcrs = {}
      BY <2>1, <2>2
    <2> QED
      BY <1>2, <2>3 DEF Unset
  <1> QED
    BY <1>3, <1>4
-----------------------------------------------------------------------------
(* What the TPM makes of a selection, and what it returns.                 *)
\* A TPM returns no more PCRs than it is asked for.
LEMMA ImplementedIs ==
    ASSUME NEW sel \in Seq(Selection)
    PROVE  /\ Implemented(sel) \in Seq(Selection) /\ Len(Implemented(sel)) = Len(sel)
           /\ \A i \in 1..Len(sel) : Implemented(sel)[i].bank = sel[i].bank
           /\ Len(Places(Implemented(sel))) <= Len(Places(sel))
  <1> DEFINE sub == Implemented(sel)
             K == {x \in Place : x.pcr \in AssignedPcrs(x.bank)}
  <1>1. Len(sel) \in Nat /\ DOMAIN sel = 1..Len(sel) /\ \A i \in 1..Len(sel) : sel[i] \in Selection
    OBVIOUS
  <1>2. \A i \in 1..Len(sel) :
          /\ sub[i] \in Selection
          /\ sub[i].bank = sel[i].bank
          /\ sub[i].pcrs = sel[i].pcrs \cap AssignedPcrs(sel[i].bank)
    BY <1>1 DEF Implemented, Selection
  <1>3. sub = [i \in 1..Len(sel) |-> sub[i]]
    BY <1>1 DEF Implemented
  <1> HIDE DEF sub
  <1>4. sub \in Seq(Selection) /\ Len(sub) = Len(sel)
    BY <1>1, <1>2, <1>3
  <1>5. Keeps(sel, sub, K)
    <2>1. ASSUME NEW i \in 1..Len(sel)
          PROVE  sub[i].pcrs = {n \in sel[i].pcrs : [bank |-> sel[i].bank, pcr |-> n] \in K}
      <3>1. \A n \in sel[i].pcrs : [bank |-> sel[i].bank, pcr |-> n] \in Place
        BY <1>1 DEF Selection, Place
      <3> QED
        BY <1>2, <3>1
    <2> HIDE DEF K
    <2> QED
      BY <1>2, <1>4, <2>1 DEF Keeps
  <1>6. PICK f : Thins(sel, sub, K, f)
    <2> HIDE DEF K
    <2> QED
      BY <1>4, <1>5, Thinned
  <1>7. Len(Places(sub)) \in Nat /\ Len(Places(sel)) \in Nat
    BY <1>4, PlacesType
  <1>8. f \in [1..Len(Places(sub)) -> (0 + 1)..Len(Places(sel))] /\ Increasing(f, Len(Places(sub)))
    BY <1>6, <1>7 DEF Thins
  <1>9. Filling(f, Len(Places(sub)), 0, Len(Places(sel)))
    <2>1. 0 \in Nat /\ 0 <= Len(Places(sel))
      BY <1>7
    <2> QED
      BY <1>7, <1>8, <2>1, GrowFull
  <1>10. Len(Places(sub)) <= Len(Places(sel))
    BY <1>7, <1>9 DEF Filling
  <1> QED
    BY <1>2, <1>4, <1>10 DEF sub

\* What is left of a selection is a selection, and all of it if all banks are there.
LEMMA OfBanksIs ==
    ASSUME NEW sel \in Seq(Selection), NEW banks
    PROVE  /\ OfBanks(sel, banks) \in Seq(Selection)
           /\ (\A i \in 1..Len(sel) : sel[i].bank \in banks) => OfBanks(sel, banks) = sel
  <1> DEFINE S == {i \in DOMAIN sel : sel[i].bank \in banks}
             N == Cardinality(S)
             a == Ascending(S)
             L == Len(sel)
  <1>1. L \in Nat /\ DOMAIN sel = 1..L /\ \A i \in 1..L : sel[i] \in Selection
    OBVIOUS
  <1>2. S \subseteq Int /\ IsFiniteSet(S) /\ S \subseteq 1..L
    <2>1. S \subseteq 1..L /\ IsFiniteSet(1..L)
      BY <1>1, FS_Interval
    <2> HIDE DEF S, L
    <2>2. IsFiniteSet(S)
      BY <2>1, FS_Subset
    <2> QED
      BY <2>1, <2>2
  <1>3. S = 1..L <=> \A i \in 1..L : sel[i].bank \in banks
    BY <1>1
  <1>4. OfBanks(sel, banks) = [k \in DOMAIN a |-> sel[a[k]]]
    BY DEF OfBanks
  <1> HIDE DEF S
  <1>5. /\ N \in Nat /\ a \in [1..N -> S]
        /\ \A i, j \in 1..N : i < j => a[i] < a[j]
        /\ \A n \in S : \E i \in 1..N : a[i] = n
    BY <1>2, AscendingSorts
  <1>6. DOMAIN a = 1..N
    BY <1>5
  <1> HIDE DEF a, N, L
  <1>7. \A k \in 1..N : a[k] \in 1..L /\ sel[a[k]] \in Selection
    BY <1>1, <1>2, <1>5
  <1>8. OfBanks(sel, banks) = [k \in 1..N |-> sel[a[k]]]
    BY <1>4, <1>6
  <1>9. OfBanks(sel, banks) \in Seq(Selection)
    BY <1>5, <1>7, <1>8
  <1>10. ASSUME S = 1..L PROVE OfBanks(sel, banks) = sel
    <2>1. a \in [1..N -> (0 + 1)..L] /\ 0 \in Nat /\ 0 <= L
      BY <1>1, <1>5, <1>10
    <2>2. Increasing(a, N)
      BY <1>5 DEF Increasing
    <2>3. Filling(a, N, 0, L)
      BY <1>1, <1>5, <2>1, <2>2, GrowFull
    <2>4. \A j \in (0 + 1)..L : \E i \in 1..N : a[i] = j
      BY <1>1, <1>5, <1>10
    <2>5. N = L
      BY <1>1, <2>3, <2>4 DEF Filling
    <2>6. \A i \in 1..N : a[i] = i
      BY <1>1, <2>3, <2>5 DEF Filling
    <2>7. sel = [k \in 1..L |-> sel[k]]
      BY <1>1
    <2> QED
      BY <1>8, <2>5, <2>6, <2>7
  <1> QED
    BY <1>3, <1>9, <1>10 DEF L

\* When the TPM knows the banks of a selection, the check leaves all of them.
LEMMA CheckedIs ==
    ASSUME NEW sel \in Seq(Selection)
    PROVE  /\ Checked(sel) \in Seq(Selection)
           /\ Known(sel) => Checked(sel) = Implemented(sel)
  <1>1. /\ Implemented(sel) \in Seq(Selection) /\ Len(Implemented(sel)) = Len(sel)
        /\ \A i \in 1..Len(sel) : Implemented(sel)[i].bank = sel[i].bank
    BY ImplementedIs
  <1>2. Known(sel) => \A i \in 1..Len(Implemented(sel)) : Implemented(sel)[i].bank \in AssignedBanks
    BY <1>1 DEF Known
  <1> QED
    BY <1>1, <1>2, OfBanksIs DEF Checked

\* pcr_init_pcr_selection makes a selection, whatever bank is asked for.
LEMMA OfBankIs ==
    ASSUME NEW bank
    PROVE  OfBank(bank) \in Seq(Selection)
BY PcrAssumption, OfBanksIs DEF OfBank

-----------------------------------------------------------------------------
\* What the TPM returns for some places.
LEMMA ValuesOfIs ==
    ASSUME register \in [Banks -> [Pcrs -> Nat]], NEW places \in Seq(Place)
    PROVE  /\ ValuesOf(places) \in Seq(Value) /\ Len(ValuesOf(places)) = Len(places)
           /\ \A i \in 1..Len(places) :
                 /\ PlaceOf(ValuesOf(places)[i]) = places[i]
                 /\ ValuesOf(places)[i].n = register[places[i].bank][places[i].pcr]
  <1>1. Len(places) \in Nat /\ DOMAIN places = 1..Len(places)
        /\ \A i \in 1..Len(places) : places[i] \in Place
    OBVIOUS
  <1>2. ASSUME NEW i \in 1..Len(places)
        PROVE  [bank |-> places[i].bank, pcr |-> places[i].pcr,
                n |-> register[places[i].bank][places[i].pcr]] \in Value
    <2>1. places[i].bank \in Banks /\ places[i].pcr \in Pcrs
      BY <1>1 DEF Place
    <2>2. register[places[i].bank] \in [Pcrs -> Nat]
      BY <2>1
    <2>3. register[places[i].bank][places[i].pcr] \in Nat
      BY <2>1, <2>2
    <2> QED
      BY <2>1, <2>3 DEF Value
  <1>3. ValuesOf(places) = [i \in 1..Len(places) |->
          [bank |-> places[i].bank, pcr |-> places[i].pcr,
           n |-> register[places[i].bank][places[i].pcr]]]
    BY <1>1 DEF ValuesOf
  <1>4. ValuesOf(places) \in Seq(Value) /\ Len(ValuesOf(places)) = Len(places)
    BY <1>1, <1>2, <1>3
  <1>5. ASSUME NEW i \in 1..Len(places)
        PROVE  /\ PlaceOf(ValuesOf(places)[i]) = places[i]
               /\ ValuesOf(places)[i].n = register[places[i].bank][places[i].pcr]
    <2>1. ValuesOf(places)[i] = [bank |-> places[i].bank, pcr |-> places[i].pcr,
                                 n |-> register[places[i].bank][places[i].pcr]]
      BY <1>3
    <2>2. places[i] = [bank |-> places[i].bank, pcr |-> places[i].pcr]
      BY <1>1, PlaceIs
    <2> QED
      BY <2>1, <2>2 DEF PlaceOf
  <1> QED
    BY <1>4, <1>5

\* Values of the same places that have been extended as often are the same.
LEMMA SameValues ==
    ASSUME NEW s \in Seq(Value), NEW t \in Seq(Value), Len(s) = Len(t),
           \A i \in 1..Len(s) : PlaceOf(s[i]) = PlaceOf(t[i]) /\ s[i].n = t[i].n
    PROVE  s = t
  <1>1. ASSUME NEW i \in 1..Len(s) PROVE s[i] = t[i]
    <2>1. s[i] \in Value /\ t[i] \in Value
      OBVIOUS
    <2>2. \A x \in Value : x = [bank |-> x.bank, pcr |-> x.pcr, n |-> x.n]
      BY DEF Value
    <2>3. s[i].bank = t[i].bank /\ s[i].pcr = t[i].pcr /\ s[i].n = t[i].n
      BY DEF PlaceOf
    <2>4. /\ s[i] = [bank |-> s[i].bank, pcr |-> s[i].pcr, n |-> s[i].n]
          /\ t[i] = [bank |-> t[i].bank, pcr |-> t[i].pcr, n |-> t[i].n]
      BY <2>1, <2>2
    <2> QED
      BY <2>3, <2>4
  <1> QED
    BY <1>1, SeqEqual

\* A digest tells how many values it is of, and how often each was extended.
LEMMA DigestIs ==
    ASSUME NEW s \in Seq(Value)
    PROVE  /\ Digest(s) \in Seq([bank: Banks, n: Nat])
           /\ Len(Digest(s)) = Len(s)
           /\ \A i \in 1..Len(s) : Digest(s)[i].n = s[i].n
  <1>1. Len(s) \in Nat /\ DOMAIN s = 1..Len(s) /\ \A i \in 1..Len(s) : s[i] \in Value
    OBVIOUS
  <1>2. Digest(s) = [i \in 1..Len(s) |-> [bank |-> s[i].bank, n |-> s[i].n]]
    BY <1>1 DEF Digest
  <1>3. \A i \in 1..Len(s) : [bank |-> s[i].bank, n |-> s[i].n] \in [bank: Banks, n: Nat]
    BY <1>1 DEF Value
  <1>4. Digest(s) \in Seq([bank: Banks, n: Nat]) /\ Len(Digest(s)) = Len(s)
    BY <1>1, <1>2, <1>3
  <1>5. \A i \in 1..Len(s) : Digest(s)[i].n = s[i].n
    BY <1>2
  <1> QED
    BY <1>4, <1>5
-----------------------------------------------------------------------------
(* The invariant.                                                          *)
\* The type invariant, but for the number of lists.
Types ==
    /\ register \in [Banks -> [Pcrs -> Nat]]
    /\ proc \in [Procs -> Process]
    /\ file \in [sig: Message, msg: Message, pcrs: PcrFile, raw: Seq(Value)]
    /\ runs \in 0..MaxRuns

\* The values that a process has read, of all lists.
Lines(r) == FlattenSeq(r.lists)
\* The PCRs that it is still to read.
Rest(r) == IF r.pc = "read" THEN Places(r.left) ELSE <<>>

\* A process that has read what it was asked for, or has ended well.
Ok(r) == r.pc = "idle" /\ r.rc = "success"

\* Which tool can be at which place.
Kind(r) ==
    /\ r.pc \in {"open", "banks", "quote"} =>
          r.tool \in {"pcrread", "quote"} /\ r.sel = r.asked /\ r.lists = <<>>
    /\ r.pc = "quote" => r.tool = "quote"
    /\ r.pc \in {"read", "label"} => r.tool \in {"pcrread", "quote"}
    /\ r.pc \in {"sig", "msg", "pcrs", "verify"} => r.tool \in {"quote", "checkquote"}
    /\ r.pc = "verify" => r.tool = "checkquote"
    /\ r.pc \in {"values", "policy"} => r.tool = "policypcr"
    /\ r.pc = "change" => r.tool \in {"pcrextend", "pcrreset"}
    /\ r.tool = "quote" /\ r.pc \in {"read", "label", "pcrs"} => r.out
    /\ r.tool = "checkquote" /\ r.pc \in {"msg", "sig", "pcrs"} => r.lists = <<>>
    /\ r.tool = "pcrread" /\ (r.pc \in {"read", "label"} \/ Ok(r)) =>
          r.sel = IF r.asked = <<>> THEN OfBank(r.bank) ELSE Checked(r.asked)
    /\ r.tool = "policypcr" /\ (r.pc = "policy" \/ Ok(r)) => Lines(r) = r.held

\* There are no more lists than a tpm2_pcrs has room for; a checkquote that takes the
\* values from a list of the user's may go past them.
Bounded(r) ==
    /\ r.tool # "checkquote" => Len(r.lists) <= MaxLists
    /\ r.tool = "quote" => r.source = "none"
    /\ r.message.by \in 0..MaxRuns

(***************************************************************************)
(* What was read and what is left to read are together no more than what   *)
(* was selected.  If they are as many, then they are it, in its order; only *)
(* if a PCR was selected twice they may be fewer.                          *)
(***************************************************************************)
Walking(r) ==
    LET labels == Places(r.sel)
        read == Len(Lines(r))
    IN  r.pc \in {"read", "label"} =>
          /\ read + Len(Rest(r)) <= Len(labels)
          /\ read + Len(Rest(r)) = Len(labels) =>
                /\ \A i \in 1..read : PlaceOf(Lines(r)[i]) = labels[i]
                /\ \A j \in 1..Len(Rest(r)) : Rest(r)[j] = labels[read + j]
          /\ ~Duplicated(r.sel) => read + Len(Rest(r)) = Len(labels)

\* All batches but the last one are full.
Batches(r) == r.pc = "read" => Len(r.lists) < MaxLists /\ Len(Lines(r)) = Batch * Len(r.lists)

\* Every value is of the PCR whose label it gets, and there is one for every label.
InPlace(r) ==
    /\ Len(Lines(r)) = Len(Places(r.sel))
    /\ \A i \in 1..Len(Lines(r)) : PlaceOf(Lines(r)[i]) = Places(r.sel)[i]

\* The values that were quoted are of the PCRs that are read afterwards.
Holding(r) ==
    /\ Len(r.held) = Len(Places(r.sel))
    /\ \A i \in 1..Len(r.held) : PlaceOf(r.held[i]) = Places(r.sel)[i]
    /\ r.message.digest = Digest(r.held)

\* What a pcrread and a quote have when they are through with reading.
Result(r) ==
    /\ r.tool = "pcrread" /\ Ok(r) => InPlace(r)
    /\ r.tool = "quote" /\ r.pc \in {"read", "label"} => Holding(r)
    /\ r.tool = "quote" /\ r.out /\ (r.pc \in {"sig", "msg", "pcrs"} \/ Ok(r)) =>
          InPlace(r) /\ Lines(r) = r.held /\ r.message.digest = Digest(r.held)

\* The causes that FailureHasCause allows.
Caused(r) ==
    r.tool = "pcrread" /\ r.pc = "idle" /\ r.rc # "success" =>
        \/ r.fault
        \/ r.asked # <<>> /\ Checked(r.asked) = <<>>
        \/ r.asked = <<>> /\ OfBank(r.bank) = <<>>
        \/ Duplicated(r.sel)
        \/ Len(Places(r.sel)) > Batch * MaxLists

\* What is true of every process, whatever the others do.
Sane(r) == Kind(r) /\ Bounded(r) /\ Walking(r) /\ Batches(r) /\ Result(r) /\ Caused(r)

\* As long as nobody else changes a PCR, what was read is what is there.
Fresh(r) ==
    r.tool = "pcrread" /\ r.alone /\ (r.pc \in {"read", "label"} \/ Ok(r)) =>
        \A i \in 1..Len(Lines(r)) :
            Lines(r)[i].n = register[Lines(r)[i].bank][Lines(r)[i].pcr]

-----------------------------------------------------------------------------
\* The selection and the lists hash to the digest.
Fits(sel, lists, digest) ==
    /\ Len(Places(sel)) <= Len(FlattenSeq(lists))
    /\ Digest(FirstOf(Len(Places(sel)), FlattenSeq(lists))) = digest

\* The messages and the signatures that are about.
Marks ==
    {Nothing, file.sig, file.msg}
        \cup {proc[p].message : p \in Procs} \cup {proc[p].signature : p \in Procs}

\* A quote that has not been made yet.
ToQuote(r) == r.tool = "quote" /\ r.pc \in {"open", "banks", "quote"}

\* Every invocation is of its own, and so is every quote.
Distinct ==
    /\ \A p \in Procs : proc[p].run <= runs
    /\ \A p, q \in Procs : proc[p].run = proc[q].run => p = q \/ proc[p].run = 0
    /\ \A m \in Marks : m.by <= runs
    /\ \A m, n \in Marks : m.by = n.by => m = n
    /\ file.pcrs.by <= runs
    /\ \A p \in Procs : ToQuote(proc[p]) =>
          /\ \A m \in Marks : m.by # proc[p].run
          /\ file.pcrs.by # proc[p].run

\* The PCR file goes with the message of the same quote.
Matching ==
    file.pcrs # NoPcrFile => \A m \in Marks :
        m.by = file.pcrs.by => Fits(file.pcrs.sel, file.pcrs.lists, m.digest)

\* Where a quote and a checkquote have what they have from.
Traced(r) ==
    /\ r.tool = "quote" /\ r.pc \in {"read", "label", "sig", "msg", "pcrs"} => r.message.by = r.run
    /\ r.tool = "checkquote" /\ r.pc \in {"sig", "pcrs", "verify"} => r.message.by \in r.origins
    /\ r.tool = "checkquote" /\ r.pc \in {"pcrs", "verify"} => r.signature.by \in r.origins
    /\ r.tool = "checkquote" /\ r.pc = "verify" /\ r.source = "file" =>
          \E x \in r.origins : r.message.by = x => Fits(r.sel, r.lists, r.message.digest)
    /\ r.tool = "checkquote" /\ r.pc = "idle" /\ r.source = "file"
          /\ r.lists # <<>> /\ ~r.fault /\ r.rc # "success" =>
       \A x \in r.origins : r.origins # {x}

\* The lists that a quote has written are no more than a tpm2_pcrs has room for.
FileTypes ==
    /\ Len(file.pcrs.lists) <= MaxLists
    /\ file.sig.by \in 0..MaxRuns /\ file.msg.by \in 0..MaxRuns
    /\ file.pcrs.by \in 0..MaxRuns

\* The part of the invariant that is about one process at a time.
Ready == Types /\ FileTypes /\ \A p \in Procs : Sane(proc[p]) /\ Fresh(proc[p])

\* The inductive invariant.
IInv == Ready /\ Distinct /\ Matching /\ \A p \in Procs : Traced(proc[p])

-----------------------------------------------------------------------------
\* One process goes on, and the others stay as they are.
Goes(p, t) == t \in Process /\ proc' = [proc EXCEPT ![p] = t]

\* If one process goes on, the others stay as they are.
LEMMA Others ==
    ASSUME Types, NEW p \in Procs, NEW t, Goes(p, t)
    PROVE  /\ proc' \in [Procs -> Process]
           /\ proc'[p] = t
           /\ \A q \in Procs \ {p} : proc'[q] = proc[q]
BY DEF Goes, Types

\* A step of one process that changes no PCR leaves the others sane.
LEMMA SaneOthers ==
    ASSUME Ready, NEW p \in Procs, NEW t, Goes(p, t), Sane(t), Fresh(t), register' = register
    PROVE  \A q \in Procs : Sane(proc'[q]) /\ Fresh(proc[q])'
  <1>1. /\ proc'[p] = t
        /\ \A q \in Procs \ {p} : proc'[q] = proc[q]
    BY Others DEF Ready
  <1> SUFFICES ASSUME NEW q \in Procs PROVE Sane(proc'[q]) /\ Fresh(proc[q])'
    OBVIOUS
  <1>2. CASE q = p
    BY <1>1, <1>2 DEF Fresh
  <1>3. CASE q # p
    BY <1>1, <1>3 DEF Fresh, Ready
  <1> QED
    BY <1>2, <1>3

\* A tool that returns keeps all but its place and its exit code.
LEMMA ReturnIs ==
    ASSUME Types, NEW p \in Procs, NEW rc \in {"success", "general_error", "tpm_error"},
           Return(p, rc)
    PROVE  Goes(p, [proc[p] EXCEPT !.pc = "idle", !.rc = rc])
  <1> DEFINE r == proc[p]
             t == [r EXCEPT !.pc = "idle", !.rc = rc]
  <1>1. r \in Process /\ proc \in [Procs -> Process]
    BY DEF Types
  <1>2. t \in Process
    <2> HIDE DEF r
    <2> QED
      BY <1>1 DEF Process
  <1>3. proc' = [proc EXCEPT ![p] = t]
    BY <1>1 DEF Return
  <1> QED
    BY <1>2, <1>3 DEF Goes

\* A process that runs no tool has the type of one.
LEMMA IdleIs == Idle \in Process
  <1>1. Nothing \in Message
    BY DEF Nothing, Message
  <1>2. 0 \in 0..MaxRuns
    BY RunsAssumption
  <1>3. {} \in SUBSET (0..MaxRuns) /\ AnyBank \in Banks \cup {AnyBank}
    OBVIOUS
  <1>4. /\ <<>> \in Seq(Selection) /\ <<>> \in Seq(Seq(Value))
        /\ <<>> \in Seq(Extension) /\ <<>> \in Seq(Value)
    OBVIOUS
  <1> QED
    BY <1>1, <1>2, <1>3, <1>4 DEF Idle, Process

\* Of a tool that ends nothing is left but its result.
LEMMA EndIs ==
    ASSUME Types, NEW p \in Procs, NEW rc \in {"success", "general_error", "tpm_error"},
           NEW fault \in BOOLEAN, End(p, rc, fault)
    PROVE  Goes(p, [Idle EXCEPT !.tool = proc[p].tool, !.rc = rc, !.fault = fault])
  <1> DEFINE r == proc[p]
             t == [Idle EXCEPT !.tool = r.tool, !.rc = rc, !.fault = fault]
  <1>1. r \in Process
    BY DEF Types
  <1>2. r.tool \in {"none", "pcrread", "quote", "checkquote", "policypcr", "pcrextend", "pcrreset"}
    BY <1>1 DEF Process
  <1>3. t \in Process
    <2> HIDE DEF r
    <2> QED
      BY <1>2, IdleIs DEF Process
  <1>4. proc' = [proc EXCEPT ![p] = t]
    BY DEF End
  <1> QED
    BY <1>3, <1>4 DEF Goes
-----------------------------------------------------------------------------
(* Every step keeps it.  First the tools that are started.                 *)
\* A tool is started, and its options are in the process.
LEMMA InvokeIs ==
    ASSUME Types, NEW p \in Procs, NEW image \in Process, Invoke(p, image)
    PROVE  LET t == [image EXCEPT !.run = runs + 1]
           IN  Goes(p, t) /\ register' = register /\ file' = file /\ runs' = runs + 1
                 /\ runs' \in 0..MaxRuns
  <1> DEFINE t == [image EXCEPT !.run = runs + 1]
  <1>1. runs \in 0..MaxRuns /\ runs < MaxRuns /\ MaxRuns \in Nat
    BY RunsAssumption DEF Types, Invoke
  <1>2. runs + 1 \in 0..MaxRuns
    BY <1>1
  <1>3. t \in Process
    BY <1>2 DEF Process
  <1>4. proc' = [proc EXCEPT ![p] = t]
    BY DEF Invoke
  <1> QED
    BY <1>2, <1>3, <1>4 DEF Goes, Invoke

\* Nothing is flattened to nothing.
LEMMA FlattenNone == FlattenSeq(<<>>) = <<>>
  <1>1. <<>> \in Seq(Nat)
    OBVIOUS
  <1> QED
    BY <1>1, FlattenOne

\* pcrreset has one extension per PCR to undo.
LEMMA ResetTodo ==
    ASSUME NEW pcrs \in Resets
    PROVE  [i \in DOMAIN Ascending(pcrs) |-> [pcr |-> Ascending(pcrs)[i], banks |-> Banks]]
               \in Seq(Extension)
  <1> DEFINE N == Cardinality(pcrs)
             a == Ascending(pcrs)
  <1>1. pcrs \subseteq Pcrs /\ Pcrs \subseteq Nat /\ IsFiniteSet(Pcrs)
    BY PcrAssumption, OptionAssumption
  <1>2. IsFiniteSet(pcrs) /\ pcrs \subseteq Int
    <2>1. pcrs \in SUBSET Pcrs
      BY OptionAssumption
    <2>2. IsFiniteSet(pcrs)
      BY <1>1, <2>1, FS_Subset
    <2>3. Pcrs \subseteq Int
      BY PcrAssumption
    <2> QED
      BY <2>1, <2>2, <2>3
  <1>3. N \in Nat
    BY <1>2, FS_CardinalityType
  <1>4. a \in [1..N -> pcrs]
    BY <1>2, AscendingSorts
  <1> HIDE DEF N, a
  <1>5. [i \in DOMAIN a |-> [pcr |-> a[i], banks |-> Banks]] \in [1..N -> Extension]
    BY <1>1, <1>4 DEF Extension
  <1>6. [1..N -> Extension] \subseteq Seq(Extension)
    BY <1>3
  <1> QED
    BY <1>5, <1>6 DEF a

\* pcrread begins with a selection of the user, or with none.
LEMMA PcrReadGoes ==
    ASSUME Ready, NEW p \in Procs, PcrRead(p)
    PROVE  \E t : Goes(p, t) /\ Sane(t) /\ Fresh(t) /\ register' = register
  <1>1. PICK sel \in Selections \cup {<<>>}, bank \in Banks \cup {AnyBank}, out \in BOOLEAN :
            Invoke(p, [Idle EXCEPT !.tool = "pcrread", !.bank = bank, !.out = out,
                                   !.asked = sel, !.sel = sel, !.pc = Opening(out)])
    BY DEF PcrRead
  <1>0. Opening(out) \in {"idle", "open", "banks", "quote", "read", "label", "sig", "msg",
              "pcrs", "verify", "values", "policy", "change"}
    BY DEF Opening
  <1> DEFINE image == [Idle EXCEPT !.tool = "pcrread", !.bank = bank, !.out = out,
                                   !.asked = sel, !.sel = sel, !.pc = Opening(out)]
             t == [image EXCEPT !.run = runs + 1]
  <1>2. Invoke(p, image)
    BY <1>1, Zenon
  <1>3. sel \in Seq(Selection)
    <2>1. <<>> \in Seq(Selection)
      OBVIOUS
    <2> QED
      BY <2>1, OptionAssumption
  <1>4. image \in Process
    BY <1>3, <1>0, IdleIs, Zenon DEF Process
  <1>5. Goes(p, t) /\ register' = register
    BY <1>2, <1>4, InvokeIs DEF Ready
  <1>6. /\ t.tool = "pcrread" /\ t.pc = Opening(out) /\ t.rc = "success"
        /\ t.bank = bank /\ t.out = out /\ t.source = "none"
        /\ t.asked = sel /\ t.sel = sel /\ t.left = <<>>
        /\ t.lists = <<>> /\ t.message = Nothing /\ t.signature = Nothing
        /\ t.todo = <<>> /\ t.run = runs + 1 /\ t.held = <<>>
        /\ t.alone = TRUE /\ t.fault = FALSE /\ t.origins = {}
    BY SMT DEF Idle
  <1>7. Sane(t) /\ Fresh(t)
    <2> HIDE DEF t
    <2>1. Len(t.lists) <= MaxLists /\ Lines(t) = <<>> /\ Len(Lines(t)) = 0
      BY <1>6, FlattenNone, PcrAssumption DEF Lines
    <2>2. Kind(t)
      BY <1>1, <1>6, <2>1 DEF Kind, Ok, Opening
    <2>3. Bounded(t)
      BY <1>1, <1>6, <2>1, RunsAssumption DEF Bounded, Nothing
    <2>4. Walking(t) /\ Batches(t) /\ Fresh(t)
      BY <1>6, <2>1 DEF Walking, Batches, Fresh, Ok, Opening
    <2>5. Result(t) /\ Caused(t)
      BY <1>6, <2>1 DEF Result, Caused, Ok, Opening
    <2> QED
      BY <2>2, <2>3, <2>4, <2>5 DEF Sane
  <1> QED
    BY <1>5, <1>7

\* quote begins with the selection of the user.
LEMMA QuoteToolGoes ==
    ASSUME Ready, NEW p \in Procs, QuoteTool(p)
    PROVE  \E t : Goes(p, t) /\ Sane(t) /\ Fresh(t) /\ register' = register
  <1>1. PICK sel \in Selections, out \in BOOLEAN :
            Invoke(p, [Idle EXCEPT !.tool = "quote", !.out = out, !.asked = sel, !.sel = sel,
                                   !.pc = Opening(out)])
    BY DEF QuoteTool
  <1>0. Opening(out) \in {"idle", "open", "banks", "quote", "read", "label", "sig", "msg",
              "pcrs", "verify", "values", "policy", "change"}
    BY DEF Opening
  <1> DEFINE image == [Idle EXCEPT !.tool = "quote", !.out = out, !.asked = sel, !.sel = sel,
                                   !.pc = Opening(out)]
             t == [image EXCEPT !.run = runs + 1]
  <1>2. Invoke(p, image)
    BY <1>1, Zenon
  <1>3. sel \in Seq(Selection)
    <2>1. <<>> \in Seq(Selection)
      OBVIOUS
    <2> QED
      BY <2>1, OptionAssumption
  <1>4. image \in Process
    BY <1>3, <1>0, IdleIs, Zenon DEF Process
  <1>5. Goes(p, t) /\ register' = register
    BY <1>2, <1>4, InvokeIs DEF Ready
  <1>6. /\ t.tool = "quote" /\ t.pc = Opening(out) /\ t.rc = "success"
        /\ t.bank = AnyBank /\ t.out = out /\ t.source = "none"
        /\ t.asked = sel /\ t.sel = sel /\ t.left = <<>>
        /\ t.lists = <<>> /\ t.message = Nothing /\ t.signature = Nothing
        /\ t.todo = <<>> /\ t.run = runs + 1 /\ t.held = <<>>
        /\ t.alone = TRUE /\ t.fault = FALSE /\ t.origins = {}
    BY SMT DEF Idle
  <1>7. Sane(t) /\ Fresh(t)
    <2> HIDE DEF t
    <2>1. Len(t.lists) <= MaxLists /\ Lines(t) = <<>> /\ Len(Lines(t)) = 0
      BY <1>6, FlattenNone, PcrAssumption DEF Lines
    <2>2. Kind(t)
      BY <1>1, <1>6, <2>1 DEF Kind, Ok, Opening
    <2>3. Bounded(t)
      BY <1>1, <1>6, <2>1, RunsAssumption DEF Bounded, Nothing
    <2>4. Walking(t) /\ Batches(t) /\ Fresh(t)
      BY <1>6, <2>1 DEF Walking, Batches, Fresh, Ok, Opening
    <2>5. Result(t) /\ Caused(t)
      BY <1>6, <2>1 DEF Result, Caused, Ok, Opening
    <2> QED
      BY <2>2, <2>3, <2>4, <2>5 DEF Sane
  <1> QED
    BY <1>5, <1>7

\* checkquote begins with a list of the user, or takes the selection from the PCR file.
LEMMA CheckQuoteGoes ==
    ASSUME Ready, NEW p \in Procs, CheckQuote(p)
    PROVE  \E t : Goes(p, t) /\ Sane(t) /\ Fresh(t) /\ register' = register
  <1>1. PICK source \in Sources, sel \in Selections \cup {<<>>} :
            /\ source = "list" => sel \in Selections
            /\ Invoke(p, [Idle EXCEPT !.tool = "checkquote", !.source = source, !.asked = sel,
                                      !.sel = sel, !.pc = "msg"])
    BY DEF CheckQuote
  <1> DEFINE image == [Idle EXCEPT !.tool = "checkquote", !.source = source, !.asked = sel,
                                   !.sel = sel, !.pc = "msg"]
             t == [image EXCEPT !.run = runs + 1]
  <1>2. Invoke(p, image)
    BY <1>1, Zenon
  <1>3. sel \in Seq(Selection) /\ source \in {"none", "file", "list", "tpm"}
    <2>1. <<>> \in Seq(Selection)
      OBVIOUS
    <2> QED
      BY <2>1, OptionAssumption
  <1>4. image \in Process
    BY <1>3, IdleIs, Zenon DEF Process
  <1>5. Goes(p, t) /\ register' = register
    BY <1>2, <1>4, InvokeIs DEF Ready
  <1>6. /\ t.tool = "checkquote" /\ t.pc = "msg" /\ t.rc = "success"
        /\ t.bank = AnyBank /\ t.out = FALSE /\ t.source = source
        /\ t.asked = sel /\ t.sel = sel /\ t.left = <<>>
        /\ t.lists = <<>> /\ t.message = Nothing /\ t.signature = Nothing
        /\ t.todo = <<>> /\ t.run = runs + 1 /\ t.held = <<>>
        /\ t.alone = TRUE /\ t.fault = FALSE /\ t.origins = {}
    BY SMT DEF Idle
  <1>7. Sane(t) /\ Fresh(t)
    <2> HIDE DEF t
    <2>1. Len(t.lists) <= MaxLists /\ Lines(t) = <<>> /\ Len(Lines(t)) = 0
      BY <1>6, FlattenNone, PcrAssumption DEF Lines
    <2>2. Kind(t)
      BY <1>1, <1>6, <2>1 DEF Kind, Ok
    <2>3. Bounded(t)
      BY <1>1, <1>6, <2>1, RunsAssumption DEF Bounded, Nothing
    <2>4. Walking(t) /\ Batches(t) /\ Fresh(t)
      BY <1>6, <2>1 DEF Walking, Batches, Fresh, Ok
    <2>5. Result(t) /\ Caused(t)
      BY <1>6, <2>1 DEF Result, Caused, Ok
    <2> QED
      BY <2>2, <2>3, <2>4, <2>5 DEF Sane
  <1> QED
    BY <1>5, <1>7

\* policypcr begins with a list of the user.
LEMMA PolicyPcrGoes ==
    ASSUME Ready, NEW p \in Procs, PolicyPcr(p)
    PROVE  \E t : Goes(p, t) /\ Sane(t) /\ Fresh(t) /\ register' = register
  <1>1. PICK sel \in Selections, source \in {"tpm", "list"} :
            Invoke(p, [Idle EXCEPT !.tool = "policypcr", !.asked = sel, !.sel = sel,
                                   !.source = source, !.pc = "values"])
    BY DEF PolicyPcr
  <1> DEFINE image == [Idle EXCEPT !.tool = "policypcr", !.asked = sel, !.sel = sel,
                                   !.source = source, !.pc = "values"]
             t == [image EXCEPT !.run = runs + 1]
  <1>2. Invoke(p, image)
    BY <1>1, Zenon
  <1>3. sel \in Seq(Selection) /\ source \in {"none", "file", "list", "tpm"}
    <2>1. <<>> \in Seq(Selection)
      OBVIOUS
    <2> QED
      BY <2>1, OptionAssumption
  <1>4. image \in Process
    BY <1>3, IdleIs, Zenon DEF Process
  <1>5. Goes(p, t) /\ register' = register
    BY <1>2, <1>4, InvokeIs DEF Ready
  <1>6. /\ t.tool = "policypcr" /\ t.pc = "values" /\ t.rc = "success"
        /\ t.bank = AnyBank /\ t.out = FALSE /\ t.source = source
        /\ t.asked = sel /\ t.sel = sel /\ t.left = <<>>
        /\ t.lists = <<>> /\ t.message = Nothing /\ t.signature = Nothing
        /\ t.todo = <<>> /\ t.run = runs + 1 /\ t.held = <<>>
        /\ t.alone = TRUE /\ t.fault = FALSE /\ t.origins = {}
    BY SMT DEF Idle
  <1>7. Sane(t) /\ Fresh(t)
    <2> HIDE DEF t
    <2>1. Len(t.lists) <= MaxLists /\ Lines(t) = <<>> /\ Len(Lines(t)) = 0
      BY <1>6, FlattenNone, PcrAssumption DEF Lines
    <2>2. Kind(t)
      BY <1>1, <1>6, <2>1 DEF Kind, Ok
    <2>3. Bounded(t)
      BY <1>1, <1>6, <2>1, RunsAssumption DEF Bounded, Nothing
    <2>4. Walking(t) /\ Batches(t) /\ Fresh(t)
      BY <1>6, <2>1 DEF Walking, Batches, Fresh, Ok
    <2>5. Result(t) /\ Caused(t)
      BY <1>6, <2>1 DEF Result, Caused, Ok
    <2> QED
      BY <2>2, <2>3, <2>4, <2>5 DEF Sane
  <1> QED
    BY <1>5, <1>7

\* pcrextend begins with the PCRs that it is to extend.
LEMMA PcrExtendGoes ==
    ASSUME Ready, NEW p \in Procs, PcrExtend(p)
    PROVE  \E t : Goes(p, t) /\ Sane(t) /\ Fresh(t) /\ register' = register
  <1>1. PICK ext \in Extensions :
            Invoke(p, [Idle EXCEPT !.tool = "pcrextend", !.todo = ext, !.pc = "change"])
    BY DEF PcrExtend
  <1>0. PICK todo \in Seq(Extension) : todo = ext
    BY OptionAssumption
  <1> DEFINE image == [Idle EXCEPT !.tool = "pcrextend", !.todo = todo, !.pc = "change"]
             t == [image EXCEPT !.run = runs + 1]
  <1>2. Invoke(p, image)
    BY <1>1, <1>0, Zenon
  <1>3. todo \in Seq(Extension)
    <2>1. <<>> \in Seq(Selection)
      OBVIOUS
    <2> QED
      BY <2>1, OptionAssumption
  <1>4. image \in Process
    BY <1>3, IdleIs, Zenon DEF Process
  <1>5. Goes(p, t) /\ register' = register
    BY <1>2, <1>4, InvokeIs DEF Ready
  <1>6. /\ t.tool = "pcrextend" /\ t.pc = "change" /\ t.rc = "success"
        /\ t.bank = AnyBank /\ t.out = FALSE /\ t.source = "none"
        /\ t.asked = <<>> /\ t.sel = <<>> /\ t.left = <<>>
        /\ t.lists = <<>> /\ t.message = Nothing /\ t.signature = Nothing
        /\ t.todo = todo /\ t.run = runs + 1 /\ t.held = <<>>
        /\ t.alone = TRUE /\ t.fault = FALSE /\ t.origins = {}
    BY SMT DEF Idle
  <1>7. Sane(t) /\ Fresh(t)
    <2> HIDE DEF t
    <2>1. Len(t.lists) <= MaxLists /\ Lines(t) = <<>> /\ Len(Lines(t)) = 0
      BY <1>6, FlattenNone, PcrAssumption DEF Lines
    <2>2. Kind(t)
      BY <1>1, <1>6, <2>1 DEF Kind, Ok
    <2>3. Bounded(t)
      BY <1>1, <1>6, <2>1, RunsAssumption DEF Bounded, Nothing
    <2>4. Walking(t) /\ Batches(t) /\ Fresh(t)
      BY <1>6, <2>1 DEF Walking, Batches, Fresh, Ok
    <2>5. Result(t) /\ Caused(t)
      BY <1>6, <2>1 DEF Result, Caused, Ok
    <2> QED
      BY <2>2, <2>3, <2>4, <2>5 DEF Sane
  <1> QED
    BY <1>5, <1>7

\* pcrreset begins with the PCRs that it is to reset, in ascending order.
LEMMA PcrResetGoes ==
    ASSUME Ready, NEW p \in Procs, PcrReset(p)
    PROVE  \E t : Goes(p, t) /\ Sane(t) /\ Fresh(t) /\ register' = register
  <1>1. PICK pcrs \in Resets :
            Invoke(p, [Idle EXCEPT !.tool = "pcrreset", !.pc = "change",
                                   !.todo = [i \in DOMAIN Ascending(pcrs) |->
                                       [pcr |-> Ascending(pcrs)[i], banks |-> Banks]]])
    BY DEF PcrReset
  <1>0. PICK todo \in Seq(Extension) :
            todo = [i \in DOMAIN Ascending(pcrs) |-> [pcr |-> Ascending(pcrs)[i], banks |-> Banks]]
    BY ResetTodo
  <1> DEFINE image == [Idle EXCEPT !.tool = "pcrreset", !.pc = "change", !.todo = todo]
             t == [image EXCEPT !.run = runs + 1]
  <1>2. Invoke(p, image)
    BY <1>1, <1>0, Zenon
  <1>3. todo \in Seq(Extension)
    <2>1. <<>> \in Seq(Selection)
      OBVIOUS
    <2> QED
      BY <2>1, OptionAssumption
  <1>4. image \in Process
    BY <1>3, IdleIs, Zenon DEF Process
  <1>5. Goes(p, t) /\ register' = register
    BY <1>2, <1>4, InvokeIs DEF Ready
  <1>6. /\ t.tool = "pcrreset" /\ t.pc = "change" /\ t.rc = "success"
        /\ t.bank = AnyBank /\ t.out = FALSE /\ t.source = "none"
        /\ t.asked = <<>> /\ t.sel = <<>> /\ t.left = <<>>
        /\ t.lists = <<>> /\ t.message = Nothing /\ t.signature = Nothing
        /\ t.todo = todo /\ t.run = runs + 1 /\ t.held = <<>>
        /\ t.alone = TRUE /\ t.fault = FALSE /\ t.origins = {}
    BY SMT DEF Idle
  <1>7. Sane(t) /\ Fresh(t)
    <2> HIDE DEF t
    <2>1. Len(t.lists) <= MaxLists /\ Lines(t) = <<>> /\ Len(Lines(t)) = 0
      BY <1>6, FlattenNone, PcrAssumption DEF Lines
    <2>2. Kind(t)
      BY <1>1, <1>6, <2>1 DEF Kind, Ok
    <2>3. Bounded(t)
      BY <1>1, <1>6, <2>1, RunsAssumption DEF Bounded, Nothing
    <2>4. Walking(t) /\ Batches(t) /\ Fresh(t)
      BY <1>6, <2>1 DEF Walking, Batches, Fresh, Ok
    <2>5. Result(t) /\ Caused(t)
      BY <1>6, <2>1 DEF Result, Caused, Ok
    <2> QED
      BY <2>2, <2>3, <2>4, <2>5 DEF Sane
  <1> QED
    BY <1>5, <1>7

-----------------------------------------------------------------------------
(* Tools that end, and the steps before anything is read.                  *)
\* What is in a process, and what its lists and selections come to.
LEMMA FieldsIs ==
    ASSUME NEW r \in Process
    PROVE  /\ r.sel \in Seq(Selection) /\ r.left \in Seq(Selection) /\ r.asked \in Seq(Selection)
           /\ r.lists \in Seq(Seq(Value)) /\ Len(r.lists) \in Nat
           /\ Lines(r) \in Seq(Value) /\ Len(Lines(r)) \in Nat
           /\ Places(r.sel) \in Seq(Place) /\ Len(Places(r.sel)) \in Nat
           /\ Rest(r) \in Seq(Place) /\ Len(Rest(r)) \in Nat
           /\ r.held \in Seq(Value) /\ Len(r.held) \in Nat
           /\ r.rc \in {"success", "general_error", "tpm_error"}
  <1>1. /\ r.sel \in Seq(Selection) /\ r.left \in Seq(Selection) /\ r.asked \in Seq(Selection)
        /\ r.lists \in Seq(Seq(Value)) /\ Len(r.lists) \in Nat
        /\ r.held \in Seq(Value) /\ Len(r.held) \in Nat
        /\ r.rc \in {"success", "general_error", "tpm_error"}
    BY DEF Process
  <1>2. Lines(r) \in Seq(Value)
    <2>1. <<>> \in Seq(Value)
      OBVIOUS
    <2> QED
      BY <1>1, <2>1, FlattenAppend DEF Lines
  <1>3. Places(r.sel) \in Seq(Place) /\ Places(r.left) \in Seq(Place)
    BY <1>1, PlacesType
  <1>4. Rest(r) \in Seq(Place)
    BY <1>3 DEF Rest
  <1>5. Len(Lines(r)) \in Nat /\ Len(Places(r.sel)) \in Nat /\ Len(Rest(r)) \in Nat
    BY <1>2, <1>3, <1>4
  <1> QED
    BY <1>1, <1>2, <1>3, <1>4, <1>5

\* A tool that returns, other than pcrread, does so with what it has, and with success
\* only if it is neither quote nor before it has its values.
LEMMA ReturnSane ==
    ASSUME Ready, NEW p \in Procs, NEW rc \in {"success", "general_error", "tpm_error"},
           Return(p, rc), register' = register, proc[p].tool # "pcrread",
           rc = "success" => proc[p].tool # "quote",
           rc = "success" /\ proc[p].tool = "policypcr" => proc[p].pc = "policy"
    PROVE  \E t : Goes(p, t) /\ Sane(t) /\ Fresh(t) /\ register' = register
  <1> DEFINE r == proc[p]
             t == [r EXCEPT !.pc = "idle", !.rc = rc]
  <1>1. r \in Process /\ Sane(r)
    BY DEF Ready, Types
  <1>2. Goes(p, t)
    BY ReturnIs DEF Ready
  <1>3. Sane(t) /\ Fresh(t)
    <2>1. r.tool # "pcrread" /\ (rc = "success" => r.tool # "quote")
            /\ (rc = "success" /\ r.tool = "policypcr" => r.pc = "policy")
      OBVIOUS
    <2> HIDE DEF r
    <2>2. /\ t.tool = r.tool /\ t.bank = r.bank /\ t.out = r.out /\ t.source = r.source
        /\ t.asked = r.asked /\ t.sel = r.sel /\ t.left = r.left /\ t.lists = r.lists
        /\ t.message = r.message /\ t.signature = r.signature /\ t.todo = r.todo
        /\ t.run = r.run /\ t.held = r.held /\ t.alone = r.alone /\ t.fault = r.fault
        /\ t.origins = r.origins
        /\ t.pc = "idle"
        /\ t.rc = rc
      BY <1>1 DEF Process
    <2> HIDE DEF t
    <2>3. Lines(t) = Lines(r)
      BY <2>2 DEF Lines
    <2>4. Kind(t)
      BY <1>1, <2>1, <2>2, <2>3 DEF Sane, Kind, Ok
    <2>5. Bounded(t)
      BY <1>1, <2>2 DEF Sane, Bounded
    <2>6. Walking(t) /\ Batches(t) /\ Fresh(t) /\ Caused(t)
      BY <2>1, <2>2 DEF Walking, Batches, Fresh, Caused
    <2>7. Result(t)
      BY <2>1, <2>2 DEF Result, Ok
    <2> QED
      BY <2>4, <2>5, <2>6, <2>7 DEF Sane
  <1> QED
    BY <1>2, <1>3

\* Of a tool that ends, nothing is left.
LEMMA EndSane ==
    ASSUME Ready, NEW p \in Procs, NEW rc \in {"success", "general_error", "tpm_error"},
           NEW fault \in BOOLEAN, End(p, rc, fault), register' = register,
           rc = "success" => proc[p].tool \in {"pcrextend", "pcrreset"},
           rc # "success" => fault
    PROVE  \E t : Goes(p, t) /\ Sane(t) /\ Fresh(t) /\ register' = register
  <1> DEFINE r == proc[p]
             t == [Idle EXCEPT !.tool = r.tool, !.rc = rc, !.fault = fault]
  <1>1. r \in Process /\ Sane(r)
    BY DEF Ready, Types
  <1>2. Goes(p, t)
    BY EndIs DEF Ready
  <1>3. Sane(t) /\ Fresh(t)
    <2>1. /\ rc = "success" => r.tool \in {"pcrextend", "pcrreset"}
          /\ rc # "success" => fault
      OBVIOUS
    <2> HIDE DEF r
    <2>2. /\ t.tool = r.tool /\ t.pc = "idle" /\ t.rc = rc /\ t.source = "none"
          /\ t.lists = <<>> /\ t.out = FALSE /\ t.fault = fault
          /\ t.message.by = 0
      BY SMT DEF Idle, Nothing
    <2> HIDE DEF t
    <2>3. Lines(t) = <<>>
      BY <2>2, FlattenNone DEF Lines
    <2>4. Kind(t) /\ Bounded(t)
      BY <2>1, <2>2, PcrAssumption, RunsAssumption DEF Kind, Bounded, Ok
    <2>5. Walking(t) /\ Batches(t) /\ Fresh(t)
      BY <2>1, <2>2, <2>3 DEF Walking, Batches, Fresh, Ok
    <2>6. Result(t) /\ Caused(t)
      BY <2>1, <2>2 DEF Result, Caused, Ok
    <2> QED
      BY <2>4, <2>5, <2>6 DEF Sane
  <1> QED
    BY <1>2, <1>3

\* A failed command or file access ends the tool.
LEMMA FailGoes ==
    ASSUME Ready, NEW p \in Procs, Fail(p)
    PROVE  \E t : Goes(p, t) /\ Sane(t) /\ Fresh(t) /\ register' = register
BY EndSane DEF Fail

\* pcrextend and pcrreset end when nothing is left to change.
LEMMA ChangesGoes ==
    ASSUME Ready, NEW p \in Procs, Changes(p)
    PROVE  \E t : Goes(p, t) /\ Sane(t) /\ Fresh(t) /\ register' = register
  <1>1. Sane(proc[p]) /\ proc[p].pc = "change"
    BY DEF Ready, Changes
  <1>2. proc[p].tool \in {"pcrextend", "pcrreset"}
    BY <1>1 DEF Sane, Kind
  <1> QED
    BY <1>2, EndSane DEF Changes

\* checkquote ends with its verdict.
LEMMA VerifyGoes ==
    ASSUME Ready, NEW p \in Procs, Verify(p)
    PROVE  \E t : Goes(p, t) /\ Sane(t) /\ Fresh(t) /\ register' = register
  <1>1. PICK rc \in {"success", "general_error", "tpm_error"} : Return(p, rc)
    BY DEF Verify
  <1> QED
    BY <1>1, ReturnSane DEF Verify, Running

\* policypcr ends with what the TPM says of the policy; its values stay.
LEMMA PolicyCommandGoes ==
    ASSUME Ready, NEW p \in Procs, PolicyCommand(p)
    PROVE  \E t : Goes(p, t) /\ Sane(t) /\ Fresh(t) /\ register' = register
  <1>1. PICK rc \in {"success", "general_error", "tpm_error"} : Return(p, rc)
    BY DEF PolicyCommand
  <1> QED
    BY <1>1, ReturnSane DEF PolicyCommand, Running

\* The output file is opened before anything is read.
LEMMA OpenOutputGoes ==
    ASSUME Ready, NEW p \in Procs, OpenOutput(p)
    PROVE  \E t : Goes(p, t) /\ Sane(t) /\ Fresh(t) /\ register' = register
  <1> DEFINE r == proc[p]
             t == [r EXCEPT !.pc = "banks"]
  <1>1. r \in Process /\ Sane(r) /\ r.pc = "open" /\ register' = register
            /\ proc' = [proc EXCEPT ![p] = t]
    BY DEF Ready, Types, OpenOutput
  <1> HIDE DEF r
  <1>2. /\ t.tool = r.tool /\ t.rc = r.rc /\ t.bank = r.bank /\ t.out = r.out
        /\ t.source = r.source /\ t.asked = r.asked /\ t.sel = r.sel
        /\ t.left = r.left /\ t.lists = r.lists /\ t.message = r.message
        /\ t.signature = r.signature /\ t.todo = r.todo /\ t.run = r.run
        /\ t.held = r.held /\ t.alone = r.alone /\ t.fault = r.fault
        /\ t.origins = r.origins
        /\ t.pc = "banks"
    BY <1>1 DEF Process
  <1>3. t \in Process
    BY <1>1, Zenon DEF Process
  <1> HIDE DEF t
  <1>4. Sane(t) /\ Fresh(t)
    <2>1. Kind(t) /\ Bounded(t)
      BY <1>1, <1>2 DEF Sane, Kind, Bounded, Ok
    <2>2. Walking(t) /\ Batches(t) /\ Fresh(t) /\ Result(t) /\ Caused(t)
      BY <1>2 DEF Walking, Batches, Fresh, Result, Caused, Ok
    <2> QED
      BY <2>1, <2>2 DEF Sane
  <1> QED
    BY <1>1, <1>3, <1>4 DEF Goes

\* A tool begins to read: nothing has been read, and all is left.
LEMMA BeginWalk ==
    ASSUME NEW t \in Process, t.pc = "read", t.left = t.sel, t.lists = <<>>
    PROVE  /\ Walking(t) /\ Batches(t) /\ Len(t.lists) = 0
           /\ Lines(t) = <<>> /\ Len(Lines(t)) = 0
  <1>1. Lines(t) = <<>> /\ Len(Lines(t)) = 0 /\ Len(t.lists) = 0
    BY FlattenNone DEF Lines
  <1>2. Rest(t) = Places(t.sel)
    BY DEF Rest
  <1>3. Len(Places(t.sel)) \in Nat
    BY FieldsIs
  <1>4. Batches(t)
    <2>1. MaxLists \in Nat \ {0} /\ Batch \in Nat
      BY PcrAssumption
    <2> QED
      BY <1>1, <2>1 DEF Batches
  <1>5. Walking(t)
    <2> DEFINE L == Places(t.sel)
    <2>1. Len(L) \in Nat
      BY <1>3
    <2> HIDE DEF L
    <2> QED
      BY <1>1, <1>2, <2>1 DEF Walking, L
  <1> QED
    BY <1>1, <1>4, <1>5

\* What is left to read is all of the selection, as pcr_check_pcr_selection leaves it.
LEMMA GetBanksGoes ==
    ASSUME Ready, NEW p \in Procs, GetBanks(p)
    PROVE  \E t : Goes(p, t) /\ Sane(t) /\ Fresh(t) /\ register' = register
  <1> DEFINE r == proc[p]
  <1>1. r \in Process /\ Sane(r) /\ r.pc = "banks" /\ register' = register
            /\ proc \in [Procs -> Process]
    BY DEF Ready, Types, GetBanks
  <1>2. r.tool \in {"pcrread", "quote"} /\ r.sel = r.asked /\ r.lists = <<>>
    BY <1>1 DEF Sane, Kind
  <1>3. CASE r.tool = "quote"
    <2> DEFINE t == [r EXCEPT !.pc = "quote"]
    <2>1. proc' = [proc EXCEPT ![p] = t]
      BY <1>1, <1>3 DEF GetBanks
    <2> HIDE DEF r
    <2>2. /\ t.tool = r.tool /\ t.rc = r.rc /\ t.bank = r.bank /\ t.out = r.out
        /\ t.source = r.source /\ t.asked = r.asked /\ t.sel = r.sel
        /\ t.left = r.left /\ t.lists = r.lists /\ t.message = r.message
        /\ t.signature = r.signature /\ t.todo = r.todo /\ t.run = r.run
        /\ t.held = r.held /\ t.alone = r.alone /\ t.fault = r.fault
        /\ t.origins = r.origins
        /\ t.pc = "quote"
      BY <1>1 DEF Process
    <2>3. t \in Process
      BY <1>1, Zenon DEF Process
    <2> HIDE DEF t
    <2>4. Kind(t) /\ Bounded(t)
      BY <1>1, <1>2, <1>3, <2>2 DEF Sane, Kind, Bounded, Ok
    <2>5. Walking(t) /\ Batches(t) /\ Fresh(t) /\ Result(t) /\ Caused(t)
      BY <2>2, <1>3 DEF Walking, Batches, Fresh, Result, Caused, Ok
    <2> QED
      BY <1>1, <2>1, <2>3, <2>4, <2>5 DEF Goes, Sane
  <1>4. CASE r.tool = "pcrread"
    <2> DEFINE sel == IF r.asked # <<>> THEN Checked(r.sel) ELSE OfBank(r.bank)
    <2>1. ReadSelected(p, sel)
      BY <1>4 DEF GetBanks
    <2>2. /\ sel \in Seq(Selection)
          /\ sel = IF r.asked = <<>> THEN OfBank(r.bank) ELSE Checked(r.asked)
      BY <1>1, <1>2, FieldsIs, CheckedIs, OfBankIs
    <2> HIDE DEF sel
    <2>3. CASE sel = <<>>
      <3> DEFINE t == [r EXCEPT !.pc = "idle", !.rc = "general_error"]
      <3>1. Return(p, "general_error")
        BY <2>1, <2>3 DEF ReadSelected
      <3>2. Goes(p, t)
        BY <3>1, ReturnIs DEF Ready
      <3> HIDE DEF r
      <3>3. /\ t.tool = r.tool /\ t.bank = r.bank /\ t.out = r.out /\ t.source = r.source
        /\ t.asked = r.asked /\ t.sel = r.sel /\ t.left = r.left /\ t.lists = r.lists
        /\ t.message = r.message /\ t.signature = r.signature /\ t.todo = r.todo
        /\ t.run = r.run /\ t.held = r.held /\ t.alone = r.alone /\ t.fault = r.fault
        /\ t.origins = r.origins
        /\ t.pc = "idle"
        /\ t.rc = "general_error"
        BY <1>1 DEF Process
      <3> HIDE DEF t
      <3>4. Kind(t) /\ Bounded(t)
        BY <1>1, <1>2, <1>4, <3>3 DEF Sane, Kind, Bounded, Ok
      <3>5. Walking(t) /\ Batches(t) /\ Fresh(t) /\ Result(t)
        BY <1>4, <3>3 DEF Walking, Batches, Fresh, Result, Ok
      <3>6. Caused(t)
        BY <2>2, <2>3, <3>3 DEF Caused
      <3> QED
        BY <1>1, <3>2, <3>4, <3>5, <3>6 DEF Sane
    <2>4. CASE sel # <<>>
      <3> DEFINE t == [r EXCEPT !.sel = sel, !.left = sel, !.pc = "read"]
      <3>1. proc' = [proc EXCEPT ![p] = t]
        BY <1>1, <2>1, <2>4 DEF ReadSelected
      <3> HIDE DEF r
      <3>2. /\ t.tool = r.tool /\ t.rc = r.rc /\ t.bank = r.bank /\ t.out = r.out
        /\ t.source = r.source /\ t.asked = r.asked /\ t.lists = r.lists
        /\ t.message = r.message /\ t.signature = r.signature /\ t.todo = r.todo
        /\ t.run = r.run /\ t.held = r.held /\ t.alone = r.alone /\ t.fault = r.fault
        /\ t.origins = r.origins
        /\ t.sel = sel
        /\ t.left = sel
        /\ t.pc = "read"
        BY <1>1 DEF Process
      <3>3. t \in Process
        BY <1>1, <2>2, Zenon DEF Process
      <3> HIDE DEF t
      <3>4. Walking(t) /\ Batches(t) /\ Len(t.lists) = 0 /\ Len(Lines(t)) = 0
        BY <1>2, <3>2, <3>3, BeginWalk
      <3>5. Kind(t)
        BY <1>1, <1>4, <2>2, <3>2 DEF Sane, Kind, Ok
      <3>6. Bounded(t)
        BY <1>1, <1>4, <3>2, <3>4, PcrAssumption DEF Sane, Bounded
      <3>7. Fresh(t) /\ Result(t) /\ Caused(t)
        BY <1>4, <3>2, <3>4 DEF Fresh, Result, Caused, Ok
      <3> QED
        BY <1>1, <3>1, <3>3, <3>4, <3>5, <3>6, <3>7 DEF Goes, Sane
    <2> QED
      BY <2>3, <2>4
  <1> QED
    BY <1>2, <1>3, <1>4

\* The values that are quoted are of the PCRs of the checked selection.
LEMMA QuoteGoes ==
    ASSUME Ready, NEW p \in Procs, Quote(p)
    PROVE  \E t : Goes(p, t) /\ Sane(t) /\ Fresh(t) /\ register' = register
  <1> DEFINE r == proc[p]
             held == ValuesOf(Places(Implemented(r.sel)))
             message == [by |-> r.run, digest |-> Digest(held)]
             sel == Checked(r.sel)
  <1>1. /\ r \in Process /\ Sane(r) /\ r.tool = "quote" /\ r.pc = "quote"
        /\ register' = register /\ proc \in [Procs -> Process]
        /\ register \in [Banks -> [Pcrs -> Nat]]
    BY DEF Ready, Types, Quote, Running
  <1>2. r.lists = <<>> /\ r.sel \in Seq(Selection) /\ r.run \in Nat /\ r.run \in 0..MaxRuns
    BY <1>1, RunsAssumption DEF Sane, Kind, Process
  <1>3. /\ held \in Seq(Value) /\ Len(held) = Len(Places(Implemented(r.sel)))
        /\ \A i \in 1..Len(held) : PlaceOf(held[i]) = Places(Implemented(r.sel))[i]
    BY <1>1, <1>2, ImplementedIs, PlacesType, ValuesOfIs
  <1>4. message \in Message /\ message.by \in 0..MaxRuns
    BY <1>2, <1>3, DigestIs DEF Message
  <1>5. sel \in Seq(Selection) /\ (Known(r.sel) => sel = Implemented(r.sel))
    BY <1>2, CheckedIs
  <1>6. CASE ~Known(r.sel)
    <2>1. Return(p, "tpm_error")
      BY <1>6 DEF Quote
    <2> QED
      BY <1>1, <2>1, ReturnSane
  <1>7. CASE Known(r.sel) /\ ~r.out
    <2> DEFINE t == [r EXCEPT !.held = held, !.message = message, !.pc = "sig"]
    <2>1. proc' = [proc EXCEPT ![p] = t]
      BY <1>1, <1>7 DEF Quote
    <2> HIDE DEF held, message, r
    <2>2. /\ t.tool = r.tool /\ t.rc = r.rc /\ t.bank = r.bank /\ t.out = r.out
        /\ t.source = r.source /\ t.asked = r.asked /\ t.sel = r.sel
        /\ t.left = r.left /\ t.lists = r.lists /\ t.signature = r.signature
        /\ t.todo = r.todo /\ t.run = r.run /\ t.alone = r.alone /\ t.fault = r.fault
        /\ t.origins = r.origins
        /\ t.pc = "sig"
        /\ t.held = held
        /\ t.message = message
      BY <1>1 DEF Process
    <2>3. t \in Process
      BY <1>1, <1>3, <1>4, Zenon DEF Process
    <2> HIDE DEF t
    <2>4. Kind(t) /\ Bounded(t)
      BY <1>1, <1>2, <1>4, <2>2 DEF Sane, Kind, Bounded, Ok
    <2>5. Walking(t) /\ Batches(t) /\ Fresh(t) /\ Result(t) /\ Caused(t)
      BY <1>1, <1>7, <2>2 DEF Walking, Batches, Fresh, Result, Caused, Ok
    <2> QED
      BY <1>1, <2>1, <2>3, <2>4, <2>5 DEF Goes, Sane
  <1>9. CASE Return(p, "general_error")
    BY <1>1, <1>9, ReturnSane
  <1>8. CASE Known(r.sel) /\ r.out /\ sel # <<>>
    <2> DEFINE t == [r EXCEPT !.held = held, !.message = message, !.pc = "read",
                              !.sel = sel, !.left = sel]
    <2>1. proc' = [proc EXCEPT ![p] = t]
      BY <1>1, <1>8 DEF Quote
    <2>2. /\ Len(held) = Len(Places(sel))
          /\ \A i \in 1..Len(held) : PlaceOf(held[i]) = Places(sel)[i]
      BY <1>3, <1>5, <1>8
    <2>3. message.digest = Digest(held)
      OBVIOUS
    <2> HIDE DEF held, message, sel, r
    <2>4. /\ t.tool = r.tool /\ t.rc = r.rc /\ t.bank = r.bank /\ t.out = r.out
        /\ t.source = r.source /\ t.asked = r.asked /\ t.lists = r.lists
        /\ t.signature = r.signature /\ t.todo = r.todo /\ t.run = r.run
        /\ t.alone = r.alone /\ t.fault = r.fault /\ t.origins = r.origins
        /\ t.pc = "read"
        /\ t.held = held
        /\ t.message = message
        /\ t.sel = sel
        /\ t.left = sel
      BY <1>1 DEF Process
    <2>5. t \in Process
      BY <1>1, <1>3, <1>4, <1>5, Zenon DEF Process
    <2> HIDE DEF t
    <2>6. Walking(t) /\ Batches(t) /\ Len(t.lists) = 0
      BY <1>2, <2>4, <2>5, BeginWalk
    <2>7. Kind(t) /\ Bounded(t)
      BY <1>1, <1>2, <1>4, <1>8, <2>4, <2>6, PcrAssumption DEF Sane, Kind, Bounded, Ok
    <2>8. Result(t)
      <3>1. Holding(t)
        BY <2>2, <2>3, <2>4 DEF Holding
      <3> QED
        BY <1>1, <2>4, <3>1 DEF Result, Ok
    <2>9. Fresh(t) /\ Caused(t)
      BY <1>1, <2>4 DEF Fresh, Caused, Ok
    <2> QED
      BY <1>1, <2>1, <2>5, <2>6, <2>7, <2>8, <2>9 DEF Goes, Sane
  <1>10. Known(r.sel) /\ r.out /\ sel = <<>> => Return(p, "general_error")
    BY DEF Quote
  <1> QED
    BY <1>6, <1>7, <1>8, <1>9, <1>10

\* policypcr takes all values of the list, or none.
LEMMA GatherValuesGoes ==
    ASSUME Ready, NEW p \in Procs, GatherValues(p)
    PROVE  \E t : Goes(p, t) /\ Sane(t) /\ Fresh(t) /\ register' = register
  <1> DEFINE r == proc[p]
             places == Places(Implemented(r.sel))
             Put(values, held) ==
                 proc' = [proc EXCEPT ![p].lists = <<values>>, ![p].held = held, ![p].pc = "policy"]
  <1>1. /\ r \in Process /\ Sane(r) /\ r.tool = "policypcr" /\ r.pc = "values"
        /\ register' = register /\ proc \in [Procs -> Process]
        /\ register \in [Banks -> [Pcrs -> Nat]] /\ file.raw \in Seq(Value)
    BY DEF Ready, Types, GatherValues, Running
  <1>2. r.sel \in Seq(Selection)
    BY <1>1, FieldsIs
  <1>3. places \in Seq(Place) /\ Len(places) <= Len(Places(r.sel))
            /\ Len(places) \in Nat /\ Len(Places(r.sel)) \in Nat
    BY <1>2, ImplementedIs, PlacesType
  <1>4. CASE Return(p, "general_error") \/ Return(p, "tpm_error")
    BY <1>1, <1>4, ReturnSane
  <1>5. CASE \E values \in Seq(Value) : Put(values, values)
    <2>1. PICK values \in Seq(Value) : Put(values, values)
      BY <1>5
    <2> DEFINE t == [r EXCEPT !.lists = <<values>>, !.held = values, !.pc = "policy"]
    <2>2. proc' = [proc EXCEPT ![p] = t]
      BY <1>1, <2>1
    <2> HIDE DEF r
    <2>3. /\ t.tool = r.tool /\ t.rc = r.rc /\ t.bank = r.bank /\ t.out = r.out
        /\ t.source = r.source /\ t.asked = r.asked /\ t.sel = r.sel
        /\ t.left = r.left /\ t.message = r.message /\ t.signature = r.signature
        /\ t.todo = r.todo /\ t.run = r.run /\ t.alone = r.alone /\ t.fault = r.fault
        /\ t.origins = r.origins
        /\ t.pc = "policy"
        /\ t.held = values
        /\ t.lists = <<values>>
      BY <1>1 DEF Process
    <2>4. t \in Process
      <3>1. <<values>> \in Seq(Seq(Value))
        OBVIOUS
      <3> QED
        BY <1>1, <3>1, Zenon DEF Process
    <2> HIDE DEF t
    <2>5. Lines(t) = values /\ Len(t.lists) = 1
      BY <2>3, FlattenOne DEF Lines
    <2>6. Kind(t) /\ Bounded(t)
      BY <1>1, <2>3, <2>5, PcrAssumption DEF Sane, Kind, Bounded, Ok
    <2>7. Walking(t) /\ Batches(t) /\ Fresh(t) /\ Result(t) /\ Caused(t)
      BY <1>1, <2>3 DEF Walking, Batches, Fresh, Result, Caused, Ok
    <2> QED
      BY <1>1, <2>2, <2>4, <2>6, <2>7 DEF Goes, Sane
  <1>6. \/ Return(p, "general_error") \/ Return(p, "tpm_error")
        \/ FitsOneList(r.sel) /\ Put(ValuesOf(FirstOf(Batch, places)), ValuesOf(places))
        \/ Put(file.raw, file.raw)
    BY DEF GatherValues
  <1>7. CASE FitsOneList(r.sel) /\ Put(ValuesOf(FirstOf(Batch, places)), ValuesOf(places))
    <2>1. Len(places) <= Batch /\ Batch \in Nat
      BY <1>3, <1>7, PcrAssumption DEF FitsOneList
    <2>2. FirstOf(Batch, places) = places
      <3> HIDE DEF places
      <3>1. /\ FirstOf(Batch, places) \in Seq(Place)
            /\ Len(FirstOf(Batch, places)) = Len(places)
            /\ \A i \in 1..Len(places) : FirstOf(Batch, places)[i] = places[i]
        BY <1>3, <2>1, FirstOfIs
      <3> QED
        BY <1>3, <3>1, SeqEqual
    <2>3. ValuesOf(places) \in Seq(Value)
      BY <1>1, <1>3, ValuesOfIs
    <2> QED
      BY <1>5, <1>7, <2>2, <2>3
  <1>8. CASE Put(file.raw, file.raw)
    BY <1>1, <1>5, <1>8
  <1> QED
    BY <1>4, <1>6, <1>7, <1>8

-----------------------------------------------------------------------------
(* What a checkquote loads.                                                *)
\* A checkquote that goes on with files, but without other lists.
LEMMA LoadSane ==
    ASSUME NEW r \in Process, Sane(r), NEW t \in Process, r.tool = "checkquote", t.tool = r.tool,
           r.pc \in {"msg", "sig"}, t.pc \in {"sig", "pcrs", "verify"},
           t.lists = r.lists, t.message.by \in 0..MaxRuns, t.source = r.source, t.sel = r.sel
    PROVE  Sane(t) /\ Fresh(t)
  <1>1. Kind(t) /\ Bounded(t)
    BY DEF Sane, Kind, Bounded, Ok
  <1>2. Walking(t) /\ Batches(t) /\ Fresh(t) /\ Result(t) /\ Caused(t)
    BY DEF Walking, Batches, Fresh, Result, Caused, Ok
  <1> QED
    BY <1>1, <1>2 DEF Sane

\* Part of a sequence is made of what the sequence is made of.
LEMMA SubSeqIn ==
    ASSUME NEW S, NEW s \in Seq(S), NEW m \in Int, NEW n \in Int, m >= 1, n <= Len(s)
    PROVE  SubSeq(s, m, n) \in Seq(S)
  <1>1. CASE m <= n + 1
    BY <1>1
  <1>2. CASE m > n + 1
    BY <1>2
  <1> QED
    BY <1>1, <1>2

\* checkquote loads a message.
LEMMA LoadMessageGoes ==
    ASSUME Ready, NEW p \in Procs, LoadMessage(p)
    PROVE  \E t : Goes(p, t) /\ Sane(t) /\ Fresh(t) /\ register' = register
  <1> DEFINE r == proc[p]
             m == file.msg
             t == [r EXCEPT !.message = m, !.pc = "sig", !.origins = {m.by}]
  <1>1. /\ r \in Process /\ Sane(r) /\ r.tool = "checkquote" /\ r.pc = "msg"
        /\ register' = register /\ proc \in [Procs -> Process] /\ m \in Message
        /\ m.by \in 0..MaxRuns
    BY DEF Ready, FileTypes, Types, LoadMessage, Running
  <1>2. CASE Return(p, "general_error")
    BY <1>1, <1>2, ReturnSane
  <1>3. CASE proc' = [proc EXCEPT ![p] = t]
    <2> HIDE DEF r, m
    <2>1. /\ t.tool = r.tool /\ t.rc = r.rc /\ t.bank = r.bank /\ t.out = r.out
        /\ t.source = r.source /\ t.asked = r.asked /\ t.sel = r.sel
        /\ t.left = r.left /\ t.lists = r.lists /\ t.signature = r.signature
        /\ t.todo = r.todo /\ t.run = r.run /\ t.held = r.held /\ t.alone = r.alone
        /\ t.fault = r.fault
        /\ t.pc = "sig"
        /\ t.message = m
        /\ t.origins = {m.by}
      BY <1>1 DEF Process
    <2>2. {m.by} \in SUBSET (0..MaxRuns)
      BY <1>1
    <2>3. t \in Process
      BY <1>1, <2>2, Zenon DEF Process
    <2> HIDE DEF t
    <2>4. Sane(t) /\ Fresh(t)
      BY <1>1, <2>1, <2>3, LoadSane
    <2> QED
      BY <1>1, <1>3, <2>3, <2>4 DEF Goes
  <1> QED
    BY <1>1, <1>2, <1>3 DEF LoadMessage

\* checkquote loads a signature.
LEMMA LoadSignatureGoes ==
    ASSUME Ready, NEW p \in Procs, LoadSignature(p)
    PROVE  \E t : Goes(p, t) /\ Sane(t) /\ Fresh(t) /\ register' = register
  <1> DEFINE r == proc[p]
             m == file.sig
             pc == IF r.source = "none" THEN "verify" ELSE "pcrs"
             t == [r EXCEPT !.signature = m, !.pc = pc, !.origins = r.origins \cup {m.by}]
  <1>1. /\ r \in Process /\ Sane(r) /\ r.tool = "checkquote" /\ r.pc = "sig"
        /\ register' = register /\ proc \in [Procs -> Process] /\ m \in Message
        /\ m.by \in 0..MaxRuns
    BY DEF Ready, FileTypes, Types, LoadSignature, Running
  <1>2. CASE Return(p, "general_error")
    BY <1>1, <1>2, ReturnSane
  <1>3. CASE proc' = [proc EXCEPT ![p] = t]
    <2>1. pc \in {"verify", "pcrs"}
      OBVIOUS
    <2> HIDE DEF r, m, pc
    <2>2. /\ t.tool = r.tool /\ t.rc = r.rc /\ t.bank = r.bank /\ t.out = r.out
        /\ t.source = r.source /\ t.asked = r.asked /\ t.sel = r.sel
        /\ t.left = r.left /\ t.lists = r.lists /\ t.message = r.message
        /\ t.todo = r.todo /\ t.run = r.run /\ t.held = r.held /\ t.alone = r.alone
        /\ t.fault = r.fault
        /\ t.pc = pc
        /\ t.signature = m
        /\ t.origins = r.origins \cup {m.by}
      BY <1>1 DEF Process
    <2>3. r.origins \cup {m.by} \in SUBSET (0..MaxRuns)
      BY <1>1 DEF Process
    <2>4. t \in Process
      BY <1>1, <2>1, <2>3, Zenon DEF Process
    <2> HIDE DEF t
    <2>5. t.message.by \in 0..MaxRuns
      BY <1>1, <2>2 DEF Sane, Bounded
    <2>6. Sane(t) /\ Fresh(t)
      BY <1>1, <2>1, <2>2, <2>4, <2>5, LoadSane
    <2> QED
      BY <1>1, <1>3, <2>4, <2>6 DEF Goes
  <1>4. Return(p, "general_error") \/ proc' = [proc EXCEPT ![p] = t]
    BY <1>1 DEF LoadSignature
  <1> QED
    BY <1>2, <1>3, <1>4

\* checkquote loads no more lists than quote may write.
LEMMA LoadPcrsGoes ==
    ASSUME Ready, NEW p \in Procs, LoadPcrs(p)
    PROVE  \E t : Goes(p, t) /\ Sane(t) /\ Fresh(t) /\ register' = register
  <1> DEFINE r == proc[p]
             f == file.pcrs
             held == FlattenSeq(f.lists)
             read == [r EXCEPT !.held = held, !.origins = r.origins \cup {f.by}]
             t == [read EXCEPT !.sel = f.sel, !.pc = "verify", !.lists = f.lists]
             u == [read EXCEPT !.pc = "idle", !.rc = "general_error"]
  <1>1. /\ r \in Process /\ Sane(r) /\ r.tool = "checkquote" /\ r.pc = "pcrs" /\ r.source = "file"
        /\ register' = register /\ proc \in [Procs -> Process] /\ f \in PcrFile
        /\ f.by \in 0..MaxRuns
    BY DEF Ready, FileTypes, Types, LoadPcrs, Running
  <1>2. CASE Return(p, "general_error")
    BY <1>1, <1>2, ReturnSane
  <1>3. /\ f.sel \in Seq(Selection) /\ f.lists \in Seq(Seq(Value))
        /\ r.origins \cup {f.by} \in SUBSET (0..MaxRuns)
    BY <1>1 DEF PcrFile, Process
  <1>4. held \in Seq(Value)
    <2>1. <<>> \in Seq(Value)
      OBVIOUS
    <2> QED
      BY <1>3, <2>1, FlattenAppend
  <1> HIDE DEF r, f, held
  <1>5. read \in Process
    BY <1>1, <1>3, <1>4, Zenon DEF Process
  <1>6. /\ read.tool = r.tool /\ read.rc = r.rc /\ read.bank = r.bank /\ read.out = r.out
        /\ read.source = r.source /\ read.asked = r.asked /\ read.left = r.left
        /\ read.lists = r.lists /\ read.sel = r.sel
        /\ read.message = r.message /\ read.signature = r.signature /\ read.todo = r.todo
        /\ read.run = r.run /\ read.held = held /\ read.alone = r.alone /\ read.fault = r.fault
        /\ read.origins = r.origins \cup {f.by}
    BY <1>1 DEF Process
  <1> HIDE DEF read
  <1>7. CASE proc' = [proc EXCEPT ![p] = t]
    <2>1. /\ t.tool = r.tool /\ t.source = r.source /\ t.message = r.message
          /\ t.held = held /\ t.lists = f.lists /\ t.pc = "verify"
      BY <1>5, <1>6 DEF Process
    <2>2. t \in Process
      BY <1>3, <1>5, Zenon DEF Process
    <2> HIDE DEF t
    <2>3. Kind(t) /\ Bounded(t)
      BY <1>1, <2>1 DEF Sane, Kind, Bounded, Ok
    <2>4. Walking(t) /\ Batches(t) /\ Fresh(t) /\ Result(t) /\ Caused(t)
      BY <1>1, <2>1 DEF Walking, Batches, Fresh, Result, Caused, Ok
    <2> QED
      BY <1>1, <1>7, <2>2, <2>3, <2>4 DEF Goes, Sane
  <1>8. CASE proc' = [proc EXCEPT ![p] = u]
    <2>1. /\ u.tool = r.tool /\ u.source = r.source /\ u.message = r.message
          /\ u.lists = r.lists /\ u.pc = "idle" /\ u.rc = "general_error"
      BY <1>5, <1>6 DEF Process
    <2>2. u \in Process
      BY <1>5, Zenon DEF Process
    <2> HIDE DEF u
    <2>3. Kind(u) /\ Bounded(u)
      BY <1>1, <2>1 DEF Sane, Kind, Bounded, Ok
    <2>4. Walking(u) /\ Batches(u) /\ Fresh(u) /\ Result(u) /\ Caused(u)
      BY <1>1, <2>1 DEF Walking, Batches, Fresh, Result, Caused, Ok
    <2> QED
      BY <1>1, <1>8, <2>2, <2>3, <2>4 DEF Goes, Sane
  <1>9. Return(p, "general_error") \/ proc' = [proc EXCEPT ![p] = t] \/ proc' = [proc EXCEPT ![p] = u]
    BY DEF LoadPcrs, r, f, held, read
  <1> QED
    BY <1>2, <1>7, <1>8, <1>9

\* The lists of parse_selection_data_from_selection_string: one more than there are full ones.
LEMMA PlainListsIs ==
    ASSUME NEW values \in Seq(Value)
    PROVE  /\ PlainLists(values) \in Seq(Seq(Value))
           /\ Len(PlainLists(values)) = Len(values) \div Batch + 1
  <1> DEFINE n == Len(values)
             full == n \div Batch
             from(k) == (k - 1) * Batch + 1
             to(k) == IF k < full + 1 THEN k * Batch - 1 ELSE n
  <1>1. n \in Nat /\ Batch \in Nat \ {0}
    BY PcrAssumption
  <1>2. full \in Nat /\ full * Batch <= n
    <2> HIDE DEF n
    <2>1. n \div Batch \in Nat
      BY <1>1, SMT
    <2>2. (n \div Batch) * Batch <= n
      BY <1>1, SMT
    <2> QED
      BY <2>1, <2>2
  <1>3. ASSUME NEW k \in 1..(full + 1)
        PROVE  SubSeq(values, from(k), to(k)) \in Seq(Value)
    <2> HIDE DEF n, full
    <2>1. k \in Nat /\ k - 1 \in Nat /\ (k - 1) * Batch \in Nat /\ k * Batch \in Nat
      BY <1>1, <1>2
    <2>2. k * Batch = (k - 1) * Batch + Batch
      BY <1>1, <2>1
    <2>3. from(k) \in Int /\ from(k) >= 1
      BY <2>1
    <2>4. CASE k < full + 1
      <3>1. k * Batch <= full * Batch
        <4>1. k <= full /\ k \in Nat
          BY <1>2, <2>1, <2>4
        <4>2. full - k \in Nat /\ (full - k) * Batch \in Nat
          BY <1>1, <1>2, <4>1
        <4>3. full * Batch = k * Batch + (full - k) * Batch
          BY <1>1, <1>2, <4>1
        <4>4. full * Batch \in Nat
          BY <1>1, <1>2
        <4> QED
          BY <2>1, <4>2, <4>3, <4>4
      <3>2. to(k) = k * Batch - 1
        BY <2>4
      <3>3. to(k) \in Int /\ to(k) <= n
        BY <1>1, <1>2, <2>1, <3>1, <3>2
      <3> HIDE DEF from, to
      <3> QED
        BY <2>3, <3>3, SubSeqIn DEF n
    <2>5. CASE ~(k < full + 1)
      <3>1. to(k) = n
        BY <2>5
      <3>2. to(k) \in Int /\ to(k) <= n
        BY <1>1, <3>1
      <3> HIDE DEF from, to
      <3> QED
        BY <2>3, <3>2, SubSeqIn DEF n
    <2> QED
      BY <2>4, <2>5
  <1>4. PlainLists(values) = [k \in 1..(full + 1) |-> SubSeq(values, from(k), to(k))]
    BY DEF PlainLists
  <1>5. PlainLists(values) \in [1..(full + 1) -> Seq(Value)]
    <2> HIDE DEF full, from, to
    <2> QED
      BY <1>3, <1>4
  <1> HIDE DEF full
  <1>6. full + 1 \in Nat
    BY <1>2
  <1> QED
    BY <1>5, <1>6 DEF full

\* checkquote loads the plain values of a list.
LEMMA LoadPlainGoes ==
    ASSUME Ready, NEW p \in Procs, LoadPlain(p)
    PROVE  \E t : Goes(p, t) /\ Sane(t) /\ Fresh(t) /\ register' = register
  <1> DEFINE r == proc[p]
             values == FirstOf(Len(Labels(p)), file.raw)
             lists == PlainLists(values)
             t == [r EXCEPT !.pc = "verify", !.held = values, !.lists = lists]
  <1>1. /\ r \in Process /\ Sane(r) /\ r.tool = "checkquote" /\ r.pc = "pcrs" /\ r.source = "list"
        /\ register' = register /\ proc \in [Procs -> Process] /\ file.raw \in Seq(Value)
    BY DEF Ready, Types, LoadPlain, Running
  <1>2. CASE Return(p, "general_error")
    BY <1>1, <1>2, ReturnSane
  <1>3. CASE proc' = [proc EXCEPT ![p] = t] /\ FileFits(file.raw, Labels(p))
    <2>1. Labels(p) = Places(r.sel) /\ Len(Labels(p)) \in Nat
      BY <1>1, FieldsIs DEF Labels
    <2>2. values \in Seq(Value) /\ Len(values) = Len(Labels(p))
      <3>1. Len(Labels(p)) <= Len(file.raw)
        BY <1>3 DEF FileFits
      <3>2. /\ values \in Seq(Value)
            /\ Len(values) =
                  IF Len(Labels(p)) < Len(file.raw) THEN Len(Labels(p)) ELSE Len(file.raw)
        BY <1>1, <2>1, FirstOfIs
      <3> HIDE DEF values
      <3> QED
        BY <1>1, <2>1, <3>1, <3>2
    <2> HIDE DEF values
    <2>3. lists \in Seq(Seq(Value))
      BY <2>1, <2>2, PlainListsIs
    <2> HIDE DEF lists, r
    <2>5. /\ t.tool = r.tool /\ t.rc = r.rc /\ t.bank = r.bank /\ t.out = r.out
        /\ t.source = r.source /\ t.asked = r.asked /\ t.sel = r.sel
        /\ t.left = r.left /\ t.message = r.message /\ t.signature = r.signature
        /\ t.todo = r.todo /\ t.run = r.run /\ t.alone = r.alone /\ t.fault = r.fault
        /\ t.origins = r.origins
        /\ t.pc = "verify"
        /\ t.held = values
        /\ t.lists = lists
      BY <1>1 DEF Process
    <2>6. t \in Process
      BY <1>1, <2>2, <2>3, Zenon DEF Process
    <2> HIDE DEF t
    <2>7. Kind(t) /\ Bounded(t)
      BY <1>1, <2>5 DEF Sane, Kind, Bounded, Ok
    <2>8. Walking(t) /\ Batches(t) /\ Fresh(t) /\ Result(t) /\ Caused(t)
      BY <1>1, <2>5 DEF Walking, Batches, Fresh, Result, Caused, Ok
    <2> QED
      BY <1>1, <1>3, <2>6, <2>7, <2>8 DEF Goes, Sane
  <1>4. CASE End(p, "general_error", TRUE)
    BY <1>1, <1>4, EndSane
  <1> QED
    BY <1>1, <1>2, <1>3, <1>4 DEF LoadPlain

-----------------------------------------------------------------------------
(* What a quote saves.                                                     *)
\* A quote that saves a file goes on to the next one, whether the file could be written or not.
LEMMA SaveSane ==
    ASSUME Ready, NEW p \in Procs, NEW next \in {"msg", "pcrs", "idle"},
           proc[p].tool = "quote", proc[p].pc \in {"sig", "msg", "pcrs"},
           next = "pcrs" => proc[p].out, register' = register,
           \/ proc' = [proc EXCEPT ![p].pc = next]
           \/ proc' = [proc EXCEPT ![p].pc = next, ![p].rc = "general_error", ![p].fault = TRUE]
    PROVE  \E t : Goes(p, t) /\ Sane(t) /\ Fresh(t) /\ register' = register
  <1> DEFINE r == proc[p]
             t == [r EXCEPT !.pc = next]
             u == [r EXCEPT !.pc = next, !.rc = "general_error", !.fault = TRUE]
  <1>1. /\ r \in Process /\ Sane(r) /\ r.tool = "quote" /\ r.pc \in {"sig", "msg", "pcrs"}
        /\ proc \in [Procs -> Process] /\ (next = "pcrs" => r.out)
        /\ \/ proc' = [proc EXCEPT ![p] = t]
           \/ proc' = [proc EXCEPT ![p] = u]
    BY DEF Ready, Types
  <1> HIDE DEF r
  <1>2. ASSUME NEW x \in Process, x.tool = r.tool, x.pc = next, x.out = r.out, x.sel = r.sel,
               x.lists = r.lists, x.held = r.held, x.message = r.message, x.source = r.source,
               x.rc = "success" => r.rc = "success"
        PROVE  Sane(x) /\ Fresh(x)
    <2>1. Lines(x) = Lines(r)
      BY <1>2 DEF Lines
    <2>2. Kind(x) /\ Bounded(x)
      BY <1>1, <1>2 DEF Sane, Kind, Bounded, Ok
    <2>3. Walking(x) /\ Batches(x) /\ Fresh(x) /\ Caused(x)
      BY <1>1, <1>2 DEF Walking, Batches, Fresh, Caused, Ok
    <2>4. Result(x)
      <3>1. InPlace(r) => InPlace(x)
        BY <1>2, <2>1 DEF InPlace
      <3> QED
        BY <1>1, <1>2, <2>1, <3>1 DEF Sane, Result, Ok
    <2> QED
      BY <2>2, <2>3, <2>4 DEF Sane
  <1>3. CASE proc' = [proc EXCEPT ![p] = t]
    <2>1. /\ t.tool = r.tool /\ t.rc = r.rc /\ t.bank = r.bank /\ t.out = r.out
        /\ t.source = r.source /\ t.asked = r.asked /\ t.sel = r.sel
        /\ t.left = r.left /\ t.lists = r.lists /\ t.message = r.message
        /\ t.signature = r.signature /\ t.todo = r.todo /\ t.run = r.run
        /\ t.held = r.held /\ t.alone = r.alone /\ t.fault = r.fault
        /\ t.origins = r.origins
        /\ t.pc = next
      BY <1>1 DEF Process
    <2>2. t \in Process
      BY <1>1, Zenon DEF Process
    <2> HIDE DEF t
    <2>3. Sane(t) /\ Fresh(t)
      BY <1>2, <2>1, <2>2
    <2> QED
      BY <1>3, <2>2, <2>3 DEF Goes
  <1>4. CASE proc' = [proc EXCEPT ![p] = u]
    <2>1. /\ u.tool = r.tool /\ u.bank = r.bank /\ u.out = r.out /\ u.source = r.source
        /\ u.asked = r.asked /\ u.sel = r.sel /\ u.left = r.left /\ u.lists = r.lists
        /\ u.message = r.message /\ u.signature = r.signature /\ u.todo = r.todo
        /\ u.run = r.run /\ u.held = r.held /\ u.alone = r.alone
        /\ u.origins = r.origins
        /\ u.pc = next
        /\ u.rc = "general_error"
        /\ u.fault = TRUE
      BY <1>1 DEF Process
    <2>2. u \in Process
      BY <1>1, Zenon DEF Process
    <2> HIDE DEF u
    <2>3. Sane(u) /\ Fresh(u)
      BY <1>2, <2>1, <2>2
    <2> QED
      BY <1>4, <2>2, <2>3 DEF Goes
  <1> QED
    BY <1>1, <1>3, <1>4

\* Saving changes nothing of what a quote has read.
LEMMA SaveGoes ==
    ASSUME Ready, NEW p \in Procs, SaveSignature(p) \/ SaveMessage(p) \/ SavePcrs(p)
    PROVE  \E t : Goes(p, t) /\ Sane(t) /\ Fresh(t) /\ register' = register
  <1>1. CASE SaveSignature(p)
    BY <1>1, SaveSane DEF SaveSignature, Save, Running
  <1>2. CASE SaveMessage(p)
    BY <1>2, SaveSane DEF SaveMessage, Save, Running
  <1>3. CASE SavePcrs(p)
    BY <1>3, SaveSane DEF SavePcrs, Save, Running
  <1> QED
    BY <1>1, <1>2, <1>3

\* Labels and lines are what the process has.
LEMMA PrintValuesGoes ==
    ASSUME Ready, NEW p \in Procs, PrintValues(p)
    PROVE  \E t : Goes(p, t) /\ Sane(t) /\ Fresh(t) /\ register' = register
  <1> DEFINE r == proc[p]
             rc == IF Enough(p) THEN "success" ELSE "general_error"
             t == [r EXCEPT !.pc = "idle", !.rc = rc]
             L == Places(r.sel)
             V == Lines(r)
  <1>1. /\ r \in Process /\ Sane(r) /\ Fresh(r) /\ r.tool = "pcrread" /\ r.pc = "label"
        /\ register' = register /\ Return(p, rc)
    BY DEF Ready, Types, PrintValues, Running
  <1>2. rc = (IF Len(L) <= Len(V) THEN "success" ELSE "general_error")
            /\ rc \in {"success", "general_error", "tpm_error"}
    BY DEF Enough, Labels, Values, Lines
  <1>3. Goes(p, t)
    BY <1>1, <1>2, ReturnIs DEF Ready
  <1>4. Len(L) \in Nat /\ Len(V) \in Nat
    BY <1>1, FieldsIs
  <1>5. Rest(r) = <<>>
    BY <1>1 DEF Rest
  <1>6. /\ Len(V) <= Len(L)
        /\ Len(V) = Len(L) => \A i \in 1..Len(V) : PlaceOf(V[i]) = L[i]
        /\ ~Duplicated(r.sel) => Len(V) = Len(L)
    <2>1. /\ Len(V) + 0 <= Len(L)
          /\ Len(V) + 0 = Len(L) => \A i \in 1..Len(V) : PlaceOf(V[i]) = L[i]
          /\ ~Duplicated(r.sel) => Len(V) + 0 = Len(L)
      BY <1>1, <1>5 DEF Sane, Walking
    <2> HIDE DEF L, V
    <2> QED
      BY <1>4, <2>1
  <1> HIDE DEF r, rc
  <1>7. /\ t.tool = r.tool /\ t.bank = r.bank /\ t.out = r.out /\ t.source = r.source
        /\ t.asked = r.asked /\ t.sel = r.sel /\ t.left = r.left /\ t.lists = r.lists
        /\ t.message = r.message /\ t.signature = r.signature /\ t.todo = r.todo
        /\ t.run = r.run /\ t.held = r.held /\ t.alone = r.alone /\ t.fault = r.fault
        /\ t.origins = r.origins
        /\ t.pc = "idle"
        /\ t.rc = rc
    BY <1>1 DEF Process
  <1> HIDE DEF t
  <1>8. Lines(t) = V /\ Places(t.sel) = L
    BY <1>7 DEF Lines
  <1>9. Kind(t) /\ Bounded(t)
    BY <1>1, <1>7 DEF Sane, Kind, Bounded, Ok
  <1>10. Walking(t) /\ Batches(t)
    BY <1>7 DEF Walking, Batches
  <1>11. Fresh(t)
    BY <1>1, <1>7, <1>8 DEF Fresh, Ok
  <1>12. rc = "success" => InPlace(t)
    <2> HIDE DEF L, V
    <2> QED
      BY <1>2, <1>4, <1>6, <1>8 DEF InPlace
  <1>13. Result(t)
    BY <1>1, <1>7, <1>12 DEF Result, Ok
  <1>14. Caused(t)
    <2>1. rc # "success" => Duplicated(r.sel)
      <3> HIDE DEF L, V
      <3> QED
        BY <1>2, <1>4, <1>6
    <2> QED
      BY <1>7, <2>1 DEF Caused
  <1> QED
    BY <1>1, <1>3, <1>9, <1>10, <1>11, <1>13, <1>14 DEF Sane

\* A quote goes on to save what it has read only if the values hash to its digest; as they
\* are of the same PCRs, they are the quoted ones.
LEMMA CompareQuoteGoes ==
    ASSUME Ready, NEW p \in Procs, CompareQuote(p)
    PROVE  \E t : Goes(p, t) /\ Sane(t) /\ Fresh(t) /\ register' = register
  <1> DEFINE r == proc[p]
             t == [r EXCEPT !.pc = "sig"]
             L == Places(r.sel)
             V == Lines(r)
             H == r.held
  <1>1. /\ r \in Process /\ Sane(r) /\ r.tool = "quote" /\ r.pc = "label"
        /\ register' = register /\ proc \in [Procs -> Process]
    BY DEF Ready, Types, CompareQuote, Running
  <1>2. CASE ~Consistent(p)
    BY <1>1, <1>2, ReturnSane DEF CompareQuote
  <1>3. CASE Consistent(p)
    <2>1. proc' = [proc EXCEPT ![p] = t]
      BY <1>1, <1>3 DEF CompareQuote
    <2>2. Len(L) \in Nat /\ Len(V) \in Nat /\ V \in Seq(Value) /\ H \in Seq(Value)
      BY <1>1, FieldsIs
    <2>3. Len(L) <= Len(V) /\ Digest(FirstOf(Len(L), V)) = r.message.digest
      BY <1>3 DEF Consistent, Enough, Walked, Labels, Values, Lines
    <2>4. /\ Len(H) = Len(L) /\ r.message.digest = Digest(H)
          /\ \A i \in 1..Len(H) : PlaceOf(H[i]) = L[i]
      BY <1>1 DEF Sane, Result, Holding
    <2>5. Rest(r) = <<>>
      BY <1>1 DEF Rest
    <2>6. /\ Len(V) + 0 <= Len(L)
          /\ Len(V) + 0 = Len(L) => \A i \in 1..Len(V) : PlaceOf(V[i]) = L[i]
      BY <1>1, <2>5 DEF Sane, Walking
    <2>7. V = H /\ Len(V) = Len(L) /\ \A i \in 1..Len(V) : PlaceOf(V[i]) = L[i]
      <3> HIDE DEF L, V, H
      <3>1. Len(V) = Len(L) /\ \A i \in 1..Len(V) : PlaceOf(V[i]) = L[i]
        BY <2>2, <2>3, <2>6
      <3>2. FirstOf(Len(L), V) = V
        <4>1. /\ FirstOf(Len(L), V) \in Seq(Value) /\ Len(FirstOf(Len(L), V)) = Len(V)
              /\ \A i \in 1..Len(FirstOf(Len(L), V)) : FirstOf(Len(L), V)[i] = V[i]
          BY <2>2, <3>1, FirstOfIs
        <4> QED
          BY <2>2, <4>1, SeqEqual
      <3>3. Digest(V) = Digest(H)
        BY <2>3, <2>4, <3>2
      <3>4. \A i \in 1..Len(V) : V[i].n = H[i].n
        <4>1. /\ \A i \in 1..Len(V) : Digest(V)[i].n = V[i].n
              /\ \A i \in 1..Len(H) : Digest(H)[i].n = H[i].n
          BY <2>2, DigestIs
        <4> QED
          BY <2>4, <3>1, <3>3, <4>1
      <3>5. \A i \in 1..Len(V) : PlaceOf(V[i]) = PlaceOf(H[i]) /\ V[i].n = H[i].n
        BY <2>4, <3>1, <3>4
      <3>6. V = H
        BY <2>2, <2>4, <3>1, <3>5, SameValues
      <3> QED
        BY <3>1, <3>6
    <2> HIDE DEF r
    <2>8. /\ t.tool = r.tool /\ t.rc = r.rc /\ t.bank = r.bank /\ t.out = r.out
        /\ t.source = r.source /\ t.asked = r.asked /\ t.sel = r.sel
        /\ t.left = r.left /\ t.lists = r.lists /\ t.message = r.message
        /\ t.signature = r.signature /\ t.todo = r.todo /\ t.run = r.run
        /\ t.held = r.held /\ t.alone = r.alone /\ t.fault = r.fault
        /\ t.origins = r.origins
        /\ t.pc = "sig"
      BY <1>1 DEF Process
    <2>9. t \in Process
      BY <1>1, Zenon DEF Process
    <2> HIDE DEF t
    <2>10. Lines(t) = V /\ Places(t.sel) = L
      BY <2>8 DEF Lines
    <2>11. Kind(t) /\ Bounded(t)
      BY <1>1, <2>8 DEF Sane, Kind, Bounded, Ok
    <2>12. Walking(t) /\ Batches(t) /\ Fresh(t) /\ Caused(t)
      BY <1>1, <2>8 DEF Walking, Batches, Fresh, Caused, Ok
    <2>13. Result(t)
      <3>1. InPlace(t)
        BY <2>7, <2>10 DEF InPlace
      <3> QED
        BY <1>1, <2>4, <2>7, <2>8, <2>10, <3>1 DEF Result, Ok
    <2> QED
      BY <1>1, <2>1, <2>9, <2>11, <2>12, <2>13 DEF Goes, Sane
  <1> QED
    BY <1>2, <1>3

-----------------------------------------------------------------------------
(* One batch of values.                                                    *)
\* One batch: what has been read and what is left are what they were, with the batch gone
\* from one to the other; a PCR named twice is left out at its second place.
Batched(r, places, values, Q) ==
    LET L == Places(r.sel)
        V == Lines(r)
        W == FlattenSeq(Append(r.lists, values))
    IN  /\ W \in Seq(Value) /\ Len(W) = Len(V) + Len(places)
        /\ Len(W) + Len(Q) <= Len(L)
        /\ Len(W) + Len(Q) = Len(L) =>
              /\ \A i \in 1..Len(W) : PlaceOf(W[i]) = L[i]
              /\ \A j \in 1..Len(Q) : Q[j] = L[Len(W) + j]
        /\ ~Duplicated(r.sel) => Len(W) + Len(Q) = Len(L)
        /\ Len(Q) > 0 => Len(places) = Batch
        /\ \A i \in 1..Len(W) : \/ i <= Len(V) /\ W[i] = V[i]
                                \/ W[i].n = register[W[i].bank][W[i].pcr]

\* One TPM2_PCR_Read and pcr_update_pcr_selections: see Batched.
LEMMA BatchIs ==
    ASSUME register \in [Banks -> [Pcrs -> Nat]], NEW r \in Process, Walking(r), r.pc = "read"
    PROVE  LET places == FirstOf(Batch, Places(r.left))
               left == Without(r.left, places)
               values == ValuesOf(places)
           IN  /\ places \in Seq(Place) /\ left \in Seq(Selection) /\ values \in Seq(Value)
               /\ Batched(r, places, values, Places(left))
  <1> DEFINE R == Places(r.left)
             places == FirstOf(Batch, R)
             left == Without(r.left, places)
             values == ValuesOf(places)
             Q == Places(left)
             L == Places(r.sel)
             V == Lines(r)
             W == FlattenSeq(Append(r.lists, values))
             m == Len(places)
  <1>1. /\ r.sel \in Seq(Selection) /\ r.left \in Seq(Selection) /\ r.lists \in Seq(Seq(Value))
        /\ V \in Seq(Value) /\ Len(V) \in Nat /\ L \in Seq(Place) /\ Len(L) \in Nat
        /\ R \in Seq(Place) /\ Len(R) \in Nat /\ Batch \in Nat \ {0}
    BY FieldsIs, PlacesType, PcrAssumption
  <1>2. Rest(r) = R
    BY DEF Rest
  <1>3. /\ Len(V) + Len(R) <= Len(L)
        /\ Len(V) + Len(R) = Len(L) =>
              /\ \A i \in 1..Len(V) : PlaceOf(V[i]) = L[i]
              /\ \A j \in 1..Len(R) : R[j] = L[Len(V) + j]
        /\ ~Duplicated(r.sel) => Len(V) + Len(R) = Len(L)
    BY <1>2 DEF Walking
  <1>4. /\ places \in Seq(Place) /\ m = (IF Batch < Len(R) THEN Batch ELSE Len(R))
        /\ \A i \in 1..m : places[i] = R[i]
    BY <1>1, FirstOfIs
  <1>5. m \in 0..Len(R)
    <2> HIDE DEF R, places
    <2> QED
      BY <1>1, <1>4
  <1>6. /\ left \in Seq(Selection)
        /\ Len(Q) <= Len(R) - m
        /\ Len(Q) = Len(R) - m => \A j \in 1..Len(Q) : Q[j] = R[m + j]
        /\ (\A i, j \in 1..Len(R) : R[i] = R[j] => i = j) => Len(Q) = Len(R) - m
    <2> HIDE DEF places
    <2> QED
      BY <1>1, <1>4, <1>5, Taken DEF left
  <1>7. Q \in Seq(Place) /\ Len(Q) \in Nat
    BY <1>6, PlacesType
  <1>8. /\ values \in Seq(Value) /\ Len(values) = m
        /\ \A i \in 1..m : /\ PlaceOf(values[i]) = places[i]
                           /\ values[i].n = register[places[i].bank][places[i].pcr]
    BY <1>4, ValuesOfIs
  <1>9. W \in Seq(Value) /\ W = V \o values
    <2> HIDE DEF values
    <2> QED
      BY <1>1, <1>8, FlattenAppend DEF Lines
  <1> HIDE DEF R, places, left, values, Q, L, V, W
  <1>10. /\ Len(W) = Len(V) + m
         /\ \A i \in 1..Len(V) : W[i] = V[i]
         /\ \A i \in 1..m : W[Len(V) + i] = values[i]
    BY <1>1, <1>8, <1>9, ConcatProperties DEF m
  <1> HIDE DEF m
  <1>11. m \in Nat /\ Len(W) \in Nat
    BY <1>1, <1>5, <1>10
  <1>12. /\ Len(W) \in Nat /\ Len(V) \in Nat /\ Len(R) \in Nat /\ Len(L) \in Nat
         /\ Len(Q) \in Nat /\ m \in Nat
         /\ Len(V) + Len(R) <= Len(L) /\ Len(Q) <= Len(R) - m /\ Len(W) = Len(V) + m
    BY <1>1, <1>3, <1>6, <1>7, <1>10, <1>11
  <1>13. /\ Len(V) + Len(R) = Len(L) /\ Len(Q) = Len(R) - m => Len(W) + Len(Q) = Len(L)
         /\ Len(W) + Len(Q) = Len(L) => Len(V) + Len(R) = Len(L) /\ Len(Q) = Len(R) - m
    <2>1. PICK v \in Nat, k \in Nat, l \in Nat, q \in Nat, w \in Nat :
              v = Len(V) /\ k = Len(R) /\ l = Len(L) /\ q = Len(Q) /\ w = Len(W)
      BY <1>12
    <2>2. v + k <= l /\ q <= k - m /\ w = v + m /\ m \in Nat
      BY <1>12, <2>1
    <2>3. /\ v + k = l /\ q = k - m => w + q = l
          /\ w + q = l => v + k = l /\ q = k - m
      BY <2>2
    <2> QED
      BY <2>1, <2>3
  <1>14. ASSUME ~Duplicated(r.sel)
         PROVE  Len(W) + Len(Q) = Len(L)
    <2>1. \A i, j \in 1..Len(L) : L[i] = L[j] => i = j
      <3>1. DOMAIN L = 1..Len(L)
        BY <1>1
      <3> QED
        BY <1>14, <3>1 DEF Duplicated, IsInjective, L
    <2>2. Len(V) + Len(R) = Len(L) /\ \A j \in 1..Len(R) : R[j] = L[Len(V) + j]
      BY <1>3, <1>14
    <2>3. ASSUME NEW i \in 1..Len(R), NEW j \in 1..Len(R), R[i] = R[j]
          PROVE  i = j
      <3>1. Len(V) + i \in 1..Len(L) /\ Len(V) + j \in 1..Len(L)
        BY <1>1, <2>2
      <3>2. L[Len(V) + i] = L[Len(V) + j]
        BY <2>2, <2>3
      <3>3. Len(V) + i = Len(V) + j
        BY <2>1, <3>1, <3>2
      <3> QED
        BY <1>1, <3>3
    <2>4. Len(Q) = Len(R) - m
      BY <1>6, <2>3
    <2> QED
      BY <1>13, <2>2, <2>4
  <1>15. Len(W) + Len(Q) <= Len(L)
    BY <1>12
  <1>16. ASSUME Len(W) + Len(Q) = Len(L)
         PROVE  /\ \A i \in 1..Len(W) : PlaceOf(W[i]) = L[i]
                /\ \A j \in 1..Len(Q) : Q[j] = L[Len(W) + j]
    <2>1. Len(V) + Len(R) = Len(L) /\ Len(Q) = Len(R) - m
      BY <1>13, <1>16
    <2>2. /\ \A i \in 1..Len(V) : PlaceOf(V[i]) = L[i]
          /\ \A j \in 1..Len(R) : R[j] = L[Len(V) + j]
          /\ \A j \in 1..Len(Q) : Q[j] = R[m + j]
      BY <1>3, <1>6, <2>1
    <2>3. ASSUME NEW i \in 1..Len(W)
          PROVE  PlaceOf(W[i]) = L[i]
      <3>1. CASE i <= Len(V)
        BY <1>1, <1>10, <1>11, <2>2, <3>1
      <3>2. CASE i > Len(V)
        <4>1. PICK k \in 1..m : i = Len(V) + k
          <5>1. i - Len(V) \in 1..m /\ i = Len(V) + (i - Len(V))
            BY <1>1, <1>10, <1>11, <3>2
          <5> QED
            BY <5>1
        <4>2. k \in 1..Len(R)
          BY <1>1, <1>5, <1>11
        <4>3. PlaceOf(W[i]) = places[k] /\ places[k] = R[k] /\ R[k] = L[Len(V) + k]
          BY <1>4, <1>8, <1>10, <2>2, <4>1, <4>2
        <4> QED
          BY <4>1, <4>3
      <3> QED
        BY <1>1, <1>11, <3>1, <3>2
    <2>4. ASSUME NEW j \in 1..Len(Q)
          PROVE  Q[j] = L[Len(W) + j]
      <3>1. m + j \in 1..Len(R)
        BY <1>1, <1>7, <1>11, <2>1
      <3>2. Q[j] = L[Len(V) + (m + j)]
        BY <2>2, <3>1
      <3>3. Len(V) + (m + j) = Len(W) + j
        BY <1>1, <1>7, <1>10, <1>11
      <3> QED
        BY <3>2, <3>3
    <2> QED
      BY <2>3, <2>4
  <1>17. Len(Q) > 0 => m = Batch
    BY <1>1, <1>4, <1>6, <1>7, <1>11
  <1>18. ASSUME NEW i \in 1..Len(W), ~(i <= Len(V))
         PROVE  W[i].n = register[W[i].bank][W[i].pcr]
    <2>1. PICK k \in 1..m : i = Len(V) + k
      <3>1. i - Len(V) \in 1..m /\ i = Len(V) + (i - Len(V))
        BY <1>1, <1>10, <1>11, <1>18
      <3> QED
        BY <3>1
    <2>2. W[i] = values[k] /\ PlaceOf(values[k]) = places[k]
            /\ values[k].n = register[places[k].bank][places[k].pcr]
      BY <1>8, <1>10, <2>1
    <2>3. values[k].bank = places[k].bank /\ values[k].pcr = places[k].pcr
      BY <2>2 DEF PlaceOf
    <2> QED
      BY <2>2, <2>3
  <1>19. Batched(r, places, values, Q)
    BY <1>9, <1>10, <1>14, <1>15, <1>16, <1>17, <1>18 DEF Batched, L, V, W, m
  <1> QED
    BY <1>4, <1>6, <1>8, <1>19 DEF R, places, left, values, Q

\* A turn of the loop keeps the walk, whether it is the last one, there is room for
\* another one, or there is none.
LEMMA BatchSane ==
    ASSUME register \in [Banks -> [Pcrs -> Nat]],
           NEW r \in Process, Sane(r), Fresh(r), r.pc = "read",
           NEW places \in Seq(Place), NEW left \in Seq(Selection), NEW values \in Seq(Value),
           Batched(r, places, values, Places(left)),
           NEW t \in Process,
           t.tool = r.tool, t.bank = r.bank, t.asked = r.asked, t.sel = r.sel, t.out = r.out,
           t.source = r.source, t.message = r.message, t.held = r.held, t.alone = r.alone,
           t.left = left, t.lists = Append(r.lists, values),
           \/ t.pc = "label" /\ Len(Places(left)) = 0
           \/ t.pc = "read" /\ Len(t.lists) < MaxLists /\ Len(Places(left)) > 0
           \/ /\ t.pc = "idle" /\ t.rc # "success"
              /\ Len(t.lists) >= MaxLists /\ Len(Places(left)) > 0
    PROVE  Sane(t) /\ Fresh(t)
  <1> DEFINE L == Places(r.sel)
             V == Lines(r)
             W == Lines(t)
             Q == Places(left)
             n == Len(r.lists)
  <1>1. /\ Len(L) \in Nat /\ Len(V) \in Nat /\ Len(Q) \in Nat /\ V \in Seq(Value)
        /\ n \in Nat /\ r.lists \in Seq(Seq(Value)) /\ Len(places) \in Nat
        /\ MaxLists \in Nat \ {0} /\ Batch \in Nat \ {0}
    BY FieldsIs, PlacesType, PcrAssumption
  <1>2. r.tool \in {"pcrread", "quote"} /\ n < MaxLists /\ Len(V) = Batch * n
    BY DEF Sane, Kind, Batches
  <1>3. Len(t.lists) = n + 1
    BY <1>1, AppendProperties
  <1>4. /\ W \in Seq(Value) /\ Len(W) = Len(V) + Len(places)
        /\ Len(W) + Len(Q) <= Len(L)
        /\ Len(W) + Len(Q) = Len(L) =>
              /\ \A i \in 1..Len(W) : PlaceOf(W[i]) = L[i]
              /\ \A j \in 1..Len(Q) : Q[j] = L[Len(W) + j]
        /\ ~Duplicated(r.sel) => Len(W) + Len(Q) = Len(L)
        /\ Len(Q) > 0 => Len(places) = Batch
        /\ \A i \in 1..Len(W) : \/ i <= Len(V) /\ W[i] = V[i]
                                \/ W[i].n = register[W[i].bank][W[i].pcr]
    BY DEF Batched, Lines
  <1>5. Len(W) \in Nat
    BY <1>1, <1>4
  <1>6. Len(Q) > 0 => Len(W) = Batch * (n + 1)
    <2>1. Batch * (n + 1) = Batch * n + Batch
      BY <1>1
    <2> HIDE DEF V, W, Q, n
    <2> QED
      BY <1>2, <1>4, <2>1
  <1>7. Kind(t) /\ Bounded(t)
    <2>1. Len(t.lists) <= MaxLists
      BY <1>1, <1>2, <1>3
    <2>2. Bounded(t)
      BY <2>1 DEF Sane, Bounded
    <2>3. Kind(t)
      BY <1>2 DEF Sane, Kind, Ok
    <2> QED
      BY <2>2, <2>3
  <1>8. Batches(t)
    BY <1>3, <1>6 DEF Batches
  <1>9. Walking(t)
    <2>1. CASE t.pc = "label"
      <3>1. Len(Q) = 0 /\ Rest(t) = <<>> /\ Len(Rest(t)) = 0 /\ t.sel = r.sel
        BY <2>1 DEF Rest
      <3>2. /\ Len(W) + 0 <= Len(L)
            /\ Len(W) + 0 = Len(L) => \A i \in 1..Len(W) : PlaceOf(W[i]) = L[i]
            /\ ~Duplicated(r.sel) => Len(W) + 0 = Len(L)
        BY <1>4, <3>1
      <3> HIDE DEF W, Q
      <3> QED
        BY <3>1, <3>2 DEF Walking, W
    <2>2. CASE t.pc = "read"
      <3>1. Rest(t) = Q /\ t.sel = r.sel
        BY <2>2 DEF Rest
      <3> HIDE DEF Q, W
      <3> QED
        BY <1>4, <3>1 DEF Walking, W
    <2>3. CASE t.pc = "idle"
      BY <2>3 DEF Walking
    <2> QED
      BY <2>1, <2>2, <2>3
  <1>10. Result(t)
    <2>1. r.tool = "quote" => Holding(r)
      BY DEF Sane, Result
    <2>2. Holding(r) => Holding(t)
      BY DEF Holding
    <2> QED
      BY <1>2, <2>1, <2>2 DEF Result, Ok
  <1>11. Caused(t)
    <2>1. ASSUME t.pc = "idle", ~Duplicated(r.sel)
          PROVE  Len(L) > Batch * MaxLists
      <3>1. Len(Q) > 0 /\ n + 1 >= MaxLists
        BY <1>3, <2>1
      <3>2. n + 1 = MaxLists
        BY <1>1, <1>2, <3>1
      <3>3. Len(W) = Batch * MaxLists
        BY <1>6, <3>1, <3>2
      <3>4. Len(W) + Len(Q) = Len(L)
        BY <1>4, <2>1
      <3> HIDE DEF W, Q, L
      <3>5. PICK w \in Nat, q \in Nat : w = Len(W) /\ q = Len(Q)
        BY <1>1, <1>5
      <3>6. w + q > w
        BY <3>1, <3>5
      <3> QED
        BY <3>3, <3>4, <3>5, <3>6
    <2> QED
      BY <2>1 DEF Caused
  <1>12. Fresh(t)
    <2> SUFFICES ASSUME t.tool = "pcrread", t.alone, t.pc \in {"read", "label"},
                        NEW i \in 1..Len(W)
                 PROVE  W[i].n = register[W[i].bank][W[i].pcr]
      BY <1>2 DEF Fresh, Ok
    <2>1. CASE i <= Len(V) /\ W[i] = V[i]
      <3>1. i \in 1..Len(V)
        BY <1>1, <1>5, <2>1
      <3> QED
        BY <2>1, <3>1 DEF Fresh
    <2> QED
      BY <1>4, <2>1
  <1> QED
    BY <1>7, <1>8, <1>9, <1>10, <1>11, <1>12 DEF Sane

\* One turn of the loop of pcr_read_pcr_values.
LEMMA ReadBatchGoes ==
    ASSUME Ready, NEW p \in Procs, ReadBatch(p)
    PROVE  \E t : Goes(p, t) /\ Sane(t) /\ Fresh(t) /\ register' = register
  <1> DEFINE r == proc[p]
             places == FirstOf(Batch, Places(r.left))
             left == Without(r.left, places)
             values == ValuesOf(places)
             lists == Append(r.lists, values)
  <1>1. /\ r \in Process /\ Sane(r) /\ Fresh(r) /\ r.pc = "read"
        /\ register' = register /\ proc \in [Procs -> Process]
        /\ register \in [Banks -> [Pcrs -> Nat]]
    BY DEF Ready, Types, ReadBatch
  <1>2. /\ places \in Seq(Place) /\ left \in Seq(Selection) /\ values \in Seq(Value)
        /\ Batched(r, places, values, Places(left))
    BY <1>1, BatchIs DEF Sane
  <1>3. lists \in Seq(Seq(Value)) /\ Len(lists) \in Nat /\ MaxLists \in Nat
    BY <1>1, <1>2, FieldsIs, PcrAssumption
  <1>4. Unset(left) <=> Len(Places(left)) = 0
    BY <1>2, UnsetIs
  <1>5. Len(Places(left)) \in Nat
    BY <1>2, PlacesType
  <1>6. CASE Unset(left)
    <2> DEFINE t == [r EXCEPT !.left = left, !.lists = lists, !.pc = "label"]
    <2>1. proc' = [proc EXCEPT ![p] = t]
      <3>1. proc' = [proc EXCEPT ![p].left = left, ![p].lists = lists, ![p].pc = "label"]
        BY <1>6 DEF ReadBatch, Extended
      <3> HIDE DEF left, lists
      <3> QED
        BY <1>1, <3>1
    <2>2. Len(Places(left)) = 0
      BY <1>6, <1>3, <1>4, <1>5 DEF NoRoom
    <2> HIDE DEF r, left, values, places, lists
    <2>3. /\ t.tool = r.tool /\ t.rc = r.rc /\ t.bank = r.bank /\ t.out = r.out
        /\ t.source = r.source /\ t.asked = r.asked /\ t.sel = r.sel
        /\ t.message = r.message /\ t.signature = r.signature /\ t.todo = r.todo
        /\ t.run = r.run /\ t.held = r.held /\ t.alone = r.alone /\ t.fault = r.fault
        /\ t.origins = r.origins
        /\ t.pc = "label"
        /\ t.left = left
        /\ t.lists = lists
      BY <1>1 DEF Process
    <2>4. t \in Process
      BY <1>1, <1>2, <1>3, Zenon DEF Process
    <2> HIDE DEF t
    <2>5. Sane(t) /\ Fresh(t)
      BY <1>1, <1>2, <2>2, <2>3, <2>4, BatchSane DEF lists
    <2> QED
      BY <1>1, <2>1, <2>4, <2>5 DEF Goes
  <1>7. CASE ~Unset(left) /\ ~NoRoom(lists)
    <2> DEFINE t == [r EXCEPT !.left = left, !.lists = lists]
    <2>1. proc' = [proc EXCEPT ![p] = t]
      <3>1. proc' = [proc EXCEPT ![p].left = left, ![p].lists = lists]
        BY <1>7 DEF ReadBatch, Extended
      <3> HIDE DEF left, lists
      <3> QED
        BY <1>1, <3>1
    <2>2. Len(Places(left)) > 0 /\ Len(lists) < MaxLists
      BY <1>7, <1>3, <1>4, <1>5 DEF NoRoom
    <2> HIDE DEF r, left, values, places, lists
    <2>3. /\ t.tool = r.tool /\ t.pc = r.pc /\ t.rc = r.rc /\ t.bank = r.bank
        /\ t.out = r.out /\ t.source = r.source /\ t.asked = r.asked /\ t.sel = r.sel
        /\ t.message = r.message /\ t.signature = r.signature /\ t.todo = r.todo
        /\ t.run = r.run /\ t.held = r.held /\ t.alone = r.alone /\ t.fault = r.fault
        /\ t.origins = r.origins
        /\ t.left = left
        /\ t.lists = lists
      BY <1>1 DEF Process
    <2>4. t \in Process
      BY <1>1, <1>2, <1>3, Zenon DEF Process
    <2> HIDE DEF t
    <2>5. Sane(t) /\ Fresh(t)
      BY <1>1, <1>2, <2>2, <2>3, <2>4, BatchSane DEF lists
    <2> QED
      BY <1>1, <2>1, <2>4, <2>5 DEF Goes
  <1>8. CASE ~Unset(left) /\ NoRoom(lists)
    <2> DEFINE t == [r EXCEPT !.left = left, !.lists = lists, !.pc = "idle", !.rc = "general_error"]
    <2>1. proc' = [proc EXCEPT ![p] = t]
      <3>1. proc' = [proc EXCEPT ![p].left = left, ![p].lists = lists, ![p].pc = "idle",
                                 ![p].rc = "general_error"]
        BY <1>8 DEF ReadBatch, Extended
      <3> HIDE DEF left, lists
      <3> QED
        BY <1>1, <3>1
    <2>2. Len(Places(left)) > 0 /\ Len(lists) >= MaxLists
      BY <1>8, <1>3, <1>4, <1>5 DEF NoRoom
    <2> HIDE DEF r, left, values, places, lists
    <2>3. /\ t.tool = r.tool /\ t.bank = r.bank /\ t.out = r.out /\ t.source = r.source
        /\ t.asked = r.asked /\ t.sel = r.sel /\ t.message = r.message
        /\ t.signature = r.signature /\ t.todo = r.todo /\ t.run = r.run
        /\ t.held = r.held /\ t.alone = r.alone /\ t.fault = r.fault
        /\ t.origins = r.origins
        /\ t.pc = "idle"
        /\ t.rc = "general_error"
        /\ t.left = left
        /\ t.lists = lists
      BY <1>1 DEF Process
    <2>4. t \in Process
      BY <1>1, <1>2, <1>3, Zenon DEF Process
    <2> HIDE DEF t
    <2>5. Sane(t) /\ Fresh(t)
      BY <1>1, <1>2, <2>2, <2>3, <2>4, BatchSane DEF lists
    <2> QED
      BY <1>1, <2>1, <2>4, <2>5 DEF Goes
  <1> QED
    BY <1>6, <1>7, <1>8

\* pcrextend and pcrreset change one PCR: who has been reading is no longer alone.
LEMMA ChangeSane ==
    ASSUME Ready, NEW p \in Procs, ChangePcr(p)
    PROVE  /\ register' \in [Banks -> [Pcrs -> Nat]] /\ proc' \in [Procs -> Process]
           /\ \A q \in Procs : Sane(proc'[q]) /\ Fresh(proc[q])'
  <1>1. /\ proc \in [Procs -> Process] /\ register \in [Banks -> [Pcrs -> Nat]]
        /\ \A q \in Procs : Sane(proc[q]) /\ proc[q] \in Process
        /\ proc[p].pc = "change" /\ proc[p].todo # <<>>
    BY DEF Ready, Types, ChangePcr
  <1>2. proc[p].tool \in {"pcrextend", "pcrreset"}
    BY <1>1 DEF Sane, Kind
  <1>3. register' \in [Banks -> [Pcrs -> Nat]]
    <2>1. register' = Changed(p, Head(proc[p].todo))
      BY DEF ChangePcr
    <2>2. ASSUME NEW b \in Banks, NEW n \in Pcrs
          PROVE  register[b][n] \in Nat /\ register[b][n] + 1 \in Nat
      BY <1>1
    <2> QED
      BY <2>1, <2>2 DEF Changed
  <1>4. ASSUME NEW q \in Procs
        PROVE  proc'[q] \in Process /\ Sane(proc'[q]) /\ Fresh(proc[q])'
    <2> DEFINE r == proc[q]
               t == proc'[q]
               u == [r EXCEPT !.todo = Tail(r.todo)]
               v == [r EXCEPT !.alone = FALSE]
    <2>1. r \in Process /\ Sane(r)
      BY <1>1
    <2>2. t = IF q = p THEN u ELSE v
      BY DEF ChangePcr
    <2>3. ASSUME NEW x \in Process, x.tool = r.tool, x.pc = r.pc, x.rc = r.rc, x.bank = r.bank,
                 x.out = r.out, x.source = r.source, x.asked = r.asked, x.sel = r.sel,
                 x.left = r.left, x.lists = r.lists, x.message = r.message, x.held = r.held,
                 x.fault = r.fault
          PROVE  Sane(x)
      <3>1. Lines(x) = Lines(r) /\ Rest(x) = Rest(r)
        BY <2>3 DEF Lines, Rest
      <3> HIDE DEF r
      <3>2. Kind(x) /\ Bounded(x)
        BY <2>1, <2>3, <3>1 DEF Sane, Kind, Bounded, Ok
      <3>3. Walking(x) /\ Batches(x)
        BY <2>1, <2>3, <3>1 DEF Sane, Walking, Batches
      <3>4. (Holding(r) => Holding(x)) /\ (InPlace(r) => InPlace(x))
        BY <2>3, <3>1 DEF Holding, InPlace
      <3>5. Result(x) /\ Caused(x)
        BY <2>1, <2>3, <3>1, <3>4 DEF Sane, Result, Caused, Ok
      <3> QED
        BY <3>2, <3>3, <3>5 DEF Sane
    <2>4. CASE q = p
      <3>1. r.todo # <<>> /\ r.tool \in {"pcrextend", "pcrreset"}
        BY <1>1, <1>2, <2>4
      <3>2. t = u
        BY <2>2, <2>4
      <3> HIDE DEF r, t
      <3>3. Tail(r.todo) \in Seq(Extension)
        <4>1. r.todo \in Seq(Extension)
          BY <2>1 DEF Process
        <4> QED
          BY <3>1, <4>1, HeadTailProperties
      <3>4. u \in Process
        BY <2>1, <3>3, Zenon DEF Process
      <3>5. /\ u.tool = r.tool /\ u.pc = r.pc /\ u.rc = r.rc /\ u.bank = r.bank
        /\ u.out = r.out /\ u.source = r.source /\ u.asked = r.asked /\ u.sel = r.sel
        /\ u.left = r.left /\ u.lists = r.lists /\ u.message = r.message
        /\ u.signature = r.signature /\ u.run = r.run /\ u.held = r.held
        /\ u.alone = r.alone /\ u.fault = r.fault /\ u.origins = r.origins
        /\ u.todo = Tail(r.todo)
        BY <2>1 DEF Process
      <3> HIDE DEF u
      <3>6. Sane(u)
        BY <2>3, <3>4, <3>5
      <3> QED
        BY <3>1, <3>2, <3>4, <3>5, <3>6 DEF Fresh, t
    <2>5. CASE q # p
      <3>1. t = v
        BY <2>2, <2>5
      <3> HIDE DEF r, t
      <3>2. v \in Process
        BY <2>1, Zenon DEF Process
      <3>3. /\ v.tool = r.tool /\ v.pc = r.pc /\ v.rc = r.rc /\ v.bank = r.bank
        /\ v.out = r.out /\ v.source = r.source /\ v.asked = r.asked /\ v.sel = r.sel
        /\ v.left = r.left /\ v.lists = r.lists /\ v.message = r.message
        /\ v.signature = r.signature /\ v.todo = r.todo /\ v.run = r.run
        /\ v.held = r.held /\ v.fault = r.fault /\ v.origins = r.origins
        /\ v.alone = FALSE
        BY <2>1 DEF Process
      <3> HIDE DEF v
      <3>4. Sane(v)
        BY <2>3, <3>2, <3>3
      <3> QED
        BY <3>1, <3>2, <3>3, <3>4 DEF Fresh, t
    <2> QED
      BY <2>4, <2>5
  <1>5. proc' \in [Procs -> Process]
    <2>1. proc' = [q \in Procs |-> proc'[q]]
      BY DEF ChangePcr
    <2> QED
      BY <1>4, <2>1
  <1> QED
    BY <1>3, <1>4, <1>5

-----------------------------------------------------------------------------
(* All steps together, and what follows from them.                         *)
\* Every step keeps the type of the files and of what they hold.
LEMMA FilesStep ==
    ASSUME Ready, NEW p \in Procs, Start(p) \/ Step(p) \/ Fail(p)
    PROVE  /\ file' \in [sig: Message, msg: Message, pcrs: PcrFile, raw: Seq(Value)]
           /\ FileTypes' /\ runs' \in 0..MaxRuns
  <1>1. /\ proc[p] \in Process /\ Sane(proc[p]) /\ FileTypes /\ runs \in 0..MaxRuns
        /\ file \in [sig: Message, msg: Message, pcrs: PcrFile, raw: Seq(Value)]
    BY DEF Ready, Types
  <1>2. /\ Nothing \in Message /\ Nothing.by \in 0..MaxRuns
        /\ NoPcrFile \in PcrFile /\ NoPcrFile.by \in 0..MaxRuns
        /\ Len(NoPcrFile.lists) <= MaxLists /\ <<>> \in Seq(Value)
    <2>1. <<>> \in Seq(Selection) /\ <<>> \in Seq(Seq(Value)) /\ <<>> \in Seq(Value)
      OBVIOUS
    <2> QED
      BY <2>1, RunsAssumption, PcrAssumption DEF Nothing, Message, NoPcrFile, PcrFile
  <1>3. CASE file' = file /\ runs' \in 0..MaxRuns
    BY <1>1, <1>3 DEF FileTypes
  <1>4. CASE Start(p)
    <2>1. file' = file /\ runs' = runs + 1 /\ runs < MaxRuns
      BY <1>4 DEF Start, PcrRead, QuoteTool, CheckQuote, PolicyPcr, PcrExtend, PcrReset, Invoke
    <2> QED
      BY <1>1, <1>3, <2>1, RunsAssumption
  <1>5. CASE OpenOutput(p)
    <2>1. \/ file' = [file EXCEPT !.pcrs = NoPcrFile]
          \/ file' = [file EXCEPT !.raw = <<>>]
      BY <1>5 DEF OpenOutput
    <2> QED
      BY <1>1, <1>2, <1>5, <2>1 DEF OpenOutput, FileTypes
  <1>6. CASE PrintValues(p)
    <2>1. Walked(p) \in Seq(Value)
      BY <1>1, FieldsIs, FirstOfIs DEF Walked, Labels, Values, Lines
    <2>2. file' = file \/ file' = [file EXCEPT !.raw = Walked(p)]
      BY <1>6 DEF PrintValues
    <2> QED
      BY <1>1, <1>6, <2>1, <2>2 DEF PrintValues, FileTypes
  <1>7. CASE SaveSignature(p)
    <2>1. proc[p].message \in Message /\ proc[p].message.by \in 0..MaxRuns
      BY <1>1 DEF Process, Sane, Bounded
    <2>2. \/ file' = file
          \/ file' = [file EXCEPT !.sig = proc[p].message]
          \/ file' = [file EXCEPT !.sig = Nothing]
      BY <1>7 DEF SaveSignature, Save
    <2> QED
      BY <1>1, <1>2, <1>7, <2>1, <2>2 DEF SaveSignature, Save, FileTypes
  <1>8. CASE SaveMessage(p)
    <2>1. proc[p].message \in Message /\ proc[p].message.by \in 0..MaxRuns
      BY <1>1 DEF Process, Sane, Bounded
    <2>2. \/ file' = file
          \/ file' = [file EXCEPT !.msg = proc[p].message]
          \/ file' = [file EXCEPT !.msg = Nothing]
      BY <1>8 DEF SaveMessage, Save
    <2> QED
      BY <1>1, <1>2, <1>8, <2>1, <2>2 DEF SaveMessage, Save, FileTypes
  <1>9. CASE SavePcrs(p)
    <2> DEFINE f == PcrFileOf(p)
    <2>1. f \in PcrFile /\ f.by \in 0..MaxRuns /\ Len(f.lists) <= MaxLists
      <3>1. proc[p].tool = "quote"
        BY <1>9 DEF SavePcrs, Running
      <3>2. Len(proc[p].lists) <= MaxLists
        BY <1>1, <3>1 DEF Sane, Bounded
      <3>3. proc[p].run \in 0..MaxRuns /\ proc[p].run \in Nat
        BY <1>1, RunsAssumption DEF Process
      <3> QED
        BY <1>1, <3>2, <3>3, FieldsIs DEF PcrFileOf, PcrFile
    <2>2. \/ file' = file
          \/ file' = [file EXCEPT !.pcrs = f]
          \/ file' = [file EXCEPT !.pcrs = NoPcrFile]
      BY <1>9 DEF SavePcrs, Save
    <2> HIDE DEF f
    <2> QED
      BY <1>1, <1>2, <1>9, <2>1, <2>2 DEF SavePcrs, Save, FileTypes
  <1>10. CASE \/ GetBanks(p) \/ ReadBatch(p) \/ Quote(p) \/ CompareQuote(p)
              \/ LoadMessage(p) \/ LoadSignature(p) \/ LoadPcrs(p) \/ LoadPlain(p) \/ Verify(p)
              \/ GatherValues(p) \/ PolicyCommand(p) \/ ChangePcr(p) \/ Changes(p) \/ Fail(p)
    BY <1>1, <1>3, <1>10 DEF GetBanks, ReadBatch, Quote, CompareQuote, LoadMessage,
        LoadSignature, LoadPcrs, LoadPlain, Verify, GatherValues, PolicyCommand, ChangePcr,
        Changes, Fail
  <1> QED
    BY <1>4, <1>5, <1>6, <1>7, <1>8, <1>9, <1>10 DEF Step

\* Every step of a process but those that change a PCR.
LEMMA Going ==
    ASSUME Ready, NEW p \in Procs, Start(p) \/ Step(p) \/ Fail(p), ~ChangePcr(p)
    PROVE  \E t : Goes(p, t) /\ Sane(t) /\ Fresh(t) /\ register' = register
  <1>1. CASE Start(p)
    BY <1>1, PcrReadGoes, QuoteToolGoes, CheckQuoteGoes, PolicyPcrGoes, PcrExtendGoes,
       PcrResetGoes DEF Start
  <1>2. CASE Step(p)
    BY <1>2, OpenOutputGoes, GetBanksGoes, ReadBatchGoes, PrintValuesGoes, QuoteGoes,
       CompareQuoteGoes, SaveGoes, LoadMessageGoes, LoadSignatureGoes, LoadPcrsGoes,
       LoadPlainGoes, VerifyGoes, GatherValuesGoes, PolicyCommandGoes, ChangesGoes DEF Step
  <1> QED
    BY <1>1, <1>2, FailGoes

\* Ready is inductive.
LEMMA ReadyInit == Init => Ready
  <1> SUFFICES ASSUME Init PROVE Ready
    OBVIOUS
  <1>1. <<>> \in Seq(Selection) /\ <<>> \in Seq(Seq(Value)) /\ <<>> \in Seq(Value)
          /\ Nothing \in Message /\ NoPcrFile \in PcrFile
    <2>1. <<>> \in Seq(Selection) /\ <<>> \in Seq(Seq(Value)) /\ <<>> \in Seq(Value)
      OBVIOUS
    <2> QED
      BY <2>1 DEF Nothing, Message, NoPcrFile, PcrFile
  <1>2. Types
    BY <1>1, IdleIs, RunsAssumption DEF Init, Types
  <1>3. FileTypes
    BY PcrAssumption, RunsAssumption DEF Init, FileTypes, Nothing, NoPcrFile
  <1>4. Sane(Idle)
    <2>1. /\ Idle.tool = "none" /\ Idle.pc = "idle" /\ Idle.rc = "success" /\ Idle.source = "none"
          /\ Idle.lists = <<>> /\ Idle.message.by = 0
      BY DEF Idle, Nothing
    <2>2. Kind(Idle) /\ Bounded(Idle)
      BY <2>1, PcrAssumption, RunsAssumption DEF Kind, Bounded, Ok
    <2>3. Walking(Idle) /\ Batches(Idle) /\ Result(Idle) /\ Caused(Idle)
      BY <2>1 DEF Walking, Batches, Result, Caused, Ok
    <2> QED
      BY <2>2, <2>3 DEF Sane
  <1>5. \A p \in Procs : proc[p] = Idle
    BY DEF Init
  <1>6. \A p \in Procs : Fresh(proc[p])
    <2>1. Idle.tool = "none"
      BY DEF Idle
    <2> QED
      BY <1>5, <2>1 DEF Fresh
  <1> QED
    BY <1>2, <1>3, <1>4, <1>5, <1>6 DEF Ready

\* Ready is inductive: every step.
LEMMA ReadyStep == Ready /\ [Next]_vars => Ready'
  <1> SUFFICES ASSUME Ready, [Next]_vars PROVE Ready'
    OBVIOUS
  <1>1. CASE UNCHANGED vars
    BY <1>1 DEF vars, Ready, Types, FileTypes, Fresh
  <1>2. CASE \E p \in Procs : Start(p) \/ Step(p) \/ Fail(p)
    <2>1. PICK p \in Procs : Start(p) \/ Step(p) \/ Fail(p)
      BY <1>2
    <2>2. /\ file' \in [sig: Message, msg: Message, pcrs: PcrFile, raw: Seq(Value)]
          /\ FileTypes' /\ runs' \in 0..MaxRuns
      BY <2>1, FilesStep
    <2>3. /\ register' \in [Banks -> [Pcrs -> Nat]] /\ proc' \in [Procs -> Process]
          /\ \A q \in Procs : Sane(proc'[q]) /\ Fresh(proc[q])'
      <3>1. CASE ChangePcr(p)
        BY <3>1, ChangeSane
      <3>2. CASE ~ChangePcr(p)
        <4>1. PICK t : Goes(p, t) /\ Sane(t) /\ Fresh(t) /\ register' = register
          BY <2>1, <3>2, Going
        <4>2. \A q \in Procs : Sane(proc'[q]) /\ Fresh(proc[q])'
          BY <4>1, SaneOthers
        <4>3. proc' \in [Procs -> Process]
          BY <4>1, Others DEF Ready
        <4> QED
          BY <4>1, <4>2, <4>3 DEF Ready, Types
      <3> QED
        BY <3>1, <3>2
    <2> QED
      BY <2>2, <2>3 DEF Ready, Types
  <1>3. CASE Finished
    BY <1>1, <1>3 DEF Finished
  <1> QED
    BY <1>1, <1>2, <1>3 DEF Next
\* Ready is an invariant.
LEMMA ReadyAlways == Spec => []Ready
BY ReadyInit, ReadyStep, PTL DEF Spec

(***************************************************************************)
(* Types, and that no tool but checkquote overruns the lists of its        *)
(* tpm2_pcrs: the loop of pcr_read_pcr_values stops at TPM2_MAX_PCRS.      *)
(***************************************************************************)
THEOREM PcrTypes == Spec => []TypeOK
  <1>1. Ready => TypeOK
    <2> SUFFICES ASSUME Ready PROVE TypeOK
      OBVIOUS
    <2>1. \A p \in Procs : proc[p].tool # "checkquote" => Len(proc[p].lists) <= MaxLists
      BY DEF Ready, Sane, Bounded
    <2> QED
      BY <2>1 DEF Ready, Types, TypeOK
  <1> QED
    BY <1>1, ReadyAlways, PTL

\* What has been read is as long as its labels, and all of it is walked.
LEMMA WalkedIs ==
    ASSUME Ready, NEW p \in Procs, Len(Lines(proc[p])) = Len(Places(proc[p].sel))
    PROVE  Walked(p) = Lines(proc[p]) /\ Values(p) = Lines(proc[p])
  <1> DEFINE V == Lines(proc[p])
  <1>1. V \in Seq(Value) /\ Len(V) \in Nat
    BY FieldsIs DEF Ready, Types
  <1>2. Walked(p) = FirstOf(Len(V), V) /\ Values(p) = V
    BY DEF Walked, Labels, Values, Lines
  <1> HIDE DEF V
  <1>3. /\ FirstOf(Len(V), V) \in Seq(Value) /\ Len(FirstOf(Len(V), V)) = Len(V)
        /\ \A i \in 1..Len(FirstOf(Len(V), V)) : FirstOf(Len(V), V)[i] = V[i]
    BY <1>1, FirstOfIs
  <1>4. FirstOf(Len(V), V) = V
    BY <1>1, <1>3, SeqEqual
  <1> QED
    BY <1>2, <1>4 DEF V

(***************************************************************************)
(* Whatever is selected, however large a batch is, and whatever changes    *)
(* the PCRs meanwhile: a pcrread that exits with 0 puts every value under  *)
(* the bank and the number of the PCR it was read from, and misses none    *)
(* that was asked for.                                                     *)
(***************************************************************************)
THEOREM LinesAreInPlace == Spec => []LinesInPlace
  <1>1. Ready => LinesInPlace
    <2> SUFFICES ASSUME Ready, NEW p \in Procs, Succeeded(p, "pcrread")
                 PROVE  /\ \A i \in DOMAIN Labels(p) : PlaceOf(Values(p)[i]) = Labels(p)[i]
                        /\ ToSet(Labels(p)) = Asked(p)
      BY DEF LinesInPlace
    <2> DEFINE r == proc[p]
    <2>1. r \in Process /\ Sane(r) /\ r.tool = "pcrread" /\ Ok(r)
      BY DEF Ready, Types, Succeeded, Ended, Ok
    <2>2. InPlace(r) /\ r.sel = IF r.asked = <<>> THEN OfBank(r.bank) ELSE Checked(r.asked)
      BY <2>1 DEF Sane, Kind, Result
    <2>3. DOMAIN Labels(p) = 1..Len(Lines(r))
      BY <2>1, <2>2, FieldsIs DEF Labels, InPlace
    <2>4. \A i \in DOMAIN Labels(p) : PlaceOf(Values(p)[i]) = Labels(p)[i]
      BY <2>2, <2>3 DEF InPlace, Labels, Values, Lines
    <2>5. ToSet(Labels(p)) = Asked(p)
      BY <2>2 DEF Labels, Asked
    <2> QED
      BY <2>4, <2>5
  <1> QED
    BY <1>1, ReadyAlways, PTL

(***************************************************************************)
(* A pcrread during which no PCR has changed prints what is in the PCRs.   *)
(***************************************************************************)
THEOREM LinesAreUndisturbed == Spec => []UndisturbedLines
  <1>1. Ready => UndisturbedLines
    <2> SUFFICES ASSUME Ready, NEW p \in Procs, Succeeded(p, "pcrread"), proc[p].alone
                 PROVE  Walked(p) = ValuesOf(Labels(p))
      BY DEF UndisturbedLines
    <2> DEFINE r == proc[p]
               V == Lines(r)
               L == Places(r.sel)
    <2>1. r \in Process /\ Sane(r) /\ Fresh(r) /\ r.tool = "pcrread" /\ Ok(r) /\ r.alone
            /\ register \in [Banks -> [Pcrs -> Nat]]
      BY DEF Ready, Types, Succeeded, Ended, Ok
    <2>2. /\ V \in Seq(Value) /\ L \in Seq(Place) /\ Len(L) \in Nat
          /\ \A i \in 1..Len(L) : L[i] \in Place
      BY <2>1, FieldsIs
    <2>3. Len(V) = Len(L) /\ \A i \in 1..Len(V) : PlaceOf(V[i]) = L[i]
      BY <2>1 DEF Sane, Result, InPlace
    <2>4. Walked(p) = V
      BY <2>3, WalkedIs
    <2>5. \A i \in 1..Len(V) : V[i].n = register[V[i].bank][V[i].pcr]
      BY <2>1 DEF Fresh
    <2> DEFINE N == ValuesOf(L)
    <2>6. /\ N \in Seq(Value) /\ Len(N) = Len(L)
          /\ \A i \in 1..Len(L) : /\ PlaceOf(N[i]) = L[i]
                                  /\ N[i].n = register[L[i].bank][L[i].pcr]
      BY <2>1, <2>2, ValuesOfIs
    <2> HIDE DEF N, V, L
    <2>7. ASSUME NEW i \in 1..Len(V)
          PROVE  PlaceOf(V[i]) = PlaceOf(N[i]) /\ V[i].n = N[i].n
      <3>1. PlaceOf(V[i]) = L[i] /\ V[i].n = register[V[i].bank][V[i].pcr]
              /\ PlaceOf(N[i]) = L[i] /\ N[i].n = register[L[i].bank][L[i].pcr]
        BY <2>3, <2>5, <2>6
      <3>2. V[i].bank = L[i].bank /\ V[i].pcr = L[i].pcr
        BY <3>1 DEF PlaceOf
      <3> QED
        BY <3>1, <3>2
    <2>8. V = N
      BY <2>2, <2>3, <2>6, <2>7, SameValues
    <2> QED
      BY <2>4, <2>8 DEF N, L, Labels
  <1> QED
    BY <1>1, ReadyAlways, PTL

(***************************************************************************)
(* The PCR values that a successful quote writes are those that the PCRs   *)
(* had all together when TPM2_Quote was executed, although they are read   *)
(* later, batch by batch: the digests are compared before they are saved.  *)
(***************************************************************************)
THEOREM LinesAreQuoted == Spec => []QuotedLines
  <1>1. Ready => QuotedLines
    <2> SUFFICES ASSUME Ready, NEW p \in Procs, Succeeded(p, "quote"), proc[p].out
                 PROVE  Walked(p) = proc[p].held
      BY DEF QuotedLines
    <2>1. Sane(proc[p]) /\ proc[p].tool = "quote" /\ Ok(proc[p])
      BY DEF Ready, Succeeded, Ended, Ok
    <2>2. InPlace(proc[p]) /\ Lines(proc[p]) = proc[p].held
      BY <2>1 DEF Sane, Result
    <2> QED
      BY <2>2, WalkedIs DEF InPlace
  <1> QED
    BY <1>1, ReadyAlways, PTL

(***************************************************************************)
(* tpm2_policy_build_pcr makes a policy of all PCRs of the list, with the  *)
(* values that they had all together: lists that one read cannot return    *)
(* are refused.                                                            *)
(***************************************************************************)
THEOREM PolicyIsWhole == Spec => []PolicyWhole
  <1>1. Ready => PolicyWhole
    BY DEF Ready, Sane, Kind, PolicyWhole, Succeeded, Ended, Ok, Values, Lines
  <1> QED
    BY <1>1, ReadyAlways, PTL

(***************************************************************************)
(* A pcrread fails only because a call failed, nothing is left to read, a  *)
(* PCR is named twice, or tpm2_pcrs has no room: the loop that reads in    *)
(* batches neither gives up early nor runs out of values for its labels.   *)
(***************************************************************************)
THEOREM FailureIsCaused == Spec => []FailureHasCause
  <1>1. Ready => FailureHasCause
    BY DEF Ready, Sane, Caused, FailureHasCause, Ended, Labels
  <1> QED
    BY <1>1, ReadyAlways, PTL
-----------------------------------------------------------------------------
(* Which quote the messages and files are of.                              *)
\* What a step of a process does to the invocations and to what quotes have left: the
\* messages that come in addition, if any, are of the quote that it has just made.
Tracked(p, X) ==
    LET r == proc[p]
        t == proc'[p]
    IN  /\ \A q \in Procs \ {p} :
              /\ proc'[q].run = proc[q].run
              /\ proc'[q].message = proc[q].message /\ proc'[q].signature = proc[q].signature
              /\ ToQuote(proc'[q]) => ToQuote(proc[q])
        /\ {t.message, t.signature, file'.sig, file'.msg} \subseteq Marks \cup X
        /\ \/ X = {}
           \/ \E m : X = {m} /\ m.by = r.run /\ ToQuote(r)
        /\ \/ /\ runs' = runs /\ t.run \in {r.run, 0}
              /\ ToQuote(t) => ToQuote(r) /\ t.run = r.run /\ X = {}
           \/ runs' = runs + 1 /\ t.run = runs + 1 /\ X = {} /\ file'.pcrs = file.pcrs
        /\ \/ file'.pcrs \in {file.pcrs, NoPcrFile}
           \/ file'.pcrs = PcrFileOf(p) /\ r.tool = "quote" /\ r.pc = "pcrs" /\ X = {}

\* The messages after such a step.
LEMMA MarksIs ==
    ASSUME NEW p \in Procs, NEW X, Tracked(p, X)
    PROVE  Marks' \subseteq Marks \cup X
  <1> SUFFICES ASSUME NEW m \in Marks'
               PROVE  m \in Marks \cup X
    OBVIOUS
  <1>1. \/ m = Nothing \/ m = file'.sig \/ m = file'.msg
        \/ \E q \in Procs : m = proc'[q].message
        \/ \E q \in Procs : m = proc'[q].signature
    BY DEF Marks
  <1>2. /\ {proc'[p].message, proc'[p].signature, file'.sig, file'.msg} \subseteq Marks \cup X
        /\ \A q \in Procs \ {p} : proc'[q].message = proc[q].message
                                    /\ proc'[q].signature = proc[q].signature
    BY DEF Tracked
  <1>3. /\ Nothing \in Marks
        /\ \A q \in Procs : proc[q].message \in Marks /\ proc[q].signature \in Marks
    BY DEF Marks
  <1> QED
    BY <1>1, <1>2, <1>3

\* The numbers of invocations and messages are numbers.
Numbered ==
    /\ \A m \in Marks : m.by \in Nat
    /\ \A p \in Procs : proc[p].run \in Nat
    /\ file.pcrs.by \in Nat /\ runs \in Nat

\* That much follows from the types.
LEMMA NumberedIs == Ready => Numbered
  <1> SUFFICES ASSUME Ready PROVE Numbered
    OBVIOUS
  <1>1. /\ \A p \in Procs : proc[p] \in Process
        /\ file.sig \in Message /\ file.msg \in Message
        /\ file.pcrs.by \in Nat /\ runs \in Nat
    BY RunsAssumption DEF Ready, Types, FileTypes
  <1>2. \A p \in Procs : /\ proc[p].message \in Message /\ proc[p].signature \in Message
                         /\ proc[p].run \in Nat
    BY <1>1, RunsAssumption DEF Process
  <1>3. Nothing \in Message
    BY DEF Nothing, Message
  <1>4. \A m \in Marks : m \in Message
    BY <1>1, <1>2, <1>3 DEF Marks
  <1> QED
    BY <1>1, <1>2, <1>4 DEF Message, Numbered

\* A step as Tracked describes it makes no two quotes the same.
LEMMA DistinctStep ==
    ASSUME Ready, Ready', Distinct, NEW p \in Procs, NEW X, Tracked(p, X)
    PROVE  Distinct'
  <1> DEFINE r == proc[p]
             t == proc'[p]
  <1>1. /\ \A m \in Marks : m.by \in Nat /\ m.by <= runs
        /\ \A q \in Procs : proc[q].run \in Nat /\ proc[q].run <= runs
        /\ file.pcrs.by \in Nat /\ runs \in Nat /\ file.pcrs.by <= runs
    BY NumberedIs DEF Distinct, Numbered
  <1>2. /\ \A m \in Marks' : m.by \in Nat
        /\ \A q \in Procs : proc'[q].run \in Nat
        /\ file'.pcrs.by \in Nat /\ runs' \in Nat
    <2>1. Numbered'
      BY NumberedIs, PTL
    <2> QED
      BY <2>1 DEF Numbered
  <1>3. runs <= runs'
    BY <1>1 DEF Tracked
  <1>4. Marks' \subseteq Marks \cup X
    BY MarksIs
  <1>5. /\ \A m \in X : m.by = r.run /\ ToQuote(r)
        /\ \A m, n \in X : m = n
    BY DEF Tracked
  <1>6. \A q \in Procs : ToQuote(proc[q]) =>
            proc[q].run # 0 /\ \A m \in Marks : m.by # proc[q].run
    <2>1. Nothing \in Marks /\ Nothing.by = 0
      BY DEF Marks, Nothing
    <2> QED
      BY <2>1 DEF Distinct
  <1>7. \A q \in Procs : proc'[q].run <= runs'
    <2> SUFFICES ASSUME NEW q \in Procs PROVE proc'[q].run <= runs'
      OBVIOUS
    <2>1. CASE q = p
      BY <1>1, <1>2, <2>1 DEF Tracked
    <2>2. CASE q # p
      <3>1. proc'[q].run = proc[q].run
        BY <2>2 DEF Tracked
      <3> QED
        BY <1>1, <1>2, <1>3, <3>1
    <2> QED
      BY <2>1, <2>2
  <1>8. ASSUME NEW q \in Procs, NEW s \in Procs, proc'[q].run = proc'[s].run, q # s
        PROVE  proc'[q].run = 0
    <2>1. \A u \in Procs, v \in Procs : proc[u].run = proc[v].run => u = v \/ proc[u].run = 0
      BY DEF Distinct
    <2>2. \A u \in Procs \ {p} : proc'[u].run = proc[u].run /\ proc[u].run <= runs
      BY <1>1 DEF Tracked
    <2>3. t.run \in {r.run, 0} \/ t.run = runs + 1
      BY DEF Tracked
    <2>4. ASSUME NEW u \in Procs \ {p}, proc'[u].run = t.run
          PROVE  t.run = 0
      <3>1. proc[u].run = t.run /\ t.run # runs + 1
        BY <1>1, <2>2, <2>4
      <3> QED
        BY <2>1, <2>3, <3>1
    <2>5. CASE q = p \/ s = p
      BY <1>8, <2>4, <2>5
    <2>6. CASE q # p /\ s # p
      BY <1>8, <2>1, <2>2, <2>6
    <2> QED
      BY <2>5, <2>6
  <1>9. ASSUME NEW m \in Marks'
        PROVE  m.by <= runs'
    <2>1. m \in Marks \/ m.by = r.run
      BY <1>4, <1>5
    <2>2. m.by <= runs /\ m.by \in Nat
      BY <1>1, <2>1
    <2> QED
      BY <1>1, <1>2, <1>3, <2>2
  <1>10. ASSUME NEW m \in Marks', NEW n \in Marks', m.by = n.by
         PROVE  m = n
    <2>1. \A u \in Marks, v \in Marks : u.by = v.by => u = v
      BY DEF Distinct
    <2>2. ASSUME NEW u \in Marks, NEW v \in X PROVE u.by # v.by
      BY <1>5, <1>6
    <2> QED
      BY <1>4, <1>5, <1>10, <2>1, <2>2
  <1>11. file'.pcrs.by <= runs' /\ file'.pcrs.by \in {file.pcrs.by, 0, r.run}
    <2>1. file'.pcrs.by \in {file.pcrs.by, 0, r.run}
      BY DEF Tracked, NoPcrFile, PcrFileOf
    <2>2. file'.pcrs.by <= runs
      BY <1>1, <2>1
    <2> QED
      BY <1>1, <1>2, <1>3, <2>1, <2>2
  <1>12. ASSUME NEW q \in Procs, ToQuote(proc'[q])
         PROVE  /\ \A m \in Marks' : m.by # proc'[q].run
                /\ file'.pcrs.by # proc'[q].run
    <2>1. CASE q # p
      <3>1. proc'[q].run = proc[q].run /\ ToQuote(proc[q])
        BY <1>12, <2>1 DEF Tracked
      <3>2. proc[q].run # 0 /\ \A m \in Marks : m.by # proc[q].run
        BY <1>6, <3>1
      <3>3. r.run # proc[q].run
        BY <2>1, <3>2 DEF Distinct
      <3>4. file.pcrs.by # proc[q].run
        BY <3>1 DEF Distinct
      <3> QED
        BY <1>4, <1>5, <1>11, <3>1, <3>2, <3>3, <3>4
    <2>2. CASE q = p /\ runs' = runs /\ ToQuote(r) /\ t.run = r.run /\ X = {}
      <3>1. r.run # 0 /\ (\A m \in Marks : m.by # r.run) /\ file.pcrs.by # r.run
        BY <1>6, <2>2 DEF Distinct
      <3>2. Marks' \subseteq Marks
        BY <1>4, <2>2
      <3>3. file'.pcrs \in {file.pcrs, NoPcrFile}
        BY <2>2 DEF Tracked, ToQuote
      <3> QED
        BY <2>2, <3>1, <3>2, <3>3 DEF NoPcrFile
    <2>3. CASE q = p /\ t.run = runs + 1 /\ X = {} /\ file'.pcrs = file.pcrs
      <3>1. Marks' \subseteq Marks
        BY <1>4, <2>3
      <3>2. \A m \in Marks : m.by # runs + 1
        BY <1>1
      <3>3. file.pcrs.by # runs + 1
        BY <1>1
      <3> QED
        BY <2>3, <3>1, <3>2, <3>3
    <2> QED
      BY <1>12, <2>1, <2>2, <2>3 DEF Tracked
  <1> QED
    BY <1>7, <1>8, <1>9, <1>10, <1>11, <1>12 DEF Distinct
\* A quote that saves its PCR values has values that hash to what was quoted.
LEMMA FitsIs ==
    ASSUME NEW r \in Process, Sane(r), r.tool = "quote", r.pc = "pcrs"
    PROVE  Fits(r.sel, r.lists, r.message.digest)
  <1> DEFINE V == Lines(r)
             L == Places(r.sel)
  <1>1. InPlace(r) /\ V = r.held /\ r.message.digest = Digest(r.held)
    BY DEF Sane, Kind, Result
  <1>2. V \in Seq(Value) /\ Len(V) \in Nat /\ Len(V) = Len(L)
    BY <1>1, FieldsIs DEF InPlace
  <1>3. /\ FirstOf(Len(V), V) \in Seq(Value) /\ Len(FirstOf(Len(V), V)) = Len(V)
        /\ \A i \in 1..Len(FirstOf(Len(V), V)) : FirstOf(Len(V), V)[i] = V[i]
    <2> HIDE DEF V
    <2> QED
      BY <1>2, FirstOfIs
  <1>4. FirstOf(Len(V), V) = V
    <2> HIDE DEF V
    <2> QED
      BY <1>2, <1>3, SeqEqual
  <1>5. FlattenSeq(r.lists) = V
    BY DEF Lines
  <1> HIDE DEF V, L
  <1>6. Len(L) <= Len(V) /\ Digest(FirstOf(Len(L), V)) = r.message.digest
    BY <1>1, <1>2, <1>4
  <1> QED
    BY <1>5, <1>6 DEF Fits, L

\* A step as Tracked describes it leaves a PCR file that fits the message of its quote:
\* write_output_files writes both from one process, whenever it comes to it.
LEMMA MatchingStep ==
    ASSUME Ready, Distinct, Matching, NEW p \in Procs, Traced(proc[p]), NEW X, Tracked(p, X)
    PROVE  Matching'
  <1> SUFFICES ASSUME file'.pcrs # NoPcrFile, NEW m \in Marks', m.by = file'.pcrs.by
               PROVE  Fits(file'.pcrs.sel, file'.pcrs.lists, m.digest)
    BY DEF Matching
  <1>1. m \in Marks \cup X
    BY MarksIs
  <1>2. CASE file'.pcrs = file.pcrs
    <2>1. CASE m \in Marks
      BY <1>2, <2>1 DEF Matching
    <2>2. CASE m \in X
      <3>1. m.by = proc[p].run /\ ToQuote(proc[p])
        BY <2>2 DEF Tracked
      <3>2. file.pcrs.by # proc[p].run
        BY <3>1 DEF Distinct
      <3> QED
        BY <1>2, <3>1, <3>2
    <2> QED
      BY <1>1, <2>1, <2>2
  <1>3. CASE file'.pcrs = PcrFileOf(p) /\ proc[p].tool = "quote" /\ proc[p].pc = "pcrs" /\ X = {}
    <2>1. m \in Marks /\ m.by = proc[p].run
      BY <1>1, <1>3 DEF PcrFileOf
    <2>2. proc[p].message \in Marks /\ proc[p].message.by = proc[p].run
      BY <1>3 DEF Marks, Traced
    <2>3. m = proc[p].message
      BY <2>1, <2>2 DEF Distinct
    <2>4. Fits(proc[p].sel, proc[p].lists, proc[p].message.digest)
      BY <1>3, FitsIs DEF Ready, Types
    <2> QED
      BY <1>3, <2>3, <2>4 DEF PcrFileOf
  <1> QED
    BY <1>2, <1>3 DEF Tracked

-----------------------------------------------------------------------------
\* A tool goes on without another message, signature or file.
Stays(r, t) ==
    /\ t.tool = r.tool /\ t.run = r.run /\ t.message = r.message /\ t.signature = r.signature
    /\ ToQuote(t) => ToQuote(r)
    /\ t.tool = "quote" /\ t.pc \in {"read", "label", "sig", "msg", "pcrs"} =>
          r.pc \in {"read", "label", "sig", "msg", "pcrs"}

\* The steps of the tools that read PCRs, other than the quote itself.
Reads(p) ==
    \/ OpenOutput(p) \/ GetBanks(p) \/ ReadBatch(p) \/ PrintValues(p) \/ CompareQuote(p)
    \/ SaveSignature(p) \/ SaveMessage(p) \/ SavePcrs(p)
    \/ GatherValues(p) \/ PolicyCommand(p)

\* A tool that returns goes on without another message.
LEMMA ReturnStays ==
    ASSUME Types, NEW p \in Procs, NEW rc, Return(p, rc)
    PROVE  /\ \A q \in Procs \ {p} : proc'[q] = proc[q]
           /\ Stays(proc[p], proc'[p])
  <1> DEFINE r == proc[p]
             t == [r EXCEPT !.pc = "idle", !.rc = rc]
  <1>1. proc \in [Procs -> Process] /\ r \in Process
    BY DEF Types
  <1>2. proc' = [proc EXCEPT ![p] = t]
    BY <1>1 DEF Return
  <1>3. proc'[p] = t /\ \A q \in Procs \ {p} : proc'[q] = proc[q]
    BY <1>1, <1>2
  <1>4. Stays(r, t)
    <2> HIDE DEF r
    <2>1. /\ t.tool = r.tool /\ t.run = r.run /\ t.message = r.message
          /\ t.signature = r.signature /\ t.pc = "idle"
      BY <1>1 DEF Process
    <2> QED
      BY <2>1 DEF Stays, ToQuote
  <1> QED
    BY <1>3, <1>4

\* The steps of reading and saving keep message, signature and invocation.
LEMMA ReadsIs ==
    ASSUME Ready, NEW p \in Procs, Reads(p)
    PROVE  /\ \A q \in Procs \ {p} : proc'[q] = proc[q]
           /\ Stays(proc[p], proc'[p]) /\ proc[p].tool # "checkquote" /\ proc[p].pc # "idle"
           /\ runs' = runs
  <1> DEFINE r == proc[p]
  <1>1. /\ proc \in [Procs -> Process] /\ r \in Process /\ Sane(r) /\ Types
    BY DEF Ready, Types
  <1>2. r.tool # "checkquote" /\ r.pc # "idle"
    BY <1>1 DEF Reads, OpenOutput, GetBanks, ReadBatch, PrintValues, CompareQuote,
        SaveSignature, SaveMessage, SavePcrs, GatherValues, PolicyCommand, Running, Sane, Kind
  <1>3. runs' = runs
    BY DEF Reads, OpenOutput, GetBanks, ReadBatch, PrintValues, CompareQuote,
        SaveSignature, SaveMessage, SavePcrs, Save, GatherValues, PolicyCommand
  <1>4. ASSUME NEW t, proc' = [proc EXCEPT ![p] = t], Stays(r, t)
        PROVE  (\A q \in Procs \ {p} : proc'[q] = proc[q]) /\ Stays(proc[p], proc'[p])
    <2>1. proc'[p] = t /\ \A q \in Procs \ {p} : proc'[q] = proc[q]
      BY <1>1, <1>4
    <2> QED
      BY <1>4, <2>1
  <1>5. CASE \E rc : Return(p, rc)
    BY <1>1, <1>2, <1>3, <1>5, ReturnStays
  <1>6. CASE OpenOutput(p)
    <2> DEFINE t == [r EXCEPT !.pc = "banks"]
    <2>1. proc' = [proc EXCEPT ![p] = t]
      BY <1>1, <1>6 DEF OpenOutput
    <2>2. Stays(r, t)
      <3>1. r.pc = "open"
        BY <1>6 DEF OpenOutput
      <3> HIDE DEF r
      <3>2. /\ t.tool = r.tool /\ t.run = r.run /\ t.message = r.message
            /\ t.signature = r.signature /\ t.pc = "banks"
        BY <1>1 DEF Process
      <3> QED
        BY <3>1, <3>2 DEF Stays, ToQuote
    <2> QED
      BY <1>2, <1>3, <1>4, <2>1, <2>2
  <1>7. CASE GetBanks(p) /\ r.tool = "quote"
    <2> DEFINE t == [r EXCEPT !.pc = "quote"]
    <2>1. proc' = [proc EXCEPT ![p] = t] /\ r.pc = "banks"
      BY <1>1, <1>7 DEF GetBanks
    <2>2. Stays(r, t)
      <3> HIDE DEF r
      <3>1. /\ t.tool = r.tool /\ t.run = r.run /\ t.message = r.message
            /\ t.signature = r.signature /\ t.pc = "quote"
        BY <1>1 DEF Process
      <3> QED
        BY <2>1, <3>1 DEF Stays, ToQuote
    <2> QED
      BY <1>2, <1>3, <1>4, <2>1, <2>2
  <1>8. CASE GetBanks(p) /\ r.tool # "quote"
    <2> DEFINE sel == IF r.asked # <<>> THEN Checked(r.sel) ELSE OfBank(r.bank)
               t == [r EXCEPT !.sel = sel, !.left = sel, !.pc = "read"]
    <2>1. Return(p, "general_error") \/ proc' = [proc EXCEPT ![p] = t]
      <3>1. ReadSelected(p, sel)
        BY <1>8 DEF GetBanks
      <3> HIDE DEF sel
      <3> QED
        BY <1>1, <3>1 DEF ReadSelected
    <2>2. Stays(r, t)
      <3>1. r.tool # "quote"
        BY <1>8
      <3> HIDE DEF r, sel
      <3>2. /\ t.tool = r.tool /\ t.run = r.run /\ t.message = r.message
            /\ t.signature = r.signature
        BY <1>1 DEF Process
      <3> QED
        BY <3>1, <3>2 DEF Stays, ToQuote
    <2> QED
      BY <1>2, <1>3, <1>4, <1>5, <2>1, <2>2
  <1>9. CASE ReadBatch(p)
    <2> DEFINE places == FirstOf(Batch, Places(r.left))
               left == Without(r.left, places)
               lists == Append(r.lists, ValuesOf(places))
               t == [r EXCEPT !.left = left, !.lists = lists]
               u == [r EXCEPT !.left = left, !.lists = lists, !.pc = "label"]
               v == [r EXCEPT !.left = left, !.lists = lists, !.pc = "idle", !.rc = "general_error"]
    <2>1. /\ r.pc = "read"
          /\ \/ proc' = [proc EXCEPT ![p].left = left, ![p].lists = lists]
             \/ proc' = [proc EXCEPT ![p].left = left, ![p].lists = lists, ![p].pc = "label"]
             \/ proc' = [proc EXCEPT ![p].left = left, ![p].lists = lists,
                                     ![p].pc = "idle", ![p].rc = "general_error"]
      BY <1>9 DEF ReadBatch, Extended
    <2> HIDE DEF left, lists
    <2>2. \/ proc' = [proc EXCEPT ![p] = t]
          \/ proc' = [proc EXCEPT ![p] = u]
          \/ proc' = [proc EXCEPT ![p] = v]
      BY <1>1, <2>1
    <2> HIDE DEF r
    <2>3. /\ t.tool = r.tool /\ t.run = r.run /\ t.message = r.message
          /\ t.signature = r.signature /\ t.pc = r.pc
      BY <1>1 DEF Process
    <2>4. /\ u.tool = r.tool /\ u.run = r.run /\ u.message = r.message
          /\ u.signature = r.signature /\ u.pc = "label"
      BY <1>1 DEF Process
    <2>5. /\ v.tool = r.tool /\ v.run = r.run /\ v.message = r.message
          /\ v.signature = r.signature /\ v.pc = "idle"
      BY <1>1 DEF Process
    <2> HIDE DEF t, u, v
    <2>6. Stays(r, t) /\ Stays(r, u) /\ Stays(r, v)
      BY <2>1, <2>3, <2>4, <2>5 DEF Stays, ToQuote
    <2> QED
      BY <1>2, <1>3, <1>4, <2>2, <2>6 DEF r
  <1>10. CASE CompareQuote(p)
    <2> DEFINE t == [r EXCEPT !.pc = "sig"]
    <2>1. r.pc = "label" /\ (Return(p, "general_error") \/ proc' = [proc EXCEPT ![p] = t])
      BY <1>1, <1>10 DEF CompareQuote, Running
    <2>2. Stays(r, t)
      <3> HIDE DEF r
      <3>1. /\ t.tool = r.tool /\ t.run = r.run /\ t.message = r.message
            /\ t.signature = r.signature /\ t.pc = "sig"
        BY <1>1 DEF Process
      <3> QED
        BY <2>1, <3>1 DEF Stays, ToQuote
    <2> QED
      BY <1>2, <1>3, <1>4, <1>5, <2>1, <2>2
  <1>11. CASE SaveSignature(p) \/ SaveMessage(p) \/ SavePcrs(p)
    <2>1. PICK next \in {"msg", "pcrs", "idle"} :
            \/ proc' = [proc EXCEPT ![p].pc = next]
            \/ proc' = [proc EXCEPT ![p].pc = next, ![p].rc = "general_error", ![p].fault = TRUE]
      BY <1>11 DEF SaveSignature, SaveMessage, SavePcrs, Save
    <2>2. r.pc \in {"sig", "msg", "pcrs"}
      BY <1>11 DEF SaveSignature, SaveMessage, SavePcrs, Running
    <2> DEFINE t == [r EXCEPT !.pc = next]
               u == [r EXCEPT !.pc = next, !.rc = "general_error", !.fault = TRUE]
    <2>3. proc' = [proc EXCEPT ![p] = t] \/ proc' = [proc EXCEPT ![p] = u]
      BY <1>1, <2>1
    <2> HIDE DEF r
    <2>4. /\ t.tool = r.tool /\ t.run = r.run /\ t.message = r.message
          /\ t.signature = r.signature /\ t.pc = next
      BY <1>1 DEF Process
    <2>5. /\ u.tool = r.tool /\ u.run = r.run /\ u.message = r.message
          /\ u.signature = r.signature /\ u.pc = next
      BY <1>1 DEF Process
    <2> HIDE DEF t, u
    <2>6. Stays(r, t) /\ Stays(r, u)
      BY <2>2, <2>4, <2>5 DEF Stays, ToQuote
    <2> QED
      BY <1>2, <1>3, <1>4, <2>3, <2>6 DEF r
  <1>12. CASE GatherValues(p)
    <2>1. \/ \E rc : Return(p, rc)
          \/ \E values, held :
                proc' = [proc EXCEPT ![p].lists = <<values>>, ![p].held = held, ![p].pc = "policy"]
      BY <1>12 DEF GatherValues
    <2>2. ASSUME NEW values, NEW held,
                 proc' = [proc EXCEPT ![p].lists = <<values>>, ![p].held = held, ![p].pc = "policy"]
          PROVE  (\A q \in Procs \ {p} : proc'[q] = proc[q]) /\ Stays(proc[p], proc'[p])
      <3> DEFINE t == [r EXCEPT !.lists = <<values>>, !.held = held, !.pc = "policy"]
      <3>1. proc' = [proc EXCEPT ![p] = t]
        BY <1>1, <2>2
      <3>2. Stays(r, t)
        <4> HIDE DEF r
        <4>1. /\ t.tool = r.tool /\ t.run = r.run /\ t.message = r.message
              /\ t.signature = r.signature /\ t.pc = "policy"
          BY <1>1 DEF Process
        <4> QED
          BY <4>1 DEF Stays, ToQuote
      <3> QED
        BY <1>4, <3>1, <3>2
    <2> QED
      BY <1>2, <1>3, <1>5, <2>1, <2>2
  <1>13. PrintValues(p) \/ PolicyCommand(p) => \E rc : Return(p, rc)
    BY DEF PrintValues, PolicyCommand
  <1> QED
    BY <1>5, <1>6, <1>7, <1>8, <1>9, <1>10, <1>11, <1>12, <1>13 DEF Reads
\* What a step has to do with the rest: see Tracked and Traced.
Follows(p) ==
    /\ \E X : Tracked(p, X)
    /\ \A q \in Procs : Traced(proc'[q])

\* Nothing is in another process or in a file that has not been there.
LEMMA OnlyItsOwn ==
    ASSUME Ready, \A q \in Procs : Traced(proc[q]), NEW p \in Procs, NEW X,
           \A q \in Procs \ {p} : proc'[q] = proc[q], Traced(proc'[p]),
           {proc'[p].message, proc'[p].signature, file'.sig, file'.msg} \subseteq Marks \cup X,
           \/ X = {}
           \/ \E m : X = {m} /\ m.by = proc[p].run /\ ToQuote(proc[p]),
           \/ /\ runs' = runs /\ proc'[p].run \in {proc[p].run, 0}
              /\ ToQuote(proc'[p]) => ToQuote(proc[p]) /\ proc'[p].run = proc[p].run /\ X = {}
           \/ runs' = runs + 1 /\ proc'[p].run = runs + 1 /\ X = {} /\ file'.pcrs = file.pcrs,
           \/ file'.pcrs \in {file.pcrs, NoPcrFile}
           \/ file'.pcrs = PcrFileOf(p) /\ proc[p].tool = "quote" /\ proc[p].pc = "pcrs" /\ X = {}
    PROVE  Follows(p)
  <1>1. Tracked(p, X)
    BY DEF Tracked
  <1>2. \A q \in Procs : Traced(proc'[q])
    OBVIOUS
  <1> QED
    BY <1>1, <1>2 DEF Follows

\* What processes and files have is about.
LEMMA MarksAre ==
    /\ Nothing \in Marks /\ file.sig \in Marks /\ file.msg \in Marks
    /\ \A q \in Procs : proc[q].message \in Marks /\ proc[q].signature \in Marks
BY DEF Marks

\* The steps of reading and saving, with the files that they leave.
LEMMA ReadsFollow ==
    ASSUME Ready, \A q \in Procs : Traced(proc[q]), NEW p \in Procs, Reads(p)
    PROVE  Follows(p)
  <1>1. /\ \A q \in Procs \ {p} : proc'[q] = proc[q]
        /\ Stays(proc[p], proc'[p]) /\ proc[p].tool # "checkquote" /\ proc[p].pc # "idle"
        /\ runs' = runs
    BY ReadsIs
  <1>2. Traced(proc'[p])
    BY <1>1 DEF Stays, Traced
  <1>3. file \in [sig: Message, msg: Message, pcrs: PcrFile, raw: Seq(Value)]
    BY DEF Ready, Types
  <1>4. /\ file'.sig \in {file.sig, proc[p].message, Nothing}
        /\ file'.msg \in {file.msg, proc[p].message, Nothing}
        /\ \/ file'.pcrs \in {file.pcrs, NoPcrFile}
           \/ file'.pcrs = PcrFileOf(p) /\ proc[p].tool = "quote" /\ proc[p].pc = "pcrs"
    <2>1. CASE file' = file
      BY <2>1
    <2>2. CASE OpenOutput(p)
      BY <1>3, <2>2 DEF OpenOutput
    <2>3. CASE PrintValues(p)
      BY <1>3, <2>3 DEF PrintValues
    <2>4. CASE SaveSignature(p)
      BY <1>3, <2>4 DEF SaveSignature, Save
    <2>5. CASE SaveMessage(p)
      BY <1>3, <2>5 DEF SaveMessage, Save
    <2>6. CASE SavePcrs(p)
      <3>1. proc[p].tool = "quote" /\ proc[p].pc = "pcrs"
        BY <2>6 DEF SavePcrs, Running
      <3>2. \/ file' = [file EXCEPT !.pcrs = PcrFileOf(p)]
            \/ file' = file
            \/ file' = [file EXCEPT !.pcrs = NoPcrFile]
        BY <2>6 DEF SavePcrs, Save
      <3> QED
        BY <1>3, <3>1, <3>2
    <2> QED
      BY <2>1, <2>2, <2>3, <2>4, <2>5, <2>6
         DEF Reads, GetBanks, ReadBatch, CompareQuote, GatherValues, PolicyCommand
  <1>5. {proc'[p].message, proc'[p].signature, file'.sig, file'.msg} \subseteq Marks
    BY <1>1, <1>4, MarksAre DEF Stays
  <1> QED
    BY <1>1, <1>2, <1>4, <1>5, OnlyItsOwn DEF Stays

\* TPM2_Quote makes the only message of its invocation.
LEMMA QuoteFollows ==
    ASSUME Ready, \A q \in Procs : Traced(proc[q]), NEW p \in Procs, Quote(p)
    PROVE  Follows(p)
  <1> DEFINE r == proc[p]
             held == ValuesOf(Places(Implemented(r.sel)))
             message == [by |-> r.run, digest |-> Digest(held)]
             sel == Checked(r.sel)
             t == [r EXCEPT !.held = held, !.message = message, !.pc = "sig"]
             u == [r EXCEPT !.held = held, !.message = message, !.pc = "read",
                            !.sel = sel, !.left = sel]
  <1>1. /\ r \in Process /\ r.tool = "quote" /\ r.pc = "quote" /\ runs' = runs /\ file' = file
        /\ proc \in [Procs -> Process] /\ Types /\ Traced(r)
    BY DEF Ready, Types, Quote, Running
  <1>2. CASE \E rc : Return(p, rc)
    <2>1. /\ \A q \in Procs \ {p} : proc'[q] = proc[q]
          /\ Stays(r, proc'[p])
      BY <1>1, <1>2, ReturnStays
    <2>2. Traced(proc'[p])
      BY <1>1, <2>1 DEF Stays, Traced
    <2>3. {proc'[p].message, proc'[p].signature, file'.sig, file'.msg} \subseteq Marks
      BY <1>1, <2>1, MarksAre DEF Stays
    <2> QED
      BY <1>1, <2>1, <2>2, <2>3, OnlyItsOwn DEF Stays
  <1>3. ToQuote(r) /\ message.by = r.run
    BY <1>1 DEF ToQuote
  <1>4. ASSUME NEW x, proc' = [proc EXCEPT ![p] = x], x.tool = "quote", x.pc \in {"sig", "read"},
               x.message = message, x.signature = r.signature, x.run = r.run
        PROVE  Follows(p)
    <2>1. proc'[p] = x /\ \A q \in Procs \ {p} : proc'[q] = proc[q]
      BY <1>1, <1>4
    <2>2. Traced(x) /\ ~ToQuote(x)
      BY <1>3, <1>4 DEF Traced, ToQuote
    <2>3. {x.message, x.signature, file'.sig, file'.msg} \subseteq Marks \cup {message}
      BY <1>1, <1>4, MarksAre
    <2> HIDE DEF message
    <2> QED
      BY <1>1, <1>3, <1>4, <2>1, <2>2, <2>3, OnlyItsOwn
  <1>5. CASE proc' = [proc EXCEPT ![p] = t]
    <2> HIDE DEF r, held, message
    <2>1. t.tool = r.tool /\ t.pc = "sig" /\ t.message = message /\ t.signature = r.signature
            /\ t.run = r.run
      BY <1>1 DEF Process
    <2> QED
      BY <1>1, <1>4, <1>5, <2>1
  <1>6. CASE proc' = [proc EXCEPT ![p] = u]
    <2> HIDE DEF r, held, message, sel
    <2>1. u.tool = r.tool /\ u.pc = "read" /\ u.message = message /\ u.signature = r.signature
            /\ u.run = r.run
      BY <1>1 DEF Process
    <2> QED
      BY <1>1, <1>4, <1>6, <2>1
  <1>7. \/ Return(p, "tpm_error") \/ Return(p, "general_error")
        \/ proc' = [proc EXCEPT ![p] = t] \/ proc' = [proc EXCEPT ![p] = u]
    BY <1>1 DEF Quote
  <1> QED
    BY <1>2, <1>5, <1>6, <1>7

\* A tool that ends forgets its message.
LEMMA EndingFollows ==
    ASSUME Ready, \A q \in Procs : Traced(proc[q]), NEW p \in Procs, NEW rc, NEW fault,
           End(p, rc, fault), file' = file, runs' = runs
    PROVE  Follows(p)
  <1> DEFINE r == proc[p]
             t == [Idle EXCEPT !.tool = r.tool, !.rc = rc, !.fault = fault]
  <1>2. proc \in [Procs -> Process] /\ proc' = [proc EXCEPT ![p] = t]
    BY DEF Ready, Types, End
  <1>3. proc'[p] = t /\ \A q \in Procs \ {p} : proc'[q] = proc[q]
    BY <1>2
  <1>4. t.message = Nothing /\ t.signature = Nothing /\ t.run = 0 /\ t.pc = "idle" /\ t.lists = <<>>
    <2> HIDE DEF r
    <2> QED
      BY SMT DEF Idle
  <1> HIDE DEF t, r
  <1>5. Traced(t) /\ ~ToQuote(t)
    BY <1>4 DEF Traced, ToQuote
  <1>6. {t.message, t.signature, file'.sig, file'.msg} \subseteq Marks
    BY <1>2, <1>4, MarksAre
  <1> QED
    BY <1>2, <1>3, <1>4, <1>5, <1>6, OnlyItsOwn

\* So does one that fails, or has changed its PCRs.
LEMMA EndFollows ==
    ASSUME Ready, \A q \in Procs : Traced(proc[q]), NEW p \in Procs, Changes(p) \/ Fail(p)
    PROVE  Follows(p)
  <1>1. PICK rc, fault : End(p, rc, fault)
    BY DEF Changes, Fail
  <1>2. file' = file /\ runs' = runs
    BY DEF Changes, Fail
  <1> QED
    BY <1>1, <1>2, EndingFollows

\* A tool that is started has no message.
LEMMA InvokeFollows ==
    ASSUME Ready, \A q \in Procs : Traced(proc[q]), NEW p \in Procs, NEW image,
           Invoke(p, image), NEW t, t = [image EXCEPT !.run = runs + 1],
           t.run = runs + 1, t.message = Nothing, t.signature = Nothing,
           t.tool = "quote" => t.pc \in {"open", "banks"},
           t.tool = "checkquote" => t.pc = "msg"
    PROVE  Follows(p)
  <1>1. /\ proc \in [Procs -> Process] /\ file' = file /\ runs' = runs + 1
        /\ proc' = [proc EXCEPT ![p] = t]
    BY DEF Ready, Types, Invoke
  <1>2. proc'[p] = t /\ \A q \in Procs \ {p} : proc'[q] = proc[q]
    BY <1>1
  <1>3. Traced(t)
    BY DEF Traced
  <1>4. {t.message, t.signature, file'.sig, file'.msg} \subseteq Marks
    BY <1>1, MarksAre
  <1> QED
    BY <1>1, <1>2, <1>3, <1>4, OnlyItsOwn

\* A tool that starts takes the next number.
LEMMA StartFollows ==
    ASSUME Ready, \A q \in Procs : Traced(proc[q]), NEW p \in Procs, Start(p)
    PROVE  Follows(p)
  <1>1. CASE PcrRead(p)
    <2>1. PICK sel, bank, out : Invoke(p, [Idle EXCEPT !.tool = "pcrread", !.bank = bank,
                                                       !.out = out, !.asked = sel, !.sel = sel,
                                                       !.pc = Opening(out)])
      BY <1>1 DEF PcrRead
    <2> DEFINE image == [Idle EXCEPT !.tool = "pcrread", !.bank = bank, !.out = out,
                                     !.asked = sel, !.sel = sel, !.pc = Opening(out)]
               t == [image EXCEPT !.run = runs + 1]
    <2>2. /\ t.run = runs + 1 /\ t.message = Nothing /\ t.signature = Nothing
          /\ t.tool = "pcrread" /\ t.pc = Opening(out)
      BY SMT DEF Idle
    <2> HIDE DEF t
    <2>3. t = [image EXCEPT !.run = runs + 1] /\ Invoke(p, image)
      BY <2>1, Zenon DEF t
    <2> HIDE DEF image
    <2> QED
      BY <2>2, <2>3, InvokeFollows DEF Opening
  <1>2. CASE QuoteTool(p)
    <2>1. PICK sel, out : Invoke(p, [Idle EXCEPT !.tool = "quote", !.out = out, !.asked = sel,
                                                 !.sel = sel, !.pc = Opening(out)])
      BY <1>2 DEF QuoteTool
    <2> DEFINE image == [Idle EXCEPT !.tool = "quote", !.out = out, !.asked = sel, !.sel = sel,
                                     !.pc = Opening(out)]
               t == [image EXCEPT !.run = runs + 1]
    <2>2. /\ t.run = runs + 1 /\ t.message = Nothing /\ t.signature = Nothing
          /\ t.tool = "quote" /\ t.pc = Opening(out)
      BY SMT DEF Idle
    <2> HIDE DEF t
    <2>3. t = [image EXCEPT !.run = runs + 1] /\ Invoke(p, image)
      BY <2>1, Zenon DEF t
    <2> HIDE DEF image
    <2> QED
      BY <2>2, <2>3, InvokeFollows DEF Opening
  <1>3. CASE CheckQuote(p)
    <2>1. PICK source, sel : Invoke(p, [Idle EXCEPT !.tool = "checkquote", !.source = source,
                                                    !.asked = sel, !.sel = sel, !.pc = "msg"])
      BY <1>3 DEF CheckQuote
    <2> DEFINE image == [Idle EXCEPT !.tool = "checkquote", !.source = source, !.asked = sel,
                                     !.sel = sel, !.pc = "msg"]
               t == [image EXCEPT !.run = runs + 1]
    <2>2. /\ t.run = runs + 1 /\ t.message = Nothing /\ t.signature = Nothing
          /\ t.tool = "checkquote" /\ t.pc = "msg"
      BY SMT DEF Idle
    <2> HIDE DEF t
    <2>3. t = [image EXCEPT !.run = runs + 1] /\ Invoke(p, image)
      BY <2>1, Zenon DEF t
    <2> HIDE DEF image
    <2> QED
      BY <2>2, <2>3, InvokeFollows
  <1>4. CASE PolicyPcr(p)
    <2>1. PICK sel, source : Invoke(p, [Idle EXCEPT !.tool = "policypcr", !.asked = sel,
                                                    !.sel = sel, !.source = source,
                                                    !.pc = "values"])
      BY <1>4 DEF PolicyPcr
    <2> DEFINE image == [Idle EXCEPT !.tool = "policypcr", !.asked = sel, !.sel = sel,
                                     !.source = source, !.pc = "values"]
               t == [image EXCEPT !.run = runs + 1]
    <2>2. /\ t.run = runs + 1 /\ t.message = Nothing /\ t.signature = Nothing
          /\ t.tool = "policypcr" /\ t.pc = "values"
      BY SMT DEF Idle
    <2> HIDE DEF t
    <2>3. t = [image EXCEPT !.run = runs + 1] /\ Invoke(p, image)
      BY <2>1, Zenon DEF t
    <2> HIDE DEF image
    <2> QED
      BY <2>2, <2>3, InvokeFollows
  <1>5. CASE PcrExtend(p)
    <2>1. PICK todo : Invoke(p, [Idle EXCEPT !.tool = "pcrextend", !.todo = todo, !.pc = "change"])
      BY <1>5 DEF PcrExtend
    <2> DEFINE image == [Idle EXCEPT !.tool = "pcrextend", !.todo = todo, !.pc = "change"]
               t == [image EXCEPT !.run = runs + 1]
    <2>2. /\ t.run = runs + 1 /\ t.message = Nothing /\ t.signature = Nothing
          /\ t.tool = "pcrextend" /\ t.pc = "change"
      BY SMT DEF Idle
    <2> HIDE DEF t
    <2>3. t = [image EXCEPT !.run = runs + 1] /\ Invoke(p, image)
      BY <2>1, Zenon DEF t
    <2> HIDE DEF image
    <2> QED
      BY <2>2, <2>3, InvokeFollows
  <1>6. CASE PcrReset(p)
    <2>1. PICK pcrs : Invoke(p, [Idle EXCEPT !.tool = "pcrreset", !.pc = "change",
                                             !.todo = [i \in DOMAIN Ascending(pcrs) |->
                                                 [pcr |-> Ascending(pcrs)[i], banks |-> Banks]]])
      BY <1>6 DEF PcrReset
    <2> DEFINE image == [Idle EXCEPT !.tool = "pcrreset", !.pc = "change",
                                     !.todo = [i \in DOMAIN Ascending(pcrs) |->
                                         [pcr |-> Ascending(pcrs)[i], banks |-> Banks]]]
               t == [image EXCEPT !.run = runs + 1]
    <2>2. /\ t.run = runs + 1 /\ t.message = Nothing /\ t.signature = Nothing
          /\ t.tool = "pcrreset" /\ t.pc = "change"
      BY SMT DEF Idle
    <2> HIDE DEF t
    <2>3. t = [image EXCEPT !.run = runs + 1] /\ Invoke(p, image)
      BY <2>1, Zenon DEF t
    <2> HIDE DEF image
    <2> QED
      BY <2>2, <2>3, InvokeFollows
  <1> QED
    BY <1>1, <1>2, <1>3, <1>4, <1>5, <1>6 DEF Start
\* A checkquote only reads.
LEMMA CheckFollows ==
    ASSUME Ready, \A q \in Procs : Traced(proc[q]), NEW p \in Procs,
           file' = file, runs' = runs, NEW t, proc' = [proc EXCEPT ![p] = t],
           t.tool = "checkquote", t.run = proc[p].run, t.message \in Marks,
           t.signature \in Marks, Traced(t)
    PROVE  Follows(p)
  <1>1. proc \in [Procs -> Process]
    BY DEF Ready, Types
  <1>2. proc'[p] = t /\ \A q \in Procs \ {p} : proc'[q] = proc[q]
    BY <1>1
  <1>3. {t.message, t.signature, file'.sig, file'.msg} \subseteq Marks
    BY MarksAre
  <1>4. ~ToQuote(t)
    BY DEF ToQuote
  <1> QED
    BY <1>2, <1>3, <1>4, OnlyItsOwn

\* The same if it gives up before it has PCR values.
LEMMA RefusalFollows ==
    ASSUME Ready, \A q \in Procs : Traced(proc[q]), NEW p \in Procs,
           file' = file, runs' = runs, Return(p, "general_error"),
           proc[p].tool = "checkquote", proc[p].pc \in {"msg", "sig", "pcrs"}
    PROVE  Follows(p)
  <1> DEFINE r == proc[p]
             t == [r EXCEPT !.pc = "idle", !.rc = "general_error"]
  <1>1. /\ proc \in [Procs -> Process] /\ r \in Process /\ r.lists = <<>>
        /\ r.message \in Marks /\ r.signature \in Marks
    BY MarksAre DEF Ready, Types, Sane, Kind
  <1>2. proc' = [proc EXCEPT ![p] = t]
    BY <1>1 DEF Return
  <1>3. /\ t.tool = r.tool /\ t.run = r.run /\ t.message = r.message
        /\ t.signature = r.signature /\ t.pc = "idle" /\ t.lists = r.lists
    <2> HIDE DEF r
    <2> QED
      BY <1>1 DEF Process
  <1> HIDE DEF t
  <1>4. Traced(t)
    BY <1>1, <1>3 DEF Traced
  <1> QED
    BY <1>1, <1>2, <1>3, <1>4, CheckFollows

\* checkquote loads a message, which is about.
LEMMA LoadMessageFollows ==
    ASSUME Ready, \A q \in Procs : Traced(proc[q]), NEW p \in Procs, LoadMessage(p)
    PROVE  Follows(p)
  <1> DEFINE r == proc[p]
             t == [r EXCEPT !.message = file.msg, !.pc = "sig", !.origins = {file.msg.by}]
  <1>1. /\ proc \in [Procs -> Process] /\ r \in Process /\ file' = file /\ runs' = runs
        /\ r.tool = "checkquote" /\ r.pc = "msg"
        /\ file.msg \in Marks /\ r.signature \in Marks
    BY MarksAre DEF Ready, Types, LoadMessage, Running
  <1>2. CASE Return(p, "general_error")
    BY <1>1, <1>2, RefusalFollows
  <1>3. CASE proc' = [proc EXCEPT ![p] = t]
    <2>1. /\ t.tool = r.tool /\ t.run = r.run /\ t.message = file.msg
          /\ t.signature = r.signature /\ t.pc = "sig" /\ t.origins = {file.msg.by}
      <3> HIDE DEF r
      <3> QED
        BY <1>1 DEF Process
    <2> HIDE DEF t
    <2>2. Traced(t)
      BY <1>1, <2>1 DEF Traced
    <2> QED
      BY <1>1, <1>3, <2>1, <2>2, CheckFollows
  <1>4. Return(p, "general_error") \/ proc' = [proc EXCEPT ![p] = t]
    BY <1>1 DEF LoadMessage
  <1> QED
    BY <1>2, <1>3, <1>4

\* checkquote loads a signature, which is about.
LEMMA LoadSignatureFollows ==
    ASSUME Ready, \A q \in Procs : Traced(proc[q]), NEW p \in Procs, LoadSignature(p)
    PROVE  Follows(p)
  <1> DEFINE r == proc[p]
             next == IF r.source = "none" THEN "verify" ELSE "pcrs"
             t == [r EXCEPT !.signature = file.sig, !.pc = next,
                            !.origins = r.origins \cup {file.sig.by}]
  <1>1. /\ proc \in [Procs -> Process] /\ r \in Process /\ file' = file /\ runs' = runs
        /\ r.tool = "checkquote" /\ r.pc = "sig" /\ Traced(r)
        /\ file.sig \in Marks /\ r.message \in Marks
    BY MarksAre DEF Ready, Types, LoadSignature, Running
  <1>2. CASE Return(p, "general_error")
    BY <1>1, <1>2, RefusalFollows
  <1>3. CASE proc' = [proc EXCEPT ![p] = t]
    <2>1. r.message.by \in r.origins
      BY <1>1 DEF Traced
    <2>2. next \in {"verify", "pcrs"} /\ (next = "verify" => r.source = "none")
      OBVIOUS
    <2>3. /\ t.tool = r.tool /\ t.run = r.run /\ t.message = r.message
          /\ t.signature = file.sig /\ t.pc = next /\ t.source = r.source
          /\ t.origins = r.origins \cup {file.sig.by}
      <3> HIDE DEF r, next
      <3> QED
        BY <1>1 DEF Process
    <2> HIDE DEF t, next, r
    <2>4. Traced(t)
      BY <1>1, <2>1, <2>2, <2>3 DEF Traced
    <2> QED
      BY <1>1, <1>3, <2>3, <2>4, CheckFollows DEF r
  <1>4. Return(p, "general_error") \/ proc' = [proc EXCEPT ![p] = t]
    <2>1. \/ Return(p, "general_error")
          \/ proc' = [proc EXCEPT ![p].signature = file.sig, ![p].pc = next,
                                  ![p].origins = @ \cup {file.sig.by}]
      BY DEF LoadSignature
    <2> HIDE DEF next
    <2> QED
      BY <1>1, <2>1
  <1> QED
    BY <1>2, <1>3, <1>4

\* If the PCR file and the message are of one quote then they fit.
LEMMA LoadPcrsFollows ==
    ASSUME Ready, Matching, \A q \in Procs : Traced(proc[q]), NEW p \in Procs, LoadPcrs(p)
    PROVE  Follows(p)
  <1> DEFINE r == proc[p]
             by == file.pcrs.by
             held == FlattenSeq(file.pcrs.lists)
             read == [r EXCEPT !.held = held, !.origins = r.origins \cup {by}]
             t == [read EXCEPT !.sel = file.pcrs.sel, !.pc = "verify", !.lists = file.pcrs.lists]
             u == [read EXCEPT !.pc = "idle", !.rc = "general_error"]
  <1>1. /\ proc \in [Procs -> Process] /\ r \in Process /\ file' = file /\ runs' = runs
        /\ r.tool = "checkquote" /\ r.pc = "pcrs" /\ Traced(r) /\ r.lists = <<>>
        /\ r.message \in Marks /\ r.signature \in Marks
    BY MarksAre DEF Ready, Types, Sane, Kind, LoadPcrs, Running
  <1>2. CASE Return(p, "general_error")
    BY <1>1, <1>2, RefusalFollows
  <1>3. r.message.by \in r.origins /\ r.signature.by \in r.origins
    BY <1>1 DEF Traced
  <1>4. file.pcrs # NoPcrFile => (r.message.by = by =>
                                    Fits(file.pcrs.sel, file.pcrs.lists, r.message.digest))
    BY <1>1 DEF Matching
  <1>5. \/ Return(p, "general_error")
        \/ file.pcrs # NoPcrFile /\ proc' = [proc EXCEPT ![p] = t]
        \/ proc' = [proc EXCEPT ![p] = u]
    BY DEF LoadPcrs
  <1> HIDE DEF r, by, held
  <1>6. /\ t.tool = r.tool /\ t.run = r.run /\ t.message = r.message
        /\ t.signature = r.signature /\ t.pc = "verify" /\ t.sel = file.pcrs.sel
        /\ t.lists = file.pcrs.lists /\ t.origins = r.origins \cup {by}
    BY <1>1 DEF Process
  <1>7. /\ u.tool = r.tool /\ u.run = r.run /\ u.message = r.message
        /\ u.signature = r.signature /\ u.pc = "idle" /\ u.lists = r.lists
    BY <1>1 DEF Process
  <1> HIDE DEF t, u
  <1>8. CASE file.pcrs # NoPcrFile /\ proc' = [proc EXCEPT ![p] = t]
    <2>1. by \in t.origins /\ (t.message.by = by => Fits(t.sel, t.lists, t.message.digest))
      BY <1>4, <1>6, <1>8
    <2>2. Traced(t)
      BY <1>1, <1>3, <1>6, <2>1 DEF Traced
    <2> QED
      BY <1>1, <1>6, <1>8, <2>2, CheckFollows DEF r
  <1>9. CASE proc' = [proc EXCEPT ![p] = u]
    <2>1. Traced(u)
      BY <1>1, <1>7 DEF Traced
    <2> QED
      BY <1>1, <1>7, <1>9, <2>1, CheckFollows DEF r
  <1> QED
    BY <1>2, <1>5, <1>8, <1>9

\* Plain values are of no quote.
LEMMA LoadPlainFollows ==
    ASSUME Ready, \A q \in Procs : Traced(proc[q]), NEW p \in Procs, LoadPlain(p)
    PROVE  Follows(p)
  <1> DEFINE r == proc[p]
  <1>1. /\ proc \in [Procs -> Process] /\ r \in Process /\ file' = file /\ runs' = runs
        /\ r.tool = "checkquote" /\ r.pc = "pcrs" /\ r.source = "list" /\ Traced(r)
        /\ r.message \in Marks /\ r.signature \in Marks
    BY MarksAre DEF Ready, Types, LoadPlain, Running
  <1>2. CASE Return(p, "general_error")
    BY <1>1, <1>2, RefusalFollows
  <1>3. ASSUME NEW values, NEW lists,
               proc' = [proc EXCEPT ![p].pc = "verify", ![p].held = values, ![p].lists = lists]
        PROVE  Follows(p)
    <2> DEFINE t == [r EXCEPT !.pc = "verify", !.held = values, !.lists = lists]
    <2>1. proc' = [proc EXCEPT ![p] = t]
      BY <1>1, <1>3
    <2>2. /\ t.tool = r.tool /\ t.run = r.run /\ t.message = r.message
          /\ t.signature = r.signature /\ t.pc = "verify" /\ t.source = r.source
          /\ t.origins = r.origins
      <3> HIDE DEF r
      <3> QED
        BY <1>1 DEF Process
    <2> HIDE DEF t, r
    <2>3. Traced(t)
      BY <1>1, <2>2 DEF Traced
    <2> QED
      BY <1>1, <2>1, <2>2, <2>3, CheckFollows DEF r
  <1>4. CASE End(p, "general_error", TRUE)
    BY <1>1, <1>4, EndingFollows
  <1>5. \/ Return(p, "general_error")
        \/ \E values, lists :
              proc' = [proc EXCEPT ![p].pc = "verify", ![p].held = values, ![p].lists = lists]
        \/ End(p, "general_error", TRUE)
    BY DEF LoadPlain
  <1> QED
    BY <1>2, <1>3, <1>4, <1>5

\* What is of one quote is accepted.
LEMMA VerifyFollows ==
    ASSUME Ready, Distinct, \A q \in Procs : Traced(proc[q]), NEW p \in Procs, Verify(p)
    PROVE  Follows(p)
  <1> DEFINE r == proc[p]
             good == /\ r.signature = r.message
                     /\ r.source # "none" => Consistent(p)
             rc == IF good THEN "success" ELSE "general_error"
             t == [r EXCEPT !.pc = "idle", !.rc = rc]
  <1>1. /\ proc \in [Procs -> Process] /\ r \in Process /\ file' = file /\ runs' = runs
        /\ r.tool = "checkquote" /\ r.pc = "verify" /\ Traced(r)
        /\ r.message \in Marks /\ r.signature \in Marks
    BY MarksAre DEF Ready, Types, Verify, Running
  <1>2. proc' = [proc EXCEPT ![p] = t]
    <2>1. Return(p, rc)
      BY DEF Verify
    <2> HIDE DEF rc
    <2> QED
      BY <1>1, <2>1 DEF Return
  <1>3. ASSUME r.source = "file", NEW x, r.origins = {x}
        PROVE  good
    <2>1. r.message.by = x /\ r.signature.by = x
      BY <1>1, <1>3 DEF Traced
    <2>2. r.signature = r.message
      BY <1>1, <2>1 DEF Distinct
    <2>3. Fits(r.sel, r.lists, r.message.digest)
      BY <1>1, <1>3, <2>1 DEF Traced
    <2>4. Consistent(p)
      BY <2>3 DEF Fits, Consistent, Enough, Walked, Labels, Values
    <2> QED
      BY <2>2, <2>4
  <1>4. /\ t.tool = r.tool /\ t.run = r.run /\ t.message = r.message
        /\ t.signature = r.signature /\ t.pc = "idle" /\ t.source = r.source /\ t.rc = rc
        /\ t.origins = r.origins
    <2> HIDE DEF r, rc
    <2> QED
      BY <1>1 DEF Process
  <1> HIDE DEF t, r, good
  <1>5. Traced(t)
    BY <1>1, <1>3, <1>4 DEF Traced
  <1> QED
    BY <1>1, <1>2, <1>4, <1>5, CheckFollows DEF r
\* A change of a PCR touches no message, no invocation and no file of another process.
LEMMA ChangeFollows ==
    ASSUME Ready, \A q \in Procs : Traced(proc[q]), NEW p \in Procs, ChangePcr(p)
    PROVE  Follows(p)
  <1>1. /\ proc \in [Procs -> Process] /\ \A q \in Procs : proc[q] \in Process
        /\ file' = file /\ runs' = runs
    BY DEF Ready, Types, ChangePcr
  <1>2. ASSUME NEW q \in Procs
        PROVE  /\ proc'[q].run = proc[q].run /\ proc'[q].message = proc[q].message
               /\ proc'[q].signature = proc[q].signature
               /\ ToQuote(proc'[q]) => ToQuote(proc[q])
               /\ Traced(proc'[q])
    <2> DEFINE r == proc[q]
               t == proc'[q]
               u == [r EXCEPT !.todo = Tail(r.todo)]
               v == [r EXCEPT !.alone = FALSE]
    <2>1. r \in Process /\ Traced(r) /\ (t = u \/ t = v)
      BY <1>1 DEF ChangePcr
    <2> HIDE DEF r, t
    <2>2. /\ u.tool = r.tool /\ u.pc = r.pc /\ u.rc = r.rc /\ u.source = r.source
          /\ u.sel = r.sel /\ u.lists = r.lists /\ u.message = r.message
          /\ u.signature = r.signature /\ u.run = r.run /\ u.fault = r.fault
          /\ u.origins = r.origins
      BY <2>1 DEF Process
    <2>3. /\ v.tool = r.tool /\ v.pc = r.pc /\ v.rc = r.rc /\ v.source = r.source
          /\ v.sel = r.sel /\ v.lists = r.lists /\ v.message = r.message
          /\ v.signature = r.signature /\ v.run = r.run /\ v.fault = r.fault
          /\ v.origins = r.origins
      BY <2>1 DEF Process
    <2> HIDE DEF u, v
    <2>4. /\ t.tool = r.tool /\ t.pc = r.pc /\ t.rc = r.rc /\ t.source = r.source
          /\ t.sel = r.sel /\ t.lists = r.lists /\ t.message = r.message
          /\ t.signature = r.signature /\ t.run = r.run /\ t.fault = r.fault
          /\ t.origins = r.origins
      BY <2>1, <2>2, <2>3
    <2>5. Traced(t) /\ (ToQuote(t) => ToQuote(r))
      BY <2>1, <2>4 DEF Traced, ToQuote
    <2> QED
      BY <2>4, <2>5 DEF r, t
  <1>3. {proc'[p].message, proc'[p].signature, file'.sig, file'.msg} \subseteq Marks \cup {}
    BY <1>1, <1>2, MarksAre
  <1>4. Tracked(p, {})
    BY <1>1, <1>2, <1>3 DEF Tracked
  <1> QED
    BY <1>2, <1>4 DEF Follows

\* Every step of a process is as Tracked and Traced say.
LEMMA EveryStepFollows ==
    ASSUME Ready, Distinct, Matching, \A q \in Procs : Traced(proc[q]),
           NEW p \in Procs, Start(p) \/ Step(p) \/ Fail(p)
    PROVE  Follows(p)
  <1>1. Step(p) => \/ Reads(p) \/ Quote(p) \/ Changes(p) \/ ChangePcr(p)
                   \/ LoadMessage(p) \/ LoadSignature(p) \/ LoadPcrs(p) \/ LoadPlain(p)
                   \/ Verify(p)
    BY DEF Step, Reads
  <1>2. Start(p) => Follows(p)
    BY StartFollows
  <1>3. Reads(p) => Follows(p)
    BY ReadsFollow
  <1>4. Quote(p) => Follows(p)
    BY QuoteFollows
  <1>5. Changes(p) \/ Fail(p) => Follows(p)
    BY EndFollows
  <1>6. ChangePcr(p) => Follows(p)
    BY ChangeFollows
  <1>7. LoadMessage(p) => Follows(p)
    BY LoadMessageFollows
  <1>8. LoadSignature(p) => Follows(p)
    BY LoadSignatureFollows
  <1>9. LoadPcrs(p) => Follows(p)
    BY LoadPcrsFollows
  <1>10. LoadPlain(p) => Follows(p)
    BY LoadPlainFollows
  <1>11. Verify(p) => Follows(p)
    BY VerifyFollows
  <1> QED
    BY <1>1, <1>2, <1>3, <1>4, <1>5, <1>6, <1>7, <1>8, <1>9, <1>10, <1>11

-----------------------------------------------------------------------------
\* The invariant holds at first.
LEMMA IInvInit == Init => IInv
  <1> SUFFICES ASSUME Init PROVE IInv
    OBVIOUS
  <1>1. Ready
    BY ReadyInit
  <1>2. \A p \in Procs : proc[p] = Idle
    BY DEF Init
  <1>3. file.sig = Nothing /\ file.msg = Nothing /\ file.pcrs = NoPcrFile /\ runs = 0
    BY DEF Init
  <1>4. /\ Idle.run = 0 /\ Idle.message = Nothing /\ Idle.signature = Nothing
        /\ Idle.tool = "none" /\ Nothing.by = 0 /\ NoPcrFile.by = 0
    BY DEF Idle, Nothing, NoPcrFile
  <1>5. \A m \in Marks : m = Nothing
    BY <1>2, <1>3, <1>4 DEF Marks
  <1>6. \A p \in Procs : ~ToQuote(proc[p]) /\ Traced(proc[p])
    BY <1>2, <1>4 DEF ToQuote, Traced
  <1>7. Distinct
    <2>1. \A p \in Procs : proc[p].run = 0
      BY <1>2, <1>4
    <2>2. \A m \in Marks : m.by = 0
      BY <1>4, <1>5
    <2>3. file.pcrs.by = 0
      BY <1>3, <1>4
    <2> QED
      BY <1>3, <1>5, <1>6, <2>1, <2>2, <2>3 DEF Distinct
  <1>8. Matching
    BY <1>3 DEF Matching
  <1> QED
    BY <1>1, <1>6, <1>7, <1>8 DEF IInv

\* Every step keeps the invariant.
LEMMA IInvStep == IInv /\ [Next]_vars => IInv'
  <1> SUFFICES ASSUME IInv, [Next]_vars PROVE IInv'
    OBVIOUS
  <1>1. /\ Ready /\ Distinct /\ Matching /\ \A p \in Procs : Traced(proc[p])
    BY DEF IInv
  <1>2. Ready'
    BY <1>1, ReadyStep
  <1>3. CASE UNCHANGED vars
    <2>1. Marks' = Marks
      BY <1>3 DEF Marks, vars
    <2>2. Distinct' /\ Matching'
      BY <1>1, <1>3, <2>1 DEF Distinct, Matching, vars
    <2>3. (\A p \in Procs : Traced(proc[p]))'
      BY <1>1, <1>3 DEF vars
    <2> QED
      BY <1>2, <2>2, <2>3 DEF IInv
  <1>4. ASSUME NEW p \in Procs, Start(p) \/ Step(p) \/ Fail(p)
        PROVE  IInv'
    <2>1. Follows(p)
      BY <1>1, <1>4, EveryStepFollows
    <2>2. PICK X : Tracked(p, X)
      BY <2>1 DEF Follows
    <2>3. Distinct'
      BY <1>1, <1>2, <2>2, DistinctStep
    <2>4. Matching'
      BY <1>1, <2>2, MatchingStep
    <2>5. (\A q \in Procs : Traced(proc[q]))'
      BY <2>1 DEF Follows
    <2> QED
      BY <1>2, <2>3, <2>4, <2>5 DEF IInv
  <1> QED
    BY <1>3, <1>4 DEF Next, Finished

(***************************************************************************)
(* A checkquote that gets through the file of PCR values, and has the      *)
(* message, the signature and the values of one invocation of quote,       *)
(* accepts, whatever other tools write over these files before, in between *)
(* and after.  (That it gets through is not certain: the count of lists is *)
(* read into a variable of which half is not set.)                         *)
(***************************************************************************)
THEOREM LoadedIsAccepted == Spec => []LoadedQuoteAccepted
  <1>1. IInv => LoadedQuoteAccepted
    <2> SUFFICES ASSUME IInv, NEW p \in Procs, FilesOfOneQuote(p), proc[p].lists # <<>>
                 PROVE  proc[p].rc = "success"
      BY DEF LoadedQuoteAccepted
    <2>1. Traced(proc[p])
      BY DEF IInv
    <2> QED
      BY <2>1 DEF Traced, FilesOfOneQuote, Ended
  <1> QED
    BY <1>1, IInvInit, IInvStep, PTL DEF Spec
=============================================================================
