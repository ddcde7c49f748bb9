--------------------------- MODULE InductionLemmas ----------------------------
(***************************************************************************)
(* Induction over the natural numbers and over sequences, in the form in   *)
(* which it can be cited: a set of numbers that holds 0 and is closed      *)
(* under n + 1 holds every number. It rests on the library's theorem that  *)
(* strict inclusion of finite sets is well founded. From it: iterating a   *)
(* function, which gives recursive functions over the naturals their       *)
(* values, and the members of a flattened sequence with their order.       *)
(***************************************************************************)
EXTENDS Integers, Sequences, SequencesExt, SequenceTheorems, FiniteSetTheorems,
        WellFoundedInduction, TLAPS

(* Every set of natural numbers that has a member has a least one.         *)
LEMMA LeastNatural ==
  ASSUME NEW T \in SUBSET Nat, T # {}
  PROVE  \E x \in T : \A y \in T : x <= y
<1> DEFINE below == {0..(n-1) : n \in T}
           R == StrictSubsetOrdering(Nat)
<1>1. IsWellFoundedOn(R, FiniteSubsetsOf(Nat))
  BY FS_StrictSubsetOrderingWellFounded
<1>2. below \subseteq FiniteSubsetsOf(Nat)
  <2> SUFFICES ASSUME NEW n \in T PROVE 0..(n-1) \in FiniteSubsetsOf(Nat)
    OBVIOUS
  <2>1. IsFiniteSet(0..(n-1))
    BY FS_Interval, n \in Nat
  <2>2. 0..(n-1) \in SUBSET Nat
    BY n \in Nat
  <2> QED BY <2>1, <2>2 DEF FiniteSubsetsOf
<1>3. below # {}
  OBVIOUS
<1>4. PICK b \in below : \A c \in below : ~ (<<c, b>> \in R)
  <2> HIDE DEF below, R
  <2> QED BY <1>1, <1>2, <1>3, WFMin
<1>5. PICK x \in T : b = 0..(x-1)
  BY <1>4
<1>6. ASSUME NEW y \in T, y < x PROVE FALSE
  <2>1. 0..(y-1) \in SUBSET Nat /\ 0..(x-1) \in SUBSET Nat
    BY y \in Nat, x \in Nat
  <2>2. 0..(y-1) \subseteq 0..(x-1) /\ 0..(y-1) # 0..(x-1)
    <3>1. x - 1 \in 0..(x-1) /\ x - 1 \notin 0..(y-1)
      BY <1>6, x \in Nat, y \in Nat
    <3> QED BY <3>1, <1>6, x \in Nat, y \in Nat
  <2>3. <<0..(y-1), b>> \in R
    BY <2>1, <2>2, <1>5 DEF StrictSubsetOrdering
  <2> QED BY <2>3, <1>4
<1> QED BY <1>6

(* Induction: what holds of 0, and of n + 1 when it holds of n, holds of   *)
(* every natural number.                                                   *)
LEMMA NaturalInduction ==
  ASSUME NEW S, 0 \in S, \A n \in Nat : n \in S => n + 1 \in S
  PROVE  \A n \in Nat : n \in S
<1> SUFFICES ASSUME Nat \ S # {} PROVE FALSE
  OBVIOUS
<1>1. PICK x \in Nat \ S : \A y \in Nat \ S : x <= y
  BY LeastNatural
<1>2. x # 0
  BY <1>1
<1>3. x - 1 \in Nat /\ x - 1 \notin Nat \ S
  BY <1>1, <1>2
<1> QED BY <1>1, <1>3

(* Induction over the sequences on a set, by appending a member.           *)
LEMMA SequenceInduction ==
  ASSUME NEW M, NEW S, <<>> \in S,
         \A p \in Seq(M), x \in M : p \in S => Append(p, x) \in S
  PROVE  \A p \in Seq(M) : p \in S
<1> DEFINE N == {n \in Nat : \A p \in Seq(M) : Len(p) = n => p \in S}
<1>1. 0 \in N
  <2>1. ASSUME NEW p \in Seq(M), Len(p) = 0 PROVE p = <<>>
    BY <2>1
  <2> QED BY <2>1
<1>2. ASSUME NEW n \in Nat, n \in N PROVE n + 1 \in N
  <2>1. ASSUME NEW p \in Seq(M), Len(p) = n + 1 PROVE p \in S
    <3> DEFINE q == SubSeq(p, 1, n)
    <3>1. q \in Seq(M) /\ Len(q) = n /\ p[n + 1] \in M /\ p = Append(q, p[n + 1])
      BY <2>1
    <3>2. q \in S
      BY <1>2, <3>1
    <3> HIDE DEF q
    <3> QED BY <3>1, <3>2
  <2> QED BY <2>1
<1>3. \A n \in Nat : n \in N
  <2> HIDE DEF N
  <2> QED BY <1>1, <1>2, NaturalInduction
<1> QED BY <1>3

(* A set of numbers up to n that has a member has a greatest one.          *)
LEMMA Greatest ==
  ASSUME NEW n \in Nat, NEW T \in SUBSET (0..n), T # {}
  PROVE  \E k \in T : \A j \in T : j <= k
<1> DEFINE U == {n - k : k \in T}
<1>1. U \in SUBSET Nat /\ U # {}
  <2>1. \A k \in T : k \in 0..n /\ n - k \in Nat
    OBVIOUS
  <2> QED BY <2>1
<1>2. PICK x \in U : \A y \in U : x <= y
  <2> HIDE DEF U
  <2> QED BY <1>1, LeastNatural
<1>3. PICK k \in T : x = n - k
  BY <1>2
<1>4. \A j \in T : n - j \in U
  OBVIOUS
<1>5. ASSUME NEW j \in T PROVE j <= k
  <2>1. n - k <= n - j
    BY <1>2, <1>3, <1>4
  <2> QED BY <2>1
<1> QED BY <1>5

(* h follows g from d for n steps. *)
Iterates(h, d, g, n) ==
  h[0] = d /\ \A i \in 0..(n-1) : h[i+1] = g[<<i, h[i]>>]

(* A step function can be iterated n times.                                *)
LEMMA IterationUpTo ==
  ASSUME NEW D, NEW d \in D, NEW g \in [Nat \X D -> D], NEW n \in Nat
  PROVE  \E h \in [0..n -> D] : Iterates(h, d, g, n)
<1> DEFINE S == {m \in Nat : \E h \in [0..m -> D] : Iterates(h, d, g, m)}
<1>1. 0 \in S
  <2>1. [i \in 0..0 |-> d] \in [0..0 -> D]
    OBVIOUS
  <2>2. Iterates([i \in 0..0 |-> d], d, g, 0)
    BY DEF Iterates
  <2> QED BY <2>1, <2>2
<1>2. ASSUME NEW m \in Nat, m \in S PROVE m + 1 \in S
  <2>1. PICK h \in [0..m -> D] : Iterates(h, d, g, m)
    BY <1>2
  <2> DEFINE e == [i \in 0..(m+1) |-> IF i <= m THEN h[i] ELSE g[<<m, h[m]>>]]
  <2>2. h[m] \in D /\ g[<<m, h[m]>>] \in D
    OBVIOUS
  <2>3. e \in [0..(m+1) -> D]
    BY <2>2
  <2>4. e[0] = d
    BY <2>1 DEF Iterates
  <2>5. ASSUME NEW i \in 0..m PROVE e[i+1] = g[<<i, e[i]>>]
    <3>1. CASE i = m
      BY <3>1
    <3>2. CASE i # m
      <4>1. i \in 0..(m-1) /\ i + 1 \in 0..m
        BY <3>2
      <4> QED BY <4>1, <2>1 DEF Iterates
    <3> QED BY <3>1, <3>2
  <2>6. Iterates(e, d, g, m + 1)
    <3>1. (m + 1) - 1 = m
      OBVIOUS
    <3> HIDE DEF e
    <3> QED BY <2>4, <2>5, <3>1 DEF Iterates
  <2> HIDE DEF e
  <2> QED BY <2>3, <2>6
<1>3. n \in S
  <2> HIDE DEF S
  <2> QED BY <1>1, <1>2, NaturalInduction
<1> QED BY <1>3

(* Two iterations of one step function agree as far as both go.            *)
LEMMA IterationUnique ==
  ASSUME NEW d, NEW g, NEW m \in Nat, NEW n \in Nat, m <= n, NEW h, NEW k,
         Iterates(h, d, g, m), Iterates(k, d, g, n)
  PROVE  \A i \in 0..m : h[i] = k[i]
<1> DEFINE S == {i \in Nat : i <= m => h[i] = k[i]}
<1>1. 0 \in S
  BY DEF Iterates
<1>2. ASSUME NEW i \in Nat, i \in S PROVE i + 1 \in S
  <2> SUFFICES ASSUME i + 1 <= m PROVE h[i+1] = k[i+1]
    OBVIOUS
  <2>1. i \in 0..(m-1) /\ i \in 0..(n-1)
    OBVIOUS
  <2>2. h[i] = k[i]
    BY <1>2
  <2>3. h[i+1] = g[<<i, h[i]>>] /\ k[i+1] = g[<<i, k[i]>>]
    BY <2>1 DEF Iterates
  <2> QED BY <2>2, <2>3
<1>3. \A i \in Nat : i \in S
  <2> HIDE DEF S
  <2> QED BY <1>1, <1>2, NaturalInduction
<1> QED BY <1>3

IsIteration(f, D, d, g) ==
  /\ f \in [Nat -> D]
  /\ f[0] = d
  /\ \A i \in Nat : f[i+1] = g[<<i, f[i]>>]

(* A step function can be iterated over all natural numbers.               *)
LEMMA Iteration ==
  ASSUME NEW D, NEW d \in D, NEW g \in [Nat \X D -> D]
  PROVE  \E f : IsIteration(f, D, d, g)
<1> DEFINE H(n) == CHOOSE h : h \in [0..n -> D] /\ Iterates(h, d, g, n)
           f == [n \in Nat |-> H(n)[n]]
<1>1. ASSUME NEW n \in Nat PROVE H(n) \in [0..n -> D] /\ Iterates(H(n), d, g, n)
  <2>1. \E h : h \in [0..n -> D] /\ Iterates(h, d, g, n)
    BY IterationUpTo
  <2> QED BY <2>1
<1>2. \A n \in Nat : f[n] = H(n)[n]
  OBVIOUS
<1> HIDE DEF H
<1>3. ASSUME NEW m \in Nat, NEW n \in Nat, m <= n
      PROVE  H(m)[m] = H(n)[m]
  <2>1. Iterates(H(m), d, g, m) /\ Iterates(H(n), d, g, n)
    BY <1>1
  <2>2. \A i \in 0..m : H(m)[i] = H(n)[i]
    BY <2>1, <1>3, IterationUnique
  <2> QED BY <2>2
<1>4. f \in [Nat -> D]
  <2> SUFFICES ASSUME NEW n \in Nat PROVE H(n)[n] \in D
    OBVIOUS
  <2> QED BY <1>1
<1> HIDE DEF f
<1>5. f[0] = d
  BY <1>1, <1>2 DEF Iterates
<1>6. ASSUME NEW i \in Nat PROVE f[i+1] = g[<<i, f[i]>>]
  <2>1. i + 1 \in Nat /\ i <= i + 1 /\ i \in 0..((i+1)-1)
    OBVIOUS
  <2>2. H(i)[i] = H(i+1)[i]
    BY <1>3, <2>1
  <2>3. Iterates(H(i+1), d, g, i+1)
    BY <1>1, <2>1
  <2>4. H(i+1)[i+1] = g[<<i, H(i+1)[i]>>]
    BY <2>1, <2>3 DEF Iterates
  <2> QED BY <1>2, <2>1, <2>2, <2>4
<1> QED BY <1>4, <1>5, <1>6 DEF IsIteration

(* FlattenSeq appends its members one after the other.                     *)
LEMMA FlattenByBlocks ==
  ASSUME NEW S, NEW seqs \in Seq(Seq(S))
  PROVE  \E f \in [0..Len(seqs) -> Seq(S)] :
            /\ f[0] = <<>>
            /\ \A i \in 1..Len(seqs) : f[i] = f[i-1] \o seqs[i]
            /\ FlattenSeq(seqs) = f[Len(seqs)]
<1> DEFINE n == Len(seqs)
<1>0. n \in Nat /\ \A i \in 1..n : seqs[i] \in Seq(S)
  OBVIOUS
<1>1. CASE n = 0
  <2>1. seqs = <<>>
    BY <1>1
  <2>2. FlattenSeq(seqs) = <<>>
    BY <1>1, <2>1 DEF FlattenSeq
  <2> DEFINE f == [i \in 0..0 |-> <<>>]
  <2>3. f \in [0..0 -> Seq(S)] /\ f[0] = <<>>
    OBVIOUS
  <2>4. \A i \in 1..n : f[i] = f[i-1] \o seqs[i]
    BY <1>1
  <2> HIDE DEF f
  <2> QED BY <1>1, <2>2, <2>3, <2>4
<1>2. CASE n # 0
  <2> DEFINE Eq(fl) == fl = [i \in 1..n |-> IF i = 1 THEN seqs[i] ELSE fl[i-1] \o seqs[i]]
  <2>1. \E fl : Eq(fl)
    <3> DEFINE g == [p \in Nat \X Seq(S) |->
                       IF p[1] + 1 \in 1..n THEN p[2] \o seqs[p[1] + 1] ELSE p[2]]
    <3>1. g \in [Nat \X Seq(S) -> Seq(S)]
      <4> SUFFICES ASSUME NEW p \in Nat \X Seq(S), p[1] + 1 \in 1..n
                   PROVE  p[2] \o seqs[p[1] + 1] \in Seq(S)
        OBVIOUS
      <4>1. p[2] \in Seq(S) /\ seqs[p[1] + 1] \in Seq(S)
        BY <1>0
      <4> HIDE DEF n
      <4> QED BY <4>1
    <3>2. <<>> \in Seq(S)
      OBVIOUS
    <3>3. \A i \in Nat, x \in Seq(S) : g[<<i, x>>] = IF i + 1 \in 1..n THEN x \o seqs[i + 1] ELSE x
      OBVIOUS
    <3> HIDE DEF g
    <3>4. PICK f \in [Nat -> Seq(S)] : f[0] = <<>> /\ \A i \in Nat : f[i+1] = g[<<i, f[i]>>]
      <4>1. \E f : IsIteration(f, Seq(S), <<>>, g)
        BY <3>1, <3>2, Iteration
      <4> QED BY <4>1 DEF IsIteration
    <3> DEFINE w == [i \in 1..n |-> f[i]]
    <3>5. ASSUME NEW i \in 1..n
          PROVE  w[i] = IF i = 1 THEN seqs[i] ELSE w[i-1] \o seqs[i]
      <4>1. i - 1 \in Nat /\ (i - 1) + 1 = i
        OBVIOUS
      <4>2. f[i-1] \in Seq(S)
        BY <4>1
      <4>3. f[i] = g[<<i-1, f[i-1]>>]
        BY <3>4, <4>1
      <4>4. f[i] = f[i-1] \o seqs[i]
        BY <3>3, <4>1, <4>2, <4>3
      <4>5. CASE i = 1
        <5>1. f[i-1] = <<>>
          BY <3>4, <4>5
        <5>2. seqs[i] \in Seq(S)
          BY <1>0
        <5>3. <<>> \o seqs[i] = seqs[i]
          BY <5>2
        <5> QED BY <4>4, <4>5, <5>1, <5>3
      <4>6. CASE i # 1
        <5>1. i - 1 \in 1..n
          BY <4>6
        <5> QED BY <4>4, <4>6, <5>1
      <4> QED BY <4>5, <4>6
    <3>6. Eq(w)
      <4>1. w = [i \in 1..n |-> w[i]]
        OBVIOUS
      <4> HIDE DEF w
      <4> QED BY <4>1, <3>5
    <3> QED BY <3>6
  <2> DEFINE fl == CHOOSE x : Eq(x)
  <2>2. Eq(fl)
    <3> HIDE DEF Eq
    <3> QED BY <2>1
  <2>3. FlattenSeq(seqs) = fl[n]
    BY <1>2 DEF FlattenSeq
  <2> HIDE DEF fl
  <2>4. \A i \in 1..n : fl[i] = IF i = 1 THEN seqs[i] ELSE fl[i-1] \o seqs[i]
    BY <2>2
  <2> DEFINE T == {i \in Nat : i + 1 \in 1..n => fl[i + 1] \in Seq(S)}
  <2>5. 0 \in T
    BY <1>0, <2>4
  <2>6. ASSUME NEW i \in Nat, i \in T PROVE i + 1 \in T
    <3> SUFFICES ASSUME (i + 1) + 1 \in 1..n PROVE fl[(i + 1) + 1] \in Seq(S)
      OBVIOUS
    <3>1. fl[i + 1] \in Seq(S)
      BY <2>6
    <3>2. fl[(i+1)+1] = fl[i+1] \o seqs[(i+1)+1]
      <4>1. (i+1)+1 # 1 /\ ((i+1)+1) - 1 = i+1
        OBVIOUS
      <4> QED BY <2>4, <4>1
    <3>3. seqs[(i+1)+1] \in Seq(S)
      BY <1>0
    <3> QED BY <3>1, <3>2, <3>3
  <2>7. \A i \in Nat : i \in T
    <3> HIDE DEF T
    <3> QED BY <2>5, <2>6, NaturalInduction
  <2>8. ASSUME NEW i \in 1..n PROVE fl[i] \in Seq(S)
    <3>1. i - 1 \in Nat /\ (i - 1) + 1 = i
      OBVIOUS
    <3>2. i - 1 \in T
      <4> HIDE DEF T
      <4> QED BY <2>7, <3>1
    <3> QED BY <3>1, <3>2
  <2> DEFINE f == [i \in 0..n |-> IF i = 0 THEN <<>> ELSE fl[i]]
  <2>9. f \in [0..n -> Seq(S)]
    BY <2>8
  <2>10. ASSUME NEW i \in 1..n PROVE f[i] = f[i-1] \o seqs[i]
    <3>1. CASE i = 1
      <4>1. f[i] = seqs[i] /\ f[i-1] = <<>>
        BY <2>4, <3>1
      <4>2. seqs[i] \in Seq(S)
        BY <1>0
      <4>3. <<>> \o seqs[i] = seqs[i]
        BY <4>2
      <4> QED BY <4>1, <4>3
    <3>2. CASE i # 1
      <4>1. f[i] = fl[i] /\ f[i-1] = fl[i-1]
        BY <3>2
      <4> QED BY <2>4, <3>2, <4>1
    <3> QED BY <3>1, <3>2
  <2>11. f[0] = <<>> /\ f[n] = fl[n]
    BY <1>0, <1>2
  <2> HIDE DEF f
  <2> QED BY <2>3, <2>9, <2>10, <2>11
<1> QED BY <1>1, <1>2
(* x lies before y in the sequences: in an earlier one, or earlier in one. *)
BlockBefore(seqs, n, x, y) ==
  \E i \in 1..n, j \in 1..n :
     \E m \in 1..Len(seqs[i]), l \in 1..Len(seqs[j]) :
        /\ x = seqs[i][m] /\ y = seqs[j][l]
        /\ i < j \/ (i = j /\ m < l)

FlatMembers(flat, seqs, n) ==
  /\ \A i \in 1..n : \A m \in 1..Len(seqs[i]) : \E a \in 1..Len(flat) : flat[a] = seqs[i][m]
  /\ \A a \in 1..Len(flat) : \E i \in 1..n : \E m \in 1..Len(seqs[i]) : flat[a] = seqs[i][m]

FlatOrder(flat, seqs, n) ==
  \A a, b \in 1..Len(flat) : a < b => BlockBefore(seqs, n, flat[a], flat[b])

(* The members of a concatenation, by position.                            *)
LEMMA ConcatMembers ==
  ASSUME NEW S, NEW s \in Seq(S), NEW t \in Seq(S)
  PROVE  /\ s \o t \in Seq(S)
         /\ Len(s \o t) = Len(s) + Len(t)
         /\ \A a \in 1..Len(s) : (s \o t)[a] = s[a]
         /\ \A a \in 1..Len(t) : (s \o t)[Len(s) + a] = t[a]
         /\ \A a \in 1..Len(s \o t) :
              a \in 1..Len(s) \/ (a - Len(s) \in 1..Len(t) /\ (s \o t)[a] = t[a - Len(s)])
OBVIOUS

(* A flattened sequence has the members of its blocks, and keeps the order *)
(* within a block and between blocks.                                      *)
LEMMA FlattenMembers ==
  ASSUME NEW S, NEW seqs \in Seq(Seq(S))
  PROVE  /\ FlattenSeq(seqs) \in Seq(S)
         /\ FlatMembers(FlattenSeq(seqs), seqs, Len(seqs))
         /\ FlatOrder(FlattenSeq(seqs), seqs, Len(seqs))
<1>1. PICK f \in [0..Len(seqs) -> Seq(S)] :
         /\ f[0] = <<>>
         /\ \A i \in 1..Len(seqs) : f[i] = f[i-1] \o seqs[i]
         /\ FlattenSeq(seqs) = f[Len(seqs)]
  BY FlattenByBlocks
<1>2. Len(seqs) \in Nat /\ \A i \in 1..Len(seqs) : seqs[i] \in Seq(S)
  OBVIOUS
<1> DEFINE P(i) == FlatMembers(f[i], seqs, i) /\ FlatOrder(f[i], seqs, i)
           T == {i \in Nat : i <= Len(seqs) => P(i)}
<1>3. 0 \in T
  <2>1. Len(f[0]) = 0
    BY <1>1
  <2> QED BY <2>1 DEF FlatMembers, FlatOrder
<1>4. ASSUME NEW i \in Nat, i \in T PROVE i + 1 \in T
  <2> SUFFICES ASSUME i + 1 <= Len(seqs) PROVE P(i+1)
    OBVIOUS
  <2> DEFINE s == f[i]
             t == seqs[i+1]
             n == Len(s)
  <2>1. i \in 0..Len(seqs) /\ i + 1 \in 1..Len(seqs) /\ (i + 1) - 1 = i
    BY <1>2
  <2>2. s \in Seq(S) /\ t \in Seq(S) /\ f[i+1] = s \o t
    BY <1>1, <1>2, <2>1
  <2>3. FlatMembers(s, seqs, i) /\ FlatOrder(s, seqs, i)
    BY <1>4, <2>1
  <2>4. \A k \in 1..(i+1) : k \in 1..i \/ k = i + 1
    OBVIOUS
  <2>4a. 1..i \subseteq 1..(i+1) /\ i + 1 \in 1..(i+1)
    OBVIOUS
  <2> HIDE DEF s
  <2>5. /\ s \o t \in Seq(S) /\ Len(s \o t) = n + Len(t)
        /\ \A a \in 1..n : (s \o t)[a] = s[a]
        /\ \A a \in 1..Len(t) : (s \o t)[n + a] = t[a]
        /\ \A a \in 1..Len(s \o t) :
             a \in 1..n \/ (a - n \in 1..Len(t) /\ (s \o t)[a] = t[a - n])
    <3> HIDE DEF t
    <3> QED BY <2>2, ConcatMembers
  <2>5a. n \in Nat /\ Len(t) \in Nat
    BY <2>2
  <2>6. FlatMembers(s \o t, seqs, i + 1)
    <3>1. ASSUME NEW k \in 1..(i+1), NEW m \in 1..Len(seqs[k])
          PROVE  \E a \in 1..Len(s \o t) : (s \o t)[a] = seqs[k][m]
      <4>1. CASE k \in 1..i
        <5>1. PICK a \in 1..n : s[a] = seqs[k][m]
          BY <2>3, <4>1 DEF FlatMembers
        <5>2. a \in 1..Len(s \o t)
          BY <2>5, <2>5a
        <5> QED BY <5>1, <5>2, <2>5
      <4>2. CASE k = i + 1
        <5>1. n + m \in 1..Len(s \o t)
          BY <2>5, <2>5a, <4>2
        <5> QED BY <5>1, <2>5, <4>2
      <4> QED BY <2>4, <4>1, <4>2
    <3>2. ASSUME NEW a \in 1..Len(s \o t)
          PROVE  \E k \in 1..(i+1) : \E m \in 1..Len(seqs[k]) : (s \o t)[a] = seqs[k][m]
      <4>1. CASE a \in 1..n
        <5>1. PICK k \in 1..i : \E m \in 1..Len(seqs[k]) : s[a] = seqs[k][m]
          BY <2>3, <4>1 DEF FlatMembers
        <5> QED BY <5>1, <4>1, <2>5, <2>4a
      <4>2. CASE a - n \in 1..Len(t) /\ (s \o t)[a] = t[a - n]
        BY <4>2, <2>4a
      <4> QED BY <4>1, <4>2, <2>5
    <3> HIDE DEF t
    <3> QED BY <3>1, <3>2 DEF FlatMembers
  <2>7. FlatOrder(s \o t, seqs, i + 1)
    <3> SUFFICES ASSUME NEW a \in 1..Len(s \o t), NEW b \in 1..Len(s \o t), a < b
                 PROVE  BlockBefore(seqs, i + 1, (s \o t)[a], (s \o t)[b])
      BY DEF FlatOrder
    <3>1. CASE b \in 1..n
      <4>1. a \in 1..n
        BY <3>1, <2>5a
      <4>2. BlockBefore(seqs, i, s[a], s[b])
        BY <3>1, <4>1, <2>3 DEF FlatOrder
      <4>3. BlockBefore(seqs, i + 1, s[a], s[b])
        BY <4>2, <2>4a DEF BlockBefore
      <4> QED BY <4>1, <4>3, <3>1, <2>5
    <3>2. CASE a \in 1..n /\ b - n \in 1..Len(t) /\ (s \o t)[b] = t[b - n]
      <4>0. PICK k \in 1..i : \E m \in 1..Len(seqs[k]) : s[a] = seqs[k][m]
        BY <2>3, <3>2 DEF FlatMembers
      <4>1. PICK m \in 1..Len(seqs[k]) : s[a] = seqs[k][m]
        BY <4>0
      <4>2. k < i + 1 /\ k \in 1..(i+1)
        OBVIOUS
      <4>3. (s \o t)[a] = seqs[k][m] /\ (s \o t)[b] = seqs[i+1][b - n]
        BY <4>1, <3>2, <2>5
      <4>4. b - n \in 1..Len(seqs[i+1])
        BY <3>2
      <4> QED BY <4>2, <4>3, <4>4, <2>4a DEF BlockBefore
    <3>3. CASE /\ a - n \in 1..Len(t) /\ (s \o t)[a] = t[a - n]
               /\ b - n \in 1..Len(t) /\ (s \o t)[b] = t[b - n]
      <4>1. a - n < b - n
        BY <2>5a
      <4>2. a - n \in 1..Len(seqs[i+1]) /\ b - n \in 1..Len(seqs[i+1])
        BY <3>3
      <4>3. (s \o t)[a] = seqs[i+1][a - n] /\ (s \o t)[b] = seqs[i+1][b - n]
        BY <3>3
      <4> QED BY <4>1, <4>2, <4>3, <2>4a DEF BlockBefore
    <3> QED BY <2>5, <3>1, <3>2, <3>3
  <2> QED BY <2>2, <2>6, <2>7
<1>5. \A i \in Nat : i \in T
  <2> HIDE DEF T
  <2> QED BY <1>3, <1>4, NaturalInduction
<1>6. P(Len(seqs))
  BY <1>5, <1>2
<1> QED BY <1>1, <1>2, <1>6

(* A pair is a concatenation of two sequences of one.                      *)
LEMMA PairIsConcat ==
  ASSUME NEW S, NEW x \in S, NEW y \in S
  PROVE  <<x, y>> = <<x>> \o <<y>>
<1>1. <<x, y>> \in Seq(S) /\ Len(<<x, y>>) = 2 /\ <<x, y>>[1] = x /\ <<x, y>>[2] = y
  OBVIOUS
<1>2. <<x>> \in Seq(S) /\ Len(<<x>>) = 1 /\ <<x>>[1] = x
  OBVIOUS
<1>3. <<y>> \in Seq(S) /\ Len(<<y>>) = 1 /\ <<y>>[1] = y
  OBVIOUS
<1>4. <<x>> \o <<y>> \in Seq(S) /\ Len(<<x>> \o <<y>>) = 1 + 1
      /\ \A i \in 1..(1 + 1) : (<<x>> \o <<y>>)[i] = IF i <= 1 THEN <<x>>[i] ELSE <<y>>[i - 1]
  <2> DEFINE p == <<x>>
             q == <<y>>
  <2>1. p \in Seq(S) /\ q \in Seq(S) /\ Len(p) = 1 /\ Len(q) = 1
    BY <1>2, <1>3
  <2> HIDE DEF p, q
  <2>2. p \o q \in Seq(S) /\ Len(p \o q) = Len(p) + Len(q)
         /\ \A i \in 1 .. Len(p) + Len(q) : (p \o q)[i] = IF i <= Len(p) THEN p[i] ELSE q[i - Len(p)]
    BY <2>1, ConcatProperties
  <2> QED BY <2>1, <2>2 DEF p, q
<1>5. \A i \in 1..2 : <<x, y>>[i] = (<<x>> \o <<y>>)[i]
  <2>1. (<<x>> \o <<y>>)[1] = x /\ (<<x>> \o <<y>>)[2] = y
    BY <1>2, <1>3, <1>4
  <2>2. \A i \in 1..2 : i = 1 \/ i = 2
    OBVIOUS
  <2> QED BY <1>1, <2>1, <2>2
<1>6. \A s, t \in Seq(S) : Len(s) = Len(t) /\ (\A i \in 1 .. Len(s) : s[i] = t[i]) => s = t
  BY SeqEqual
<1> DEFINE u == <<x, y>>
           v == <<x>> \o <<y>>
<1>7. u \in Seq(S) /\ v \in Seq(S) /\ Len(u) = 2 /\ Len(v) = 2 /\ \A i \in 1..2 : u[i] = v[i]
  BY <1>1, <1>4, <1>5
<1>8. u = v
  <2> HIDE DEF u, v
  <2> QED BY <1>6, <1>7
<1> QED BY <1>8

(* What holds of every member of a sequence of sequences, and passes to a  *)
(* concatenation, holds of the flattened sequence.                         *)
LEMMA FlattenClosed ==
  ASSUME NEW S, NEW T \in SUBSET Seq(S), <<>> \in T, \A a, b \in T : a \o b \in T,
         NEW seqs \in Seq(T)
  PROVE  FlattenSeq(seqs) \in T
<1>0. seqs \in Seq(Seq(S)) /\ Len(seqs) \in Nat /\ \A i \in 1..Len(seqs) : seqs[i] \in T
  OBVIOUS
<1>1. PICK f \in [0..Len(seqs) -> Seq(S)] :
         /\ f[0] = <<>>
         /\ \A i \in 1..Len(seqs) : f[i] = f[i-1] \o seqs[i]
         /\ FlattenSeq(seqs) = f[Len(seqs)]
  BY <1>0, FlattenByBlocks
<1> DEFINE N == {k \in Nat : k <= Len(seqs) => f[k] \in T}
<1>2. 0 \in N
  BY <1>1
<1>3. ASSUME NEW k \in Nat, k \in N PROVE k + 1 \in N
  <2> SUFFICES ASSUME k + 1 <= Len(seqs) PROVE f[k + 1] \in T
    OBVIOUS
  <2>1. k + 1 \in 1..Len(seqs) /\ (k + 1) - 1 = k /\ k <= Len(seqs)
    BY <1>0
  <2>2. f[k + 1] = f[k] \o seqs[k + 1]
    BY <1>1, <2>1
  <2>3. f[k] \in T /\ seqs[k + 1] \in T
    BY <1>0, <1>3, <2>1
  <2> QED BY <2>2, <2>3
<1>4. \A k \in Nat : k \in N
  <2> HIDE DEF N
  <2> QED BY <1>2, <1>3, NaturalInduction
<1> QED BY <1>0, <1>1, <1>4

(* A function on 1..n+1 given from the end: each value by one that comes   *)
(* after it.                                                               *)
FromTheEnd(f, D, d, n, jump, g) ==
  /\ f \in [1..(n + 1) -> D] /\ f[n + 1] = d
  /\ \A i \in 1..n : f[i] = g[<<i, f[jump[i]]>>]

LEMMA DownwardIteration ==
  ASSUME NEW D, NEW d \in D, NEW n \in Nat,
         NEW jump, \A i \in 1..n : jump[i] \in (i + 1)..(n + 1),
         NEW g \in [(1..n) \X D -> D]
  PROVE  \E f : FromTheEnd(f, D, d, n, jump, g)
<1> DEFINE From(f, m) ==
             /\ f \in [m..(n + 1) -> D] /\ f[n + 1] = d
             /\ \A i \in m..n : f[i] = g[<<i, f[jump[i]]>>]
           N == {k \in Nat : k <= n => \E f : From(f, (n + 1) - k)}
<1>1. 0 \in N
  <2> DEFINE f0 == [i \in (n + 1)..(n + 1) |-> d]
  <2>1. f0 \in [((n + 1) - 0)..(n + 1) -> D] /\ f0[n + 1] = d
    OBVIOUS
  <2>2. \A i \in ((n + 1) - 0)..n : FALSE
    OBVIOUS
  <2> HIDE DEF f0
  <2>3. From(f0, (n + 1) - 0)
    BY <2>1, <2>2
  <2> QED BY <2>3
<1>2. ASSUME NEW k \in Nat, k \in N PROVE k + 1 \in N
  <2> SUFFICES ASSUME k + 1 <= n PROVE \E f : From(f, (n + 1) - (k + 1))
    OBVIOUS
  <2> DEFINE m == n - k
  <2>1. m \in 1..n /\ (n + 1) - k = m + 1 /\ (n + 1) - (k + 1) = m /\ m \in Nat
    OBVIOUS
  <2>2. PICK f : From(f, m + 1)
    BY <1>2, <2>1
  <2> HIDE DEF m
  <2> DEFINE h == [i \in m..(n + 1) |-> IF i = m THEN g[<<m, f[jump[m]]>>] ELSE f[i]]
  <2>3. jump[m] \in (m + 1)..(n + 1)
    BY <2>1
  <2>4. f[jump[m]] \in D
    BY <2>2, <2>3
  <2>5. g[<<m, f[jump[m]]>>] \in D
    BY <2>1, <2>4
  <2>6. h \in [m..(n + 1) -> D]
    <3> SUFFICES ASSUME NEW i \in m..(n + 1), i # m PROVE f[i] \in D
      BY <2>5
    <3>1. i \in (m + 1)..(n + 1)
      BY <2>1
    <3> QED BY <2>2, <3>1
  <2>7. h[n + 1] = d
    <3>1. n + 1 \in m..(n + 1) /\ n + 1 # m
      BY <2>1
    <3> QED BY <2>2, <3>1
  <2>8. ASSUME NEW i \in m..n PROVE h[i] = g[<<i, h[jump[i]]>>]
    <3>1. i \in 1..n /\ i \in m..(n + 1)
      BY <2>1
    <3>2. jump[i] \in (i + 1)..(n + 1)
      BY <3>1
    <3>3. jump[i] \in m..(n + 1) /\ jump[i] # m
      BY <2>1, <3>1, <3>2
    <3>4. h[jump[i]] = f[jump[i]]
      BY <3>3
    <3>5. CASE i = m
      BY <3>1, <3>4, <3>5
    <3>6. CASE i # m
      <4>1. i \in (m + 1)..n
        BY <2>1, <3>6
      <4>2. f[i] = g[<<i, f[jump[i]]>>]
        BY <2>2, <4>1
      <4> QED BY <3>1, <3>4, <3>6, <4>2
    <3> QED BY <3>5, <3>6
  <2> HIDE DEF h
  <2>9. From(h, m)
    BY <2>6, <2>7, <2>8
  <2> QED BY <2>1, <2>9
<1>3. \A k \in Nat : k \in N
  <2> HIDE DEF N
  <2> QED BY <1>1, <1>2, NaturalInduction
<1>4. PICK f : From(f, (n + 1) - n)
  <2>1. n \in N
    BY <1>3
  <2> HIDE DEF From
  <2> QED BY <2>1
<1>5. (n + 1) - n = 1
  OBVIOUS
<1> QED BY <1>4, <1>5 DEF FromTheEnd
=============================================================================
