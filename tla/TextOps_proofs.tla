-------------------------- MODULE TextOps_proofs --------------------------
(***************************************************************************)
(* Facts about FlattenSeq, Spread and Kept for texts over any set of       *)
(* characters, and the two ways of arguing by induction that the provers   *)
(* can follow: the least number of a set, and a set of texts that is       *)
(* closed under appending a character.                                     *)
(***************************************************************************)
EXTENDS TextOps, SequenceTheorems, WellFoundedInduction, TLAPS

\* A set of numbers that is not empty has a least one.
LEMMA LeastNumber ==
    ASSUME NEW T, T \subseteq Nat, T # {}
    PROVE  \E x \in T : \A y \in T : x <= y
<1>1. \E x \in T : \A y \in T : ~(<<y, x>> \in OpToRel(<, Nat))
  BY WFMin, NatLessThanWellFounded
<1>2. PICK x \in T : \A y \in T : ~(<<y, x>> \in OpToRel(<, Nat))
  BY <1>1
<1>3. ASSUME NEW y \in T
      PROVE  x <= y
  <2>1. ~(<<y, x>> \in {ss \in Nat \X Nat : ss[1] < ss[2]})
    BY <1>2 DEF OpToRel
  <2>2. x \in Nat /\ y \in Nat
    BY <1>2
  <2> QED
    BY <2>1, <2>2
<1> QED
  BY <1>2, <1>3

\* From the end of the text back to its beginning.
LEMMA DownInduction ==
  ASSUME NEW n, NEW S, n \in Nat, n + 1 \in S,
         \A k \in 1 .. n : (\A j \in k + 1 .. n + 1 : j \in S) => k \in S
  PROVE  \A k \in 1 .. n + 1 : k \in S
<1> DEFINE T == {k \in 0 .. n : n + 1 - k \notin S}
<1>1. T = {}
  <2> SUFFICES ASSUME T # {} PROVE FALSE
    OBVIOUS
  <2>1. PICK m \in T : \A y \in T : m <= y
    <3>1. T \subseteq Nat
      OBVIOUS
    <3> HIDE DEF T
    <3> QED
      BY <3>1, LeastNumber
  <2>2. PICK k : k = n + 1 - m /\ m \in 0 .. n /\ k \in 1 .. n + 1 /\ k \notin S
    OBVIOUS
  <2>3. \A j \in k + 1 .. n + 1 : j \in S
    <3> SUFFICES ASSUME NEW j \in k + 1 .. n + 1, j \notin S PROVE FALSE
      OBVIOUS
    <3>1. PICK y : y = n + 1 - j /\ y \in 0 .. n /\ n + 1 - y = j /\ ~(m <= y)
      BY <2>2
    <3>2. y \in T
      BY <3>1
    <3> HIDE DEF T
    <3> QED
      BY <2>1, <3>1, <3>2
  <2>4. k # n + 1
    BY <2>2
  <2>5. k \in 1 .. n
    BY <2>2, <2>4
  <2> QED
    BY <2>2, <2>3, <2>5
<1> SUFFICES ASSUME NEW k \in 1 .. n + 1, k \notin S PROVE FALSE
  OBVIOUS
<1>2. n + 1 - k \in 0 .. n /\ n + 1 - (n + 1 - k) = k
  OBVIOUS
<1> QED
  BY <1>1, <1>2

\* f is what a walk from each position on puts together, when it puts put[i] at
\* i and goes on at next[i].
Walks(f, n, put, next) ==
    f = [i \in 1 .. n + 1 |-> IF i > n THEN <<>> ELSE put[i] \o f[next[i]]]

\* A walk that always goes on puts something together.
LEMMA WalkExists ==
  ASSUME NEW n \in Nat, NEW put, NEW next, \A i \in 1 .. n : next[i] \in i + 1 .. n + 1
  PROVE  \E f : Walks(f, n, put, next)
<1>0. n \in Nat
  OBVIOUS
<1> DEFINE Value(f, i) == IF i > n THEN <<>> ELSE put[i] \o f[next[i]]
           Good(k) == \E f : \A i \in k .. n + 1 : f[i] = Value(f, i)
           S == {k \in 1 .. n + 1 : Good(k)}
<1>1. Good(n + 1)
  <2>1. PICK f : f = [i \in 1 .. n + 1 |-> <<>>]
    OBVIOUS
  <2>2. \A i \in n + 1 .. n + 1 : f[i] = Value(f, i)
    BY <1>0, <2>1
  <2> QED
    BY <2>2
<1>2. ASSUME NEW k \in 1 .. n, Good(k + 1) PROVE Good(k)
  <2>1. PICK g : \A i \in k + 1 .. n + 1 : g[i] = Value(g, i)
    BY <1>2
  <2>2. PICK v : v = put[k] \o g[next[k]]
    OBVIOUS
  <2>3. PICK f : f = [i \in 1 .. n + 1 |-> IF i = k THEN v ELSE g[i]]
    OBVIOUS
  <2>4. \A i \in k + 1 .. n + 1 : f[i] = g[i]
    BY <1>0, <2>3
  <2>5. \A i \in k .. n : next[i] \in k + 1 .. n + 1
    <3> SUFFICES ASSUME NEW i \in k .. n PROVE next[i] \in k + 1 .. n + 1
      OBVIOUS
    <3>1. i \in 1 .. n
      BY <1>0
    <3>2. next[i] \in i + 1 .. n + 1
      BY <3>1
    <3> QED
      BY <1>0, <3>2
  <2>6. ASSUME NEW i \in k .. n + 1 PROVE f[i] = Value(f, i)
    <3>1. CASE i = k
      <4>1. f[k] = v /\ ~(k > n) /\ k \in k .. n
        BY <1>0, <2>3
      <4>2. PICK x : x = next[k] /\ x \in k + 1 .. n + 1
        BY <2>5, <4>1
      <4>3. f[x] = g[x]
        BY <2>4, <4>2
      <4> QED
        BY <2>2, <3>1, <4>1, <4>2, <4>3
    <3>2. CASE i # k /\ i <= n
      <4>1. i \in k + 1 .. n + 1 /\ i \in k .. n /\ ~(i > n)
        BY <1>0, <3>2
      <4>2. PICK x : x = next[i] /\ x \in k + 1 .. n + 1
        BY <2>5, <4>1
      <4>3. f[x] = g[x] /\ f[i] = g[i] /\ g[i] = Value(g, i)
        BY <2>1, <2>4, <4>1, <4>2
      <4> QED
        BY <4>1, <4>2, <4>3
    <3>3. CASE i > n
      <4>1. i \in k + 1 .. n + 1
        BY <1>0, <3>3
      <4>2. f[i] = g[i] /\ g[i] = Value(g, i)
        BY <2>1, <2>4, <4>1
      <4> QED
        BY <3>3, <4>2
    <3> QED
      BY <1>0, <3>1, <3>2, <3>3
  <2> QED
    BY <2>6
<1> HIDE DEF Good
<1>3. n + 1 \in S /\ \A k \in 1 .. n : (\A j \in k + 1 .. n + 1 : j \in S) => k \in S
  <2>1. n + 1 \in 1 .. n + 1 /\ \A k \in 1 .. n : k \in 1 .. n + 1 /\ k + 1 \in k + 1 .. n + 1
    BY <1>0
  <2> QED
    BY <1>1, <1>2, <2>1
<1>4. Good(1)
  <2>1. 1 \in S
    <3> HIDE DEF S
    <3>1. 1 \in 1 .. n + 1
      BY <1>0
    <3> QED
      BY <1>0, <1>3, <3>1, DownInduction
  <2> QED
    BY <2>1
<1>5. PICK g : \A i \in 1 .. n + 1 : g[i] = Value(g, i)
  BY <1>4 DEF Good
<1>6. PICK f : f = [i \in 1 .. n + 1 |-> g[i]]
  OBVIOUS
<1>7. \A i \in 1 .. n : next[i] \in 1 .. n + 1
  <2> SUFFICES ASSUME NEW i \in 1 .. n PROVE next[i] \in 1 .. n + 1
    OBVIOUS
  <2>1. next[i] \in i + 1 .. n + 1
    BY <1>0
  <2> QED
    BY <1>0, <2>1
<1>8. ASSUME NEW i \in 1 .. n + 1 PROVE g[i] = Value(f, i)
  <2>1. g[i] = Value(g, i)
    BY <1>5
  <2>2. CASE i > n
    BY <2>1, <2>2
  <2>3. CASE ~(i > n)
    <3>1. PICK x : x = next[i] /\ x \in 1 .. n + 1
      BY <1>0, <1>7, <2>3
    <3>2. f[x] = g[x]
      BY <1>6, <3>1
    <3> QED
      BY <2>1, <2>3, <3>1, <3>2
  <2> QED
    BY <2>2, <2>3
<1>9. f = [i \in 1 .. n + 1 |-> Value(f, i)]
  <2> HIDE DEF Value
  <2> QED
    BY <1>6, <1>8
<1> QED
  BY <1>0, <1>9 DEF Walks

\* A sequence without an element is the empty one.
LEMMA EmptyText ==
    ASSUME NEW X, NEW s \in Seq(X), Len(s) = 0
    PROVE  s = <<>>
OBVIOUS

\* An element at the end of the second of two texts is at the end of both.
LEMMA ConcatAppend ==
    ASSUME NEW X, NEW s \in Seq(X), NEW t \in Seq(X), NEW e \in X
    PROVE  s \o Append(t, e) = Append(s \o t, e) /\ s \o t \in Seq(X)
OBVIOUS

\* A text is what is before a position and what is behind it.
LEMMA TextSplit ==
    ASSUME NEW C, NEW t \in Seq(C), NEW k \in 1 .. Len(t) + 1
    PROVE  /\ t = SubSeq(t, 1, k - 1) \o SubSeq(t, k, Len(t))
           /\ SubSeq(t, 1, k - 1) \in Seq(C) /\ SubSeq(t, k, Len(t)) \in Seq(C)
<1>1. PICK j, n : j = k - 1 /\ n = Len(t)
  OBVIOUS
<1>2. 1 \in 1 .. Len(t) + 1 /\ j \in 1 - 1 .. Len(t) /\ n \in j .. Len(t) /\ j + 1 = k
  BY <1>1
<1>3. SubSeq(t, 1, j) \o SubSeq(t, j + 1, n) = SubSeq(t, 1, n)
  BY <1>2, ConcatAdjacentSubSeq
<1>4. SubSeq(t, 1, n) = t
  BY <1>1, SubSeqFull
<1>5. SubSeq(t, 1, k - 1) \in Seq(C) /\ SubSeq(t, k, Len(t)) \in Seq(C)
  OBVIOUS
<1> QED
  BY <1>1, <1>2, <1>3, <1>4, <1>5

\* the sequences that FlattenSeq puts together
Parts(S) == Seq(Seq(S))

\* g holds the concatenations of the first one, two, ... of seqs.
Sums(g, seqs, n) ==
    \A i \in 1 .. n : g[i] = IF i = 1 THEN seqs[i] ELSE g[i - 1] \o seqs[i]

\* Every list of texts has its partial sums: the texts before each position, concatenated.
LEMMA SumsExist ==
    ASSUME NEW S, NEW seqs \in Seq(Seq(S)), NEW n \in 1 .. Len(seqs)
    PROVE  \E g \in [1 .. n -> Seq(S)] : Sums(g, seqs, n)
<1> DEFINE T == {k \in 1 .. Len(seqs) : ~\E g \in [1 .. k -> Seq(S)] : Sums(g, seqs, k)}
<1> SUFFICES ASSUME T # {} PROVE FALSE
  OBVIOUS
<1>1. PICK m \in T : \A y \in T : m <= y
  <2>1. T \subseteq Nat
    OBVIOUS
  <2> HIDE DEF T
  <2> QED
    BY <2>1, LeastNumber
<1>2. m \in 1 .. Len(seqs) /\ seqs[m] \in Seq(S)
  OBVIOUS
<1>3. CASE m = 1
  <2>1. [i \in 1 .. 1 |-> seqs[i]] \in [1 .. 1 -> Seq(S)]
    BY <1>2, <1>3
  <2>2. Sums([i \in 1 .. 1 |-> seqs[i]], seqs, 1)
    BY DEF Sums
  <2> QED
    BY <2>1, <2>2, <1>3
<1>4. CASE m # 1
  <2>1. m - 1 \in 1 .. Len(seqs) /\ m - 1 \notin T
    <3>1. m - 1 \in 1 .. Len(seqs) /\ ~(m <= m - 1)
      BY <1>2, <1>4
    <3> HIDE DEF T
    <3> QED
      BY <1>1, <3>1
  <2>2. PICK g \in [1 .. m - 1 -> Seq(S)] : Sums(g, seqs, m - 1)
    BY <2>1
  <2> DEFINE h == [i \in 1 .. m |-> IF i = m THEN g[m - 1] \o seqs[m] ELSE g[i]]
  <2>3. g[m - 1] \o seqs[m] \in Seq(S)
    BY <2>1, <2>2, <1>2, ConcatProperties
  <2>4. h \in [1 .. m -> Seq(S)]
    BY <2>3, <1>2
  <2>5. Sums(h, seqs, m)
    <3> SUFFICES ASSUME NEW i \in 1 .. m
                 PROVE  h[i] = IF i = 1 THEN seqs[i] ELSE h[i - 1] \o seqs[i]
      BY DEF Sums
    <3>1. CASE i = m
      <4>1. m - 1 \in 1 .. m /\ m - 1 # m /\ m \in 1 .. m
        BY <1>2, <1>4
      <4>2. h[m] = g[m - 1] \o seqs[m] /\ h[m - 1] = g[m - 1]
        BY <4>1
      <4> QED
        BY <3>1, <1>4, <4>2
    <3>2. CASE i # m
      <4>1. i \in 1 .. m - 1 /\ h[i] = g[i] /\ (i # 1 => i - 1 \in 1 .. m /\ h[i - 1] = g[i - 1])
        BY <3>2, <1>2
      <4> QED
        BY <4>1, <2>2 DEF Sums
    <3> QED
      BY <3>1, <3>2
  <2> QED
    BY <2>4, <2>5
<1> QED
  BY <1>3, <1>4

\* There is one such g.
LEMMA SumsUnique ==
    ASSUME NEW g, NEW h, NEW seqs, NEW more, NEW n \in Nat,
           Sums(g, seqs, n), Sums(h, more, n),
           \A i \in 1 .. n : seqs[i] = more[i]
    PROVE  \A k \in 1 .. n : g[k] = h[k]
<1> DEFINE T == {j \in 1 .. n : g[j] # h[j]}
<1> SUFFICES ASSUME T # {} PROVE FALSE
  OBVIOUS
<1>1. PICK m \in T : \A y \in T : m <= y
  <2>1. T \subseteq Nat
    OBVIOUS
  <2> HIDE DEF T
  <2> QED
    BY <2>1, LeastNumber
<1>2. m \in 1 .. n /\ g[m] # h[m]
  OBVIOUS
<1>3. m # 1
  BY <1>2 DEF Sums
<1>4. m - 1 \in 1 .. n /\ m - 1 \notin T
  <2>1. m - 1 \in 1 .. n /\ ~(m <= m - 1)
    BY <1>2, <1>3
  <2> HIDE DEF T
  <2> QED
    BY <1>1, <2>1
<1>5. g[m - 1] = h[m - 1]
  BY <1>4
<1> QED
  BY <1>2, <1>3, <1>5 DEF Sums

\* FlattenSeq is the last of them.
LEMMA FlattenSums ==
    ASSUME NEW S, NEW seqs \in Seq(Seq(S)), Len(seqs) # 0
    PROVE  \E g \in [1 .. Len(seqs) -> Seq(S)] :
              Sums(g, seqs, Len(seqs)) /\ FlattenSeq(seqs) = g[Len(seqs)]
<1> DEFINE R(f) == [i \in 1 .. Len(seqs) |-> IF i = 1 THEN seqs[i] ELSE f[i - 1] \o seqs[i]]
           fl == CHOOSE f : f = R(f)
<1>1. Len(seqs) \in 1 .. Len(seqs) /\ Len(seqs) \in Nat
  OBVIOUS
<1>2. PICK g \in [1 .. Len(seqs) -> Seq(S)] : Sums(g, seqs, Len(seqs))
  BY <1>1, SumsExist
<1>3. g = R(g)
  BY <1>2 DEF Sums
<1>4. fl = R(fl)
  BY <1>3
<1>5. FlattenSeq(seqs) = fl[Len(seqs)]
  BY DEF FlattenSeq
<1>6. Sums(fl, seqs, Len(seqs))
  <2> SUFFICES ASSUME NEW k \in 1 .. Len(seqs)
               PROVE  fl[k] = IF k = 1 THEN seqs[k] ELSE fl[k - 1] \o seqs[k]
    BY DEF Sums
  <2>1. R(fl)[k] = IF k = 1 THEN seqs[k] ELSE fl[k - 1] \o seqs[k]
    OBVIOUS
  <2> HIDE DEF fl
  <2> QED
    BY <2>1, <1>4
<1>7. fl[Len(seqs)] = g[Len(seqs)]
  <2> HIDE DEF fl
  <2> QED
    BY <1>1, <1>2, <1>6, SumsUnique
<1> QED
  BY <1>2, <1>5, <1>7

-----------------------------------------------------------------------------
\* FlattenSeq of no texts.
LEMMA FlattenEmpty == FlattenSeq(<<>>) = <<>>
BY DEF FlattenSeq

\* FlattenSeq of texts over S is a text over S.
LEMMA FlattenType ==
    ASSUME NEW S, NEW seqs \in Parts(S)
    PROVE  FlattenSeq(seqs) \in Seq(S)
<1> USE DEF Parts
<1>1. CASE Len(seqs) = 0
  <2>1. seqs = <<>>
    BY <1>1
  <2>2. <<>> \in Seq(S)
    BY EmptySeq
  <2> QED
    BY <2>1, <2>2, FlattenEmpty
<1>2. CASE Len(seqs) # 0
  <2>1. Len(seqs) \in 1 .. Len(seqs)
    BY <1>2
  <2>2. PICK g \in [1 .. Len(seqs) -> Seq(S)] : FlattenSeq(seqs) = g[Len(seqs)]
    BY <1>2, FlattenSums
  <2> QED
    BY <2>1, <2>2
<1> QED
  BY <1>1, <1>2

\* One part more is put at the end.
LEMMA FlattenAppend ==
    ASSUME NEW S, NEW seqs, NEW u, seqs \in Parts(S) /\ u \in Seq(S)
    PROVE  FlattenSeq(Append(seqs, u)) = FlattenSeq(seqs) \o u
<1> USE DEF Parts
<1>1. PICK more, n : more = Append(seqs, u) /\ n = Len(seqs)
  OBVIOUS
<1>2. /\ more \in Parts(S) /\ n \in Nat /\ Len(more) = n + 1
      /\ \A i \in 1 .. n : seqs[i] = more[i]
      /\ more[n + 1] = u
  BY <1>1
<1>3. PICK h : h \in [1 .. n + 1 -> Seq(S)] /\ Sums(h, more, n + 1) /\ FlattenSeq(more) = h[n + 1]
  <2>1. Len(more) # 0
    BY <1>2
  <2>2. \E h \in [1 .. Len(more) -> Seq(S)] :
              Sums(h, more, Len(more)) /\ FlattenSeq(more) = h[Len(more)]
    BY <1>2, <2>1, FlattenSums
  <2> QED
    BY <1>2, <2>2
<1>4. CASE n = 0
  <2>1. seqs = <<>>
    <3>1. Len(seqs) = 0
      BY <1>1, <1>4
    <3> QED
      BY <3>1, EmptyText
  <2>2. FlattenSeq(more) = u
    BY <1>2, <1>3, <1>4 DEF Sums
  <2>3. <<>> \o u = u
    BY ConcatEmptySeq
  <2> QED
    BY <1>1, <2>1, <2>2, <2>3, FlattenEmpty
<1>5. CASE n # 0
  <2>1. PICK g : g \in [1 .. n -> Seq(S)] /\ Sums(g, seqs, n) /\ FlattenSeq(seqs) = g[n]
    <3>1. Len(seqs) # 0
      BY <1>1, <1>5
    <3>2. \E g \in [1 .. Len(seqs) -> Seq(S)] :
              Sums(g, seqs, Len(seqs)) /\ FlattenSeq(seqs) = g[Len(seqs)]
      BY <3>1, FlattenSums
    <3> QED
      BY <1>1, <3>2
  <2>2. Sums(h, more, n)
    <3>1. n \in Nat /\ Sums(h, more, n + 1)
      BY <1>2, <1>3
    <3> QED
      BY <3>1 DEF Sums
  <2>3. n \in 1 .. n
    BY <1>2, <1>5
  <2>4. \A k \in 1 .. n : g[k] = h[k]
    <3>1. n \in Nat /\ Sums(g, seqs, n) /\ \A i \in 1 .. n : seqs[i] = more[i]
      BY <1>2, <2>1
    <3> QED
      BY <3>1, <2>2, SumsUnique, Zenon
  <2>5. h[n + 1] = h[n] \o more[n + 1]
    <3>1. n + 1 \in 1 .. n + 1 /\ n + 1 # 1 /\ (n + 1) - 1 = n
      BY <1>2, <1>5
    <3>2. h[n + 1] = IF n + 1 = 1 THEN more[n + 1] ELSE h[(n + 1) - 1] \o more[n + 1]
      BY <1>3, <3>1 DEF Sums
    <3> QED
      BY <3>1, <3>2
  <2> QED
    BY <1>1, <1>2, <1>3, <2>1, <2>3, <2>4, <2>5
<1> QED
  BY <1>4, <1>5

\* Concatenation is associative.
LEMMA Associative ==
    ASSUME NEW S, NEW s, NEW t, NEW u,
           s \in Seq(S) /\ t \in Seq(S) /\ u \in Seq(S)
    PROVE  (s \o t) \o u = s \o (t \o u)
BY ConcatAssociative

\* FlattenSeq splits where its list does.
LEMMA FlattenConcat ==
    ASSUME NEW S, NEW a, NEW b, a \in Parts(S) /\ b \in Parts(S)
    PROVE  FlattenSeq(a \o b) = FlattenSeq(a) \o FlattenSeq(b)
<1> DEFINE P(k) == SubSeq(b, 1, k)
           Good(k) == FlattenSeq(a \o P(k)) = FlattenSeq(a) \o FlattenSeq(P(k))
           T == {k \in 0 .. Len(b) : ~Good(k)}
<1>1. Good(0)
  <2>1. P(0) = <<>> /\ a \o <<>> = a
    BY ConcatEmptySeq DEF Parts
  <2>2. FlattenSeq(a) \o <<>> = FlattenSeq(a)
    BY FlattenType, ConcatEmptySeq
  <2> QED
    BY <2>1, <2>2, FlattenEmpty
<1>2. ASSUME NEW k \in 1 .. Len(b), Good(k - 1)
      PROVE  Good(k)
  <2>1. PICK c, e : c = P(k - 1) /\ e = b[k]
    OBVIOUS
  <2>2. P(k) = Append(c, e) /\ c \in Parts(S) /\ e \in Seq(S)
    BY <2>1 DEF Parts
  <2>3. FlattenSeq(a \o c) = FlattenSeq(a) \o FlattenSeq(c)
    BY <1>2, <2>1
  <2>4. FlattenSeq(a \o Append(c, e)) = FlattenSeq(a) \o FlattenSeq(Append(c, e))
    <3>1. PICK ac : ac = a \o c
      OBVIOUS
    <3>2. a \o Append(c, e) = Append(ac, e) /\ ac \in Parts(S)
      <4>1. PICK X : X = Seq(S)
        OBVIOUS
      <4>2. a \in Seq(X) /\ c \in Seq(X) /\ e \in X /\ Parts(S) = Seq(X)
        BY <2>2, <4>1 DEF Parts
      <4> QED
        BY <3>1, <4>2, ConcatAppend
    <3>3. FlattenSeq(Append(ac, e)) = FlattenSeq(ac) \o e
      BY <2>2, <3>2, FlattenAppend
    <3>4. FlattenSeq(Append(c, e)) = FlattenSeq(c) \o e
      BY <2>2, FlattenAppend
    <3>5. PICK fa, fc : fa = FlattenSeq(a) /\ fc = FlattenSeq(c)
      OBVIOUS
    <3>6. fa \in Seq(S) /\ fc \in Seq(S)
      BY <2>2, <3>5, FlattenType
    <3>7. (fa \o fc) \o e = fa \o (fc \o e)
      BY <2>2, <3>6, Associative
    <3> QED
      BY <2>3, <3>1, <3>2, <3>3, <3>4, <3>5, <3>7
  <2> QED
    BY <2>2, <2>4
<1>3. Good(Len(b))
  <2>0. Len(b) \in Nat
    BY DEF Parts
  <2> HIDE DEF Good
  <2> SUFFICES ASSUME T # {} PROVE FALSE
    BY <2>0
  <2>1. PICK m \in T : \A y \in T : m <= y
    <3>1. T \subseteq Nat
      OBVIOUS
    <3> HIDE DEF T
    <3> QED
      BY <3>1, LeastNumber
  <2>2. m \in 0 .. Len(b) /\ ~Good(m)
    OBVIOUS
  <2>3. m # 0
    BY <1>1, <2>2
  <2>4. m - 1 \in 0 .. Len(b) /\ m - 1 \notin T
    <3>1. m - 1 \in 0 .. Len(b) /\ ~(m <= m - 1)
      BY <2>0, <2>2, <2>3
    <3> HIDE DEF T
    <3> QED
      BY <2>1, <3>1
  <2>5. m \in 1 .. Len(b) /\ Good(m - 1)
    BY <2>0, <2>2, <2>3, <2>4
  <2> QED
    BY <2>2, <2>5, <1>2
<1>4. P(Len(b)) = b
  BY SubSeqFull DEF Parts
<1> QED
  BY <1>3, <1>4

\* What holds of the empty text, and of a text with one more character when it
\* holds of the text, holds of every text.
LEMMA TextInduction ==
    ASSUME NEW C, NEW G, <<>> \in G,
           \A t, c : t \in Seq(C) /\ t \in G /\ c \in C => Append(t, c) \in G
    PROVE  \A t : t \in Seq(C) => t \in G
<1> SUFFICES ASSUME NEW t, t \in Seq(C) PROVE t \in G
  OBVIOUS
<1>0. Len(t) \in Nat
  OBVIOUS
<1> DEFINE P(k) == SubSeq(t, 1, k)
           T == {k \in 0 .. Len(t) : P(k) \notin G}
<1>1. P(0) \in G
  <2>1. P(0) = <<>>
    OBVIOUS
  <2> QED
    BY <2>1
<1>2. ASSUME NEW k \in 1 .. Len(t), P(k - 1) \in G
      PROVE  P(k) \in G
  <2>1. PICK s, c : s = P(k - 1) /\ c = t[k]
    OBVIOUS
  <2>2. P(k) = Append(s, c) /\ s \in Seq(C) /\ c \in C
    BY <2>1
  <2>3. s \in G
    BY <1>2, <2>1
  <2>4. Append(s, c) \in G
    BY <2>2, <2>3
  <2> QED
    BY <2>2, <2>4
<1>3. P(Len(t)) \in G
  <2> HIDE DEF P
  <2> SUFFICES ASSUME T # {} PROVE FALSE
    BY <1>0
  <2>1. PICK m \in T : \A y \in T : m <= y
    <3>1. T \subseteq Nat
      OBVIOUS
    <3> HIDE DEF T
    <3> QED
      BY <3>1, LeastNumber
  <2>2. m \in 0 .. Len(t) /\ P(m) \notin G
    OBVIOUS
  <2>3. m # 0
    BY <1>1, <2>2
  <2>4. m - 1 \in 0 .. Len(t) /\ m - 1 \notin T
    <3>1. m - 1 \in 0 .. Len(t) /\ ~(m <= m - 1)
      BY <1>0, <2>2, <2>3
    <3> HIDE DEF T
    <3> QED
      BY <2>1, <3>1
  <2>5. m \in 1 .. Len(t) /\ P(m - 1) \in G
    BY <1>0, <2>2, <2>3, <2>4
  <2> QED
    BY <2>2, <2>5, <1>2
<1>4. P(Len(t)) = t
  BY SubSeqFull
<1> QED
  BY <1>3, <1>4

-----------------------------------------------------------------------------
\* FlattenSeq of one text.
LEMMA FlattenSingle ==
    ASSUME NEW S, NEW u, u \in Seq(S)
    PROVE  FlattenSeq(<<u>>) = u
<1>1. PICK e : e = <<>>
  OBVIOUS
<1>2. e \in Parts(S)
  BY <1>1, EmptySeq DEF Parts
<1>3. FlattenSeq(Append(e, u)) = FlattenSeq(e) \o u
  BY <1>2, FlattenAppend
<1>4. Append(e, u) = <<u>>
  BY <1>1
<1>5. FlattenSeq(e) \o u = u
  BY <1>1, FlattenEmpty, ConcatEmptySeq
<1> QED
  BY <1>3, <1>4, <1>5

\* what Spread may put in the place of a character
Images(C, S) == [C -> Seq(S)]

\* the parts that Spread puts together
SpreadParts(f, t) == [i \in 1 .. Len(t) |-> f[t[i]]]

\* The parts that Spread puts together are texts.
LEMMA SpreadPartsType ==
    ASSUME NEW C, NEW S, NEW f, NEW t, f \in Images(C, S) /\ t \in Seq(C)
    PROVE  SpreadParts(f, t) \in Parts(S)
<1>1. PICK X : X = Seq(S)
  OBVIOUS
<1>2. ASSUME NEW i \in 1 .. Len(t)
      PROVE  f[t[i]] \in X
  <2>1. t[i] \in C
    OBVIOUS
  <2> QED
    BY <2>1, <1>1 DEF Images
<1>3. Len(t) \in Nat
  OBVIOUS
<1>4. [i \in 1 .. Len(t) |-> f[t[i]]] \in Seq(X)
  BY <1>2, <1>3
<1> QED
  BY <1>1, <1>4 DEF SpreadParts, Parts

\* Spread gives a text.
LEMMA SpreadType ==
    ASSUME NEW C, NEW S, NEW f, NEW t, f \in Images(C, S) /\ t \in Seq(C)
    PROVE  Spread(f, t) \in Seq(S)
<1>1. FlattenSeq(SpreadParts(f, t)) \in Seq(S)
  BY SpreadPartsType, FlattenType
<1> QED
  BY <1>1 DEF Spread, SpreadParts

\* Spread of the empty text.
LEMMA SpreadEmpty ==
    ASSUME NEW f
    PROVE  Spread(f, <<>>) = <<>>
<1>1. SpreadParts(f, <<>>) = <<>>
  BY DEF SpreadParts
<1> QED
  BY <1>1, FlattenEmpty DEF Spread, SpreadParts

\* Spread of a text with one more character.
LEMMA SpreadAppend ==
    ASSUME NEW C, NEW S, NEW f, NEW t, NEW c,
           f \in Images(C, S) /\ t \in Seq(C) /\ c \in C
    PROVE  Spread(f, Append(t, c)) = Spread(f, t) \o f[c]
<1>1. PICK u, e, X : u = Append(t, c) /\ e = f[c] /\ X = Seq(S)
  OBVIOUS
<1>2. e \in X /\ e \in Seq(S)
  BY <1>1 DEF Images
<1>3. u \in Seq(C) /\ Len(u) = Len(t) + 1 /\ Len(t) \in Nat /\ u[Len(t) + 1] = c
      /\ \A i \in 1 .. Len(t) : u[i] = t[i]
  BY <1>1
<1>4. SpreadParts(f, t) \in Seq(X) /\ SpreadParts(f, u) \in Seq(X)
  BY <1>1, <1>3, SpreadPartsType DEF Parts
<1>5. PICK a, b : a = SpreadParts(f, t) /\ b = SpreadParts(f, u)
  OBVIOUS
<1>6. Len(a) = Len(t) /\ Len(b) = Len(t) + 1
  BY <1>3, <1>5 DEF SpreadParts
<1>7. b[Len(t) + 1] = e /\ \A i \in 1 .. Len(t) : b[i] = a[i]
  BY <1>1, <1>3, <1>5 DEF SpreadParts
<1>8. b = Append(a, e)
  BY <1>2, <1>3, <1>4, <1>5, <1>6, <1>7
<1>9. FlattenSeq(Append(a, e)) = FlattenSeq(a) \o e
  BY <1>2, <1>5, SpreadPartsType, FlattenAppend
<1> QED
  BY <1>1, <1>5, <1>8, <1>9 DEF Spread, SpreadParts

\* Spread of one character.
LEMMA SpreadSingle ==
    ASSUME NEW C, NEW S, NEW f, NEW c, f \in Images(C, S) /\ c \in C
    PROVE  Spread(f, <<c>>) = f[c]
<1>1. PICK e, u : e = <<>> /\ u = f[c]
  OBVIOUS
<1>2. e \in Seq(C) /\ u \in Seq(S)
  BY <1>1, EmptySeq DEF Images
<1>3. Spread(f, Append(e, c)) = Spread(f, e) \o f[c]
  BY <1>2, SpreadAppend
<1>4. Append(e, c) = <<c>>
  BY <1>1
<1>5. <<>> \o u = u
  BY <1>2, ConcatEmptySeq
<1> QED
  BY <1>1, <1>3, <1>4, <1>5, SpreadEmpty

\* Spread splits where the text does.
LEMMA SpreadConcat ==
    ASSUME NEW C, NEW S, NEW f, NEW a, NEW b,
           f \in Images(C, S) /\ a \in Seq(C) /\ b \in Seq(C)
    PROVE  Spread(f, a \o b) = Spread(f, a) \o Spread(f, b)
<1> DEFINE G == {t \in Seq(C) : Spread(f, a \o t) = Spread(f, a) \o Spread(f, t)}
<1>0. PICK fa : fa = Spread(f, a)
  OBVIOUS
<1>1. fa \in Seq(S)
  BY <1>0, SpreadType
<1>2. <<>> \in G
  <2>1. a \o <<>> = a /\ fa \o <<>> = fa /\ <<>> \in Seq(C)
    BY <1>1, ConcatEmptySeq, EmptySeq
  <2> QED
    BY <1>0, <2>1, SpreadEmpty
<1>3. ASSUME NEW t, NEW c, t \in Seq(C) /\ t \in G /\ c \in C
      PROVE  Append(t, c) \in G
  <2>1. PICK at, ft, u : at = a \o t /\ ft = Spread(f, t) /\ u = f[c]
    OBVIOUS
  <2>2. a \o Append(t, c) = Append(at, c) /\ at \in Seq(C) /\ Append(t, c) \in Seq(C)
    <3>1. t \in Seq(C) /\ c \in C
      BY <1>3
    <3> HIDE DEF G
    <3> QED
      BY <3>1, <2>1, ConcatAppend
  <2>3. ft \in Seq(S) /\ u \in Seq(S)
    BY <1>3, <2>1, SpreadType DEF Images
  <2>4. Spread(f, Append(at, c)) = Spread(f, at) \o f[c]
    <3>1. at \in Seq(C) /\ c \in C
      BY <1>3, <2>2
    <3> HIDE DEF G
    <3> QED
      BY <3>1, SpreadAppend
  <2>5. Spread(f, Append(t, c)) = Spread(f, t) \o f[c]
    <3>1. t \in Seq(C) /\ c \in C
      BY <1>3
    <3> HIDE DEF G
    <3> QED
      BY <3>1, SpreadAppend
  <2>6. Spread(f, at) = fa \o ft
    BY <1>0, <1>3, <2>1
  <2>7. (fa \o ft) \o u = fa \o (ft \o u)
    BY <1>1, <2>3, Associative
  <2> QED
    BY <1>0, <2>1, <2>2, <2>4, <2>5, <2>6, <2>7
<1>4. \A t : t \in Seq(C) => t \in G
  <2> HIDE DEF G
  <2> QED
    BY <1>2, <1>3, TextInduction
<1> QED
  BY <1>4
-----------------------------------------------------------------------------
\* Kept puts a character or nothing in the place of each.
Choice(C, S) == [c \in C |-> IF c \in S THEN <<c>> ELSE <<>>]

\* Kept is a Spread.
LEMMA KeptIsSpread ==
    ASSUME NEW C, NEW S, NEW t, t \in Seq(C)
    PROVE  Kept(S, t) = Spread(Choice(C, S), t) /\ Choice(C, S) \in Images(C, C)
<1>1. \A i \in 1 .. Len(t) : Choice(C, S)[t[i]] = IF t[i] \in S THEN <<t[i]>> ELSE <<>>
  BY DEF Choice
<1>2. Kept(S, t) = Spread(Choice(C, S), t)
  BY <1>1 DEF Kept, Spread
<1>3. ASSUME NEW c \in C PROVE (IF c \in S THEN <<c>> ELSE <<>>) \in Seq(C)
  OBVIOUS
<1> QED
  BY <1>2, <1>3 DEF Choice, Images

\* Kept gives a text of kept characters.
LEMMA KeptType ==
    ASSUME NEW C, NEW S, NEW t, t \in Seq(C)
    PROVE  Kept(S, t) \in Seq(C)
<1>1. PICK f : f = Choice(C, S)
  OBVIOUS
<1> QED
  BY <1>1, KeptIsSpread, SpreadType

\* Kept of the empty text.
LEMMA KeptEmpty ==
    ASSUME NEW S
    PROVE  Kept(S, <<>>) = <<>>
<1>1. [i \in 1 .. Len(<<>>) |-> IF <<>>[i] \in S THEN << <<>>[i] >> ELSE <<>>] = <<>>
  OBVIOUS
<1> QED
  BY <1>1, FlattenEmpty DEF Kept

\* Kept of one character.
LEMMA KeptSingle ==
    ASSUME NEW C, NEW S, NEW c, c \in C
    PROVE  Kept(S, <<c>>) = IF c \in S THEN <<c>> ELSE <<>>
<1>1. PICK f, u : f = Choice(C, S) /\ u = <<c>>
  OBVIOUS
<1>2. u \in Seq(C)
  BY <1>1
<1>3. Kept(S, u) = Spread(f, u) /\ f \in Images(C, C)
  BY <1>1, <1>2, KeptIsSpread
<1>4. Spread(f, <<c>>) = f[c]
  BY <1>3, SpreadSingle
<1> QED
  BY <1>1, <1>3, <1>4 DEF Choice

\* Kept splits where the text does.
LEMMA KeptConcat ==
    ASSUME NEW C, NEW S, NEW a, NEW b, a \in Seq(C) /\ b \in Seq(C)
    PROVE  Kept(S, a \o b) = Kept(S, a) \o Kept(S, b)
<1>1. PICK f, ab : f = Choice(C, S) /\ ab = a \o b
  OBVIOUS
<1>2. ab \in Seq(C)
  BY <1>1, ConcatProperties
<1>3. Kept(S, ab) = Spread(f, ab) /\ Kept(S, a) = Spread(f, a) /\ Kept(S, b) = Spread(f, b)
      /\ f \in Images(C, C)
  BY <1>1, <1>2, KeptIsSpread
<1>4. Spread(f, a \o b) = Spread(f, a) \o Spread(f, b)
  <2>1. f \in Images(C, C)
    BY <1>3
  <2> QED
    BY <2>1, SpreadConcat
<1> QED
  BY <1>1, <1>3, <1>4

\* Kept of a text with one more character.
LEMMA KeptAppend ==
    ASSUME NEW C, NEW S, NEW t, NEW c, t \in Seq(C) /\ c \in C
    PROVE  Kept(S, Append(t, c)) = IF c \in S THEN Append(Kept(S, t), c) ELSE Kept(S, t)
<1>1. PICK u, k : u = <<c>> /\ k = Kept(S, t)
  OBVIOUS
<1>2. u \in Seq(C) /\ Append(t, c) = t \o u /\ k \in Seq(C)
  BY <1>1, KeptType
<1>3. Kept(S, t \o u) = Kept(S, t) \o Kept(S, u)
  BY <1>2, KeptConcat
<1>4. Kept(S, u) = IF c \in S THEN u ELSE <<>>
  BY <1>1, KeptSingle
<1>5. k \o u = Append(k, c) /\ k \o <<>> = k
  BY <1>1, <1>2
<1> QED
  BY <1>1, <1>2, <1>3, <1>4, <1>5

\* Nothing is lost of a text of characters that are kept ...
LEMMA KeptAll ==
    ASSUME NEW S, NEW t, t \in Seq(S)
    PROVE  Kept(S, t) = t
<1> DEFINE G == {u \in Seq(S) : Kept(S, u) = u}
<1>1. <<>> \in G
  BY EmptySeq, KeptEmpty
<1>2. ASSUME NEW u, NEW c, u \in Seq(S) /\ u \in G /\ c \in S
      PROVE  Append(u, c) \in G
  <2>1. Append(u, c) \in Seq(S) /\ Kept(S, u) = u
    BY <1>2
  <2>2. Kept(S, Append(u, c)) = Append(u, c)
    BY <1>2, <2>1, KeptAppend
  <2> QED
    BY <2>1, <2>2
<1>3. \A u : u \in Seq(S) => u \in G
  <2> HIDE DEF G
  <2> QED
    BY <1>1, <1>2, TextInduction
<1> QED
  BY <1>3

\* ... and nothing is left of one of characters that are not.
LEMMA KeptNone ==
    ASSUME NEW C, NEW S, NEW t, t \in Seq(C), C \cap S = {}
    PROVE  Kept(S, t) = <<>>
<1> DEFINE G == {u \in Seq(C) : Kept(S, u) = <<>>}
<1>1. <<>> \in G
  BY EmptySeq, KeptEmpty
<1>2. ASSUME NEW u, NEW c, u \in Seq(C) /\ u \in G /\ c \in C
      PROVE  Append(u, c) \in G
  <2>1. Append(u, c) \in Seq(C) /\ Kept(S, u) = <<>> /\ c \notin S
    BY <1>2
  <2>2. Kept(S, Append(u, c)) = <<>>
    BY <1>2, <2>1, KeptAppend
  <2> QED
    BY <2>1, <2>2
<1>3. \A u : u \in Seq(C) => u \in G
  <2> HIDE DEF G
  <2> QED
    BY <1>1, <1>2, TextInduction
<1> QED
  BY <1>3
=============================================================================
