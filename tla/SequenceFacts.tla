--------------------------- MODULE SequenceFacts ---------------------------
(***************************************************************************)
(* Facts about numbers and sequences that the proofs of the components     *)
(* share: induction over a set of numbers, queues that are moved from one  *)
(* sequence to the next, and FlattenSeq of the community modules, whose    *)
(* recursive function goes from each index to the one before it.           *)
(***************************************************************************)
EXTENDS Integers, Sequences, SequencesExt, SequenceTheorems, WellFoundedInduction, TLAPS

\* A nonempty set of numbers has a least element.
LEMMA Least ==
    ASSUME NEW S \in SUBSET Nat, S # {}
    PROVE  \E n \in S : \A m \in S : n <= m
<1> DEFINE R == OpToRel(<, Nat)
<1>1. IsWellFoundedOn(R, Nat)
  BY NatLessThanWellFounded
<1>2. \A x, y \in Nat : <<y, x>> \in R <=> y < x
  BY DEF OpToRel
<1> HIDE DEF R
<1>3. PICK x \in S : \A y \in S : ~ (<<y, x>> \in R)
  BY <1>1, WFMin
<1>4. \A y \in S : ~ (y < x)
  BY <1>2, <1>3
<1> QED BY <1>3, <1>4

\* And a greatest, of those up to a number.
LEMMA Greatest ==
    ASSUME NEW n \in Nat, NEW S \in SUBSET (0..n), S # {}
    PROVE  \E x \in S : \A y \in S : x >= y
<1> DEFINE R == {n - m : m \in S}
<1>1. R \in SUBSET Nat /\ R # {}
  <2>1. \A m \in S : n - m \in Nat
    OBVIOUS
  <2>2. PICK m \in S : TRUE
    OBVIOUS
  <2>3. n - m \in R
    OBVIOUS
  <2>4. \A r \in R : r \in Nat
    BY <2>1
  <2> HIDE DEF R
  <2> QED BY <2>3, <2>4
<1>2. PICK r \in R : \A q \in R : r <= q
  BY <1>1, Least
<1>3. PICK m \in S : r = n - m
  BY <1>2
<1>4. ASSUME NEW k \in S PROVE m >= k
  <2>1. n - k \in R /\ n - m <= n - k
    BY <1>2, <1>3
  <2> QED BY <2>1
<1> QED BY <1>4

\* Induction, for the set of the numbers that have the property.
LEMMA Induct ==
    ASSUME NEW S \in SUBSET Nat, 0 \in S, \A n \in S : n + 1 \in S
    PROVE  S = Nat
<1> SUFFICES ASSUME Nat \ S # {} PROVE FALSE
  OBVIOUS
<1>1. PICK n \in Nat \ S : \A m \in Nat \ S : n <= m
  BY Least
<1>2. n # 0 /\ n - 1 \in Nat /\ n - 1 \in S
  BY <1>1
<1> QED BY <1>1, <1>2

----------------------------------------------------------------------------
LEMMA Single ==
    ASSUME NEW S, NEW c \in S
    PROVE  /\ <<c>> \in Seq(S) /\ Len(<<c>>) = 1 /\ <<c>>[1] = c
           /\ <<c>> # <<>> /\ Last(<<c>>) = c /\ Head(<<c>>) = c
BY DEF Last

LEMMA Pair ==
    ASSUME NEW S, NEW c \in S, NEW d \in S
    PROVE  /\ <<c, d>> \in Seq(S) /\ Len(<<c, d>>) = 2
           /\ <<c, d>>[1] = c /\ <<c, d>>[2] = d
           /\ <<c, d>> # <<>> /\ Last(<<c, d>>) = d /\ Head(<<c, d>>) = c
BY DEF Last

LEMMA HeadAndTail ==
    ASSUME NEW S, NEW t \in Seq(S), t # <<>>
    PROVE  /\ Head(t) \in S /\ Tail(t) \in Seq(S)
           /\ t = <<Head(t)>> \o Tail(t)
<1>1. /\ Head(t) \in S /\ Tail(t) \in Seq(S) /\ Len(Tail(t)) = Len(t) - 1
      /\ \A i \in 1..Len(Tail(t)) : Tail(t)[i] = t[i + 1]
      /\ Head(t) = t[1]
  BY HeadTailProperties
<1>2. \A e \in S, v \in Seq(S) : Len(v) = Len(t) - 1 /\ e = t[1] /\ (\A i \in 1..Len(v) : v[i] = t[i + 1])
                                  => t = <<e>> \o v
  <2> TAKE e \in S, v \in Seq(S)
  <2> HAVE Len(v) = Len(t) - 1 /\ e = t[1] /\ \A i \in 1..Len(v) : v[i] = t[i + 1]
  <2>1. /\ <<e>> \in Seq(S) /\ Len(<<e>>) = 1 /\ <<e>>[1] = e
        /\ Len(t) \in Nat /\ Len(v) \in Nat
    BY LenProperties
  <2>2. /\ <<e>> \o v \in Seq(S) /\ Len(<<e>> \o v) = Len(t)
        /\ \A i \in 1..Len(t) : (<<e>> \o v)[i] = IF i <= 1 THEN <<e>>[i] ELSE v[i - 1]
    BY <2>1, ConcatProperties
  <2>3. ASSUME NEW i \in 1..Len(t) PROVE t[i] = (<<e>> \o v)[i]
    <3>1. CASE i = 1
      BY <2>1, <2>2, <3>1
    <3>2. CASE i # 1
      <4>1. i - 1 \in 1..Len(v) /\ i - 1 + 1 = i
        BY <2>1, <3>2
      <4> QED BY <2>2, <3>2, <4>1
    <3> QED BY <3>1, <3>2
  <2> QED BY <2>2, <2>3, SeqEqual
<1> QED BY <1>1, <1>2

LEMMA PrefixIs ==
    ASSUME NEW S, NEW s \in Seq(S), NEW t \in Seq(S)
    PROVE  IsPrefix(s, t) <=> Len(s) <= Len(t) /\ \A i \in 1..Len(s) : s[i] = t[i]
<1>1. Len(s) \in Nat /\ Len(t) \in Nat
  BY LenProperties
<1>2. SubSeq(s, 1, Len(s)) = s
  BY SubSeqFull
<1>3. ASSUME Len(s) <= Len(t)
      PROVE  SubSeq(t, 1, Len(s)) = s <=> \A i \in 1..Len(s) : s[i] = t[i]
  <2> DEFINE u == SubSeq(t, 1, Len(s))
  <2>1. \A i \in 1..Len(s) : t[i] \in S
    <3> TAKE i \in 1..Len(s)
    <3>1. i \in 1..Len(t)
      BY <1>1, <1>3
    <3> QED BY <3>1, ElementOfSeq
  <2>2. /\ u \in Seq(S) /\ Len(u) = IF 1 <= Len(s) THEN Len(s) - 1 + 1 ELSE 0
        /\ \A i \in 1..(Len(s) - 1 + 1) : u[i] = t[1 + i - 1]
    BY <1>1, <2>1, SubSeqProperties
  <2> HIDE DEF u
  <2>3. Len(u) = Len(s) /\ \A i \in 1..Len(s) : u[i] = t[i]
    <3>1. Len(s) - 1 + 1 = Len(s) /\ \A i \in 1..Len(s) : 1 + i - 1 = i
      BY <1>1
    <3> QED BY <1>1, <2>2, <3>1
  <2>4. u = s <=> \A i \in 1..Len(s) : s[i] = t[i]
    BY <2>2, <2>3, SeqEqual
  <2> QED BY <2>4 DEF u
<1> QED BY <1>2, <1>3 DEF IsPrefix

\* The first of one queue becomes the last of the queue before it.
LEMMA MovesOn ==
    ASSUME NEW S, NEW s \in Seq(S), NEW t \in Seq(S), t # <<>>
    PROVE  /\ Head(t) \in S /\ Tail(t) \in Seq(S)
           /\ Append(s, Head(t)) \in Seq(S)
           /\ Append(s, Head(t)) \o Tail(t) = s \o t
<1>1. /\ Head(t) \in S /\ Tail(t) \in Seq(S) /\ <<Head(t)>> \in Seq(S)
      /\ t = <<Head(t)>> \o Tail(t)
  BY HeadAndTail
<1>2. Append(s, Head(t)) = s \o <<Head(t)>> /\ Append(s, Head(t)) \in Seq(S)
  BY <1>1, AppendIsConcat, AppendProperties
<1>3. (s \o <<Head(t)>>) \o Tail(t) = s \o (<<Head(t)>> \o Tail(t))
  BY <1>1, ConcatAssociative
<1> QED BY <1>1, <1>2, <1>3

\* What is appended to the last queue is appended to all of them together.
LEMMA ComesLast ==
    ASSUME NEW S, NEW s \in Seq(S), NEW t \in Seq(S), NEW e \in S
    PROVE  s \o Append(t, e) = Append(s \o t, e) /\ Append(t, e) \in Seq(S)
<1>1. /\ Append(t, e) \in Seq(S) /\ Append(t, e) = t \o <<e>>
      /\ s \o t \in Seq(S) /\ <<e>> \in Seq(S)
  BY AppendIsConcat, AppendProperties, ConcatProperties
<1>2. Append(s \o t, e) = (s \o t) \o <<e>>
  BY <1>1, AppendIsConcat
<1> QED BY <1>1, <1>2, ConcatAssociative

----------------------------------------------------------------------------
\* The recursive function in FlattenSeq(s): its value at i joins the first i.
Join(s, t) == s \o t
Flattened(s) == CHOOSE f : f = [i \in 1..Len(s) |-> IF i = 1 THEN s[i] ELSE Join(f[i - 1], s[i])]

\* There is such a function: the one for n + 1 elements extends the one for n.
LEMMA FlattenedExists ==
    ASSUME NEW S, NEW s \in Seq(S)
    PROVE  \E f : f = [i \in 1..Len(s) |-> IF i = 1 THEN s[i] ELSE Join(f[i - 1], s[i])]
<1> DEFINE Good(f, n) == f = [i \in 1..n |-> IF i = 1 THEN s[i] ELSE Join(f[i - 1], s[i])]
           N == {n \in Nat : \E f : Good(f, n)}
<1>1. 0 \in N
  <2>1. Good([i \in 1..0 |-> 0], 0)
    OBVIOUS
  <2> QED BY <2>1
<1>2. ASSUME NEW n \in N PROVE n + 1 \in N
  <2>1. PICK f : Good(f, n)
    OBVIOUS
  <2> DEFINE g == [i \in 1..(n + 1) |-> IF i = n + 1 THEN IF i = 1 THEN s[i] ELSE Join(f[i - 1], s[i])
                                                     ELSE f[i]]
  <2>2. ASSUME NEW i \in 1..(n + 1)
        PROVE  g[i] = IF i = 1 THEN s[i] ELSE Join(g[i - 1], s[i])
    <3>1. CASE i = 1 /\ i = n + 1
      BY <3>1
    <3>2. CASE i = 1 /\ i # n + 1
      <4>1. i \in 1..n
        BY <3>2
      <4> QED BY <2>1, <3>2, <4>1
    <3>3. CASE i # 1
      <4>1. i - 1 \in 1..n /\ g[i - 1] = f[i - 1]
        BY <3>3
      <4>2. i # n + 1 => f[i] = Join(f[i - 1], s[i])
        BY <2>1, <3>3
      <4> QED BY <3>3, <4>1, <4>2
    <3> QED BY <3>1, <3>2, <3>3
  <2>3. g = [i \in 1..(n + 1) |-> IF i = 1 THEN s[i] ELSE Join(g[i - 1], s[i])]
    <3> DEFINE h == [i \in 1..(n + 1) |-> IF i = 1 THEN s[i] ELSE Join(g[i - 1], s[i])]
    <3>1. \A i \in 1..(n + 1) : g[i] = h[i]
      BY <2>2
    <3>2. g = [i \in 1..(n + 1) |-> g[i]] /\ h = [i \in 1..(n + 1) |-> h[i]]
      OBVIOUS
    <3> HIDE DEF g, h
    <3>3. g = h
      BY <3>1, <3>2
    <3> QED BY <3>3 DEF h
  <2> HIDE DEF g
  <2>4. \E f1 : Good(f1, n + 1)
    BY <2>3
  <2> QED BY <2>4
<1>3. N = Nat
  BY <1>1, <1>2, Induct
<1>4. Len(s) \in N
  BY <1>3
<1> QED BY <1>4

LEMMA FlattenedStep ==
    ASSUME NEW S, NEW s \in Seq(S)
    PROVE  /\ Len(s) > 0 => Flattened(s)[1] = s[1]
           /\ \A i \in 1..Len(s) : i # 1 => Flattened(s)[i] = Join(Flattened(s)[i - 1], s[i])
           /\ FlattenSeq(s) = IF Len(s) = 0 THEN s ELSE Flattened(s)[Len(s)]
<1> DEFINE f == Flattened(s)
<1>1. f = [i \in 1..Len(s) |-> IF i = 1 THEN s[i] ELSE Join(f[i - 1], s[i])]
  <2>1. \E g : g = [i \in 1..Len(s) |-> IF i = 1 THEN s[i] ELSE Join(g[i - 1], s[i])]
    BY FlattenedExists
  <2> QED BY <2>1, Zenon DEF Flattened
<1>2. FlattenSeq(s) = IF Len(s) = 0 THEN s ELSE f[Len(s)]
  BY Zenon DEF FlattenSeq, Flattened, Join
<1> HIDE DEF f
<1>3. Len(s) \in Nat
  OBVIOUS
<1>4. Len(s) > 0 => f[1] = s[1]
  BY <1>1, <1>3
<1>5. \A i \in 1..Len(s) : i # 1 => f[i] = Join(f[i - 1], s[i])
  BY <1>1
<1> QED BY <1>2, <1>4, <1>5 DEF f

LEMMA FlattenEmpty == FlattenSeq(<<>>) = <<>>
BY DEF FlattenSeq

LEMMA FlattenedType ==
    ASSUME NEW S, NEW s \in Seq(Seq(S))
    PROVE  FlattenSeq(s) \in Seq(S) /\ \A i \in 1..Len(s) : Flattened(s)[i] \in Seq(S)
<1> DEFINE f == Flattened(s)
           N == {n \in Nat : n + 1 \in 1..Len(s) => f[n + 1] \in Seq(S)}
<1>1. Len(s) \in Nat /\ \A i \in 1..Len(s) : s[i] \in Seq(S)
  BY ElementOfSeq
<1>2. /\ Len(s) > 0 => f[1] = s[1]
      /\ \A i \in 1..Len(s) : i # 1 => f[i] = Join(f[i - 1], s[i])
      /\ FlattenSeq(s) = IF Len(s) = 0 THEN s ELSE f[Len(s)]
  BY FlattenedStep
<1> HIDE DEF f
<1>3. 0 \in N
  BY <1>1, <1>2
<1>4. ASSUME NEW n \in N PROVE n + 1 \in N
  <2> SUFFICES ASSUME n + 2 \in 1..Len(s) PROVE f[n + 2] \in Seq(S)
    BY <1>4
  <2>1. n \in Nat /\ n + 1 \in 1..Len(s) /\ n + 2 # 1 /\ n + 2 - 1 = n + 1
    BY <1>1
  <2>2. f[n + 2] = Join(f[n + 1], s[n + 2]) /\ f[n + 1] \in Seq(S)
    BY <1>2, <2>1
  <2> QED BY <1>1, <2>2, ConcatProperties DEF Join
<1>5. N = Nat
  BY <1>3, <1>4, Induct
<1>6. ASSUME NEW i \in 1..Len(s) PROVE f[i] \in Seq(S)
  <2>1. i - 1 \in Nat /\ i - 1 + 1 = i
    BY <1>1
  <2> QED BY <1>5, <1>6, <2>1
<1>7. FlattenSeq(s) \in Seq(S)
  <2>1. CASE Len(s) = 0
    BY <1>2, <2>1, EmptySeq
  <2>2. CASE Len(s) # 0
    BY <1>1, <1>2, <1>6, <2>2
  <2> QED BY <2>1, <2>2
<1> QED BY <1>6, <1>7 DEF f

LEMMA FlattenAppend ==
    ASSUME NEW S, NEW s \in Seq(Seq(S)), NEW e \in Seq(S)
    PROVE  FlattenSeq(Append(s, e)) = FlattenSeq(s) \o e
<1> DEFINE t == Append(s, e)
           f == Flattened(s)
           g == Flattened(t)
           N == {n \in Nat : n + 1 \in 1..Len(s) => g[n + 1] = f[n + 1]}
<1>1. /\ Len(s) \in Nat
      /\ t \in Seq(Seq(S)) /\ Len(t) = Len(s) + 1 /\ t[Len(s) + 1] = e
      /\ \A i \in 1..Len(s) : t[i] = s[i]
  BY AppendProperties
<1>2. /\ Len(s) > 0 => f[1] = s[1]
      /\ \A i \in 1..Len(s) : i # 1 => f[i] = Join(f[i - 1], s[i])
      /\ FlattenSeq(s) = IF Len(s) = 0 THEN s ELSE f[Len(s)]
  BY FlattenedStep
<1> HIDE DEF t
<1>3. /\ Len(t) > 0 => g[1] = t[1]
      /\ \A i \in 1..Len(t) : i # 1 => g[i] = Join(g[i - 1], t[i])
      /\ FlattenSeq(t) = IF Len(t) = 0 THEN t ELSE g[Len(t)]
  BY <1>1, FlattenedStep
<1> HIDE DEF f, g
<1>4. 0 \in N
  BY <1>1, <1>2, <1>3
<1>5. ASSUME NEW n \in N PROVE n + 1 \in N
  <2> SUFFICES ASSUME n + 2 \in 1..Len(s) PROVE g[n + 2] = f[n + 2]
    BY <1>5
  <2>1. /\ n \in Nat /\ n + 1 \in 1..Len(s) /\ n + 2 \in 1..Len(t)
        /\ n + 2 # 1 /\ n + 2 - 1 = n + 1
    BY <1>1
  <2>2. f[n + 2] = Join(f[n + 1], s[n + 2]) /\ g[n + 2] = Join(g[n + 1], t[n + 2])
    BY <1>2, <1>3, <2>1
  <2> QED BY <1>1, <2>1, <2>2
<1>6. N = Nat
  BY <1>4, <1>5, Induct
<1>7. CASE Len(s) = 0
  <2>1. s = <<>>
    BY <1>7, EmptySeq
  <2>2. FlattenSeq(t) = e
    BY <1>1, <1>3, <1>7
  <2> QED BY <2>1, <2>2, FlattenEmpty, ConcatEmptySeq DEF t
<1>8. CASE Len(s) # 0
  <2>1. Len(s) - 1 \in Nat /\ Len(s) - 1 + 1 = Len(s) /\ Len(s) \in 1..Len(s)
    BY <1>1, <1>8
  <2>2. g[Len(s)] = f[Len(s)]
    BY <1>6, <2>1
  <2>3. g[Len(s) + 1] = Join(g[Len(s)], e)
    BY <1>1, <1>3, <1>8
  <2> QED BY <1>1, <1>2, <1>3, <1>8, <2>2, <2>3 DEF t, Join
<1> QED BY <1>7, <1>8

\* One more sequence to flatten.
LEMMA FlattenUpTo ==
    ASSUME NEW S, NEW s \in Seq(Seq(S))
    PROVE  \A n \in 0..(Len(s) - 1) :
             FlattenSeq(SubSeq(s, 1, n + 1)) = FlattenSeq(SubSeq(s, 1, n)) \o s[n + 1]
<1>0. Len(s) \in Nat /\ \A i \in 1..Len(s) : s[i] \in Seq(S)
  BY LenProperties, ElementOfSeq
<1>1. ASSUME NEW n \in 0..Len(s)
      PROVE  SubSeq(s, 1, n) \in Seq(Seq(S)) /\ Len(SubSeq(s, 1, n)) = n
             /\ \A i \in 1..n : SubSeq(s, 1, n)[i] = s[i]
  <2>1. \A i \in 1..n : s[i] \in Seq(S)
    BY <1>0
  <2> QED BY <1>0, <2>1, SubSeqProperties
<1> TAKE n \in 0..(Len(s) - 1)
<1> DEFINE m == n + 1
<1>2. n \in 0..Len(s) /\ m \in 0..Len(s) /\ m \in 1..Len(s) /\ m = n + 1
  BY <1>0
<1> HIDE DEF m
<1> DEFINE a == SubSeq(s, 1, n)
           b == SubSeq(s, 1, m)
<1>3. /\ a \in Seq(Seq(S)) /\ Len(a) = n /\ \A i \in 1..n : a[i] = s[i]
      /\ b \in Seq(Seq(S)) /\ Len(b) = m /\ \A i \in 1..m : b[i] = s[i]
  BY <1>1, <1>2
<1> HIDE DEF a, b
<1>4. /\ Append(a, s[m]) \in Seq(Seq(S)) /\ Len(Append(a, s[m])) = m
      /\ \A i \in 1..n : Append(a, s[m])[i] = a[i]
      /\ Append(a, s[m])[m] = s[m]
  BY <1>0, <1>2, <1>3, AppendProperties
<1>5. \A i \in 1..m : Append(a, s[m])[i] = b[i]
  <2> DEFINE c == Append(a, s[m])
  <2>1. c[m] = s[m] /\ b[m] = s[m] /\ \A i \in 1..n : c[i] = s[i] /\ b[i] = s[i]
    BY <1>2, <1>3, <1>4
  <2> HIDE DEF c
  <2>2. \A i \in 1..m : i = m \/ i \in 1..n
    BY <1>2
  <2>3. \A i \in 1..m : c[i] = b[i]
    BY <2>1, <2>2
  <2> QED BY <2>3 DEF c
<1>6. b = Append(a, s[m])
  BY <1>3, <1>4, <1>5, SeqEqual
<1>7. FlattenSeq(b) = FlattenSeq(a) \o s[m]
  BY <1>0, <1>2, <1>3, <1>6, FlattenAppend
<1> QED BY <1>2, <1>7 DEF a, b
============================================================================
