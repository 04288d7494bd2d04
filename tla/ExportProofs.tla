--------------------------- MODULE ExportProofs ---------------------------
(***************************************************************************)
(* What holds of the export of spans for any number of spans, any sizes of *)
(* queues and batches, and any resources and scopes: no collector is told  *)
(* of a span after its completion (FinalRecordWins), Close loses nothing   *)
(* within its deadline (NothingLostAtClose), and the declared count tells  *)
(* whether a reader has all the spans (DeclaredTells).                     *)
(*                                                                         *)
(* First what the operators of Wire and LiveExport make of a sequence of   *)
(* records, up to the batch that has crossed the wire (BatchCrosses); then    *)
(* the invariant, ExportInv, and each step.                                *)
(***************************************************************************)
EXTENDS LiveExport, SequenceFacts, FiniteSetTheorems

----------------------------------------------------------------------------
(* The elements of a sequence that are in a set.                           *)

\* The recursive function in Among(s, S): its value at n is of the first n.
Pick(s, S, f, n) ==
    IF n = 0 THEN <<>> ELSE IF s[n] \in S THEN Append(f[n - 1], s[n]) ELSE f[n - 1]
Picked(s, S) == CHOOSE f : f = [n \in 0..Len(s) |-> Pick(s, S, f, n)]

LEMMA PickedExists ==
    ASSUME NEW T, NEW s \in Seq(T), NEW S
    PROVE  \E f : f = [n \in 0..Len(s) |-> Pick(s, S, f, n)]
<1> DEFINE Good(f, m) == f = [n \in 0..m |-> Pick(s, S, f, n)]
           N == {m \in Nat : \E f : Good(f, m)}
<1>1. 0 \in N
  <2> DEFINE f == [n \in 0..0 |-> <<>>]
  <2>1. \A n \in 0..0 : Pick(s, S, f, n) = <<>>
    BY DEF Pick
  <2>2. f = [n \in 0..0 |-> Pick(s, S, f, n)]
    BY <2>1
  <2> QED BY <2>2
<1>2. ASSUME NEW m \in N PROVE m + 1 \in N
  <2>1. PICK f : Good(f, m)
    OBVIOUS
  <2> DEFINE g == [n \in 0..(m + 1) |-> IF n = m + 1 THEN Pick(s, S, f, n) ELSE f[n]]
             h == [n \in 0..(m + 1) |-> Pick(s, S, g, n)]
  <2>2. ASSUME NEW n \in 0..(m + 1) PROVE g[n] = Pick(s, S, g, n)
    <3>1. n # 0 => n - 1 \in 0..m /\ g[n - 1] = f[n - 1]
      OBVIOUS
    <3>2. Pick(s, S, g, n) = Pick(s, S, f, n)
      BY <3>1 DEF Pick
    <3>3. n # m + 1 => n \in 0..m
      OBVIOUS
    <3> QED BY <2>1, <3>2, <3>3
  <2>3. \A n \in 0..(m + 1) : g[n] = h[n]
    BY <2>2
  <2>4. g = [n \in 0..(m + 1) |-> g[n]] /\ h = [n \in 0..(m + 1) |-> h[n]]
    OBVIOUS
  <2>5. g = h
    <3> HIDE DEF g, h
    <3> QED BY <2>3, <2>4
  <2>6. Good(g, m + 1)
    BY <2>5
  <2> HIDE DEF g
  <2> QED BY <2>6
<1>3. N = Nat
  BY <1>1, <1>2, Induct
<1>4. Len(s) \in N
  BY <1>3
<1> QED BY <1>4

LEMMA PickedStep ==
    ASSUME NEW T, NEW s \in Seq(T), NEW S
    PROVE  /\ Among(s, S) = Picked(s, S)[Len(s)]
           /\ \A n \in 0..Len(s) : Picked(s, S)[n] = Pick(s, S, Picked(s, S), n)
<1>1. Picked(s, S) = [n \in 0..Len(s) |-> Pick(s, S, Picked(s, S), n)]
  <2>1. \E f : f = [n \in 0..Len(s) |-> Pick(s, S, f, n)]
    BY PickedExists
  <2> QED BY <2>1, Zenon DEF Picked
<1>2. Among(s, S) = Picked(s, S)[Len(s)]
  BY Zenon DEF Among, Picked, Pick
<1> QED BY <1>1, <1>2

\* pos[i] is where the i-th of r comes from: r is made of the elements of s, up
\* to n, that are in S, in their order.
IsAmong(s, S, n, r, pos) ==
    /\ pos \in [1..Len(r) -> 1..n]
    /\ \A i \in 1..Len(r) : r[i] = s[pos[i]] /\ r[i] \in S
    /\ \A i, j \in 1..Len(r) : i < j => pos[i] < pos[j]
    /\ \A m \in 1..n : s[m] \in S => \E i \in 1..Len(r) : pos[i] = m

LEMMA AmongIs ==
    ASSUME NEW T, NEW s \in Seq(T), NEW S
    PROVE  Among(s, S) \in Seq(T) /\ \E pos : IsAmong(s, S, Len(s), Among(s, S), pos)
<1> DEFINE f == Picked(s, S)
           N == {n \in Nat : n \in 0..Len(s) => f[n] \in Seq(T) /\ \E pos : IsAmong(s, S, n, f[n], pos)}
<1>1. Among(s, S) = f[Len(s)] /\ \A n \in 0..Len(s) : f[n] = Pick(s, S, f, n)
  BY PickedStep
<1>2. Len(s) \in Nat /\ \A i \in 1..Len(s) : s[i] \in T
  BY ElementOfSeq
<1> HIDE DEF f
<1>3. 0 \in N
  <2>1. f[0] = <<>>
    BY <1>1, <1>2 DEF Pick
  <2>2. IsAmong(s, S, 0, <<>>, [i \in 1..0 |-> 0])
    <3>1. Len(<<>>) = 0
      OBVIOUS
    <3> QED BY <3>1 DEF IsAmong
  <2>3. f[0] \in Seq(T) /\ \E pos : IsAmong(s, S, 0, f[0], pos)
    BY <2>1, <2>2
  <2> QED BY <2>3
<1>4. ASSUME NEW n \in N PROVE n + 1 \in N
  <2> SUFFICES ASSUME n + 1 \in 0..Len(s)
               PROVE  f[n + 1] \in Seq(T) /\ \E pos : IsAmong(s, S, n + 1, f[n + 1], pos)
    BY <1>4
  <2>1. n \in Nat /\ n \in 0..Len(s) /\ n + 1 \in 1..Len(s) /\ n + 1 # 0 /\ n + 1 - 1 = n
    BY <1>2
  <2>2. PICK pos : f[n] \in Seq(T) /\ IsAmong(s, S, n, f[n], pos)
    BY <1>4, <2>1
  <2>3. f[n + 1] = IF s[n + 1] \in S THEN Append(f[n], s[n + 1]) ELSE f[n]
    BY <1>1, <2>1 DEF Pick
  <2>4. PICK r : r = f[n]
    OBVIOUS
  <2>5. r \in Seq(T) /\ Len(r) \in Nat
    BY <2>2, <2>4
  <2>6. CASE s[n + 1] \notin S
    <3>1. IsAmong(s, S, n + 1, r, pos)
      BY <2>1, <2>2, <2>4, <2>5, <2>6 DEF IsAmong
    <3> QED BY <2>3, <2>4, <2>5, <2>6, <3>1
  <2>7. CASE s[n + 1] \in S
    <3>1. PICK q : q = Append(r, s[n + 1])
      OBVIOUS
    <3>2. PICK l \in Nat : l = Len(r)
      BY <2>5
    <3>3. q \in Seq(T) /\ Len(q) = l + 1 /\ q[l + 1] = s[n + 1]
          /\ \A i \in 1..l : q[i] = r[i]
      BY <1>2, <2>1, <2>5, <3>1, <3>2, AppendProperties
    <3> DEFINE to == [i \in 1..(l + 1) |-> IF i = l + 1 THEN n + 1 ELSE pos[i]]
    <3>4. \A i \in 1..l : pos[i] \in 1..n /\ to[i] = pos[i]
      <4>1. pos \in [1..l -> 1..n]
        BY <2>2, <2>4, <3>2 DEF IsAmong
      <4>2. \A i \in 1..l : i \in 1..(l + 1) /\ i # l + 1
        OBVIOUS
      <4> QED BY <4>1, <4>2
    <3>5. to[l + 1] = n + 1
      OBVIOUS
    <3>6. \A i \in 1..(l + 1) : i = l + 1 \/ i \in 1..l
      OBVIOUS
    <3>7. to \in [1..(l + 1) -> 1..(n + 1)]
      <4>1. \A i \in 1..(l + 1) : to[i] \in 1..(n + 1)
        <5> HIDE DEF to
        <5> QED BY <2>1, <3>4, <3>5, <3>6
      <4> QED BY <4>1
    <3> HIDE DEF to
    <3>8. \A i \in 1..(l + 1) : q[i] = s[to[i]] /\ q[i] \in S
      <4>1. \A i \in 1..l : r[i] = s[pos[i]] /\ r[i] \in S
        BY <2>2, <2>4, <3>2 DEF IsAmong
      <4> QED BY <2>7, <3>3, <3>4, <3>5, <3>6, <4>1
    <3>9. \A i, j \in 1..(l + 1) : i < j => to[i] < to[j]
      <4> SUFFICES ASSUME NEW i \in 1..(l + 1), NEW j \in 1..(l + 1), i < j
                   PROVE  to[i] < to[j]
        OBVIOUS
      <4>1. i \in 1..l
        OBVIOUS
      <4>2. CASE j = l + 1
        BY <2>1, <3>4, <3>5, <4>1, <4>2
      <4>3. CASE j \in 1..l
        BY <2>2, <2>4, <3>2, <3>4, <4>1, <4>3 DEF IsAmong
      <4> QED BY <3>6, <4>2, <4>3
    <3>10. \A m \in 1..(n + 1) : s[m] \in S => \E i \in 1..(l + 1) : to[i] = m
      <4> SUFFICES ASSUME NEW m \in 1..(n + 1), s[m] \in S
                   PROVE  \E i \in 1..(l + 1) : to[i] = m
        OBVIOUS
      <4>1. l + 1 \in 1..(l + 1) /\ 1..l \subseteq 1..(l + 1)
        OBVIOUS
      <4>2. CASE m = n + 1
        BY <3>5, <4>1, <4>2
      <4>3. CASE m # n + 1
        <5>1. m \in 1..n
          BY <2>1, <4>3
        <5>2. PICK i \in 1..l : pos[i] = m
          BY <2>2, <2>4, <3>2, <5>1 DEF IsAmong
        <5> QED BY <3>4, <4>1, <5>2
      <4> QED BY <4>2, <4>3
    <3>11. IsAmong(s, S, n + 1, q, to)
      BY <3>3, <3>7, <3>8, <3>9, <3>10 DEF IsAmong
    <3> QED BY <2>3, <2>4, <2>7, <3>1, <3>3, <3>11
  <2> QED BY <2>6, <2>7
<1>5. N = Nat
  BY <1>3, <1>4, Induct
<1>6. Len(s) \in 0..Len(s)
  BY <1>2
<1> QED BY <1>1, <1>2, <1>5, <1>6

LEMMA RangeIs ==
    ASSUME NEW T, NEW s \in Seq(T)
    PROVE  /\ DOMAIN s = 1..Len(s) /\ Len(s) \in Nat
           /\ \A x : x \in Range(s) <=> \E i \in 1..Len(s) : s[i] = x
           /\ \A i \in 1..Len(s) : s[i] \in Range(s) /\ s[i] \in T
           /\ Range(s) \subseteq T
BY DEF Range

LEMMA RangeConcat ==
    ASSUME NEW T, NEW s \in Seq(T), NEW t \in Seq(T)
    PROVE  s \o t \in Seq(T) /\ Range(s \o t) = Range(s) \cup Range(t)
<1>1. PICK l \in Nat, m \in Nat : l = Len(s) /\ m = Len(t)
  OBVIOUS
<1>2. /\ s \o t \in Seq(T) /\ Len(s \o t) = l + m
      /\ \A i \in 1..(l + m) : (s \o t)[i] = IF i <= l THEN s[i] ELSE t[i - l]
  BY <1>1, ConcatProperties
<1>3. PICK u : u = s \o t
  OBVIOUS
<1>4. ASSUME NEW x \in Range(u) PROVE x \in Range(s) \cup Range(t)
  <2>0. u \in Seq(T) /\ Len(u) = l + m
    BY <1>2, <1>3
  <2>1. PICK i \in 1..(l + m) : u[i] = x
    BY <2>0, RangeIs
  <2>2. CASE i <= l
    <3>1. i \in 1..l /\ u[i] = s[i]
      BY <1>2, <1>3, <2>2
    <3> QED BY <1>1, <2>1, <3>1, RangeIs
  <2>3. CASE ~(i <= l)
    <3>1. i - l \in 1..m /\ u[i] = t[i - l]
      BY <1>2, <1>3, <2>3
    <3> QED BY <1>1, <2>1, <3>1, RangeIs
  <2> QED BY <2>2, <2>3
<1>5. ASSUME NEW x \in Range(s) PROVE x \in Range(u)
  <2>1. PICK i \in 1..l : s[i] = x
    BY <1>1, RangeIs
  <2>2. i \in 1..(l + m) /\ i <= l
    OBVIOUS
  <2> QED BY <1>2, <1>3, <2>1, <2>2, RangeIs
<1>6. ASSUME NEW x \in Range(t) PROVE x \in Range(u)
  <2>1. PICK i \in 1..m : t[i] = x
    BY <1>1, RangeIs
  <2>2. i + l \in 1..(l + m) /\ ~(i + l <= l) /\ i + l - l = i
    OBVIOUS
  <2>3. u[i + l] = x
    BY <1>2, <1>3, <2>1, <2>2
  <2> QED BY <1>2, <1>3, <2>2, <2>3, RangeIs
<1> QED BY <1>2, <1>3, <1>4, <1>5, <1>6

LEMMA AmongRange ==
    ASSUME NEW T, NEW s \in Seq(T), NEW S
    PROVE  Among(s, S) \in Seq(T) /\ Range(Among(s, S)) = Range(s) \cap S
<1>1. PICK r : r = Among(s, S)
  OBVIOUS
<1>2. PICK pos : r \in Seq(T) /\ IsAmong(s, S, Len(s), r, pos)
  BY <1>1, AmongIs
<1>3. ASSUME NEW x \in Range(r) PROVE x \in Range(s) \cap S
  <2>1. PICK i \in 1..Len(r) : r[i] = x
    BY <1>2, RangeIs
  <2>2. pos[i] \in 1..Len(s) /\ s[pos[i]] = x /\ x \in S
    BY <1>2, <2>1 DEF IsAmong
  <2> QED BY <2>2, RangeIs
<1>4. ASSUME NEW x \in Range(s) \cap S PROVE x \in Range(r)
  <2>1. PICK m \in 1..Len(s) : s[m] = x
    BY RangeIs
  <2>2. PICK i \in 1..Len(r) : pos[i] = m
    BY <1>2, <2>1 DEF IsAmong
  <2>3. r[i] = x
    BY <1>2, <2>1, <2>2 DEF IsAmong
  <2> QED BY <1>2, <2>3, RangeIs
<1> QED BY <1>1, <1>2, <1>3, <1>4

\* Each element once, and none is left out.
LEMMA OnceIs ==
    ASSUME NEW T, NEW s \in Seq(T)
    PROVE  /\ Once(s) \in Seq(T) /\ Range(Once(s)) = Range(s)
           /\ \A i, j \in 1..Len(Once(s)) : Once(s)[i] = Once(s)[j] => i = j
<1> DEFINE idx == [i \in DOMAIN s |-> i]
           firsts == {i \in DOMAIN s : \A j \in 1..(i - 1) : s[j] # s[i]}
<1>1. /\ idx \in Seq(Nat) /\ Len(idx) = Len(s) /\ \A i \in 1..Len(s) : idx[i] = i
      /\ DOMAIN s = 1..Len(s) /\ Len(s) \in Nat
  OBVIOUS
<1>2. PICK r : r = Among(idx, firsts)
  OBVIOUS
<1>3. Once(s) = [i \in DOMAIN r |-> s[r[i]]]
  BY <1>2 DEF Once, Map
<1> HIDE DEF idx
<1>4. PICK pos : r \in Seq(Nat) /\ IsAmong(idx, firsts, Len(s), r, pos)
  BY <1>1, <1>2, AmongIs
<1>5. PICK l \in Nat : l = Len(r) /\ DOMAIN r = 1..l
  <2>1. r \in Seq(Nat)
    BY <1>4
  <2> QED BY <2>1, LenProperties
<1>6. \A i \in 1..l : r[i] = pos[i] /\ r[i] \in 1..Len(s) /\ r[i] \in firsts
  <2>1. \A i \in 1..l : r[i] = idx[pos[i]] /\ r[i] \in firsts /\ pos[i] \in 1..Len(s)
    <3> HIDE DEF firsts
    <3> QED BY <1>4, <1>5 DEF IsAmong
  <2> HIDE DEF firsts
  <2> QED BY <1>1, <2>1
<1>7. \A i, j \in 1..l : i < j => r[i] < r[j]
  BY <1>4, <1>5, <1>6 DEF IsAmong
<1>8. PICK q : q = Once(s)
  OBVIOUS
<1>9. q \in Seq(T) /\ Len(q) = l /\ \A i \in 1..l : q[i] = s[r[i]]
  <2>1. \A i \in 1..l : s[r[i]] \in T
    BY <1>6, ElementOfSeq
  <2>2. q = [i \in 1..l |-> s[r[i]]]
    BY <1>3, <1>5, <1>8
  <2> QED BY <2>1, <2>2
<1>10. ASSUME NEW i \in 1..l, NEW j \in 1..l, i < j, q[i] = q[j] PROVE FALSE
  <2>1. r[i] \in 1..(r[j] - 1)
    BY <1>6, <1>7, <1>10, <1>1
  <2> QED BY <1>6, <1>9, <1>10, <2>1
<1>11. \A i, j \in 1..l : q[i] = q[j] => i = j
  <2> SUFFICES ASSUME NEW i \in 1..l, NEW j \in 1..l, q[i] = q[j], i # j PROVE FALSE
    OBVIOUS
  <2>1. i < j \/ j < i
    OBVIOUS
  <2> QED BY <1>10, <2>1
<1>12. Range(q) \subseteq Range(s)
  <2> SUFFICES ASSUME NEW x \in Range(q) PROVE x \in Range(s)
    OBVIOUS
  <2>1. PICK i \in 1..l : q[i] = x
    BY <1>9, RangeIs
  <2> QED BY <1>6, <1>9, <2>1, RangeIs
<1>13. ASSUME NEW x \in Range(s) PROVE x \in Range(q)
  <2> DEFINE M == {m \in Nat : m \in 1..Len(s) /\ s[m] = x}
  <2>1. M # {}
    BY <1>1, RangeIs
  <2>2. PICK m \in M : \A n \in M : m <= n
    BY <2>1, Least
  <2>3. m \in 1..Len(s) /\ m \in Nat /\ s[m] = x
    BY <2>2
  <2>4. ASSUME NEW j \in 1..(m - 1), s[j] = s[m] PROVE FALSE
    <3>1. j \in Nat /\ j \in 1..Len(s) /\ ~(m <= j)
      BY <1>1, <2>3
    <3>2. j \in M
      BY <2>3, <2>4, <3>1
    <3> QED BY <2>2, <3>1, <3>2
  <2>5. m \in firsts
    BY <1>1, <2>3, <2>4
  <2>6. PICK i \in 1..l : pos[i] = m
    <3>1. idx[m] \in firsts
      BY <1>1, <2>3, <2>5
    <3> QED BY <1>4, <1>5, <2>3, <3>1 DEF IsAmong
  <2>7. q[i] = x
    BY <1>6, <1>9, <2>3, <2>6
  <2> QED BY <1>9, <2>7, RangeIs
<1> QED BY <1>8, <1>9, <1>11, <1>12, <1>13

----------------------------------------------------------------------------
(* Records of spans, and what the exporters make of a batch.               *)

Records == {Snapshot(s) : s \in Spans} \cup {Final(s) : s \in Spans}

LEMMA RecordIs ==
    /\ \A s \in Spans : /\ Snapshot(s) \in Records /\ Snapshot(s).span = s /\ Live(Snapshot(s))
                        /\ Final(s) \in Records /\ Final(s).span = s /\ ~Live(Final(s))
    /\ \A r \in Records : /\ r.span \in Spans /\ r = IF Live(r) THEN Snapshot(r.span) ELSE Final(r.span)
<1>1. ASSUME NEW s \in Spans
      PROVE  /\ Snapshot(s) \in Records /\ Snapshot(s).span = s /\ Live(Snapshot(s))
             /\ Final(s) \in Records /\ Final(s).span = s /\ ~Live(Final(s))
  BY SignBitAssumption DEF Records, Snapshot, Final, Record, Live, ZeroTime
<1>2. ASSUME NEW r \in Records
      PROVE  /\ r.span \in Spans /\ r = IF Live(r) THEN Snapshot(r.span) ELSE Final(r.span)
  <2>1. CASE \E s \in Spans : r = Snapshot(s)
    BY <1>1, <2>1
  <2>2. CASE \E s \in Spans : r = Final(s)
    BY <1>1, <2>2
  <2> QED BY <2>1, <2>2 DEF Records
<1> QED BY <1>1, <1>2

\* No span has two records; none has another after its completed one.
Distinct(s) == \A i, j \in 1..Len(s) : s[i].span = s[j].span => i = j
Ordered(s) == \A i, j \in 1..Len(s) : i < j /\ s[i].span = s[j].span => Live(s[i])

LEMMA AmongDistinct ==
    ASSUME NEW T, NEW s \in Seq(T), NEW S, Distinct(s)
    PROVE  Distinct(Among(s, S))
<1>1. PICK r, pos : r = Among(s, S) /\ IsAmong(s, S, Len(s), r, pos) /\ r \in Seq(T)
  BY AmongIs
<1>2. PICK l \in Nat : l = Len(r)
  BY <1>1
<1>3. \A i \in 1..l : pos[i] \in 1..Len(s) /\ pos[i] \in Nat /\ r[i] = s[pos[i]]
  BY <1>1, <1>2 DEF IsAmong
<1>4. \A i, j \in 1..l : i < j => pos[i] < pos[j]
  BY <1>1, <1>2 DEF IsAmong
<1>5. ASSUME NEW i \in 1..l, NEW j \in 1..l, r[i].span = r[j].span PROVE i = j
  <2>1. pos[i] = pos[j]
    BY <1>3, <1>5 DEF Distinct
  <2>2. ~(i < j) /\ ~(j < i)
    BY <1>3, <1>4, <2>1
  <2> QED BY <2>2
<1> QED BY <1>1, <1>2, <1>5 DEF Distinct

LEMMA FilterIs ==
    ASSUME NEW T, NEW s \in Seq(T), Ordered(s)
    PROVE  /\ FilterLive(s) \in Seq(T) /\ Range(FilterLive(s)) = {r \in Range(s) : ~Live(r)}
           /\ Distinct(FilterLive(s))
<1> DEFINE S == {r \in Range(s) : ~Live(r)}
<1>1. PICK r, pos : r = Among(s, S) /\ IsAmong(s, S, Len(s), r, pos) /\ r \in Seq(T)
  BY AmongIs
<1>2. PICK l \in Nat : l = Len(r)
  <2> HIDE DEF S
  <2> QED BY <1>1
<1>3. \A i \in 1..l : /\ pos[i] \in 1..Len(s) /\ pos[i] \in Nat /\ r[i] = s[pos[i]]
                      /\ ~Live(r[i])
  BY <1>1, <1>2 DEF IsAmong
<1>4. \A i, j \in 1..l : i < j => pos[i] < pos[j]
  BY <1>1, <1>2 DEF IsAmong
<1>5. ASSUME NEW i \in 1..l, NEW j \in 1..l, r[i].span = r[j].span PROVE i = j
  <2>1. /\ pos[i] \in 1..Len(s) /\ s[pos[i]].span = r[i].span /\ ~Live(s[pos[i]])
        /\ pos[j] \in 1..Len(s) /\ s[pos[j]].span = r[j].span /\ ~Live(s[pos[j]])
    BY <1>3
  <2>2. ~(pos[i] < pos[j]) /\ ~(pos[j] < pos[i])
    BY <1>5, <2>1 DEF Ordered
  <2>3. ~(i < j) /\ ~(j < i)
    BY <1>4, <2>2
  <2> QED BY <2>3
<1>6. Range(r) = S
  BY <1>1, AmongRange
<1> QED BY <1>1, <1>2, <1>5, <1>6 DEF Distinct, FilterLive

\* The latest record is one of them, and a completed one if there is any.
LEMMA LatestIs ==
    ASSUME NEW T, NEW s \in Seq(T), s # <<>>
    PROVE  /\ Latest(s) \in Range(s)
           /\ (\E x \in Range(s) : ~Live(x)) => ~Live(Latest(s))
<1>1. PICK done : done = FilterLive(s)
  OBVIOUS
<1>2. done \in Seq(T) /\ Range(done) = {r \in Range(s) : ~Live(r)}
  BY <1>1, AmongRange DEF FilterLive
<1>3. Latest(s) = IF done = <<>> THEN Last(s) ELSE Last(done)
  BY <1>1 DEF Latest
<1>4. CASE done = <<>>
  <2>1. Last(s) \in Range(s)
    <3>1. Len(s) \in 1..Len(s)
      BY EmptySeq
    <3> QED BY <3>1, RangeIs DEF Last
  <2>2. Range(done) = {}
    BY <1>4 DEF Range
  <2> QED BY <1>2, <1>3, <1>4, <2>1, <2>2
<1>5. CASE done # <<>>
  <2>1. Last(done) \in Range(done)
    <3>1. Len(done) \in 1..Len(done)
      BY <1>2, <1>5, EmptySeq
    <3> QED BY <1>2, <3>1, RangeIs DEF Last
  <2> QED BY <1>2, <1>3, <1>5, <2>1
<1> QED BY <1>4, <1>5

LEMMA CoalesceIs ==
    ASSUME NEW T, NEW s \in Seq(T)
    PROVE  /\ Coalesce(s) \in Seq(T) /\ Range(Coalesce(s)) \subseteq Range(s)
           /\ Distinct(Coalesce(s))
           /\ \A x \in Range(s) : ~Live(x) =>
                \E y \in Range(Coalesce(s)) : y.span = x.span /\ ~Live(y)
<1> DEFINE spans == [i \in DOMAIN s |-> s[i].span]
           U == {s[i].span : i \in DOMAIN s}
           Mine(id) == Among(s, {r \in Range(s) : r.span = id})
<1>1. spans \in Seq(U) /\ Len(spans) = Len(s) /\ \A i \in 1..Len(s) : spans[i] = s[i].span
  OBVIOUS
<1>2. Map(LAMBDA r : r.span, s) = spans
  BY DEF Map
<1>3. PICK ids : ids = Once(spans)
  OBVIOUS
<1> HIDE DEF spans
<1>4. /\ ids \in Seq(U) /\ Range(ids) = Range(spans)
      /\ \A i, j \in 1..Len(ids) : ids[i] = ids[j] => i = j
  BY <1>1, <1>3, OnceIs
<1>5. \A id : id \in Range(ids) <=> \E x \in Range(s) : x.span = id
  <2>1. \A id : id \in Range(spans) <=> \E i \in 1..Len(spans) : spans[i] = id
    BY <1>1, RangeIs
  <2>2. \A id : id \in Range(spans) <=> \E i \in 1..Len(s) : s[i].span = id
    BY <1>1, <2>1
  <2>3. \A x : x \in Range(s) <=> \E i \in 1..Len(s) : s[i] = x
    BY RangeIs
  <2> QED BY <1>4, <2>2, <2>3
<1>6. ASSUME NEW id \in Range(ids)
      PROVE  /\ Latest(Mine(id)) \in Range(s) /\ Latest(Mine(id)).span = id
             /\ (\E x \in Range(s) : x.span = id /\ ~Live(x)) => ~Live(Latest(Mine(id)))
  <2>1. PICK rs : rs = Mine(id)
    OBVIOUS
  <2>2. rs \in Seq(T) /\ Range(rs) = {r \in Range(s) : r.span = id}
    BY <2>1, AmongRange
  <2>3. rs # <<>>
    <3>1. Range(rs) # {}
      BY <1>5, <2>2
    <3> QED BY <3>1 DEF Range
  <2> HIDE DEF Mine
  <2>4. Latest(rs) \in Range(rs) /\ ((\E x \in Range(rs) : ~Live(x)) => ~Live(Latest(rs)))
    BY <2>2, <2>3, LatestIs
  <2> QED BY <2>1, <2>2, <2>4
<1>7. PICK c : c = Coalesce(s)
  OBVIOUS
<1>8. c = [i \in DOMAIN ids |-> Latest(Mine(ids[i]))]
  BY <1>2, <1>3, <1>7 DEF Coalesce, Map
<1>9. PICK l \in Nat : l = Len(ids) /\ DOMAIN ids = 1..l
  BY <1>4
<1> HIDE DEF Mine
<1>10. ASSUME NEW i \in 1..l
       PROVE  /\ c[i] \in Range(s) /\ c[i].span = ids[i]
              /\ (\E x \in Range(s) : x.span = ids[i] /\ ~Live(x)) => ~Live(c[i])
  <2>1. ids[i] \in Range(ids) /\ c[i] = Latest(Mine(ids[i]))
    BY <1>4, <1>8, <1>9, RangeIs
  <2> QED BY <1>6, <2>1
<1>11. c \in Seq(T) /\ Len(c) = l
  <2>1. \A i \in 1..l : c[i] \in T
    BY <1>10, RangeIs
  <2>2. c = [i \in 1..l |-> c[i]]
    BY <1>8, <1>9
  <2> QED BY <2>1, <2>2
<1>12. Range(c) \subseteq Range(s)
  BY <1>10, <1>11, RangeIs
<1>13. Distinct(c)
  BY <1>4, <1>9, <1>10, <1>11 DEF Distinct
<1>14. ASSUME NEW x \in Range(s), ~Live(x)
       PROVE  \E y \in Range(c) : y.span = x.span /\ ~Live(y)
  <2>1. x.span \in Range(ids)
    BY <1>5
  <2>2. PICK i \in 1..l : ids[i] = x.span
    BY <1>4, <1>9, <2>1, RangeIs
  <2>3. c[i].span = x.span /\ ~Live(c[i]) /\ c[i] \in Range(c)
    BY <1>10, <1>11, <1>14, <2>2, RangeIs
  <2> QED BY <2>3
<1> QED BY <1>7, <1>11, <1>12, <1>13, <1>14

----------------------------------------------------------------------------
(* The wire: a batch arrives whole, in another order.                      *)

Apart(s, t) == \A x \in Range(s), y \in Range(t) : x.span # y.span

LEMMA DistinctConcat ==
    ASSUME NEW T, NEW s \in Seq(T), NEW t \in Seq(T), Distinct(s), Distinct(t), Apart(s, t)
    PROVE  Distinct(s \o t)
<1>1. PICK l \in Nat, m \in Nat : l = Len(s) /\ m = Len(t)
  OBVIOUS
<1>2. PICK u : u = s \o t
  OBVIOUS
<1>3. /\ Len(u) = l + m
      /\ \A i \in 1..(l + m) : u[i] = IF i <= l THEN s[i] ELSE t[i - l]
  BY <1>1, <1>2, ConcatProperties
<1>4. \A i \in 1..l, j \in 1..m : s[i].span # t[j].span
  BY <1>1, RangeIs DEF Apart
<1>5. ASSUME NEW i \in 1..(l + m), NEW j \in 1..(l + m), u[i].span = u[j].span PROVE i = j
  <2>1. CASE i <= l /\ j <= l
    <3>1. i \in 1..l /\ j \in 1..l
      BY <2>1
    <3> QED BY <1>1, <1>3, <1>5, <2>1, <3>1 DEF Distinct
  <2>2. CASE ~(i <= l) /\ ~(j <= l)
    <3>1. i - l \in 1..m /\ j - l \in 1..m
      BY <2>2
    <3>2. t[i - l].span = t[j - l].span
      BY <1>3, <1>5, <2>2
    <3>3. i - l = j - l
      BY <1>1, <3>1, <3>2 DEF Distinct
    <3> QED BY <3>3
  <2>3. CASE i <= l /\ ~(j <= l)
    <3>1. i \in 1..l /\ j - l \in 1..m
      BY <2>3
    <3> QED BY <1>3, <1>4, <1>5, <2>3, <3>1
  <2>4. CASE ~(i <= l) /\ j <= l
    <3>1. i - l \in 1..m /\ j \in 1..l
      BY <2>4
    <3> QED BY <1>3, <1>4, <1>5, <2>4, <3>1
  <2> QED BY <2>1, <2>2, <2>3, <2>4
<1> QED BY <1>2, <1>3, <1>5 DEF Distinct

LEMMA FlattenIs ==
    ASSUME NEW T, NEW s \in Seq(Seq(T))
    PROVE  /\ FlattenSeq(s) \in Seq(T)
           /\ \A x : x \in Range(FlattenSeq(s)) <=> \E i \in 1..Len(s) : x \in Range(s[i])
           /\ (\A i \in 1..Len(s) : Distinct(s[i])) /\ (\A i, j \in 1..Len(s) : i # j => Apart(s[i], s[j]))
                => Distinct(FlattenSeq(s))
<1> DEFINE f == Flattened(s)
           Fine == (\A i \in 1..Len(s) : Distinct(s[i]))
                   /\ \A i, j \in 1..Len(s) : i # j => Apart(s[i], s[j])
           Good(n) == /\ f[n] \in Seq(T)
                      /\ \A x : x \in Range(f[n]) <=> \E i \in 1..n : x \in Range(s[i])
                      /\ Fine => Distinct(f[n])
           N == {n \in Nat : n + 1 \in 1..Len(s) => Good(n + 1)}
<1>1. Len(s) \in Nat /\ \A i \in 1..Len(s) : s[i] \in Seq(T)
  BY ElementOfSeq
<1>2. /\ Len(s) > 0 => f[1] = s[1]
      /\ \A i \in 1..Len(s) : i # 1 => f[i] = Join(f[i - 1], s[i])
      /\ FlattenSeq(s) = IF Len(s) = 0 THEN s ELSE f[Len(s)]
  BY FlattenedStep
<1> HIDE DEF f
<1>3. 0 \in N
  <2> SUFFICES ASSUME 1 \in 1..Len(s) PROVE Good(1)
    OBVIOUS
  <2>1. f[1] = s[1] /\ \A i \in 1..1 : i = 1
    BY <1>1, <1>2
  <2> QED BY <1>1, <2>1
<1>4. ASSUME NEW n \in N PROVE n + 1 \in N
  <2> SUFFICES ASSUME n + 2 \in 1..Len(s) PROVE Good(n + 2)
    BY <1>4
  <2>1. n \in Nat /\ n + 1 \in 1..Len(s) /\ n + 2 # 1 /\ n + 2 - 1 = n + 1
        /\ \A i \in 1..(n + 1) : i \in 1..Len(s) /\ i # n + 2
    <3>1. PICK l \in Nat : l = Len(s)
      BY <1>1
    <3>2. n \in Nat /\ n + 2 \in 1..l
      BY <3>1
    <3> HIDE DEF N
    <3> QED BY <3>1, <3>2
  <2>2. PICK t, e : /\ t = f[n + 1] /\ e = s[n + 2] /\ t \in Seq(T) /\ e \in Seq(T)
                    /\ \A x : x \in Range(t) <=> \E i \in 1..(n + 1) : x \in Range(s[i])
                    /\ Fine => Distinct(t)
    BY <1>1, <1>4, <2>1
  <2>3. f[n + 2] = t \o e
    <3>1. f[n + 2] = Join(f[n + 2 - 1], s[n + 2])
      BY <1>2, <2>1
    <3> QED BY <2>1, <2>2, <3>1 DEF Join
  <2>4. t \o e \in Seq(T) /\ Range(t \o e) = Range(t) \cup Range(e)
    BY <2>2, RangeConcat
  <2>5. ASSUME NEW x
        PROVE  x \in Range(t \o e) <=> \E i \in 1..(n + 2) : x \in Range(s[i])
    <3>1. \A i \in 1..(n + 2) : i = n + 2 \/ i \in 1..(n + 1)
      BY <2>1
    <3>2. n + 2 \in 1..(n + 2) /\ \A i \in 1..(n + 1) : i \in 1..(n + 2)
      BY <2>1
    <3> QED BY <2>2, <2>4, <3>1, <3>2
  <2>6. ASSUME Fine PROVE Distinct(t \o e)
    <3>1. Apart(t, e)
      <4> SUFFICES ASSUME NEW x \in Range(t), NEW y \in Range(e) PROVE x.span # y.span
        BY DEF Apart
      <4>1. PICK i \in 1..(n + 1) : x \in Range(s[i])
        BY <2>2
      <4>2. Apart(s[i], s[n + 2])
        BY <2>1, <2>6
      <4> QED BY <2>2, <4>1, <4>2 DEF Apart
    <3>2. Distinct(t) /\ Distinct(e)
      BY <2>2, <2>6
    <3> QED BY <2>2, <3>1, <3>2, DistinctConcat
  <2> HIDE DEF Fine
  <2> QED BY <2>3, <2>4, <2>5, <2>6
<1>5. N = Nat
  <2> HIDE DEF Good
  <2> QED BY <1>3, <1>4, Induct
<1>6. CASE Len(s) = 0
  <2>1. s = <<>>
    BY <1>6, EmptySeq
  <2>2. FlattenSeq(s) = <<>> /\ Range(<<>>) = {} /\ <<>> \in Seq(T)
    BY <2>1, FlattenEmpty DEF Range
  <2>3. Distinct(<<>>)
    BY DEF Distinct
  <2> QED BY <1>6, <2>2, <2>3
<1>7. CASE Len(s) # 0
  <2>1. Len(s) - 1 \in Nat /\ Len(s) - 1 + 1 = Len(s) /\ Len(s) \in 1..Len(s)
    BY <1>1, <1>7
  <2>2. Good(Len(s))
    BY <1>5, <2>1
  <2> QED BY <1>2, <1>7, <2>2
<1> QED BY <1>6, <1>7

\* A time within the range of int64 survives the wire.
LEMMA TimeSurvives ==
    ASSUME NEW t \in Int, -SignBit <= t, t < SignBit
    PROVE  fromUnsigned(toUnsigned(t)) = t
<1>1. ASSUME NEW h \in Nat, h > 2, NEW u \in Int, -h <= u, u < h
      PROVE  u = IF u % (2 * h) >= h THEN (u % (2 * h)) - 2 * h ELSE u % (2 * h)
  BY <1>1
<1> QED BY <1>1, SignBitAssumption DEF fromUnsigned, toUnsigned

LEMMA BothTimes ==
    ASSUME NEW r, NEW s, NEW a, NEW b, NEW c, NEW d, NEW rs, NEW sc,
           r = [span |-> s, start |-> a, end |-> b, resource |-> rs, scope |-> sc]
    PROVE  [r EXCEPT !.start = c, !.end = d]
             = [span |-> s, start |-> c, end |-> d, resource |-> rs, scope |-> sc]
<1>1. PICK u : u = [r EXCEPT !.start = c]
  OBVIOUS
<1>2. u = [span |-> s, start |-> c, end |-> b, resource |-> rs, scope |-> sc]
  BY <1>1
<1>3. [r EXCEPT !.start = c, !.end = d] = [u EXCEPT !.end = d]
  BY <1>1
<1>4. [u EXCEPT !.end = d] = [span |-> s, start |-> c, end |-> d, resource |-> rs, scope |-> sc]
  BY <1>2
<1> QED BY <1>3, <1>4

LEMMA ToPBIs ==
    ASSUME NEW r, NEW s, NEW a, NEW b, NEW rs, NEW sc,
           r = [span |-> s, start |-> a, end |-> b, resource |-> rs, scope |-> sc]
    PROVE  ToPB(r) = [span |-> s, start |-> toUnsigned(a), end |-> toUnsigned(b), resource |-> rs,
                      scope |-> sc]
<1>1. PICK c, d : c = toUnsigned(a) /\ d = toUnsigned(b)
  OBVIOUS
<1>2. ToPB(r) = [r EXCEPT !.start = c, !.end = d]
  BY <1>1 DEF ToPB
<1> QED BY <1>1, <1>2, BothTimes

LEMMA FromPBIs ==
    ASSUME NEW r, NEW s, NEW a, NEW b, NEW rs, NEW sc,
           r = [span |-> s, start |-> a, end |-> b, resource |-> rs, scope |-> sc]
    PROVE  FromPB(r) = [span |-> s, start |-> fromUnsigned(a), end |-> fromUnsigned(b), resource |-> rs,
                        scope |-> sc]
<1>1. PICK c, d : c = fromUnsigned(a) /\ d = fromUnsigned(b)
  OBVIOUS
<1>2. FromPB(r) = [r EXCEPT !.start = c, !.end = d]
  BY <1>1 DEF FromPB
<1> QED BY <1>1, <1>2, BothTimes

LEMMA RecordSurvives == \A r \in Records : FromPB(ToPB(r)) = r
<1> SUFFICES ASSUME NEW s \in Spans, NEW end \in {ZeroTime, 2}
             PROVE  FromPB(ToPB(Record(s, end))) = Record(s, end)
  BY DEF Records, Snapshot, Final
<1>1. fromUnsigned(toUnsigned(1)) = 1 /\ fromUnsigned(toUnsigned(2)) = 2
      /\ fromUnsigned(toUnsigned(ZeroTime)) = ZeroTime
  BY TimeSurvives, SignBitAssumption DEF ZeroTime
<1>2. fromUnsigned(toUnsigned(end)) = end
  BY <1>1
<1>3. PICK r, rs, sc : /\ r = Record(s, end)
                       /\ r = [span |-> s, start |-> 1, end |-> end, resource |-> rs, scope |-> sc]
  BY DEF Record
<1>4. PICK u : /\ u = ToPB(r)
               /\ u = [span |-> s, start |-> toUnsigned(1), end |-> toUnsigned(end), resource |-> rs,
                       scope |-> sc]
  BY <1>3, ToPBIs
<1>5. FromPB(u) = [span |-> s, start |-> fromUnsigned(toUnsigned(1)),
                   end |-> fromUnsigned(toUnsigned(end)), resource |-> rs, scope |-> sc]
  BY <1>4, FromPBIs
<1> QED BY <1>1, <1>2, <1>3, <1>4, <1>5

\* Parts that share no record, put together, are the whole in another order.
LEMMA Regroup ==
    ASSUME NEW T, NEW s \in Seq(T), NEW parts \in Seq(Seq(T)),
           \A x : x \in Range(s) <=> \E i \in 1..Len(parts) : x \in Range(parts[i]),
           \A i, j \in 1..Len(parts) : i # j => Range(parts[i]) \cap Range(parts[j]) = {}
    PROVE  /\ FlattenSeq(parts) \in Seq(T) /\ Range(FlattenSeq(parts)) = Range(s)
           /\ Distinct(s) /\ (\A i \in 1..Len(parts) : Distinct(parts[i]))
                => Distinct(FlattenSeq(parts))
<1>1. FlattenSeq(parts) \in Seq(T) /\ Range(FlattenSeq(parts)) = Range(s)
  BY FlattenIs
<1>2. ASSUME Distinct(s), NEW i \in 1..Len(parts), NEW j \in 1..Len(parts), i # j
      PROVE  Apart(parts[i], parts[j])
  <2> SUFFICES ASSUME NEW x \in Range(parts[i]), NEW y \in Range(parts[j]), x.span = y.span
               PROVE  FALSE
    BY DEF Apart
  <2>1. x \in Range(s) /\ y \in Range(s)
    OBVIOUS
  <2>2. PICK k \in 1..Len(s), l \in 1..Len(s) : s[k] = x /\ s[l] = y
    BY <2>1, RangeIs
  <2>3. k = l
    BY <1>2, <2>2 DEF Distinct
  <2> QED BY <1>2, <2>2, <2>3
<1> QED BY <1>1, <1>2, FlattenIs

\* What arrives of a batch's records of one resource.
Over(s, S) == Map(FromPB, Map(ToPB, Among(s, S)))
OfScope(s, sc) == Over(s, {x \in Range(s) : x.scope = sc})
ScopesOf(s) == Once(Map(LAMBDA x : x.scope, s))
OfResource(s) == FlattenSeq([i \in DOMAIN ScopesOf(s) |-> OfScope(s, ScopesOf(s)[i])])

LEMMA OverIs ==
    ASSUME NEW s \in Seq(Records), NEW S
    PROVE  /\ Over(s, S) \in Seq(Records) /\ Range(Over(s, S)) = Range(s) \cap S
           /\ Distinct(s) => Distinct(Over(s, S))
<1>1. PICK r : r = Among(s, S)
  OBVIOUS
<1>2. r \in Seq(Records) /\ Range(r) = Range(s) \cap S /\ (Distinct(s) => Distinct(r))
  BY <1>1, AmongRange, AmongDistinct
<1>3. Map(ToPB, r) = [i \in DOMAIN r |-> ToPB(r[i])]
  BY DEF Map
<1>4. PICK u : u = Map(ToPB, r)
  OBVIOUS
<1>5. Map(FromPB, u) = [i \in DOMAIN r |-> FromPB(ToPB(r[i]))]
  <2>1. DOMAIN u = DOMAIN r /\ \A i \in DOMAIN r : u[i] = ToPB(r[i])
    BY <1>3, <1>4
  <2>2. Map(FromPB, u) = [i \in DOMAIN u |-> FromPB(u[i])]
    BY DEF Map
  <2> QED BY <2>1, <2>2
<1>6. \A i \in DOMAIN r : FromPB(ToPB(r[i])) = r[i]
  BY <1>2, RecordSurvives, RangeIs
<1>7. [i \in DOMAIN r |-> FromPB(ToPB(r[i]))] = [i \in DOMAIN r |-> r[i]]
  BY <1>6
<1>8. [i \in DOMAIN r |-> r[i]] = r
  BY <1>2
<1> QED BY <1>1, <1>2, <1>4, <1>5, <1>7, <1>8 DEF Over

\* The keys of a batch, and its records of each: nothing is in two parts.
LEMMA OfResourceIs ==
    ASSUME NEW s \in Seq(Records)
    PROVE  /\ OfResource(s) \in Seq(Records) /\ Range(OfResource(s)) = Range(s)
           /\ Distinct(s) => Distinct(OfResource(s))
<1> DEFINE keys == [i \in DOMAIN s |-> s[i].scope]
           K == {s[i].scope : i \in DOMAIN s}
<1>1. keys \in Seq(K) /\ Len(keys) = Len(s) /\ \A i \in 1..Len(s) : keys[i] = s[i].scope
  OBVIOUS
<1>2. ScopesOf(s) = Once(keys)
  BY DEF ScopesOf, Map
<1> HIDE DEF keys, K
<1>3. PICK ids : ids = ScopesOf(s)
  OBVIOUS
<1>4. /\ ids \in Seq(K) /\ Range(ids) = Range(keys)
      /\ \A i, j \in 1..Len(ids) : ids[i] = ids[j] => i = j
  BY <1>1, <1>2, <1>3, OnceIs
<1>5. PICK l \in Nat : l = Len(ids) /\ DOMAIN ids = 1..l
  BY <1>4
<1>6. PICK parts : parts = [i \in 1..l |-> OfScope(s, ids[i])]
  OBVIOUS
<1>7. OfResource(s) = FlattenSeq(parts)
  BY <1>3, <1>5, <1>6 DEF OfResource
<1>8. ASSUME NEW i \in 1..l
      PROVE  /\ parts[i] \in Seq(Records) /\ (Distinct(s) => Distinct(parts[i]))
             /\ \A x : x \in Range(parts[i]) <=> x \in Range(s) /\ x.scope = ids[i]
  <2>1. PICK S : S = {x \in Range(s) : x.scope = ids[i]}
    OBVIOUS
  <2>2. parts[i] = Over(s, S)
    BY <1>6, <2>1 DEF OfScope
  <2>3. /\ Over(s, S) \in Seq(Records) /\ Range(Over(s, S)) = Range(s) \cap S
        /\ Distinct(s) => Distinct(Over(s, S))
    BY OverIs
  <2> QED BY <2>1, <2>2, <2>3
<1>9. parts \in Seq(Seq(Records)) /\ Len(parts) = l
  BY <1>6, <1>8
<1>10. \A x \in Range(s) : \E i \in 1..l : ids[i] = x.scope
  <2> SUFFICES ASSUME NEW x \in Range(s) PROVE \E i \in 1..l : ids[i] = x.scope
    OBVIOUS
  <2>1. PICK j \in 1..Len(s) : s[j] = x
    BY RangeIs
  <2>2. keys[j] \in Range(keys) /\ keys[j] = x.scope
    BY <1>1, <2>1, RangeIs
  <2>3. x.scope \in Range(ids)
    BY <1>4, <2>2
  <2> QED BY <1>4, <1>5, <2>3, RangeIs
<1>11. \A x : x \in Range(s) <=> \E i \in 1..l : x \in Range(parts[i])
  BY <1>8, <1>10
<1>12. ASSUME NEW i \in 1..l, NEW j \in 1..l, i # j PROVE Range(parts[i]) \cap Range(parts[j]) = {}
  <2>1. ids[i] # ids[j]
    BY <1>4, <1>5, <1>12
  <2>2. ASSUME NEW x \in Range(parts[i]), x \in Range(parts[j]) PROVE FALSE
    BY <1>8, <2>1, <2>2
  <2> QED BY <2>2
<1>13. /\ FlattenSeq(parts) \in Seq(Records) /\ Range(FlattenSeq(parts)) = Range(s)
       /\ Distinct(s) /\ (\A i \in 1..l : Distinct(parts[i])) => Distinct(FlattenSeq(parts))
  <2>1. \A i, j \in 1..Len(parts) : i # j => Range(parts[i]) \cap Range(parts[j]) = {}
    BY <1>9, <1>12
  <2>2. \A x : x \in Range(s) <=> \E i \in 1..Len(parts) : x \in Range(parts[i])
    BY <1>9, <1>11
  <2>3. /\ FlattenSeq(parts) \in Seq(Records) /\ Range(FlattenSeq(parts)) = Range(s)
        /\ Distinct(s) /\ (\A i \in 1..Len(parts) : Distinct(parts[i]))
             => Distinct(FlattenSeq(parts))
    BY <1>9, <2>1, <2>2, Regroup
  <2> QED BY <1>9, <2>3
<1> QED BY <1>7, <1>8, <1>13

\* The records of b with those attributes.
WithAttrs(b, attrs) == Among(b, {x \in Range(b) : x.resource.attrs = attrs})
AttrsOf(b) == Once(Map(LAMBDA x : x.resource.attrs, b))
Unpack(g) == FlatMap(LAMBDA sc : Map(FromPB, sc.records), g.scopes)

LEMMA GroupIs ==
    ASSUME NEW b \in Seq(Records)
    PROVE  /\ DOMAIN GroupByResource(b, ToPB) = DOMAIN AttrsOf(b)
           /\ \A i \in DOMAIN AttrsOf(b) :
                Unpack(GroupByResource(b, ToPB)[i]) = OfResource(WithAttrs(b, AttrsOf(b)[i]))
<1> DEFINE In(rs, sc) == Among(rs, {x \in Range(rs) : x.scope = sc})
           Scoped(sc, records) == [scope |-> InstrumentationScopeToPB(sc), schema |-> sc.schema,
                                   records |-> records]
           Scopes(rs) == [j \in DOMAIN ScopesOf(rs) |->
                            Scoped(ScopesOf(rs)[j], Map(ToPB, In(rs, ScopesOf(rs)[j])))]
           Group(rs) == [resource |-> ResourceToPB(rs[1].resource),
                         schema |-> rs[1].resource.schema, scopes |-> Scopes(rs)]
<1>1. GroupByResource(b, ToPB) = [i \in DOMAIN AttrsOf(b) |-> Group(WithAttrs(b, AttrsOf(b)[i]))]
  BY Zenon DEF GroupByResource, Map, AttrsOf, ScopesOf, WithAttrs
<1>2. ASSUME NEW rs
      PROVE  Unpack(Group(rs)) = OfResource(rs)
  <2>1. Group(rs).scopes = Scopes(rs)
    OBVIOUS
  <2>2. \A j \in DOMAIN ScopesOf(rs) : Scopes(rs)[j].records = Map(ToPB, In(rs, ScopesOf(rs)[j]))
    OBVIOUS
  <2>3. \A j \in DOMAIN ScopesOf(rs) :
           Map(FromPB, Map(ToPB, In(rs, ScopesOf(rs)[j]))) = OfScope(rs, ScopesOf(rs)[j])
    BY Zenon DEF OfScope, Over
  <2>4. Unpack(Group(rs)) = FlattenSeq([j \in DOMAIN Scopes(rs) |-> Map(FromPB, Scopes(rs)[j].records)])
    BY <2>1, Zenon DEF Unpack, FlatMap, Map
  <2>5. DOMAIN Scopes(rs) = DOMAIN ScopesOf(rs)
    OBVIOUS
  <2>6. [j \in DOMAIN Scopes(rs) |-> Map(FromPB, Scopes(rs)[j].records)]
          = [j \in DOMAIN ScopesOf(rs) |-> OfScope(rs, ScopesOf(rs)[j])]
    <3> HIDE DEF Scopes, In
    <3> QED BY <2>2, <2>3, <2>5
  <2> QED BY <2>4, <2>6, Zenon DEF OfResource
<1> HIDE DEF Group
<1>3. PICK g : g = GroupByResource(b, ToPB)
  OBVIOUS
<1>4. DOMAIN g = DOMAIN AttrsOf(b)
      /\ \A i \in DOMAIN AttrsOf(b) : g[i] = Group(WithAttrs(b, AttrsOf(b)[i]))
  BY <1>1, <1>3
<1> QED BY <1>2, <1>3, <1>4

\* A batch that crosses the wire keeps its records, whatever their resources and
\* scopes and the order of the groups; no span comes to have two.
THEOREM BatchCrosses ==
    ASSUME NEW b \in Seq(Records), NEW w \in Crossed(b)
    PROVE  /\ w \in Seq(Records) /\ Range(w) = Range(b)
           /\ Distinct(b) => Distinct(w)
<1> DEFINE keys == [i \in DOMAIN b |-> b[i].resource.attrs]
           K == {b[i].resource.attrs : i \in DOMAIN b}
<1>1. keys \in Seq(K) /\ Len(keys) = Len(b) /\ \A i \in 1..Len(b) : keys[i] = b[i].resource.attrs
  OBVIOUS
<1>2. AttrsOf(b) = Once(keys)
  BY DEF AttrsOf, Map
<1> HIDE DEF keys, K
<1>3. PICK ids : ids = AttrsOf(b)
  OBVIOUS
<1>4. /\ ids \in Seq(K) /\ Range(ids) = Range(keys)
      /\ \A i, j \in 1..Len(ids) : ids[i] = ids[j] => i = j
  <2>1. /\ Once(keys) \in Seq(K) /\ Range(Once(keys)) = Range(keys)
        /\ \A i, j \in 1..Len(Once(keys)) : Once(keys)[i] = Once(keys)[j] => i = j
    BY <1>1, OnceIs
  <2> QED BY <1>2, <1>3, <2>1
<1>5. PICK l \in Nat : l = Len(ids) /\ DOMAIN ids = 1..l
  BY <1>4
<1>6. PICK g : g = GroupByResource(b, ToPB)
  OBVIOUS
<1>7. DOMAIN g = 1..l /\ \A i \in 1..l : Unpack(g[i]) = OfResource(WithAttrs(b, ids[i]))
  BY <1>3, <1>5, <1>6, GroupIs
<1>8. PICK p \in Bijection(1..l, 1..l) : w = Received([i \in 1..l |-> g[p[i]]])
  <2>1. PICK v \in AnyOrder(g) : w = Received(v)
    BY <1>6 DEF Crossed
  <2>2. PICK p \in Bijection(DOMAIN g, DOMAIN g) : v = [i \in DOMAIN g |-> g[p[i]]]
    BY <2>1, Zenon DEF AnyOrder
  <2>3. p \in Bijection(1..l, 1..l) /\ v = [i \in 1..l |-> g[p[i]]]
    BY <1>7, <2>2
  <2> QED BY <2>1, <2>3
<1>9. /\ \A i \in 1..l : p[i] \in 1..l
      /\ \A i, j \in 1..l : p[i] = p[j] => i = j
      /\ \A k \in 1..l : \E i \in 1..l : p[i] = k
  BY <1>8 DEF Bijection, Injection, Surjection, IsInjective
<1>10. PICK parts : parts = [i \in 1..l |-> OfResource(WithAttrs(b, ids[p[i]]))]
  OBVIOUS
<1>11. w = FlattenSeq(parts)
  <2>1. PICK v : v = [i \in 1..l |-> g[p[i]]]
    OBVIOUS
  <2>2. Received(v) = FlattenSeq([i \in DOMAIN v |-> Unpack(v[i])])
    BY Zenon DEF Received, Unpack, FlatMap, Map
  <2>3. [i \in DOMAIN v |-> Unpack(v[i])] = parts
    <3>1. DOMAIN v = 1..l /\ \A i \in 1..l : Unpack(v[i]) = OfResource(WithAttrs(b, ids[p[i]]))
      BY <1>7, <1>9, <2>1
    <3> QED BY <1>10, <3>1
  <2> QED BY <1>8, <2>1, <2>2, <2>3
<1>12. ASSUME NEW i \in 1..l
       PROVE  /\ parts[i] \in Seq(Records) /\ (Distinct(b) => Distinct(parts[i]))
              /\ \A x : x \in Range(parts[i]) <=> x \in Range(b) /\ x.resource.attrs = ids[p[i]]
  <2>1. PICK S : S = {x \in Range(b) : x.resource.attrs = ids[p[i]]}
    OBVIOUS
  <2>2. PICK rs : rs = WithAttrs(b, ids[p[i]]) /\ rs = Among(b, S)
    BY <2>1 DEF WithAttrs
  <2>3. rs \in Seq(Records) /\ Range(rs) = Range(b) \cap S /\ (Distinct(b) => Distinct(rs))
    BY <2>2, AmongRange, AmongDistinct
  <2>4. parts[i] = OfResource(rs)
    BY <1>10, <2>2
  <2>5. /\ OfResource(rs) \in Seq(Records) /\ Range(OfResource(rs)) = Range(rs)
        /\ Distinct(rs) => Distinct(OfResource(rs))
    BY <2>3, OfResourceIs
  <2> QED BY <2>1, <2>3, <2>4, <2>5
<1>13. parts \in Seq(Seq(Records)) /\ Len(parts) = l
  BY <1>10, <1>12
<1>14. \A x \in Range(b) : \E i \in 1..l : ids[p[i]] = x.resource.attrs
  <2> SUFFICES ASSUME NEW x \in Range(b) PROVE \E i \in 1..l : ids[p[i]] = x.resource.attrs
    OBVIOUS
  <2>1. PICK j \in 1..Len(b) : b[j] = x
    BY RangeIs
  <2>2. keys[j] \in Range(keys) /\ keys[j] = x.resource.attrs
    BY <1>1, <2>1, RangeIs
  <2>3. x.resource.attrs \in Range(ids)
    BY <1>4, <2>2
  <2>4. PICK k \in 1..l : ids[k] = x.resource.attrs
    BY <1>4, <1>5, <2>3, RangeIs
  <2> QED BY <1>9, <2>4
<1>15. \A x : x \in Range(b) <=> \E i \in 1..l : x \in Range(parts[i])
  BY <1>12, <1>14
<1>16. ASSUME NEW i \in 1..l, NEW j \in 1..l, i # j PROVE Range(parts[i]) \cap Range(parts[j]) = {}
  <2>1. ids[p[i]] # ids[p[j]]
    BY <1>4, <1>5, <1>9, <1>16
  <2>2. ASSUME NEW x \in Range(parts[i]), x \in Range(parts[j]) PROVE FALSE
    BY <1>12, <2>1, <2>2
  <2> QED BY <2>2
<1>17. /\ FlattenSeq(parts) \in Seq(Records) /\ Range(FlattenSeq(parts)) = Range(b)
       /\ Distinct(b) /\ (\A i \in 1..l : Distinct(parts[i])) => Distinct(FlattenSeq(parts))
  <2>1. \A i, j \in 1..Len(parts) : i # j => Range(parts[i]) \cap Range(parts[j]) = {}
    BY <1>13, <1>16
  <2>2. \A x : x \in Range(b) <=> \E i \in 1..Len(parts) : x \in Range(parts[i])
    BY <1>13, <1>15
  <2>3. /\ FlattenSeq(parts) \in Seq(Records) /\ Range(FlattenSeq(parts)) = Range(b)
        /\ Distinct(b) /\ (\A i \in 1..Len(parts) : Distinct(parts[i]))
             => Distinct(FlattenSeq(parts))
    BY <1>13, <2>1, <2>2, Regroup
  <2> QED BY <1>13, <2>3
<1> QED BY <1>11, <1>12, <1>17

LEMMA ExportedIs ==
    ASSUME NEW k, NEW b \in Seq(Records), Ordered(b)
    PROVE  /\ Exported(k, b) \in Seq(Records) /\ Ordered(Exported(k, b))
           /\ Range(Exported(k, b)) \subseteq Range(b)
           /\ \A x \in Range(b) : ~Live(x) => x \in Range(Exported(k, b))
           /\ k \in {"live", "filtered"} => Distinct(Exported(k, b))
<1>1. ASSUME NEW s \in Seq(Records), Distinct(s) PROVE Ordered(s)
  BY <1>1 DEF Distinct, Ordered
<1>2. CASE k = "live"
  <2>1. PICK c : c = Coalesce(b)
    OBVIOUS
  <2>2. /\ c \in Seq(Records) /\ Range(c) \subseteq Range(b) /\ Distinct(c)
        /\ \A x \in Range(b) : ~Live(x) => \E y \in Range(c) : y.span = x.span /\ ~Live(y)
    BY <2>1, CoalesceIs
  <2>3. ASSUME NEW x \in Range(b), ~Live(x) PROVE x \in Range(c)
    <3>1. PICK y \in Range(c) : y.span = x.span /\ ~Live(y)
      BY <2>2, <2>3
    <3>2. x \in Records /\ y \in Records
      BY <2>2, RangeIs
    <3>3. x = Final(x.span) /\ y = Final(y.span)
      BY <2>3, <3>1, <3>2, RecordIs
    <3> QED BY <3>1, <3>3
  <2>4. Exported(k, b) = c
    BY <1>2, <2>1 DEF Exported
  <2> QED BY <1>1, <2>2, <2>3, <2>4
<1>3. CASE k = "filtered"
  <2>1. PICK c : c = FilterLive(b)
    OBVIOUS
  <2>2. c \in Seq(Records) /\ Range(c) = {r \in Range(b) : ~Live(r)} /\ Distinct(c)
    BY <2>1, FilterIs
  <2>3. Exported(k, b) = c
    BY <1>3, <2>1 DEF Exported
  <2> QED BY <1>1, <2>2, <2>3
<1>4. CASE k \notin {"live", "filtered"}
  BY <1>4 DEF Exported
<1> QED BY <1>2, <1>3, <1>4

----------------------------------------------------------------------------
(* The invariant.                                                          *)

Before(X, Y) == \A x \in X, y \in Y : x.span = y.span => Live(x)
Seen(p) == Range(got[p]) \cup Range(queue[p])
Left(e) == {arrived[i] : i \in (at[e] + 1) .. Len(arrived)}

Typed == /\ span \in [Spans -> {"new", "live", "ended"}]
         /\ queue \in [Processors -> Seq(Records)] /\ got \in [Processors -> Seq(Records)]
         /\ arrived \in Seq(Records)
         /\ at \in [Engine -> Nat] /\ \A e \in Engine : at[e] <= Len(arrived)
         /\ down \in [Processors -> BOOLEAN] /\ stopping \in Seq(Program)

\* Before Init nothing is started, and a processor that is not there has nothing.
SetUp == /\ phase = "off" => \A s \in Spans : span[s] = "new"
         /\ kind["otel"] \in {"none", "live", "filtered"}
         /\ \A p \in Processors : kind[p] = "none" => queue[p] = <<>>

\* A record tells what its span has been.
Known(r) == span[r.span] # "new" /\ (~Live(r) => span[r.span] = "ended")
Truthful == /\ \A p \in Processors : \A r \in Seen(p) : Known(r) /\ (Live(r) => kind[p] = "live")
            /\ \A r \in Range(arrived) : Known(r) /\ (Live(r) => kind["otel"] = "live")

\* From the collectors back to the queues, a completed record has nothing of its
\* span behind it.
InOrder == /\ \A p \in Processors : Ordered(queue[p])
           /\ \A p \in Processors \ {"otel"} : Ordered(got[p]) /\ Before(Range(got[p]), Range(queue[p]))
           /\ Distinct(arrived)
           /\ \A e \in Engine : /\ Before(Seen(e), Left(e))
                                /\ Before(Seen(e) \cup Range(arrived), Range(queue["otel"]))

\* Where a completed span is that was not dropped.
Kept == /\ \A p \in Program, s \in Spans :
             span[s] = "ended" /\ kind[p] # "none" /\ NotDropped(p, s)
               => Final(s) \in Seen(p) \/ (p = "otel" /\ Final(s) \in Range(arrived))
        /\ ~flight => arrived = <<>>

\* A processor that Close has left behind has nothing left, and is given nothing.
LeftBehind == /\ \A s \in intime : s \in Spans /\ span[s] = "ended"
              /\ phase \in {"closing", "closed"} =>
                   \A p \in Program : kind[p] # "none" =>
                     p \in Range(stopping) \/ (down[p] /\ (expired \/ Idle(p)))
              /\ phase = "closed" => stopping = <<>>

\* The count is of the spans that were started, and it is declared when all were.
Begun == {s \in Spans \ {Completion} : span[s] # "new"}
Counts == /\ started = Cardinality(Begun)
          /\ span[Completion] # "new" => declared = started

ExportInv == Typed /\ SetUp /\ Truthful /\ InOrder /\ Kept /\ LeftBehind /\ Counts

LEMMA AppendRange ==
    ASSUME NEW s \in Seq(Records), NEW r \in Records
    PROVE  Append(s, r) \in Seq(Records) /\ Range(Append(s, r)) = Range(s) \cup {r}
<1>1. PICK e \in Seq(Records) : e = <<r>>
  BY Single
<1>2. Append(s, r) = s \o e
  BY <1>1, AppendIsConcat
<1>3. Range(e) = {r}
  BY <1>1 DEF Range
<1>4. s \o e \in Seq(Records) /\ Range(s \o e) = Range(s) \cup Range(e)
  BY RangeConcat
<1> QED BY <1>2, <1>3, <1>4

LEMMA OrderedConcat ==
    ASSUME NEW s \in Seq(Records), NEW t \in Seq(Records),
           Ordered(s), Ordered(t), Before(Range(s), Range(t))
    PROVE  Ordered(s \o t)
<1>1. PICK l \in Nat, m \in Nat : l = Len(s) /\ m = Len(t)
  OBVIOUS
<1>2. PICK u : u = s \o t
  OBVIOUS
<1>3. /\ Len(u) = l + m
      /\ \A i \in 1..(l + m) : u[i] = IF i <= l THEN s[i] ELSE t[i - l]
  BY <1>1, <1>2, ConcatProperties
<1>4. \A i \in 1..l, j \in 1..m : s[i].span = t[j].span => Live(s[i])
  BY <1>1, RangeIs DEF Before
<1>5. ASSUME NEW i \in 1..(l + m), NEW j \in 1..(l + m), i < j, u[i].span = u[j].span
      PROVE  Live(u[i])
  <2>1. CASE j <= l
    <3>1. i \in 1..l /\ j \in 1..l /\ i <= l
      BY <1>5, <2>1
    <3> QED BY <1>1, <1>3, <1>5, <2>1, <3>1 DEF Ordered
  <2>2. CASE ~(i <= l)
    <3>1. i - l \in 1..m /\ j - l \in 1..m /\ i - l < j - l /\ ~(j <= l)
      BY <1>5, <2>2
    <3>2. t[i - l].span = t[j - l].span
      BY <1>3, <1>5, <2>2, <3>1
    <3>3. Live(t[i - l])
      BY <1>1, <3>1, <3>2 DEF Ordered
    <3> QED BY <1>3, <2>2, <3>3
  <2>3. CASE i <= l /\ ~(j <= l)
    <3>1. i \in 1..l /\ j - l \in 1..m
      BY <2>3
    <3> QED BY <1>3, <1>4, <1>5, <2>3, <3>1
  <2> QED BY <2>1, <2>2, <2>3
<1> QED BY <1>2, <1>3, <1>5 DEF Ordered

LEMMA OrderedAppend ==
    ASSUME NEW s \in Seq(Records), NEW r \in Records, Ordered(s), Before(Range(s), {r})
    PROVE  Ordered(Append(s, r))
<1>1. Append(s, r) = s \o <<r>> /\ <<r>> \in Seq(Records)
  BY AppendIsConcat, Single
<1>2. Range(<<r>>) = {r} /\ Ordered(<<r>>)
  BY DEF Range, Ordered
<1> QED BY <1>1, <1>2, OrderedConcat

\* A queue and the batch taken from its front.
LEMMA SplitAt ==
    ASSUME NEW s \in Seq(Records), NEW n \in 1..Len(s), Ordered(s)
    PROVE  LET a == SubSeq(s, 1, n)
               b == SubSeq(s, n + 1, Len(s))
           IN  /\ a \in Seq(Records) /\ b \in Seq(Records) /\ Ordered(a) /\ Ordered(b)
               /\ Range(s) = Range(a) \cup Range(b) /\ Before(Range(a), Range(b))
<1>1. PICK a, b : a = SubSeq(s, 1, n) /\ b = SubSeq(s, n + 1, Len(s))
  OBVIOUS
<1>2. PICK l \in Nat : l = Len(s)
  OBVIOUS
<1>3. n \in Nat /\ n <= l /\ n \in 1..l /\ l - n \in Nat
  BY <1>2
<1>4. a \in Seq(Records) /\ Len(a) = n /\ \A i \in 1..n : a[i] = s[i]
  BY <1>1, <1>2, <1>3
<1>5. b \in Seq(Records) /\ Len(b) = l - n /\ \A i \in 1..(l - n) : b[i] = s[n + i]
  BY <1>1, <1>2, <1>3
<1>6. Ordered(a)
  <2>1. \A i \in 1..n : i \in 1..l
    BY <1>3
  <2> QED BY <1>2, <1>4, <2>1 DEF Ordered
<1>7. Ordered(b)
  <2> SUFFICES ASSUME NEW i \in 1..(l - n), NEW j \in 1..(l - n), i < j, b[i].span = b[j].span
               PROVE  Live(b[i])
    BY <1>5 DEF Ordered
  <2>1. n + i \in 1..l /\ n + j \in 1..l /\ n + i < n + j
    BY <1>3
  <2> QED BY <1>2, <1>5, <2>1 DEF Ordered
<1>8. ASSUME NEW i \in 1..n, NEW j \in 1..(l - n), a[i].span = b[j].span PROVE Live(a[i])
  <2>1. i \in 1..l /\ n + j \in 1..l /\ i < n + j
    BY <1>3
  <2> QED BY <1>2, <1>4, <1>5, <1>8, <2>1 DEF Ordered
<1>9. Before(Range(a), Range(b))
  <2> SUFFICES ASSUME NEW x \in Range(a), NEW y \in Range(b), x.span = y.span PROVE Live(x)
    BY DEF Before
  <2>1. PICK i \in 1..n : a[i] = x
    BY <1>4, RangeIs
  <2>2. PICK j \in 1..(l - n) : b[j] = y
    BY <1>5, RangeIs
  <2> QED BY <1>8, <2>1, <2>2
<1>10. ASSUME NEW x \in Range(s) PROVE x \in Range(a) \cup Range(b)
  <2>1. PICK i \in 1..l : s[i] = x
    BY <1>2, RangeIs
  <2>2. CASE i <= n
    <3>1. i \in 1..n /\ a[i] = x
      BY <1>4, <2>1, <2>2
    <3> QED BY <1>4, <3>1, RangeIs
  <2>3. CASE ~(i <= n)
    <3>1. i - n \in 1..(l - n) /\ n + (i - n) = i
      BY <1>3, <2>3
    <3>2. b[i - n] = x
      BY <1>5, <2>1, <3>1
    <3> QED BY <1>5, <3>1, <3>2, RangeIs
  <2> QED BY <2>2, <2>3
<1>11. ASSUME NEW x \in Range(a) \cup Range(b) PROVE x \in Range(s)
  <2>1. CASE x \in Range(a)
    <3>1. PICK i \in 1..n : a[i] = x
      BY <1>4, <2>1, RangeIs
    <3>2. i \in 1..l /\ s[i] = x
      BY <1>3, <1>4, <3>1
    <3> QED BY <1>2, <3>2, RangeIs
  <2>2. CASE x \in Range(b)
    <3>1. PICK i \in 1..(l - n) : b[i] = x
      BY <1>5, <2>2, RangeIs
    <3>2. n + i \in 1..l /\ s[n + i] = x
      BY <1>3, <1>5, <3>1
    <3> QED BY <1>2, <3>2, RangeIs
  <2> QED BY <1>11, <2>1, <2>2
<1> QED BY <1>1, <1>4, <1>5, <1>6, <1>7, <1>9, <1>10, <1>11

LEMMA EnqueueIs ==
    ASSUME Typed, NEW ps \in SUBSET Processors, NEW r \in Records, Enqueue(ps, r)
    PROVE  /\ queue' \in [Processors -> Seq(Records)]
           /\ \A p \in Processors : \/ queue'[p] = queue[p]
                                    \/ /\ p \in ps /\ kind[p] # "none" /\ ~down[p]
                                       /\ queue'[p] = Append(queue[p], r)
           /\ \A p \in ps : kind[p] # "none" => queue'[p] = Append(queue[p], r) \/ <<p, r>> \in lost'
           /\ lost \subseteq lost'
<1> DEFINE room == {p \in ps : kind[p] # "none" /\ ~down[p] /\ Len(queue[p]) < QueueSize}
<1>1. /\ queue' = [p \in Processors |-> IF p \in room THEN Append(queue[p], r) ELSE queue[p]]
      /\ lost' = lost \cup {<<p, r>> : p \in {q \in ps : kind[q] # "none"} \ room}
  BY DEF Enqueue
<1>2. ASSUME NEW p \in Processors
      PROVE  queue[p] \in Seq(Records) /\ Append(queue[p], r) \in Seq(Records)
  <2>1. queue[p] \in Seq(Records)
    BY DEF Typed
  <2> QED BY <2>1, AppendRange
<1>3. \A p \in Processors : queue'[p] = IF p \in room THEN Append(queue[p], r) ELSE queue[p]
  BY <1>1
<1>4. \A p \in room : p \in ps /\ kind[p] # "none" /\ ~down[p]
  OBVIOUS
<1>5. \A p \in ps : kind[p] # "none" /\ p \notin room => <<p, r>> \in lost'
  <2> HIDE DEF room
  <2> QED BY <1>1
<1>6. lost \subseteq lost'
  BY <1>1
<1> HIDE DEF room
<1>7. queue' \in [Processors -> Seq(Records)]
  BY <1>1, <1>2
<1>8. \A p \in Processors : \/ queue'[p] = queue[p]
                            \/ /\ p \in ps /\ kind[p] # "none" /\ ~down[p]
                               /\ queue'[p] = Append(queue[p], r)
  BY <1>3, <1>4
<1>9. \A p \in ps : kind[p] # "none" => queue'[p] = Append(queue[p], r) \/ <<p, r>> \in lost'
  BY <1>3, <1>5
<1> QED BY <1>6, <1>7, <1>8, <1>9

\* A batch is taken from the front of p's queue and exported.
LEMMA TakenIs ==
    ASSUME Typed, InOrder, NEW p \in Processors, NEW n \in 1..BatchSize, n <= Len(queue[p])
    PROVE  LET a == SubSeq(queue[p], 1, n)
               b == SubSeq(queue[p], n + 1, Len(queue[p]))
               e == Exported(kind[p], a)
           IN  /\ a \in Seq(Records) /\ b \in Seq(Records) /\ e \in Seq(Records)
               /\ Ordered(a) /\ Ordered(b) /\ Ordered(e)
               /\ Range(queue[p]) = Range(a) \cup Range(b) /\ Before(Range(a), Range(b))
               /\ Range(e) \subseteq Range(a)
               /\ \A x \in Range(a) : ~Live(x) => x \in Range(e)
               /\ kind[p] \in {"live", "filtered"} => Distinct(e)
<1>1. PICK q : q = queue[p]
  OBVIOUS
<1>2. q \in Seq(Records) /\ Ordered(q) /\ n \in 1..Len(q)
  <2>1. q \in Seq(Records) /\ Ordered(q)
    BY <1>1 DEF Typed, InOrder
  <2>2. n \in Nat /\ 1 <= n /\ n <= Len(q) /\ Len(q) \in Nat
    BY <1>1, <2>1, ExportAssumption
  <2> QED BY <2>1, <2>2
<1>3. PICK a, b : a = SubSeq(q, 1, n) /\ b = SubSeq(q, n + 1, Len(q))
  OBVIOUS
<1>4. /\ a \in Seq(Records) /\ b \in Seq(Records) /\ Ordered(a) /\ Ordered(b)
      /\ Range(q) = Range(a) \cup Range(b) /\ Before(Range(a), Range(b))
  BY <1>2, <1>3, SplitAt
<1>5. PICK e : e = Exported(kind[p], a)
  OBVIOUS
<1>6. /\ e \in Seq(Records) /\ Ordered(e) /\ Range(e) \subseteq Range(a)
      /\ \A x \in Range(a) : ~Live(x) => x \in Range(e)
      /\ kind[p] \in {"live", "filtered"} => Distinct(e)
  BY <1>4, <1>5, ExportedIs
<1> QED BY <1>1, <1>3, <1>4, <1>5, <1>6

\* What Deliver and Call do, in terms of the batch that is taken.
LEMMA DeliverIs ==
    ASSUME Typed, InOrder, NEW p \in Processors, NEW n \in 1..BatchSize, Deliver(p, n)
    PROVE  /\ p # "otel"
           /\ \E a, b, e \in Seq(Records) :
                /\ Ordered(a) /\ Ordered(b) /\ Ordered(e)
                /\ Range(queue[p]) = Range(a) \cup Range(b) /\ Before(Range(a), Range(b))
                /\ Range(e) \subseteq Range(a)
                /\ \A x \in Range(a) : ~Live(x) => x \in Range(e)
                /\ got' = [got EXCEPT ![p] = got[p] \o e]
                /\ queue' = [queue EXCEPT ![p] = b]
<1>1. PICK a, b, e : /\ a = SubSeq(queue[p], 1, n)
                     /\ b = SubSeq(queue[p], n + 1, Len(queue[p]))
                     /\ e = Exported(kind[p], a)
  OBVIOUS
<1>2. p # "otel" /\ n <= Len(queue[p])
  BY DEF Deliver
<1>3. got' = [got EXCEPT ![p] = got[p] \o e] /\ queue' = [queue EXCEPT ![p] = b]
  BY <1>1 DEF Deliver
<1>4. /\ a \in Seq(Records) /\ b \in Seq(Records) /\ e \in Seq(Records)
      /\ Ordered(a) /\ Ordered(b) /\ Ordered(e)
      /\ Range(queue[p]) = Range(a) \cup Range(b) /\ Before(Range(a), Range(b))
      /\ Range(e) \subseteq Range(a)
      /\ \A x \in Range(a) : ~Live(x) => x \in Range(e)
  BY <1>1, <1>2, TakenIs
<1> QED BY <1>2, <1>3, <1>4

LEMMA CallIs ==
    ASSUME Typed, InOrder, SetUp, NEW n \in 1..BatchSize, Call(n)
    PROVE  /\ queue["otel"] # <<>> /\ arrived' \in Seq(Records) /\ Distinct(arrived')
           /\ \E a, b \in Seq(Records) :
                /\ Ordered(b)
                /\ Range(queue["otel"]) = Range(a) \cup Range(b) /\ Before(Range(a), Range(b))
                /\ Range(arrived') \subseteq Range(a)
                /\ \A x \in Range(a) : ~Live(x) => x \in Range(arrived')
                /\ queue' = [queue EXCEPT !["otel"] = b]
<1>0. "otel" \in Processors
  BY DEF Processors, Program
<1>1. PICK a, b, e : /\ a = SubSeq(queue["otel"], 1, n)
                     /\ b = SubSeq(queue["otel"], n + 1, Len(queue["otel"]))
                     /\ e = Exported(kind["otel"], a)
  OBVIOUS
<1>2. n <= Len(queue["otel"]) /\ arrived' \in Crossed(e) /\ queue' = [queue EXCEPT !["otel"] = b]
  BY <1>1 DEF Call
<1>3. /\ a \in Seq(Records) /\ b \in Seq(Records) /\ e \in Seq(Records)
      /\ Ordered(a) /\ Ordered(b) /\ Ordered(e)
      /\ Range(queue["otel"]) = Range(a) \cup Range(b) /\ Before(Range(a), Range(b))
      /\ Range(e) \subseteq Range(a)
      /\ \A x \in Range(a) : ~Live(x) => x \in Range(e)
      /\ kind["otel"] \in {"live", "filtered"} => Distinct(e)
  BY <1>0, <1>1, <1>2, TakenIs
<1>4. queue["otel"] # <<>>
  <2>1. n >= 1 /\ n \in Nat
    BY ExportAssumption
  <2>2. Len(<<>>) = 0
    OBVIOUS
  <2> QED BY <1>2, <2>1, <2>2
<1>5. Distinct(e)
  BY <1>0, <1>3, <1>4 DEF SetUp
<1>6. PICK w : w = arrived'
  OBVIOUS
<1>7. w \in Seq(Records) /\ Range(w) = Range(e) /\ Distinct(w)
  BY <1>2, <1>3, <1>5, <1>6, BatchCrosses
<1> QED BY <1>2, <1>3, <1>4, <1>6, <1>7

----------------------------------------------------------------------------
(* The invariant holds at first, and every step keeps it.                  *)

LEMMA Names == /\ Program \subseteq Processors /\ Engine \subseteq Processors
               /\ Program \cap Engine = {} /\ Processors = Program \cup Engine
               /\ Program = {"otel", "tui", "logs"} /\ SpanProcessors \subseteq Program
BY DEF Program, Engine, Processors, SpanProcessors

LEMMA InitInv == Init => ExportInv
<1> SUFFICES ASSUME Init PROVE ExportInv
  OBVIOUS
<1>1. /\ \A p \in Processors : queue[p] = <<>> /\ got[p] = <<>> /\ kind[p] = "none"
      /\ arrived = <<>> /\ stopping = <<>> /\ intime = {} /\ phase = "off"
      /\ \A s \in Spans : span[s] = "new"
  BY DEF Init
<1>2. <<>> \in Seq(Records) /\ Len(<<>>) = 0 /\ Range(<<>>) = {} /\ <<>> \in Seq(Program)
      /\ Ordered(<<>>) /\ Distinct(<<>>)
  BY DEF Range, Ordered, Distinct
<1>3. Typed
  <2>1. queue = [p \in Processors |-> <<>>] /\ got = [p \in Processors |-> <<>>]
        /\ at = [e \in Engine |-> 0] /\ down = [p \in Processors |-> FALSE]
        /\ span = [s \in Spans |-> "new"]
    BY DEF Init
  <2> QED BY <1>1, <1>2, <2>1 DEF Typed
<1>4. SetUp
  BY <1>1, Names DEF SetUp
<1>5. \A p \in Processors : Seen(p) = {}
  BY <1>1, <1>2 DEF Seen
<1>6. Truthful
  BY <1>1, <1>2, <1>5 DEF Truthful
<1>7. InOrder
  <2>1. \A X : Before({}, X) /\ Before({} \cup {}, X)
    BY DEF Before
  <2>2. \A p \in Processors : Ordered(queue[p]) /\ Ordered(got[p]) /\ Range(got[p]) = {}
    <3> SUFFICES ASSUME NEW p \in Processors
                 PROVE  Ordered(queue[p]) /\ Ordered(got[p]) /\ Range(got[p]) = {}
      OBVIOUS
    <3>1. queue[p] = <<>> /\ got[p] = <<>>
      BY <1>1
    <3> QED BY <1>2, <3>1
  <2>3. Distinct(arrived) /\ Range(arrived) = {}
    BY <1>1, <1>2
  <2>4. \A e \in Engine : Before(Seen(e), Left(e))
                        /\ Before(Seen(e) \cup Range(arrived), Range(queue["otel"]))
    BY <1>5, <2>1, <2>3, Names
  <2> QED BY <2>1, <2>2, <2>3, <2>4 DEF InOrder
<1>8. Kept
  BY <1>1 DEF Kept
<1>9. LeftBehind
  BY <1>1 DEF LeftBehind
<1>10. Counts
  <2>1. Begun = {}
    BY <1>1 DEF Begun
  <2>2. started = 0 /\ span[Completion] = "new"
    BY <1>1, ExportAssumption DEF Init
  <2> QED BY <2>1, <2>2, FS_EmptySet DEF Counts
<1> QED BY <1>3, <1>4, <1>6, <1>7, <1>8, <1>9, <1>10 DEF ExportInv

\* The steps that touch neither a span nor a record.
Quiet == UNCHANGED <<span, queue, flight, lost, got, arrived, at>>

LEMMA Steps ==
    ASSUME [Next]_vars
    PROVE  \/ \E u \in Setups : InitTelemetry(u)
           \/ \E s \in Spans : Start(s) \/ End(s)
           \/ \E n \in 1 .. BatchSize : Call(n)
           \/ \E n \in 1 .. BatchSize, p \in Processors : Deliver(p, n)
           \/ Answer
           \/ \E e \in Engine : Forward(e)
           \/ CloseTelemetry \/ Shutdown \/ ShutdownDone \/ Expire \/ Closed
           \/ UNCHANGED vars
BY DEF Next, Goroutines, Closing

LEMMA QuietSteps ==
    ASSUME \/ \E u \in Setups : InitTelemetry(u)
           \/ CloseTelemetry \/ Shutdown \/ ShutdownDone \/ Expire \/ Closed
           \/ UNCHANGED vars
    PROVE  Quiet
BY DEF Quiet, InitTelemetry, CloseTelemetry, Shutdown, ShutdownDone, Expire, Closed, vars, pipes

LEMMA RecordsOf == \A s \in Spans : Snapshot(s) \in Records /\ Final(s) \in Records
BY RecordIs

LEMMA RegisteredIs ==
    /\ Registered \in Seq(Program)
    /\ \A p \in Program : kind[p] # "none" => p \in Range(Registered)
<1> DEFINE here == {p \in Processors : kind[p] # "none"}
           live == LiveOnes(Processors)
           last == IF kind["logs"] = "none" THEN <<>> ELSE <<"logs">>
<1>1. PICK sps : sps = Among(<<"tui", "otel">>, here)
  OBVIOUS
<1>2. PICK s, t, u : s = Among(sps, live) /\ t = Among(sps, Processors \ live) /\ u = last
  OBVIOUS
<1>3. Registered = s \o t \o u
  BY <1>1, <1>2, Zenon DEF Registered
<1>4. <<"tui", "otel">> \in Seq(Program) /\ Range(<<"tui", "otel">>) = {"tui", "otel"}
  BY DEF Program, Range
<1>5. sps \in Seq(Program) /\ Range(sps) = {"tui", "otel"} \cap here
  <2>1. PICK o \in Seq(Program) : o = <<"tui", "otel">> /\ Range(o) = {"tui", "otel"}
    BY <1>4
  <2>2. PICK S : S = here
    OBVIOUS
  <2>3. Among(o, S) \in Seq(Program) /\ Range(Among(o, S)) = Range(o) \cap S
    BY AmongRange
  <2> QED BY <1>1, <2>1, <2>2, <2>3
<1>6. /\ s \in Seq(Program) /\ t \in Seq(Program)
      /\ Range(s) = Range(sps) \cap live /\ Range(t) = Range(sps) \cap (Processors \ live)
  <2> HIDE DEF live
  <2> QED BY <1>2, <1>5, AmongRange
<1>7. u \in Seq(Program) /\ (kind["logs"] # "none" => "logs" \in Range(u))
  <2>1. CASE kind["logs"] = "none"
    BY <1>2, <2>1
  <2>2. CASE kind["logs"] # "none"
    <3>1. u = <<"logs">>
      BY <1>2, <2>2
    <3> QED BY <3>1 DEF Program, Range
  <2> QED BY <2>1, <2>2
<1>8. /\ s \o t \in Seq(Program) /\ Range(s \o t) = Range(s) \cup Range(t)
  BY <1>6, RangeConcat
<1>9. PICK v : v = s \o t
  OBVIOUS
<1>10. v \o u \in Seq(Program) /\ Range(v \o u) = Range(v) \cup Range(u)
  <2>1. u \in Seq(Program) /\ v \in Seq(Program)
    BY <1>7, <1>8, <1>9
  <2> QED BY <2>1, RangeConcat
<1>11. Range(sps) \subseteq Range(v)
  <2>1. Range(sps) \subseteq Processors
    BY <1>5, Names
  <2> QED BY <1>6, <1>8, <1>9, <2>1
<1> QED BY <1>3, <1>5, <1>7, <1>9, <1>10, <1>11, Names

LEMMA TypedStep == ExportInv /\ [Next]_vars => Typed'
<1> SUFFICES ASSUME ExportInv, [Next]_vars PROVE Typed'
  OBVIOUS
<1>1. Typed /\ InOrder /\ SetUp
  BY DEF ExportInv
<1>2. ASSUME NEW ps \in SUBSET Processors, NEW r \in Records, Enqueue(ps, r)
      PROVE  queue' \in [Processors -> Seq(Records)]
  BY <1>1, <1>2, EnqueueIs
<1>3. ASSUME NEW s \in Spans, Start(s) PROVE Typed'
  <2>1. LiveOnes(SpanProcessors) \in SUBSET Processors
    BY Names DEF LiveOnes
  <2>2. queue' \in [Processors -> Seq(Records)]
    BY <1>2, <1>3, <2>1, RecordsOf DEF Start
  <2>3. span' \in [Spans -> {"new", "live", "ended"}]
    BY <1>1, <1>3 DEF Typed, Start
  <2> QED BY <1>1, <1>3, <2>2, <2>3 DEF Typed, Start
<1>4. ASSUME NEW s \in Spans, End(s) PROVE Typed'
  <2>1. Program \in SUBSET Processors
    BY Names
  <2>2. queue' \in [Processors -> Seq(Records)]
    BY <1>2, <1>4, <2>1, RecordsOf DEF End
  <2>3. span' \in [Spans -> {"new", "live", "ended"}]
    BY <1>1, <1>4 DEF Typed, End
  <2> QED BY <1>1, <1>4, <2>2, <2>3 DEF Typed, End
<1>5. ASSUME NEW n \in 1..BatchSize, Call(n) PROVE Typed'
  <2>1. PICK b \in Seq(Records) : queue' = [queue EXCEPT !["otel"] = b]
    BY <1>1, <1>5, CallIs
  <2>2. arrived' \in Seq(Records) /\ queue' \in [Processors -> Seq(Records)]
    BY <1>1, <1>5, <2>1, CallIs DEF Typed
  <2>3. at' = [e \in Engine |-> 0] /\ UNCHANGED <<span, got, down, stopping>>
    BY <1>5 DEF Call
  <2>4. Len(arrived') \in Nat
    BY <2>2
  <2> QED BY <1>1, <2>2, <2>3, <2>4 DEF Typed
<1>6. ASSUME NEW n \in 1..BatchSize, NEW p \in Processors, Deliver(p, n) PROVE Typed'
  <2>1. PICK b, e \in Seq(Records) : /\ got' = [got EXCEPT ![p] = got[p] \o e]
                                     /\ queue' = [queue EXCEPT ![p] = b]
    BY <1>1, <1>6, DeliverIs
  <2>2. got[p] \in Seq(Records) /\ got[p] \o e \in Seq(Records)
    BY <1>1, RangeConcat DEF Typed
  <2>3. got' \in [Processors -> Seq(Records)] /\ queue' \in [Processors -> Seq(Records)]
    BY <1>1, <2>1, <2>2 DEF Typed
  <2>4. UNCHANGED <<span, arrived, at, down, stopping>>
    BY <1>6 DEF Deliver
  <2> QED BY <1>1, <2>3, <2>4 DEF Typed
<1>7. ASSUME Answer PROVE Typed'
  <2>1. got["otel"] \in Seq(Records) /\ got["otel"] \o arrived \in Seq(Records)
    BY <1>1, RangeConcat, Names DEF Typed
  <2>2. got' \in [Processors -> Seq(Records)]
    BY <1>1, <1>7, <2>1 DEF Typed, Answer
  <2>3. arrived' = <<>> /\ at' = [e \in Engine |-> 0] /\ UNCHANGED <<span, queue, down, stopping>>
        /\ Len(<<>>) = 0
    BY <1>7 DEF Answer
  <2> QED BY <1>1, <2>2, <2>3 DEF Typed
<1>8. ASSUME NEW e \in Engine, Forward(e) PROVE Typed'
  <2>1. PICK r, ps : /\ r = arrived[at[e] + 1] /\ ps \in SUBSET Processors /\ Enqueue(ps, r)
    BY <1>8, Names DEF Forward, LiveOnes
  <2>2. r \in Records
    <3>1. at[e] + 1 \in 1..Len(arrived) /\ arrived \in Seq(Records)
      BY <1>1, <1>8 DEF Typed, Forward
    <3> QED BY <2>1, <3>1, ElementOfSeq
  <2>3. queue' \in [Processors -> Seq(Records)]
    BY <1>2, <2>1, <2>2
  <2>4. at' = [at EXCEPT ![e] = at[e] + 1] /\ at[e] < Len(arrived)
        /\ UNCHANGED <<span, got, arrived, down, stopping>>
    BY <1>8 DEF Forward
  <2>5. at' \in [Engine -> Nat] /\ \A f \in Engine : at'[f] <= Len(arrived)
    <3>1. at \in [Engine -> Nat] /\ Len(arrived) \in Nat /\ \A f \in Engine : at[f] <= Len(arrived)
      BY <1>1 DEF Typed
    <3> QED BY <2>4, <3>1
  <2> QED BY <1>1, <2>3, <2>4, <2>5 DEF Typed
<1>9. ASSUME Quiet, UNCHANGED <<down, stopping>> PROVE Typed'
  BY <1>1, <1>9 DEF Typed, Quiet
<1>10. CASE \E u \in Setups : InitTelemetry(u)
  <2>1. UNCHANGED <<down, stopping>>
    BY <1>10 DEF InitTelemetry, pipes
  <2> QED BY <1>9, <1>10, <2>1, QuietSteps
<1>11. CASE CloseTelemetry
  <2>1. Quiet
    BY <1>11, QuietSteps
  <2>2. stopping' = Registered /\ UNCHANGED down
    BY <1>11 DEF CloseTelemetry, pipes
  <2> QED BY <1>1, <2>1, <2>2, RegisteredIs DEF Typed, Quiet
<1>12. CASE Shutdown
  <2>1. Quiet
    BY <1>12, QuietSteps
  <2>2. down' = [down EXCEPT ![Head(stopping)] = TRUE] /\ UNCHANGED stopping
    BY <1>12 DEF Shutdown
  <2> QED BY <1>1, <2>1, <2>2 DEF Typed, Quiet
<1>13. CASE ShutdownDone
  <2>1. Quiet
    BY <1>13, QuietSteps
  <2>2. stopping' = Tail(stopping) /\ stopping # <<>> /\ UNCHANGED down
    BY <1>13 DEF ShutdownDone, pipes
  <2>3. stopping' \in Seq(Program)
    BY <1>1, <2>2, HeadAndTail DEF Typed
  <2> QED BY <1>1, <2>1, <2>2, <2>3 DEF Typed, Quiet
<1>14. CASE Expire \/ Closed \/ UNCHANGED vars
  <2>1. UNCHANGED <<down, stopping>>
    BY <1>14 DEF Expire, Closed, vars, pipes
  <2> QED BY <1>9, <1>14, <2>1, QuietSteps
<1> QED
  BY <1>3, <1>4, <1>5, <1>6, <1>7, <1>8, <1>10, <1>11, <1>12, <1>13, <1>14, Steps

LEMMA NoneIn == ASSUME NEW T, NEW s \in Seq(T) PROVE Range(s) = {} <=> s = <<>>
<1>1. s = <<>> => Range(s) = {}
  BY DEF Range
<1>2. s # <<>> => s[1] \in Range(s)
  <2> SUFFICES ASSUME s # <<>> PROVE s[1] \in Range(s)
    OBVIOUS
  <2>1. 1 \in 1..Len(s)
    BY EmptySeq
  <2> QED BY <2>1, RangeIs
<1> QED BY <1>1, <1>2

\* When nothing was started there is no record.
LEMMA NothingYet ==
    ASSUME Typed, Truthful, \A s \in Spans : span[s] = "new"
    PROVE  \A p \in Processors : Seen(p) = {} /\ queue[p] = <<>>
<1> SUFFICES ASSUME NEW p \in Processors PROVE Seen(p) = {} /\ queue[p] = <<>>
  OBVIOUS
<1>1. ASSUME NEW r \in Seen(p) PROVE FALSE
  <2>1. r \in Records
    BY RangeIs DEF Seen, Typed
  <2> QED BY <2>1, RecordIs DEF Truthful, Known
<1>2. queue[p] \in Seq(Records) /\ Range(queue[p]) = {}
  BY <1>1 DEF Typed, Seen
<1> QED BY <1>1, <1>2, NoneIn

LEMMA SetUpStep == ExportInv /\ [Next]_vars => SetUp'
<1> SUFFICES ASSUME ExportInv, [Next]_vars PROVE SetUp'
  OBVIOUS
<1>1. Typed /\ InOrder /\ SetUp /\ Truthful
  BY DEF ExportInv
<1>2. ASSUME UNCHANGED kind, phase' = "off" => phase = "off" /\ UNCHANGED span,
             \A p \in Processors : kind[p] = "none" => queue'[p] = <<>>
      PROVE  SetUp'
  BY <1>1, <1>2 DEF SetUp
<1>3. ASSUME NEW ps \in SUBSET Processors, NEW r \in Records, Enqueue(ps, r)
      PROVE  \A p \in Processors : kind[p] = "none" => queue'[p] = <<>>
  BY <1>1, <1>3, EnqueueIs DEF SetUp
<1>4. CASE \E u \in Setups : InitTelemetry(u)
  <2>1. PICK u \in Setups : kind' = Kinds(u) /\ phase = "off" /\ phase' = "running" /\ UNCHANGED queue
    BY <1>4 DEF InitTelemetry, pipes
  <2>2. kind'["otel"] \in {"none", "live", "filtered"}
    <3>1. "otel" \in Processors
      BY Names
    <3>2. PICK has : Kinds(u)["otel"] = IF ~has THEN "none" ELSE IF u.embedded \/ u.live THEN "live" ELSE "filtered"
      BY <3>1 DEF Kinds
    <3> QED BY <2>1, <3>2
  <2>3. \A p \in Processors : queue'[p] = <<>>
    BY <1>1, <2>1, NothingYet DEF SetUp
  <2> QED BY <2>1, <2>2, <2>3 DEF SetUp
<1>5. ASSUME NEW s \in Spans, Start(s) PROVE SetUp'
  <2>1. LiveOnes(SpanProcessors) \in SUBSET Processors
    BY Names DEF LiveOnes
  <2>2. UNCHANGED <<kind, phase>> /\ phase = "running" /\ Enqueue(LiveOnes(SpanProcessors), Snapshot(s))
    BY <1>5 DEF Start
  <2> QED BY <1>2, <1>3, <2>1, <2>2, RecordsOf
<1>6. ASSUME NEW s \in Spans, End(s) PROVE SetUp'
  <2>1. UNCHANGED <<kind, phase>> /\ phase # "off" /\ Enqueue(Program, Final(s))
    BY <1>6 DEF End
  <2> QED BY <1>2, <1>3, <2>1, RecordsOf, Names
<1>7. ASSUME NEW n \in 1..BatchSize, Call(n) PROVE SetUp'
  <2>1. PICK b : queue' = [queue EXCEPT !["otel"] = b]
    BY <1>1, <1>7, CallIs
  <2>2. UNCHANGED <<kind, phase, span>>
    BY <1>7 DEF Call
  <2>3. kind["otel"] # "none"
    BY <1>1, <1>7, CallIs, Names DEF SetUp
  <2>4. \A p \in Processors : kind[p] = "none" => queue'[p] = <<>>
    BY <1>1, <2>1, <2>3 DEF SetUp, Typed
  <2> QED BY <1>2, <2>2, <2>4
<1>8. ASSUME NEW n \in 1..BatchSize, NEW p \in Processors, Deliver(p, n) PROVE SetUp'
  <2>1. PICK a, b \in Seq(Records) : /\ Range(queue[p]) = Range(a) \cup Range(b)
                                     /\ queue' = [queue EXCEPT ![p] = b]
    BY <1>1, <1>8, DeliverIs
  <2>2. queue[p] \in Seq(Records)
    BY <1>1 DEF Typed
  <2>3. queue[p] = <<>> => b = <<>>
    BY <2>1, <2>2, NoneIn
  <2>4. UNCHANGED <<kind, phase, span>>
    BY <1>8 DEF Deliver
  <2>5. \A q \in Processors : kind[q] = "none" => queue'[q] = <<>>
    BY <1>1, <2>1, <2>3 DEF SetUp, Typed
  <2> QED BY <1>2, <2>4, <2>5
<1>9. CASE Answer
  <2>1. UNCHANGED <<kind, phase, span, queue>>
    BY <1>9 DEF Answer
  <2> QED BY <1>1, <2>1 DEF SetUp
<1>10. ASSUME NEW e \in Engine, Forward(e) PROVE SetUp'
  <2>1. PICK r, ps : /\ r = arrived[at[e] + 1] /\ ps \in SUBSET Processors /\ Enqueue(ps, r)
    BY <1>10, Names DEF Forward, LiveOnes
  <2>2. r \in Records
    <3>1. at[e] + 1 \in 1..Len(arrived) /\ arrived \in Seq(Records)
      BY <1>1, <1>10 DEF Typed, Forward
    <3> QED BY <2>1, <3>1, ElementOfSeq
  <2>3. UNCHANGED <<kind, phase, span>>
    BY <1>10 DEF Forward
  <2> QED BY <1>2, <1>3, <2>1, <2>2, <2>3
<1>11. CASE CloseTelemetry \/ Shutdown \/ ShutdownDone \/ Expire \/ Closed \/ UNCHANGED vars
  <2>1. Quiet
    BY <1>11, QuietSteps
  <2>2. UNCHANGED kind /\ (phase' = "off" => phase = "off")
    BY <1>11 DEF CloseTelemetry, Shutdown, ShutdownDone, Expire, Closed, vars
  <2> QED BY <1>1, <2>1, <2>2 DEF SetUp, Quiet
<1> QED
  BY <1>4, <1>5, <1>6, <1>7, <1>8, <1>9, <1>10, <1>11, Steps

\* Which records a processor or its collector has after a step.
LEMMA EnqueueSeen ==
    ASSUME Typed, NEW ps \in SUBSET Processors, NEW r \in Records, Enqueue(ps, r), UNCHANGED got
    PROVE  /\ \A p \in Processors : \A x \in Seen(p)' : x \in Seen(p) \/ (x = r /\ p \in ps)
           /\ \A p \in Processors : Seen(p) \subseteq Seen(p)'
           /\ \A p \in ps : kind[p] # "none" => r \in Seen(p)' \/ <<p, r>> \in lost'
<1> SUFFICES ASSUME NEW p \in Processors
             PROVE  /\ \A x \in Seen(p)' : x \in Seen(p) \/ (x = r /\ p \in ps)
                    /\ Seen(p) \subseteq Seen(p)'
                    /\ p \in ps /\ kind[p] # "none" => r \in Seen(p)' \/ <<p, r>> \in lost'
  OBVIOUS
<1>1. PICK q, u : q = queue[p] /\ u = queue'[p]
  OBVIOUS
<1>2. q \in Seq(Records)
  BY <1>1 DEF Typed
<1>3. /\ u = q \/ (p \in ps /\ u = Append(q, r))
      /\ p \in ps /\ kind[p] # "none" => u = Append(q, r) \/ <<p, r>> \in lost'
  BY <1>1, EnqueueIs
<1>4. Range(Append(q, r)) = Range(q) \cup {r}
  BY <1>2, AppendRange
<1>5. Range(u) = Range(q) \/ (p \in ps /\ Range(u) = Range(q) \cup {r})
  BY <1>3, <1>4
<1>6. Seen(p) = Range(got[p]) \cup Range(q) /\ Seen(p)' = Range(got[p]) \cup Range(u)
  BY <1>1 DEF Seen
<1> QED BY <1>3, <1>4, <1>5, <1>6

LEMMA DeliverSeen ==
    ASSUME Typed, InOrder, NEW p \in Processors, NEW n \in 1..BatchSize, Deliver(p, n)
    PROVE  \A q \in Processors : /\ Range(queue'[q]) \subseteq Range(queue[q])
                                 /\ Seen(q)' \subseteq Seen(q)
                                 /\ \A x \in Seen(q) : ~Live(x) => x \in Seen(q)'
<1>1. PICK a, b, e \in Seq(Records) :
        /\ Range(queue[p]) = Range(a) \cup Range(b)
        /\ Range(e) \subseteq Range(a)
        /\ \A x \in Range(a) : ~Live(x) => x \in Range(e)
        /\ got' = [got EXCEPT ![p] = got[p] \o e]
        /\ queue' = [queue EXCEPT ![p] = b]
  BY DeliverIs
<1>2. queue'[p] = b /\ got'[p] = got[p] \o e
      /\ \A q \in Processors \ {p} : queue'[q] = queue[q] /\ got'[q] = got[q]
  BY <1>1 DEF Typed
<1>3. Range(got'[p]) = Range(got[p]) \cup Range(e)
  <2>1. PICK g \in Seq(Records) : g = got[p]
    BY DEF Typed
  <2>2. Range(g \o e) = Range(g) \cup Range(e)
    BY RangeConcat
  <2> QED BY <1>2, <2>1, <2>2
<1>4. Seen(p)' = Range(got[p]) \cup Range(e) \cup Range(b)
  BY <1>2, <1>3 DEF Seen
<1>5. Seen(p) = Range(got[p]) \cup Range(a) \cup Range(b)
  BY <1>1 DEF Seen
<1>6. ASSUME NEW q \in Processors \ {p} PROVE Seen(q)' = Seen(q)
  BY <1>2 DEF Seen
<1> QED BY <1>1, <1>2, <1>4, <1>5, <1>6

LEMMA CallSeen ==
    ASSUME Typed, InOrder, SetUp, NEW n \in 1..BatchSize, Call(n)
    PROVE  /\ \A q \in Processors : Seen(q)' \subseteq Seen(q) /\ Range(queue'[q]) \subseteq Range(queue[q])
           /\ \A q \in Processors \ {"otel"} : Seen(q)' = Seen(q)
           /\ Range(arrived') \subseteq Range(queue["otel"])
           /\ Before(Range(arrived'), Range(queue'["otel"]))
           /\ \A x \in Seen("otel") : ~Live(x) => x \in Seen("otel")' \cup Range(arrived')
<1>1. PICK a, b \in Seq(Records) :
        /\ Range(queue["otel"]) = Range(a) \cup Range(b) /\ Before(Range(a), Range(b))
        /\ Range(arrived') \subseteq Range(a)
        /\ \A x \in Range(a) : ~Live(x) => x \in Range(arrived')
        /\ queue' = [queue EXCEPT !["otel"] = b]
  BY CallIs
<1>2. UNCHANGED got
  BY DEF Call
<1>3. queue'["otel"] = b /\ \A q \in Processors \ {"otel"} : queue'[q] = queue[q]
  BY <1>1, Names DEF Typed
<1>4. Seen("otel") = Range(got["otel"]) \cup Range(a) \cup Range(b)
      /\ Seen("otel")' = Range(got["otel"]) \cup Range(b)
  BY <1>1, <1>2, <1>3 DEF Seen
<1>5. \A q \in Processors \ {"otel"} : Seen(q)' = Seen(q)
  BY <1>2, <1>3 DEF Seen
<1>6. Before(Range(arrived'), Range(b))
  BY <1>1 DEF Before
<1> QED BY <1>1, <1>3, <1>4, <1>5, <1>6

LEMMA AnswerSeen ==
    ASSUME Typed, Answer
    PROVE  /\ Seen("otel")' = Seen("otel") \cup Range(arrived)
           /\ \A q \in Processors \ {"otel"} : Seen(q)' = Seen(q) /\ got'[q] = got[q]
           /\ arrived' = <<>> /\ Range(arrived') = {} /\ UNCHANGED queue
<1>1. got' = [got EXCEPT !["otel"] = got["otel"] \o arrived] /\ arrived' = <<>> /\ UNCHANGED queue
  BY DEF Answer
<1>2. got'["otel"] = got["otel"] \o arrived /\ \A q \in Processors \ {"otel"} : got'[q] = got[q]
  BY <1>1, Names DEF Typed
<1>3. Range(got'["otel"]) = Range(got["otel"]) \cup Range(arrived)
  <2>1. PICK g \in Seq(Records) : g = got["otel"]
    BY Names DEF Typed
  <2>2. Range(g \o arrived) = Range(g) \cup Range(arrived)
    BY RangeConcat DEF Typed
  <2> QED BY <1>2, <2>1, <2>2
<1>4. Range(<<>>) = {}
  BY DEF Range
<1>5. Seen("otel")' = Seen("otel") \cup Range(arrived)
  BY <1>1, <1>3 DEF Seen
<1>6. \A q \in Processors \ {"otel"} : Seen(q)' = Seen(q)
  BY <1>1, <1>2 DEF Seen
<1> QED BY <1>1, <1>2, <1>4, <1>5, <1>6

\* The engine's processor e takes the next record of what has arrived.
LEMMA ForwardIs ==
    ASSUME Typed, NEW e \in Engine, Forward(e)
    PROVE  /\ \E r \in Records, ps \in SUBSET {e} :
                /\ Enqueue(ps, r) /\ r = arrived[at[e] + 1]
                /\ r \in Range(arrived) /\ r \in Left(e)
                /\ \A p \in ps : Live(r) => kind[p] = "live"
           /\ at[e] + 1 \in 1..Len(arrived)
           /\ at' = [at EXCEPT ![e] = at[e] + 1] /\ UNCHANGED <<span, kind, got, arrived>>
<1>1. PICK r, ps : /\ r = arrived[at[e] + 1] /\ ps \in SUBSET {e} /\ Enqueue(ps, r)
                   /\ \A p \in ps : Live(r) => kind[p] = "live"
  BY DEF Forward, LiveOnes
<1>2. PICK l \in Nat : l = Len(arrived)
  BY DEF Typed
<1>3. at[e] + 1 \in 1..l /\ at[e] \in Nat
  BY <1>2 DEF Typed, Forward
<1>4. r \in Records /\ r \in Range(arrived)
  BY <1>1, <1>2, <1>3, RangeIs DEF Typed
<1>5. r \in Left(e)
  <2>1. at[e] + 1 \in (at[e] + 1)..l
    BY <1>3
  <2> QED BY <1>1, <1>2, <2>1 DEF Left
<1>6. at' = [at EXCEPT ![e] = at[e] + 1] /\ UNCHANGED <<span, kind, got, arrived>>
  BY DEF Forward
<1> QED BY <1>1, <1>2, <1>3, <1>4, <1>5, <1>6

LEMMA TruthfulStep == ExportInv /\ [Next]_vars => Truthful'
<1> SUFFICES ASSUME ExportInv, [Next]_vars PROVE Truthful'
  OBVIOUS
<1>1. Typed /\ InOrder /\ SetUp /\ Truthful
  BY DEF ExportInv
<1>2. \A p \in Processors : Seen(p) \subseteq Records
  BY <1>1, RangeIs DEF Seen, Typed
<1>3. Range(arrived) \subseteq Records
  BY <1>1, RangeIs DEF Typed
<1> DEFINE True(r, p) == Known(r) /\ (Live(r) => kind[p] = "live")
<1>4. ASSUME UNCHANGED <<span, kind>>,
             \A p \in Processors : \A r \in Seen(p)' : True(r, p),
             \A r \in Range(arrived') : True(r, "otel")
      PROVE  Truthful'
  <2>1. \A r : Known(r)' <=> Known(r)
    BY <1>4 DEF Known
  <2> QED BY <1>1, <1>4, <2>1 DEF Truthful
<1>5. /\ \A p \in Processors : \A r \in Seen(p) : True(r, p)
      /\ \A r \in Range(arrived) : True(r, "otel")
  BY <1>1 DEF Truthful
<1>6. ASSUME NEW s \in Spans, NEW ps \in SUBSET Processors, NEW r \in Records, r.span = s,
             Enqueue(ps, r), UNCHANGED <<kind, got, arrived>>,
             span[s] # "ended", Known(r)', \A p \in ps : Live(r) => kind[p] = "live",
             span' = [span EXCEPT ![s] = IF Live(r) THEN "live" ELSE "ended"],
             Live(r) => span[s] = "new"
      PROVE  Truthful'
  <2>1. ASSUME NEW x \in Records, Known(x) PROVE Known(x)'
    <3>1. x.span \in Spans
      BY RecordIs
    <3>2. CASE x.span # s
      BY <1>1, <1>6, <2>1, <3>1, <3>2 DEF Known, Typed
    <3>3. CASE x.span = s
      BY <1>1, <1>6, <2>1, <3>1, <3>3 DEF Known, Typed
    <3> QED BY <3>2, <3>3
  <2>2. ASSUME NEW p \in Processors, NEW x \in Seen(p)' PROVE Known(x)' /\ (Live(x) => kind'[p] = "live")
    <3>1. x \in Seen(p) \/ (x = r /\ p \in ps)
      BY <1>1, <1>6, <2>2, EnqueueSeen
    <3>2. CASE x \in Seen(p)
      BY <1>2, <1>5, <1>6, <2>1, <3>2
    <3>3. CASE x = r /\ p \in ps
      BY <1>6, <3>3
    <3> QED BY <3>1, <3>2, <3>3
  <2>3. ASSUME NEW x \in Range(arrived') PROVE Known(x)' /\ (Live(x) => kind'["otel"] = "live")
    BY <1>3, <1>5, <1>6, <2>1, <2>3
  <2> QED BY <2>2, <2>3 DEF Truthful
<1>7. ASSUME NEW s \in Spans, Start(s) PROVE Truthful'
  <2>1. PICK r : r = Snapshot(s)
    OBVIOUS
  <2>2. r \in Records /\ r.span = s /\ Live(r)
    BY <2>1, RecordIs
  <2>3. LiveOnes(SpanProcessors) \in SUBSET Processors
        /\ \A p \in LiveOnes(SpanProcessors) : kind[p] = "live"
    BY Names DEF LiveOnes
  <2>4. /\ Enqueue(LiveOnes(SpanProcessors), r) /\ UNCHANGED <<kind, got, arrived>>
        /\ span[s] = "new" /\ span' = [span EXCEPT ![s] = "live"]
    BY <1>7, <2>1 DEF Start
  <2>5. Known(r)'
    BY <1>1, <2>2, <2>4 DEF Known, Typed
  <2> QED BY <1>6, <2>2, <2>3, <2>4, <2>5
<1>8. ASSUME NEW s \in Spans, End(s) PROVE Truthful'
  <2>1. PICK r : r = Final(s)
    OBVIOUS
  <2>2. r \in Records /\ r.span = s /\ ~Live(r)
    BY <2>1, RecordIs
  <2>3. Program \in SUBSET Processors
    BY Names
  <2>4. /\ Enqueue(Program, r) /\ UNCHANGED <<kind, got, arrived>>
        /\ span[s] = "live" /\ span' = [span EXCEPT ![s] = "ended"]
    BY <1>8, <2>1 DEF End
  <2>5. Known(r)'
    BY <1>1, <2>2, <2>4 DEF Known, Typed
  <2> QED BY <1>6, <2>2, <2>3, <2>4, <2>5
<1>9. ASSUME NEW n \in 1..BatchSize, Call(n) PROVE Truthful'
  <2>1. UNCHANGED <<span, kind>>
    BY <1>9 DEF Call
  <2>2. \A p \in Processors : Seen(p)' \subseteq Seen(p)
    BY <1>1, <1>9, CallSeen
  <2>3. Range(arrived') \subseteq Seen("otel")
    BY <1>1, <1>9, CallSeen DEF Seen
  <2> QED BY <1>4, <1>5, <2>1, <2>2, <2>3, Names
<1>10. ASSUME NEW n \in 1..BatchSize, NEW p \in Processors, Deliver(p, n) PROVE Truthful'
  <2>1. UNCHANGED <<span, kind, arrived>>
    BY <1>10 DEF Deliver
  <2>2. \A q \in Processors : Seen(q)' \subseteq Seen(q)
    BY <1>1, <1>10, DeliverSeen
  <2> QED BY <1>4, <1>5, <2>1, <2>2
<1>11. CASE Answer
  <2>1. UNCHANGED <<span, kind>>
    BY <1>11 DEF Answer
  <2>2. \A q \in Processors : \A x \in Seen(q)' : x \in Seen(q) \/ (q = "otel" /\ x \in Range(arrived))
    BY <1>1, <1>11, AnswerSeen
  <2>3. Range(arrived') = {}
    BY <1>1, <1>11, AnswerSeen
  <2>4. \A q \in Processors : \A x \in Seen(q)' : True(x, q)
    BY <1>5, <2>2
  <2> QED BY <1>4, <2>1, <2>3, <2>4
<1>12. ASSUME NEW e \in Engine, Forward(e) PROVE Truthful'
  <2>1. PICK r \in Records, ps \in SUBSET {e} :
          /\ Enqueue(ps, r) /\ r \in Range(arrived) /\ \A p \in ps : Live(r) => kind[p] = "live"
    BY <1>1, <1>12, ForwardIs
  <2>2. UNCHANGED <<span, kind, got, arrived>>
    BY <1>1, <1>12, ForwardIs
  <2>3. \A p \in Processors : \A x \in Seen(p)' : x \in Seen(p) \/ (x = r /\ p \in ps)
    <3>1. ps \in SUBSET Processors
      BY Names
    <3> QED BY <1>1, <2>1, <2>2, <3>1, EnqueueSeen
  <2>4. \A p \in Processors : \A x \in Seen(p)' : True(x, p)
    BY <1>5, <2>1, <2>3
  <2> QED BY <1>4, <1>5, <2>2, <2>4
<1>13. CASE \E u \in Setups : InitTelemetry(u)
  <2>1. phase = "off" /\ Quiet
    BY <1>13, QuietSteps DEF InitTelemetry
  <2>2. \A p \in Processors : Seen(p)' = {}
    <3>1. \A p \in Processors : Seen(p) = {}
      BY <1>1, <2>1, NothingYet DEF SetUp
    <3> QED BY <2>1, <3>1 DEF Seen, Quiet
  <2>3. Range(arrived') = {}
    <3>1. ASSUME NEW x \in Range(arrived) PROVE FALSE
      BY <1>1, <1>3, <1>5, <2>1, RecordIs DEF SetUp, Known
    <3> QED BY <2>1, <3>1 DEF Quiet
  <2> QED BY <2>2, <2>3 DEF Truthful
<1>14. CASE CloseTelemetry \/ Shutdown \/ ShutdownDone \/ Expire \/ Closed \/ UNCHANGED vars
  <2>1. Quiet
    BY <1>14, QuietSteps
  <2>2. UNCHANGED kind
    BY <1>14 DEF CloseTelemetry, Shutdown, ShutdownDone, Expire, Closed, vars
  <2>3. \A p \in Processors : Seen(p)' = Seen(p)
    BY <2>1 DEF Seen, Quiet
  <2>4. UNCHANGED <<span, arrived>>
    BY <2>1 DEF Quiet
  <2> QED BY <1>4, <1>5, <2>2, <2>3, <2>4
<1> QED
  BY <1>7, <1>8, <1>9, <1>10, <1>11, <1>12, <1>13, <1>14, Steps

LEMMA InOrderStep == ExportInv /\ [Next]_vars => InOrder'
<1> SUFFICES ASSUME ExportInv, [Next]_vars PROVE InOrder'
  OBVIOUS
<1>1. Typed /\ InOrder /\ SetUp /\ Truthful
  BY DEF ExportInv
<1>2. \A p \in Processors : Seen(p) \subseteq Records /\ Range(queue[p]) \subseteq Seen(p)
                            /\ queue[p] \in Seq(Records)
  BY <1>1, RangeIs DEF Seen, Typed
<1>3. Range(arrived) \subseteq Records
  BY <1>1, RangeIs DEF Typed
<1>4. /\ \A p \in Processors : Ordered(queue[p])
      /\ \A p \in Processors \ {"otel"} : Ordered(got[p]) /\ Before(Range(got[p]), Range(queue[p]))
      /\ Distinct(arrived)
      /\ \A e \in Engine : /\ Before(Seen(e), Left(e))
                           /\ Before(Seen(e) \cup Range(arrived), Range(queue["otel"]))
  BY <1>1 DEF InOrder
<1>5. "otel" \in Processors /\ "otel" \notin Engine
  BY Names
<1>6. ASSUME NEW ps \in SUBSET Processors, NEW r \in Records, Enqueue(ps, r), UNCHANGED got,
             \A p \in ps : Before(Seen(p), {r})
      PROVE  /\ \A p \in Processors : Ordered(queue'[p])
             /\ \A p \in Processors \ {"otel"} : Ordered(got'[p]) /\ Before(Range(got'[p]), Range(queue'[p]))
  <2> SUFFICES ASSUME NEW p \in Processors
               PROVE  /\ Ordered(queue'[p])
                      /\ p # "otel" => Ordered(got'[p]) /\ Before(Range(got'[p]), Range(queue'[p]))
    OBVIOUS
  <2>1. queue'[p] = queue[p] \/ (p \in ps /\ queue'[p] = Append(queue[p], r))
    BY <1>1, <1>6, EnqueueIs
  <2>2. CASE queue'[p] = queue[p]
    BY <1>4, <1>6, <2>2
  <2>3. CASE p \in ps /\ queue'[p] = Append(queue[p], r)
    <3>1. PICK q : q = queue[p]
      OBVIOUS
    <3>2. q \in Seq(Records) /\ Ordered(q) /\ Before(Range(q), {r})
      BY <1>2, <1>4, <1>6, <2>3, <3>1 DEF Before
    <3>3. Ordered(Append(q, r)) /\ Range(Append(q, r)) = Range(q) \cup {r}
      BY <3>2, OrderedAppend, AppendRange
    <3>4. Before(Range(got[p]), {r})
      BY <1>6, <2>3 DEF Before, Seen
    <3>5. p # "otel" => Before(Range(got[p]), Range(q) \cup {r})
      BY <1>4, <3>1, <3>4 DEF Before
    <3> QED BY <1>4, <1>6, <2>3, <3>1, <3>3, <3>5
  <2> QED BY <2>1, <2>2, <2>3
<1>7. ASSUME NEW ps \in SUBSET Program, NEW r \in Records, Enqueue(ps, r), UNCHANGED <<got, arrived, at>>,
             \A p \in Processors : Before(Seen(p), {r}), Before(Range(arrived), {r})
      PROVE  InOrder'
  <2>1. ps \in SUBSET Processors
    BY Names
  <2>2. /\ \A p \in Processors : Ordered(queue'[p])
        /\ \A p \in Processors \ {"otel"} : Ordered(got'[p]) /\ Before(Range(got'[p]), Range(queue'[p]))
    BY <1>6, <1>7, <2>1
  <2>3. ASSUME NEW e \in Engine
        PROVE  /\ Before(Seen(e)', Left(e)')
               /\ Before(Seen(e)' \cup Range(arrived'), Range(queue'["otel"]))
    <3>1. e \in Processors /\ e \notin ps
      BY Names
    <3>2. Seen(e)' \subseteq Seen(e) /\ Left(e)' = Left(e)
      BY <1>1, <1>7, <2>1, <3>1, EnqueueSeen DEF Left
    <3>3. \A x \in Range(queue'["otel"]) : x \in Range(queue["otel"]) \/ x = r
      <4>1. PICK q, u : q = queue["otel"] /\ u = queue'["otel"]
        OBVIOUS
      <4>2. q \in Seq(Records)
        BY <1>2, <1>5, <4>1
      <4>3. u = q \/ u = Append(q, r)
        BY <1>1, <1>5, <1>7, <2>1, <4>1, EnqueueIs
      <4>4. Range(Append(q, r)) = Range(q) \cup {r}
        BY <4>2, AppendRange
      <4>5. Range(u) = Range(q) \/ Range(u) = Range(q) \cup {r}
        BY <4>3, <4>4
      <4> QED BY <4>1, <4>5
    <3>4. Before(Seen(e), Left(e)) /\ Before(Seen(e) \cup Range(arrived), Range(queue["otel"]))
      BY <1>4
    <3>5. Before(Seen(e) \cup Range(arrived), {r})
      BY <1>7, <3>1 DEF Before
    <3> QED BY <1>7, <3>2, <3>3, <3>4, <3>5 DEF Before
  <2> QED BY <1>4, <1>7, <2>2, <2>3 DEF InOrder
<1>8. ASSUME NEW s \in Spans, Start(s) PROVE InOrder'
  <2>1. PICK r : r = Snapshot(s)
    OBVIOUS
  <2>2. r \in Records /\ r.span = s
    BY <2>1, RecordIs
  <2>3. LiveOnes(SpanProcessors) \in SUBSET Program
    BY Names DEF LiveOnes
  <2>4. /\ Enqueue(LiveOnes(SpanProcessors), r) /\ UNCHANGED <<got, arrived, at>>
        /\ span[s] = "new"
    BY <1>8, <2>1 DEF Start
  <2>5. \A p \in Processors : Before(Seen(p), {r})
    BY <1>1, <2>2, <2>4 DEF Before, Truthful, Known
  <2>6. Before(Range(arrived), {r})
    BY <1>1, <2>2, <2>4 DEF Before, Truthful, Known
  <2> QED BY <1>7, <2>2, <2>3, <2>4, <2>5, <2>6
<1>9. ASSUME NEW s \in Spans, End(s) PROVE InOrder'
  <2>1. PICK r : r = Final(s)
    OBVIOUS
  <2>2. r \in Records /\ r.span = s
    BY <2>1, RecordIs
  <2>3. /\ Enqueue(Program, r) /\ UNCHANGED <<got, arrived, at>>
        /\ span[s] = "live"
    BY <1>9, <2>1 DEF End
  <2>4. \A p \in Processors : Before(Seen(p), {r})
    BY <1>1, <2>2, <2>3 DEF Before, Truthful, Known
  <2>5. Before(Range(arrived), {r})
    BY <1>1, <2>2, <2>3 DEF Before, Truthful, Known
  <2> QED BY <1>7, <2>2, <2>3, <2>4, <2>5
<1>10. ASSUME NEW n \in 1..BatchSize, Call(n) PROVE InOrder'
  <2>1. PICK a, b \in Seq(Records) : Ordered(b) /\ queue' = [queue EXCEPT !["otel"] = b]
    BY <1>1, <1>10, CallIs
  <2>2. UNCHANGED got /\ Distinct(arrived')
    BY <1>1, <1>10, CallIs DEF Call
  <2>3. \A p \in Processors : Ordered(queue'[p]) /\ (p # "otel" => queue'[p] = queue[p])
    BY <1>1, <1>4, <2>1 DEF Typed
  <2>4. ASSUME NEW e \in Engine
        PROVE  /\ Before(Seen(e)', Left(e)')
               /\ Before(Seen(e)' \cup Range(arrived'), Range(queue'["otel"]))
    <3>1. e \in Processors \ {"otel"}
      BY Names
    <3>2. Seen(e)' = Seen(e) /\ Range(arrived') \subseteq Range(queue["otel"])
          /\ Range(queue'["otel"]) \subseteq Range(queue["otel"])
          /\ Before(Range(arrived'), Range(queue'["otel"]))
      BY <1>1, <1>5, <1>10, <3>1, CallSeen
    <3>3. Left(e)' \subseteq Range(arrived')
      <4>1. at' = [f \in Engine |-> 0] /\ at'[e] = 0
        BY <1>10 DEF Call
      <4>2. PICK w : w = arrived'
        OBVIOUS
      <4>3. w \in Seq(Records)
        BY <1>1, <1>10, <4>2, CallIs
      <4>4. \A i \in 1..Len(w) : w[i] \in Range(w)
        BY <4>3, RangeIs
      <4>5. Left(e)' = {w[i] : i \in 1..Len(w)}
        BY <4>1, <4>2 DEF Left
      <4> QED BY <4>2, <4>4, <4>5
    <3>4. Before(Seen(e), Range(queue["otel"]))
      BY <1>4 DEF Before
    <3> QED BY <3>2, <3>3, <3>4 DEF Before
  <2> QED BY <1>4, <2>2, <2>3, <2>4 DEF InOrder
<1>11. ASSUME NEW n \in 1..BatchSize, NEW p \in Processors, Deliver(p, n) PROVE InOrder'
  <2>1. p # "otel"
    BY <1>1, <1>11, DeliverIs
  <2>2. PICK a, b, e \in Seq(Records) :
          /\ Ordered(b) /\ Ordered(e)
          /\ Range(queue[p]) = Range(a) \cup Range(b) /\ Before(Range(a), Range(b))
          /\ Range(e) \subseteq Range(a)
          /\ got' = [got EXCEPT ![p] = got[p] \o e]
          /\ queue' = [queue EXCEPT ![p] = b]
    BY <1>1, <1>11, DeliverIs
  <2>3. UNCHANGED <<arrived, at>>
    BY <1>11 DEF Deliver
  <2>4. queue'[p] = b /\ got'[p] = got[p] \o e
        /\ \A q \in Processors \ {p} : queue'[q] = queue[q] /\ got'[q] = got[q]
    BY <1>1, <2>2 DEF Typed
  <2>5. PICK g \in Seq(Records) : g = got[p]
    BY <1>1 DEF Typed
  <2>6. Ordered(g) /\ Before(Range(g), Range(a) \cup Range(b))
    BY <1>4, <2>1, <2>2, <2>5
  <2>7. Ordered(g \o e) /\ Range(g \o e) = Range(g) \cup Range(e)
    <3>1. Before(Range(g), Range(e))
      BY <2>2, <2>6 DEF Before
    <3> QED BY <2>2, <2>6, <3>1, OrderedConcat, RangeConcat
  <2>8. Before(Range(g) \cup Range(e), Range(b))
    BY <2>2, <2>6 DEF Before
  <2>9. \A q \in Processors : Ordered(queue'[q])
    BY <1>4, <2>2, <2>4
  <2>10. \A q \in Processors \ {"otel"} : Ordered(got'[q]) /\ Before(Range(got'[q]), Range(queue'[q]))
    BY <1>4, <2>4, <2>5, <2>7, <2>8
  <2>11. ASSUME NEW f \in Engine
         PROVE  /\ Before(Seen(f)', Left(f)')
                /\ Before(Seen(f)' \cup Range(arrived'), Range(queue'["otel"]))
    <3>1. Seen(f)' \subseteq Seen(f) /\ Left(f)' = Left(f)
      BY <1>1, <1>11, <2>3, DeliverSeen, Names DEF Left
    <3>2. queue'["otel"] = queue["otel"]
      BY <1>5, <2>1, <2>4
    <3>3. Before(Seen(f), Left(f)) /\ Before(Seen(f) \cup Range(arrived), Range(queue["otel"]))
      BY <1>4
    <3> QED BY <2>3, <3>1, <3>2, <3>3 DEF Before
  <2> QED BY <1>4, <2>3, <2>9, <2>10, <2>11 DEF InOrder
<1>12. CASE Answer
  <2>1. /\ \A q \in Processors \ {"otel"} : Seen(q)' = Seen(q) /\ got'[q] = got[q]
        /\ arrived' = <<>> /\ Range(arrived') = {} /\ UNCHANGED queue
    BY <1>1, <1>12, AnswerSeen
  <2>2. \A p \in Processors : Ordered(queue'[p])
    BY <1>4, <2>1
  <2>3. \A q \in Processors \ {"otel"} : Ordered(got'[q]) /\ Before(Range(got'[q]), Range(queue'[q]))
    BY <1>4, <2>1
  <2>4. Distinct(arrived')
    <3>1. Len(<<>>) = 0
      OBVIOUS
    <3> QED BY <2>1, <3>1 DEF Distinct
  <2>5. ASSUME NEW e \in Engine
        PROVE  /\ Before(Seen(e)', Left(e)')
               /\ Before(Seen(e)' \cup Range(arrived'), Range(queue'["otel"]))
    <3>1. Left(e)' = {}
      <4>1. at'[e] = 0 /\ Len(<<>>) = 0
        BY <1>12 DEF Answer
      <4> QED BY <2>1, <4>1 DEF Left
    <3>2. Seen(e)' = Seen(e)
      BY <2>1, Names
    <3>3. Before(Seen(e) \cup Range(arrived), Range(queue["otel"]))
      BY <1>4
    <3> QED BY <2>1, <3>1, <3>2, <3>3 DEF Before
  <2> QED BY <2>2, <2>3, <2>4, <2>5 DEF InOrder
<1>13. ASSUME NEW e \in Engine, Forward(e) PROVE InOrder'
  <2>1. PICK r \in Records, ps \in SUBSET {e} :
          /\ Enqueue(ps, r) /\ r = arrived[at[e] + 1] /\ r \in Range(arrived) /\ r \in Left(e)
    BY <1>1, <1>13, ForwardIs
  <2>2. /\ at[e] + 1 \in 1..Len(arrived)
        /\ at' = [at EXCEPT ![e] = at[e] + 1] /\ UNCHANGED <<got, arrived>>
    BY <1>1, <1>13, ForwardIs
  <2>3. ps \in SUBSET Processors /\ e \in Processors
    BY Names
  <2>4. \A p \in ps : Before(Seen(p), {r})
    BY <1>4, <2>1 DEF Before
  <2>5. /\ \A p \in Processors : Ordered(queue'[p])
        /\ \A p \in Processors \ {"otel"} : Ordered(got'[p]) /\ Before(Range(got'[p]), Range(queue'[p]))
    BY <1>6, <2>1, <2>2, <2>3, <2>4
  <2>6. queue'["otel"] = queue["otel"]
    <3>1. "otel" \notin ps
      BY <1>5
    <3> QED BY <1>1, <1>5, <2>1, <2>3, <3>1, EnqueueIs
  <2>7. ASSUME NEW f \in Engine
        PROVE  /\ Before(Seen(f)', Left(f)')
               /\ Before(Seen(f)' \cup Range(arrived'), Range(queue'["otel"]))
    <3>1. \A x \in Seen(f)' : x \in Seen(f) \/ (x = r /\ f = e)
      BY <1>1, <2>1, <2>2, <2>3, EnqueueSeen, Names
    <3>2. Before(Seen(f), Left(f)) /\ Before(Seen(f) \cup Range(arrived), Range(queue["otel"]))
      BY <1>4
    <3>3. Before(Seen(f)' \cup Range(arrived'), Range(queue'["otel"]))
      BY <2>1, <2>2, <2>6, <3>1, <3>2 DEF Before
    <3>4. CASE f # e
      <4>1. at'[f] = at[f]
        BY <1>1, <2>2, <3>4 DEF Typed
      <4>2. Left(f)' = Left(f)
        BY <2>2, <4>1 DEF Left
      <4> QED BY <3>1, <3>2, <3>3, <3>4, <4>2 DEF Before
    <3>5. CASE f = e
      <4>1. PICK k, l \in Nat : k = at[e] /\ l = Len(arrived)
        BY <1>1 DEF Typed
      <4>2. at'[e] = k + 1
        BY <1>1, <2>2, <4>1 DEF Typed
      <4>3. Left(e)' = {arrived[i] : i \in (k + 1 + 1)..l}
        BY <2>2, <4>1, <4>2 DEF Left
      <4>4. Left(e) = {arrived[i] : i \in (k + 1)..l}
        BY <4>1 DEF Left
      <4>5. \A i \in (k + 1 + 1)..l : i \in (k + 1)..l /\ i \in 1..l /\ i # k + 1
        OBVIOUS
      <4>6. Left(e)' \subseteq Left(e)
        BY <4>3, <4>4, <4>5
      <4>7. k + 1 \in 1..l /\ r = arrived[k + 1]
        BY <2>1, <2>2, <4>1
      <4>8. ASSUME NEW i \in (k + 1 + 1)..l PROVE arrived[i].span # r.span
        BY <1>4, <4>1, <4>5, <4>7 DEF Distinct
      <4>9. Before({r}, Left(e)')
        BY <4>3, <4>8 DEF Before
      <4> QED BY <3>1, <3>2, <3>3, <3>5, <4>6, <4>9 DEF Before
    <3> QED BY <3>4, <3>5
  <2> QED BY <1>4, <2>2, <2>5, <2>7 DEF InOrder
<1>14. ASSUME Quiet PROVE InOrder'
  <2>1. UNCHANGED <<queue, got, arrived, at>>
    BY <1>14 DEF Quiet
  <2>2. \A e : Seen(e)' = Seen(e) /\ Left(e)' = Left(e)
    BY <2>1 DEF Seen, Left
  <2> QED BY <1>4, <2>1, <2>2 DEF InOrder
<1> QED
  BY <1>8, <1>9, <1>10, <1>11, <1>12, <1>13, <1>14, QuietSteps, Steps

LEMMA KeptStep == ExportInv /\ [Next]_vars => Kept'
<1> SUFFICES ASSUME ExportInv, [Next]_vars PROVE Kept'
  OBVIOUS
<1>1. Typed /\ InOrder /\ SetUp /\ Truthful /\ Kept
  BY DEF ExportInv
<1> DEFINE Safe(p, s) == Final(s) \in Seen(p) \/ (p = "otel" /\ Final(s) \in Range(arrived))
<1>2. /\ \A p \in Program, s \in Spans :
           span[s] = "ended" /\ kind[p] # "none" /\ NotDropped(p, s) => Safe(p, s)
      /\ ~flight => arrived = <<>>
  BY <1>1 DEF Kept
<1>3. ASSUME lost \subseteq lost', NEW p, NEW s, NotDropped(p, s)' PROVE NotDropped(p, s)
  BY <1>3 DEF NotDropped
<1>4. \A s \in Spans : ~Live(Final(s)) /\ Final(s) \in Records /\ Final(s).span = s
  BY RecordIs
\* A step after which what was safe is safe, and only r's span may have ended.
<1>5. ASSUME NEW S \in SUBSET Spans, UNCHANGED kind, lost \subseteq lost', ~flight' => arrived' = <<>>,
             \A p \in Program, s \in Spans : Safe(p, s) => Safe(p, s)',
             \A s \in Spans : span'[s] = "ended" => span[s] = "ended" \/ s \in S,
             \A s \in S, p \in Program : kind[p] # "none" => Safe(p, s)' \/ <<p, Final(s)>> \in lost'
      PROVE  Kept'
  <2>1. ASSUME NEW p \in Program, NEW s \in Spans, span'[s] = "ended", kind'[p] # "none", NotDropped(p, s)'
        PROVE  Safe(p, s)'
    <3>1. CASE span[s] = "ended"
      <4>1. NotDropped(p, s)
        BY <1>3, <1>5, <2>1
      <4> QED BY <1>2, <1>5, <2>1, <3>1, <4>1
    <3>2. CASE s \in S
      <4>1. <<p, Final(s)>> \notin lost'
        BY <1>4, <2>1 DEF NotDropped
      <4> QED BY <1>5, <2>1, <3>2, <4>1
    <3> QED BY <1>5, <2>1, <3>1, <3>2
  <2> QED BY <1>5, <2>1 DEF Kept
<1>6. ASSUME UNCHANGED arrived, \A p \in Program : \A x \in Seen(p) : ~Live(x) => x \in Seen(p)'
      PROVE  \A p \in Program, s \in Spans : Safe(p, s) => Safe(p, s)'
  BY <1>4, <1>6
<1>7. ASSUME NEW s \in Spans, Start(s) PROVE Kept'
  <2>1. LiveOnes(SpanProcessors) \in SUBSET Processors
    BY Names DEF LiveOnes
  <2>2. /\ Enqueue(LiveOnes(SpanProcessors), Snapshot(s))
        /\ UNCHANGED <<kind, flight, got, arrived>> /\ span' = [span EXCEPT ![s] = "live"]
    BY <1>7 DEF Start
  <2>3. lost \subseteq lost' /\ \A p \in Processors : Seen(p) \subseteq Seen(p)'
    BY <1>1, <2>1, <2>2, RecordsOf, EnqueueIs, EnqueueSeen
  <2>4. \A t \in Spans : span'[t] = "ended" => span[t] = "ended"
    BY <1>1, <2>2 DEF Typed
  <2>5. \A p \in Program, t \in Spans : Safe(p, t) => Safe(p, t)'
    BY <1>6, <2>2, <2>3, Names
  <2> HIDE DEF Safe
  <2>6. /\ {} \in SUBSET Spans
        /\ \A t \in Spans : span'[t] = "ended" => span[t] = "ended" \/ t \in {}
        /\ \A t \in {}, p \in Program : kind[p] # "none" => Safe(p, t)' \/ <<p, Final(t)>> \in lost'
    BY <2>4
  <2> QED BY <1>2, <1>5, <2>2, <2>3, <2>5, <2>6
<1>8. ASSUME NEW s \in Spans, End(s) PROVE Kept'
  <2>1. PICK r : r = Final(s)
    OBVIOUS
  <2>2. /\ Enqueue(Program, r)
        /\ UNCHANGED <<kind, flight, got, arrived>> /\ span' = [span EXCEPT ![s] = "ended"]
    BY <1>8, <2>1 DEF End
  <2>3. Program \in SUBSET Processors /\ r \in Records
    BY <2>1, Names, RecordsOf
  <2>4. lost \subseteq lost' /\ \A p \in Processors : Seen(p) \subseteq Seen(p)'
    BY <1>1, <2>2, <2>3, EnqueueIs, EnqueueSeen
  <2>5. \A p \in Program : kind[p] # "none" => r \in Seen(p)' \/ <<p, r>> \in lost'
    BY <1>1, <2>2, <2>3, EnqueueSeen
  <2>6. \A t \in Spans : span'[t] = "ended" => span[t] = "ended" \/ t \in {s}
    BY <1>1, <2>2 DEF Typed
  <2>7. \A p \in Program, t \in Spans : Safe(p, t) => Safe(p, t)'
    BY <1>6, <2>2, <2>4, Names
  <2>8. \A t \in {s}, p \in Program : kind[p] # "none" => Safe(p, t)' \/ <<p, Final(t)>> \in lost'
    BY <2>1, <2>5
  <2> HIDE DEF Safe
  <2> QED BY <1>2, <1>5, <2>2, <2>4, <2>6, <2>7, <2>8
<1>9. ASSUME UNCHANGED <<span, kind>>, lost \subseteq lost', ~flight' => arrived' = <<>>,
             \A p \in Program, s \in Spans : Safe(p, s) => Safe(p, s)'
      PROVE  Kept'
  <2> HIDE DEF Safe
  <2>1. /\ {} \in SUBSET Spans
        /\ \A s \in Spans : span'[s] = "ended" => span[s] = "ended" \/ s \in {}
        /\ \A s \in {}, p \in Program : kind[p] # "none" => Safe(p, s)' \/ <<p, Final(s)>> \in lost'
    BY <1>9
  <2> QED BY <1>5, <1>9, <2>1
<1>10. ASSUME NEW n \in 1..BatchSize, Call(n) PROVE Kept'
  <2>1. UNCHANGED <<span, kind, lost>> /\ flight' = TRUE /\ arrived = <<>>
    BY <1>10 DEF Call
  <2>2. \A q \in Processors \ {"otel"} : Seen(q)' = Seen(q)
    BY <1>1, <1>10, CallSeen
  <2>3. \A x \in Seen("otel") : ~Live(x) => x \in Seen("otel")' \cup Range(arrived')
    BY <1>1, <1>10, CallSeen
  <2>4. Range(<<>>) = {}
    BY DEF Range
  <2>5. \A p \in Program, s \in Spans : Safe(p, s) => Safe(p, s)'
    BY <1>4, <2>1, <2>2, <2>3, <2>4, Names
  <2> HIDE DEF Safe
  <2> QED BY <1>9, <2>1, <2>5
<1>11. ASSUME NEW n \in 1..BatchSize, NEW p \in Processors, Deliver(p, n) PROVE Kept'
  <2>1. UNCHANGED <<span, kind, lost, flight, arrived>>
    BY <1>11 DEF Deliver
  <2>2. \A q \in Processors : \A x \in Seen(q) : ~Live(x) => x \in Seen(q)'
    BY <1>1, <1>11, DeliverSeen
  <2>3. \A q \in Program, s \in Spans : Safe(q, s) => Safe(q, s)'
    BY <1>6, <2>1, <2>2, Names
  <2> HIDE DEF Safe
  <2> QED BY <1>2, <1>9, <2>1, <2>3
<1>12. CASE Answer
  <2>1. UNCHANGED <<span, kind, lost>>
    BY <1>12 DEF Answer
  <2>2. /\ Seen("otel")' = Seen("otel") \cup Range(arrived)
        /\ \A q \in Processors \ {"otel"} : Seen(q)' = Seen(q)
        /\ arrived' = <<>>
    BY <1>1, <1>12, AnswerSeen
  <2>3. \A q \in Program, s \in Spans : Safe(q, s) => Safe(q, s)'
    BY <2>2, Names
  <2> HIDE DEF Safe
  <2> QED BY <1>9, <2>1, <2>2, <2>3
<1>13. ASSUME NEW e \in Engine, Forward(e) PROVE Kept'
  <2>1. PICK r \in Records, ps \in SUBSET {e} : Enqueue(ps, r)
    BY <1>1, <1>13, ForwardIs
  <2>2. UNCHANGED <<span, kind, flight, got, arrived>>
    BY <1>13 DEF Forward
  <2>3. ps \in SUBSET Processors
    BY Names
  <2>4. lost \subseteq lost' /\ \A p \in Processors : Seen(p) \subseteq Seen(p)'
    BY <1>1, <2>1, <2>2, <2>3, EnqueueIs, EnqueueSeen
  <2>5. \A q \in Program, s \in Spans : Safe(q, s) => Safe(q, s)'
    BY <1>6, <2>2, <2>4, Names
  <2> HIDE DEF Safe
  <2> QED BY <1>2, <1>9, <2>2, <2>4, <2>5
<1>14. CASE \E u \in Setups : InitTelemetry(u)
  <2>1. phase = "off" /\ Quiet
    BY <1>14, QuietSteps DEF InitTelemetry
  <2>2. \A s \in Spans : span'[s] # "ended"
    BY <1>1, <2>1 DEF SetUp, Quiet
  <2>3. ~flight' => arrived' = <<>>
    BY <1>2, <2>1 DEF Quiet
  <2> QED BY <2>2, <2>3 DEF Kept
<1>15. CASE CloseTelemetry \/ Shutdown \/ ShutdownDone \/ Expire \/ Closed \/ UNCHANGED vars
  <2>1. Quiet
    BY <1>15, QuietSteps
  <2>2. UNCHANGED kind
    BY <1>15 DEF CloseTelemetry, Shutdown, ShutdownDone, Expire, Closed, vars
  <2>3. UNCHANGED <<span, lost, flight, arrived>> /\ \A p : Seen(p)' = Seen(p)
    BY <2>1 DEF Quiet, Seen
  <2>4. \A q \in Program, s \in Spans : Safe(q, s) => Safe(q, s)'
    BY <2>3
  <2> HIDE DEF Safe
  <2> QED BY <1>2, <1>9, <2>2, <2>3, <2>4
<1> QED
  BY <1>7, <1>8, <1>10, <1>11, <1>12, <1>13, <1>14, <1>15, Steps

\* A processor that was shut down and is idle stays so.
LEMMA LeftBehindStep == ExportInv /\ [Next]_vars => LeftBehind'
<1> SUFFICES ASSUME ExportInv, [Next]_vars PROVE LeftBehind'
  OBVIOUS
<1>1. Typed /\ InOrder /\ SetUp /\ LeftBehind
  BY DEF ExportInv
<1> DEFINE Gone(p) == down[p] /\ (expired \/ Idle(p))
<1>2. /\ \A s \in intime : s \in Spans /\ span[s] = "ended"
      /\ phase \in {"closing", "closed"} =>
           \A p \in Program : kind[p] # "none" => p \in Range(stopping) \/ Gone(p)
      /\ phase = "closed" => stopping = <<>>
  BY <1>1 DEF LeftBehind
<1>3. ASSUME UNCHANGED <<phase, kind, intime, down, stopping, expired>>,
             \A s \in Spans : span[s] = "ended" => span'[s] = "ended",
             \A p \in Program : down[p] /\ Idle(p) => Idle(p)'
      PROVE  LeftBehind'
  BY <1>2, <1>3 DEF LeftBehind
<1>4. ASSUME NEW ps \in SUBSET Processors, NEW r \in Records, Enqueue(ps, r), UNCHANGED flight
      PROVE  \A p \in Program : down[p] /\ Idle(p) => Idle(p)'
  <2> SUFFICES ASSUME NEW p \in Program, down[p], Idle(p) PROVE Idle(p)'
    OBVIOUS
  <2>1. queue'[p] = queue[p]
    BY <1>1, <1>4, EnqueueIs, Names
  <2> QED BY <1>4, <2>1 DEF Idle
<1>5. ASSUME NEW s \in Spans, Start(s) PROVE LeftBehind'
  <2>1. LiveOnes(SpanProcessors) \in SUBSET Processors
    BY Names DEF LiveOnes
  <2>2. /\ Enqueue(LiveOnes(SpanProcessors), Snapshot(s)) /\ span[s] = "new"
        /\ UNCHANGED <<phase, kind, intime, flight, down, stopping, expired>>
        /\ span' = [span EXCEPT ![s] = "live"]
    BY <1>5 DEF Start
  <2>3. \A t \in Spans : span[t] = "ended" => span'[t] = "ended"
    BY <1>1, <2>2 DEF Typed
  <2> QED BY <1>3, <1>4, <2>1, <2>2, <2>3, RecordsOf
<1>6. ASSUME NEW s \in Spans, End(s) PROVE LeftBehind'
  <2>1. /\ Enqueue(Program, Final(s))
        /\ UNCHANGED <<phase, kind, intime, flight, down, stopping, expired>>
        /\ span' = [span EXCEPT ![s] = "ended"]
    BY <1>6 DEF End
  <2>2. \A t \in Spans : span[t] = "ended" => span'[t] = "ended"
    BY <1>1, <2>1 DEF Typed
  <2> QED BY <1>3, <1>4, <2>1, <2>2, Names, RecordsOf
<1>7. ASSUME NEW n \in 1..BatchSize, Call(n) PROVE LeftBehind'
  <2>1. PICK b : queue' = [queue EXCEPT !["otel"] = b]
    BY <1>1, <1>7, CallIs
  <2>2. queue["otel"] # <<>>
    BY <1>1, <1>7, CallIs
  <2>3. UNCHANGED <<phase, kind, span, intime, down, stopping, expired>>
    BY <1>7 DEF Call
  <2>4. ASSUME NEW p \in Program, Idle(p) PROVE Idle(p)'
    <3>1. p # "otel" /\ p \in Processors
      BY <2>2, <2>4, Names DEF Idle
    <3>2. queue'[p] = queue[p]
      BY <1>1, <2>1, <3>1 DEF Typed
    <3> QED BY <2>4, <3>1, <3>2 DEF Idle
  <2> QED BY <1>3, <2>3, <2>4
<1>8. ASSUME NEW n \in 1..BatchSize, NEW p \in Processors, Deliver(p, n) PROVE LeftBehind'
  <2>1. PICK a, b \in Seq(Records) : /\ Range(queue[p]) = Range(a) \cup Range(b)
                                     /\ queue' = [queue EXCEPT ![p] = b]
    BY <1>1, <1>8, DeliverIs
  <2>2. queue[p] \in Seq(Records)
    BY <1>1 DEF Typed
  <2>3. queue[p] = <<>> => b = <<>>
    BY <2>1, <2>2, NoneIn
  <2>4. UNCHANGED <<phase, kind, span, intime, flight, down, stopping, expired>>
    BY <1>8 DEF Deliver
  <2>5. ASSUME NEW q \in Program, Idle(q) PROVE Idle(q)'
    <3>1. queue'[q] = <<>>
      BY <1>1, <2>1, <2>3, <2>5, Names DEF Typed, Idle
    <3> QED BY <2>4, <2>5, <3>1 DEF Idle
  <2> QED BY <1>3, <2>4, <2>5
<1>9. CASE Answer
  <2>1. UNCHANGED <<phase, kind, span, intime, queue, down, stopping, expired>> /\ flight' = FALSE
    BY <1>9 DEF Answer
  <2>2. \A p \in Program : Idle(p) => Idle(p)'
    BY <2>1 DEF Idle
  <2> QED BY <1>3, <2>1, <2>2
<1>10. ASSUME NEW e \in Engine, Forward(e) PROVE LeftBehind'
  <2>1. PICK r \in Records, ps \in SUBSET {e} : Enqueue(ps, r)
    BY <1>1, <1>10, ForwardIs
  <2>2. UNCHANGED <<phase, kind, span, intime, flight, down, stopping, expired>>
    BY <1>10 DEF Forward
  <2>3. ps \in SUBSET Processors
    BY Names
  <2> QED BY <1>3, <1>4, <2>1, <2>2, <2>3
<1>11. ASSUME Quiet PROVE (\A p : Idle(p)' <=> Idle(p)) /\ UNCHANGED span
  BY <1>11 DEF Quiet, Idle
<1>12. CASE \E u \in Setups : InitTelemetry(u)
  <2>1. phase' = "running" /\ UNCHANGED intime /\ UNCHANGED span
    BY <1>11, <1>12, QuietSteps DEF InitTelemetry
  <2> QED BY <1>2, <2>1 DEF LeftBehind
<1>13. CASE CloseTelemetry
  <2>1. /\ phase' = "closing" /\ intime' = {s \in Spans : span[s] = "ended"}
        /\ stopping' = Registered /\ UNCHANGED <<kind, span>>
    BY <1>13 DEF CloseTelemetry
  <2> QED BY <2>1, RegisteredIs DEF LeftBehind
<1>14. CASE Shutdown
  <2>1. /\ phase = "closing" /\ down' = [down EXCEPT ![Head(stopping)] = TRUE]
        /\ UNCHANGED <<phase, kind, intime, stopping, expired>>
    BY <1>14 DEF Shutdown
  <2>2. \A p \in Program : down[p] => down'[p]
    BY <1>1, <2>1, Names DEF Typed
  <2>3. (\A p : Idle(p)' <=> Idle(p)) /\ UNCHANGED span
    BY <1>11, <1>14, QuietSteps
  <2> QED BY <1>2, <2>1, <2>2, <2>3 DEF LeftBehind
<1>15. CASE ShutdownDone
  <2>1. /\ phase = "closing" /\ stopping # <<>> /\ Gone(Head(stopping)) /\ stopping' = Tail(stopping)
        /\ UNCHANGED <<phase, kind, intime, down, expired>>
    BY <1>15 DEF ShutdownDone, pipes
  <2>2. (\A p : Idle(p)' <=> Idle(p)) /\ UNCHANGED span
    BY <1>11, <1>15, QuietSteps
  <2>3. \A p \in Range(stopping) : p = Head(stopping) \/ p \in Range(Tail(stopping))
    <3>1. PICK t : t = stopping
      OBVIOUS
    <3>2. t \in Seq(Program) /\ t # <<>>
      BY <1>1, <2>1, <3>1 DEF Typed
    <3>3. PICK h, u : h = Head(t) /\ u = Tail(t)
      OBVIOUS
    <3>4. t = <<h>> \o u /\ u \in Seq(Program) /\ h \in Program
      BY <3>2, <3>3, HeadAndTail
    <3>5. PICK v \in Seq(Program) : v = <<h>>
      BY <3>4, Single
    <3>6. Range(v) = {h}
      BY <3>5 DEF Range
    <3>7. t = v \o u
      BY <3>4, <3>5
    <3>8. Range(v \o u) = Range(v) \cup Range(u)
      BY <3>4, RangeConcat
    <3> QED BY <3>1, <3>3, <3>6, <3>7, <3>8
  <2>4. \A p \in Program : kind[p] # "none" => p \in Range(stopping') \/ Gone(p)
    BY <1>2, <2>1, <2>3
  <2> QED BY <1>2, <2>1, <2>2, <2>4 DEF LeftBehind
<1>16. CASE Expire
  <2>1. expired' = TRUE /\ UNCHANGED <<phase, kind, intime, down, stopping>>
    BY <1>16 DEF Expire, pipes
  <2>2. UNCHANGED span
    BY <1>11, <1>16, QuietSteps
  <2> QED BY <1>2, <2>1, <2>2 DEF LeftBehind
<1>17. CASE Closed
  <2>1. /\ phase = "closing" /\ stopping = <<>> /\ phase' = "closed"
        /\ UNCHANGED <<kind, intime, down, stopping, expired>>
    BY <1>17 DEF Closed, pipes
  <2>2. (\A p : Idle(p)' <=> Idle(p)) /\ UNCHANGED span
    BY <1>11, <1>17, QuietSteps
  <2> QED BY <1>2, <2>1, <2>2 DEF LeftBehind
<1>18. CASE UNCHANGED vars
  <2>1. Quiet
    BY <1>18, QuietSteps
  <2>2. UNCHANGED <<phase, kind, intime, down, stopping, expired>>
    BY <1>18 DEF vars
  <2> QED BY <1>3, <1>11, <2>1, <2>2
<1> QED
  BY <1>5, <1>6, <1>7, <1>8, <1>9, <1>10, <1>12, <1>13, <1>14, <1>15, <1>16, <1>17, <1>18, Steps

LEMMA CountsStep == ExportInv /\ [Next]_vars => Counts'
<1> SUFFICES ASSUME ExportInv, [Next]_vars PROVE Counts'
  OBVIOUS
<1>1. Typed /\ Counts
  BY DEF ExportInv
<1>2. IsFiniteSet(Begun)
  <2>1. Begun \subseteq Spans /\ IsFiniteSet(Spans)
    BY ExportAssumption DEF Begun
  <2> QED BY <2>1, FS_Subset
<1>3. started = Cardinality(Begun) /\ (span[Completion] # "new" => declared = started)
  BY <1>1 DEF Counts
<1>4. ASSUME UNCHANGED <<started, declared>>, \A s \in Spans : span'[s] = "new" <=> span[s] = "new"
      PROVE  Counts'
  <2>1. Begun' = Begun
    BY <1>4 DEF Begun
  <2>2. Completion \in Spans
    BY ExportAssumption
  <2> QED BY <1>3, <1>4, <2>1, <2>2 DEF Counts
<1>5. ASSUME NEW s \in Spans, Start(s) PROVE Counts'
  <2>1. /\ span[s] = "new" /\ span[Completion] = "new" /\ span' = [span EXCEPT ![s] = "live"]
        /\ started' = IF Counted(s) THEN started + 1 ELSE started
        /\ declared' = IF s = Completion THEN started ELSE declared
    BY <1>5 DEF Start
  <2>2. \A t \in Spans : span'[t] = IF t = s THEN "live" ELSE span[t]
    BY <1>1, <2>1 DEF Typed
  <2>3. CASE s = Completion
    <3>1. Begun' = Begun
      BY <2>2, <2>3 DEF Begun
    <3>2. started' = started /\ declared' = started
      BY <2>1, <2>3 DEF Counted
    <3> QED BY <1>3, <3>1, <3>2 DEF Counts
  <2>4. CASE s # Completion
    <3>1. Begun' = Begun \cup {s} /\ s \notin Begun
      BY <2>1, <2>2, <2>4 DEF Begun
    <3>2. started' = started + 1
      BY <2>1, <2>4 DEF Counted
    <3>3. Cardinality(Begun \cup {s}) = Cardinality(Begun) + 1
      BY <1>2, <3>1, FS_AddElement
    <3>4. span'[Completion] = "new"
      BY <2>1, <2>2, <2>4, ExportAssumption
    <3> QED BY <1>3, <3>1, <3>2, <3>3, <3>4 DEF Counts
  <2> QED BY <2>3, <2>4
<1>6. ASSUME NEW s \in Spans, End(s) PROVE Counts'
  <2>1. /\ span[s] = "live" /\ span' = [span EXCEPT ![s] = "ended"] /\ UNCHANGED <<started, declared>>
    BY <1>6 DEF End
  <2>2. \A t \in Spans : span'[t] = "new" <=> span[t] = "new"
    BY <1>1, <2>1 DEF Typed
  <2> QED BY <1>4, <2>1, <2>2
<1>7. CASE \/ \E u \in Setups : InitTelemetry(u)
           \/ \E n \in 1 .. BatchSize : Call(n)
           \/ \E n \in 1 .. BatchSize, p \in Processors : Deliver(p, n)
           \/ Answer
           \/ \E e \in Engine : Forward(e)
           \/ CloseTelemetry \/ Shutdown \/ ShutdownDone \/ Expire \/ Closed
           \/ UNCHANGED vars
  <2>1. UNCHANGED <<span, started, declared>>
    BY <1>7 DEF InitTelemetry, Call, Deliver, Answer, Forward, CloseTelemetry, Shutdown, ShutdownDone,
                Expire, Closed, vars
  <2> QED BY <1>4, <2>1
<1> QED BY <1>5, <1>6, <1>7, Steps

\* The invariant holds in every state of the program and the engine.
THEOREM ExportCorrect == ExportSpec => []ExportInv
<1>1. ExportInv /\ [Next]_vars => ExportInv'
  BY TypedStep, SetUpStep, TruthfulStep, InOrderStep, KeptStep, LeftBehindStep, CountsStep
     DEF ExportInv
<1> QED BY InitInv, <1>1, PTL DEF ExportSpec

----------------------------------------------------------------------------
(* What it shows.                                                          *)

LEMMA CompletedIs ==
    ASSUME Typed, NEW p \in Processors, NEW s \in Spans
    PROVE  Completed(p, s) <=> Final(s) \in Range(got[p])
<1>1. PICK g \in Seq(Records) : g = got[p]
  BY DEF Typed
<1>2. Completed(p, s) <=> \E i \in 1..Len(g) : g[i].span = s /\ ~Live(g[i])
  BY <1>1 DEF Completed
<1>3. \A i \in 1..Len(g) : g[i].span = s /\ ~Live(g[i]) <=> g[i] = Final(s)
  BY RangeIs, RecordIs
<1> QED BY <1>1, <1>2, <1>3, RangeIs

\* No collector is told of a span after its completion, and one without live
\* spans is told nothing else, for any number of spans, queue and batch sizes.
THEOREM FinalRecordWinsHolds == ExportSpec => []FinalRecordWins
<1>1. ExportInv => FinalRecordWins
  <2> SUFFICES ASSUME ExportInv, NEW c \in Collectors
               PROVE  \A i, j \in DOMAIN got[c] :
                        /\ i < j /\ got[c][i].span = got[c][j].span => Live(got[c][i])
                        /\ Live(got[c][i]) => kind[c] = "live"
    BY DEF FinalRecordWins
  <2>1. c \in Processors \ {"otel"}
    BY DEF Collectors, Processors, Program, Engine
  <2>2. PICK g \in Seq(Records) : g = got[c]
    BY <2>1 DEF ExportInv, Typed
  <2>3. DOMAIN g = 1..Len(g) /\ Ordered(g)
    BY <2>1, <2>2 DEF ExportInv, InOrder
  <2>4. \A i \in 1..Len(g) : Live(g[i]) => kind[c] = "live"
    <3>1. \A i \in 1..Len(g) : g[i] \in Seen(c)
      BY <2>2, RangeIs DEF Seen
    <3> QED BY <2>1, <3>1 DEF ExportInv, Truthful
  <2> QED BY <2>2, <2>3, <2>4 DEF Ordered
<1> QED BY <1>1, ExportCorrect, PTL

\* Close, within its deadline, loses no completed span that its queues had room
\* for, in whatever order and batches the processors export.
THEOREM NothingLostAtCloseHolds == ExportSpec => []NothingLostAtClose
<1>1. ExportInv => NothingLostAtClose
  <2> SUFFICES ASSUME ExportInv, phase = "closed", ~expired, NEW s \in intime, NEW p \in Program,
                      kind[p] # "none", NotDropped(p, s)
               PROVE  Completed(p, s)
    BY DEF NothingLostAtClose
  <2>1. s \in Spans /\ span[s] = "ended" /\ p \in Processors
    BY Names DEF ExportInv, LeftBehind
  <2>2. Idle(p)
    <3>1. Range(stopping) = {}
      BY DEF ExportInv, LeftBehind, Range
    <3> QED BY <3>1 DEF ExportInv, LeftBehind
  <2>3. Final(s) \in Seen(p) \/ (p = "otel" /\ Final(s) \in Range(arrived))
    BY <2>1 DEF ExportInv, Kept
  <2>4. Range(queue[p]) = {} /\ (p = "otel" => Range(arrived) = {})
    BY <2>2 DEF Idle, ExportInv, Kept, Range
  <2>5. Final(s) \in Range(got[p])
    BY <2>3, <2>4 DEF Seen
  <2> QED BY <2>1, <2>5, CompletedIs DEF ExportInv
<1> QED BY <1>1, ExportCorrect, PTL

\* As many completed spans as the completion declares are all the spans there are.
THEOREM DeclaredTellsHolds == ExportSpec => []DeclaredTells
<1>1. ExportInv => DeclaredTells
  <2> SUFFICES ASSUME ExportInv, NEW c \in {"tui", "e.batch"}, NEW read,
                      read = {s \in Spans \ {Completion} : Completed(c, s)},
                      Completed(c, Completion), Cardinality(read) = declared
               PROVE  read = Begun
    BY DEF DeclaredTells, Begun
  <2>1. c \in Processors /\ Completion \in Spans /\ IsFiniteSet(Spans)
    BY ExportAssumption DEF Processors, Program, Engine
  <2>2. ASSUME NEW s \in Spans, Completed(c, s) PROVE span[s] # "new"
    <3>1. Final(s) \in Seen(c)
      BY <2>1, <2>2, CompletedIs DEF Seen, ExportInv
    <3> QED BY <2>1, <3>1, RecordIs DEF ExportInv, Truthful, Known
  <2>3. declared = Cardinality(Begun)
    BY <2>1, <2>2 DEF ExportInv, Counts
  <2>4. read \subseteq Begun
    BY <2>2 DEF Begun
  <2>5. IsFiniteSet(Begun)
    <3>1. Begun \subseteq Spans
      BY DEF Begun
    <3> QED BY <2>1, <3>1, FS_Subset
  <2> QED BY <2>3, <2>4, <2>5, FS_Subset
<1> QED BY <1>1, ExportCorrect, PTL
============================================================================
