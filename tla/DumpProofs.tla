----------------------------- MODULE DumpProofs ----------------------------
(***************************************************************************)
(* What timeoutDump finds and copies of a package's output, whatever texts *)
(* its events have.                                                        *)
(***************************************************************************)
EXTENDS DumpStream, SequenceFacts, FiniteSetTheorems

\* The lumps of events, and those the code writes.
Lump == STRING \cup {NL, Truncation} \cup {Signature[i] : i \in 1..3}
Text == Seq(Lump)

LEMMA TheLeast ==
    ASSUME NEW S \in SUBSET Nat, S # {}
    PROVE  Min(S) \in S /\ \A m \in S : Min(S) <= m
BY Least DEF Min

LEMMA TheGreatest ==
    ASSUME NEW n \in Nat, NEW S \in SUBSET (0..n), S # {}
    PROVE  Max(S) \in S /\ \A m \in S : m <= Max(S)
<1>1. \E x \in S : \A y \in S : x >= y
  BY Greatest
<1>2. Max(S) \in S /\ \A y \in S : Max(S) >= y
  BY <1>1 DEF Max
<1> QED BY <1>2

\* Two texts are glued as their lumps are.
LEMMA Glue ==
    ASSUME NEW t \in Text, NEW f \in Text
    PROVE  /\ t \o f \in Text /\ Len(t) \in Nat /\ Len(f) \in Nat
           /\ Len(t \o f) = Len(t) + Len(f)
           /\ \A i \in 1..Len(t) : (t \o f)[i] = t[i]
           /\ \A i \in 1..Len(f) : (t \o f)[Len(t) + i] = f[i]
<1>1. Len(t) \in Nat /\ Len(f) \in Nat
  BY LenProperties DEF Text
<1>2. /\ t \o f \in Text /\ Len(t \o f) = Len(t) + Len(f)
      /\ \A i \in 1..Len(t) + Len(f) : (t \o f)[i] = IF i <= Len(t) THEN t[i] ELSE f[i - Len(t)]
  BY ConcatProperties DEF Text
<1>3. \A i \in 1..Len(t) : i \in 1..Len(t) + Len(f) /\ i <= Len(t)
  BY <1>1
<1>4. ASSUME NEW i \in 1..Len(f) PROVE (t \o f)[Len(t) + i] = f[i]
  <2>1. Len(t) + i \in 1..Len(t) + Len(f) /\ ~(Len(t) + i <= Len(t)) /\ Len(t) + i - Len(t) = i
    BY <1>1
  <2> QED BY <1>2, <2>1
<1> QED BY <1>1, <1>2, <1>3, <1>4

\* A part of a text, lump by lump.
LEMMA PartOf ==
    ASSUME NEW t \in Text, NEW i \in Nat \ {0}, NEW j \in 0..Len(t), i <= j + 1
    PROVE  /\ SubSeq(t, i, j) \in Text /\ Len(SubSeq(t, i, j)) = j - i + 1
           /\ \A n \in 1..(j - i + 1) : SubSeq(t, i, j)[n] = t[i + n - 1]
<1>1. Len(t) \in Nat /\ i \in Int /\ j \in Int
  BY LenProperties DEF Text
<1>2. ASSUME NEW n \in i..j PROVE t[n] \in Lump
  <2>1. n \in 1..Len(t)
    BY <1>1
  <2> QED BY <2>1, ElementOfSeq DEF Text
<1>3. /\ SubSeq(t, i, j) \in Text
      /\ Len(SubSeq(t, i, j)) = IF i <= j THEN j - i + 1 ELSE 0
      /\ \A n \in 1..(j - i + 1) : SubSeq(t, i, j)[n] = t[i + n - 1]
  BY <1>1, <1>2, SubSeqProperties DEF Text
<1> QED BY <1>1, <1>3

LEMMA SameText ==
    ASSUME NEW s \in Text, NEW t \in Text, Len(s) = Len(t), \A i \in 1..Len(s) : s[i] = t[i]
    PROVE  s = t
BY SeqEqual DEF Text
----------------------------------------------------------------------------
(* Where lines and the signature start.                                    *)

\* The signature is in t from i on.
Has(t, i) ==
    /\ i + 2 <= Len(t)
    /\ t[i] = Signature[1] /\ t[i + 1] = Signature[2] /\ t[i + 2] = Signature[3]

\* The last line of t, which is unfinished or empty, starts at s.
Open(t, s) ==
    /\ s \in 1..(Len(t) + 1)
    /\ s = 1 \/ t[s - 1] = NL
    /\ \A j \in s..Len(t) : t[j] # NL

\* It may become the signature's.
Starting(t, s) == Len(t) <= s + 2 /\ \A j \in 1..(Len(t) - s + 1) : t[s + j - 1] = Signature[j]

LEMMA TheSignature ==
    /\ Signature \in Text /\ Len(Signature) = 3
    /\ NL # Signature[1] /\ NL # Signature[2] /\ NL # Signature[3]
    /\ NL \in Lump /\ Truncation \in Lump
<1>1. Signature = <<Signature[1], Signature[2], Signature[3]>> /\ Len(Signature) = 3
  BY DEF Signature
<1>2. Signature[1] \in Lump /\ Signature[2] \in Lump /\ Signature[3] \in Lump
  BY DEF Lump
<1>3. \A a, b, c \in Lump : <<a, b, c>> \in Seq(Lump)
  OBVIOUS
<1>4. NL # Signature[1] /\ NL # Signature[2] /\ NL # Signature[3]
  BY DEF Signature, NL
<1>5. Signature \in Seq(Lump)
  BY <1>1, <1>2, <1>3, Zenon
<1> QED BY <1>1, <1>4, <1>5 DEF Lump, Text

LEMMA StartsWith ==
    ASSUME NEW s \in Text
    PROVE  IsPrefix(Signature, s) <=> Has(s, 1)
<1>1. Len(s) \in Nat
  BY LenProperties DEF Text
<1>2. IsPrefix(Signature, s) <=> 3 <= Len(s) /\ \A i \in 1..3 : Signature[i] = s[i]
  <2>1. Signature \in Seq(Lump) /\ s \in Seq(Lump) /\ Len(Signature) = 3
    BY TheSignature DEF Text
  <2>2. IsPrefix(Signature, s) <=>
          Len(Signature) <= Len(s) /\ \A i \in 1..Len(Signature) : Signature[i] = s[i]
    BY <2>1, PrefixIs
  <2> QED BY <2>1, <2>2
<1>3. (\A i \in 1..3 : Signature[i] = s[i]) <=>
        s[1] = Signature[1] /\ s[2] = Signature[2] /\ s[3] = Signature[3]
  OBVIOUS
<1> QED BY <1>1, <1>2, <1>3, TheSignature DEF Has

LEMMA MayStart ==
    ASSUME NEW s \in Text
    PROVE  IsPrefix(s, Signature) <=> Starting(s, 1)
<1>1. Len(s) \in Nat
  BY LenProperties DEF Text
<1>2. IsPrefix(s, Signature) <=> Len(s) <= 3 /\ \A i \in 1..Len(s) : s[i] = Signature[i]
  BY TheSignature, PrefixIs DEF Text
<1>3. Len(s) - 1 + 1 = Len(s) /\ 1 + 2 = 3 /\ \A i \in 1..Len(s) : 1 + i - 1 = i
  BY <1>1
<1> QED BY <1>2, <1>3 DEF Starting

LEMMA SignatureAt ==
    ASSUME NEW t \in Text, NEW i \in 1..Len(t)
    PROVE  IsPrefix(Signature, SubSeq(t, i, Len(t))) <=> Has(t, i)
<1>1. Len(t) \in Nat
  BY LenProperties DEF Text
<1> DEFINE s == SubSeq(t, i, Len(t))
<1>2. /\ s \in Text /\ Len(s) = Len(t) - i + 1
      /\ \A n \in 1..(Len(t) - i + 1) : s[n] = t[i + n - 1]
  BY <1>1, PartOf
<1> HIDE DEF s
<1>3. IsPrefix(Signature, s) <=> Has(s, 1)
  BY <1>2, StartsWith
<1>4. 1 + 2 <= Len(s) <=> i + 2 <= Len(t)
  BY <1>1, <1>2
<1>5. ASSUME i + 2 <= Len(t) PROVE s[1] = t[i] /\ s[1 + 1] = t[i + 1] /\ s[1 + 2] = t[i + 2]
  <2>1. /\ 1 \in 1..(Len(t) - i + 1) /\ i + 1 - 1 = i
        /\ 1 + 1 \in 1..(Len(t) - i + 1) /\ i + (1 + 1) - 1 = i + 1
        /\ 1 + 2 \in 1..(Len(t) - i + 1) /\ i + (1 + 2) - 1 = i + 2
    BY <1>1, <1>5
  <2> QED BY <1>2, <2>1
<1>6. Has(s, 1) <=> Has(t, i)
  BY <1>4, <1>5 DEF Has
<1> QED BY <1>3, <1>6 DEF s

\* A line ends at its newline or with the text.
LEMMA TheLineFrom ==
    ASSUME NEW t \in Text, NEW i \in 1..Len(t)
    PROVE  \E e \in i..Len(t) : /\ LineFrom(t, i) = SubSeq(t, i, e)
                                /\ e = Len(t) \/ t[e] = NL
                                /\ \A j \in i..(e - 1) : t[j] # NL
<1>1. Len(t) \in Nat
  BY LenProperties DEF Text
<1> DEFINE ends == {j \in LineEnds(t) : j >= i}
<1>2. LineFrom(t, i) = SubSeq(t, i, IF ends = {} THEN Len(t) ELSE Min(ends))
  BY DEF LineFrom
<1>3. ends \in SUBSET Nat /\ \A j : j \in ends <=> j \in i..Len(t) /\ t[j] = NL
  BY <1>1 DEF LineEnds
<1> HIDE DEF ends
<1>4. CASE ends = {}
  BY <1>1, <1>2, <1>3, <1>4
<1>5. CASE ends # {}
  <2>1. Min(ends) \in ends /\ \A m \in ends : Min(ends) <= m
    BY <1>3, <1>5, TheLeast
  <2> DEFINE e == Min(ends)
  <2> HIDE DEF e
  <2>2. e \in i..Len(t) /\ t[e] = NL /\ LineFrom(t, i) = SubSeq(t, i, e)
    BY <1>2, <1>3, <1>5, <2>1 DEF e
  <2>3. ASSUME NEW j \in i..(e - 1) PROVE t[j] # NL
    <3>1. j \in i..Len(t) /\ ~(e <= j)
      BY <1>1, <2>2
    <3> QED BY <1>3, <2>1, <3>1 DEF e
  <2> QED BY <2>2, <2>3
<1> QED BY <1>4, <1>5

\* The signature is looked for in a line as in the text from there on: it holds
\* no newline. h is what was kept of the line.
LEMMA SignatureInLine ==
    ASSUME NEW h \in Text, NEW f \in Text, NEW i \in 1..Len(f)
    PROVE  /\ LineFrom(f, i) \in Text
           /\ IsPrefix(Signature, h \o LineFrom(f, i)) <=> Has(h \o SubSeq(f, i, Len(f)), 1)
<1>1. Len(f) \in Nat /\ Len(h) \in Nat
  BY LenProperties DEF Text
<1>2. PICK e \in i..Len(f) : /\ LineFrom(f, i) = SubSeq(f, i, e)
                             /\ e = Len(f) \/ f[e] = NL
                             /\ \A j \in i..(e - 1) : f[j] # NL
  BY TheLineFrom
<1> DEFINE l == SubSeq(f, i, e)
           r == SubSeq(f, i, Len(f))
           a == h \o l
           b == h \o r
<1>3. /\ l \in Text /\ Len(l) = e - i + 1 /\ \A n \in 1..(e - i + 1) : l[n] = f[i + n - 1]
      /\ r \in Text /\ Len(r) = Len(f) - i + 1
      /\ \A n \in 1..(Len(f) - i + 1) : r[n] = f[i + n - 1]
  BY <1>1, <1>2, PartOf
<1> HIDE DEF l, r
<1>4. /\ a \in Text /\ Len(a) = Len(h) + Len(l)
      /\ \A n \in 1..Len(h) : a[n] = h[n]
      /\ \A n \in 1..Len(l) : a[Len(h) + n] = l[n]
  BY <1>3, Glue
<1>5. /\ b \in Text /\ Len(b) = Len(h) + Len(r)
      /\ \A n \in 1..Len(h) : b[n] = h[n]
      /\ \A n \in 1..Len(r) : b[Len(h) + n] = r[n]
  BY <1>3, Glue
<1> HIDE DEF a, b
<1>6. Len(a) \in Nat /\ Len(b) \in Nat /\ Len(a) <= Len(b) /\ Len(a) = Len(h) + (e - i + 1)
  BY <1>1, <1>3, <1>4, <1>5
<1>7. ASSUME NEW n \in 1..Len(a) PROVE a[n] = b[n]
  <2>1. CASE n <= Len(h)
    BY <1>1, <1>4, <1>5, <2>1
  <2>2. CASE ~(n <= Len(h))
    <3>1. /\ n - Len(h) \in 1..(e - i + 1) /\ n - Len(h) \in 1..Len(l)
          /\ n - Len(h) \in 1..(Len(f) - i + 1) /\ n - Len(h) \in 1..Len(r)
          /\ Len(h) + (n - Len(h)) = n
      BY <1>1, <1>3, <1>6, <2>2
    <3>2. /\ a[Len(h) + (n - Len(h))] = l[n - Len(h)]
          /\ b[Len(h) + (n - Len(h))] = r[n - Len(h)]
          /\ l[n - Len(h)] = r[n - Len(h)]
      BY <1>3, <1>4, <1>5, <3>1
    <3> QED BY <3>1, <3>2
  <2> QED BY <2>1, <2>2
<1>8. Len(a) = Len(b) \/ b[Len(a)] = NL
  <2>1. e - i + 1 \in 1..(Len(f) - i + 1) /\ e - i + 1 \in 1..Len(r) /\ i + (e - i + 1) - 1 = e
    BY <1>1, <1>3
  <2>2. b[Len(h) + (e - i + 1)] = f[e]
    BY <1>3, <1>5, <2>1
  <2>3. e = Len(f) => Len(a) = Len(b)
    BY <1>3, <1>5, <1>6
  <2> QED BY <1>2, <1>6, <2>2, <2>3
<1>9. Has(a, 1) <=> Has(b, 1)
  <2>1. ASSUME Has(a, 1) PROVE Has(b, 1)
    <3>1. 3 <= Len(a) /\ 3 <= Len(b) /\ a[1] = b[1] /\ a[2] = b[2] /\ a[3] = b[3]
      BY <1>6, <1>7, <2>1 DEF Has
    <3> QED BY <2>1, <3>1 DEF Has
  <2>2. ASSUME Has(b, 1) PROVE Has(a, 1)
    <3>1. Len(a) >= 1
      BY <1>1, <1>6
    <3>2. 3 <= Len(b) /\ b[1] # NL /\ b[2] # NL
      BY <2>2, TheSignature DEF Has
    <3>3. 3 <= Len(a)
      BY <1>6, <1>8, <3>1, <3>2
    <3>4. a[1] = b[1] /\ a[2] = b[2] /\ a[3] = b[3]
      BY <1>6, <1>7, <3>3
    <3> QED BY <2>2, <3>3, <3>4 DEF Has
  <2> QED BY <2>1, <2>2
<1>10. IsPrefix(Signature, a) <=> Has(a, 1)
  BY <1>4, StartsWith
<1> QED BY <1>2, <1>3, <1>9, <1>10 DEF a, b, l, r
----------------------------------------------------------------------------
(* One more event: scan against the whole text.                            *)

DumpRecord ==
    [head : Text, headTest : Tests \cup {NoTest}, midLine : BOOLEAN, active : BOOLEAN,
     retained : BOOLEAN, pending : Text, inStacks : BOOLEAN, copied : Nat, truncated : BOOLEAN]

\* What r remembers of a text t, given to the tests o, without the signature.
Remembers(r, t, o, s) ==
    /\ Open(t, s)
    /\ r.midLine <=> ~Starting(t, s)
    /\ r.head = IF r.midLine THEN <<>> ELSE SubSeq(t, s, Len(t))
    /\ r.head # <<>> => r.headTest = o[s]

\* Nothing has been copied.
Idle(r) == ~r.active /\ r.pending = <<>> /\ ~r.inStacks /\ r.copied = 0 /\ ~r.truncated

\* Where the line that starts at m of an event starts in the whole text.
Whole(t, s, m) == IF m = 1 THEN s ELSE Len(t) + m

LEMMA SignaturesAre ==
    ASSUME NEW t \in Text
    PROVE  /\ Signatures(t) = {i \in LineStarts(t) : Has(t, i)}
           /\ LineStarts(t) \in SUBSET (1..Len(t)) /\ Len(t) \in Nat
           /\ \A i : i \in LineStarts(t) <=> i \in 1..Len(t) /\ (i = 1 \/ t[i - 1] = NL)
<1>1. Len(t) \in Nat
  BY LenProperties DEF Text
<1>2. \A i : i \in LineStarts(t) <=> i \in 1..Len(t) /\ (i = 1 \/ t[i - 1] = NL)
  BY DEF LineStarts
<1>3. \A i \in LineStarts(t) : IsPrefix(Signature, SubSeq(t, i, Len(t))) <=> Has(t, i)
  BY <1>2, SignatureAt
<1> QED BY <1>1, <1>2, <1>3 DEF Signatures

\* From a place in t on, t with f after it is what is left of t, with f after it.
LEMMA Remainder ==
    ASSUME NEW t \in Text, NEW f \in Text, NEW s \in 1..(Len(t) + 1)
    PROVE  /\ SubSeq(t, s, Len(t)) \in Text
           /\ SubSeq(t, s, Len(t)) \o f = SubSeq(t \o f, s, Len(t \o f))
<1> DEFINE h == SubSeq(t, s, Len(t))
           a == t \o f
           u == SubSeq(a, s, Len(a))
           v == h \o f
<1>1. /\ a \in Text /\ Len(t) \in Nat /\ Len(f) \in Nat /\ Len(a) = Len(t) + Len(f)
      /\ \A i \in 1..Len(t) : a[i] = t[i]
      /\ \A i \in 1..Len(f) : a[Len(t) + i] = f[i]
  BY Glue
<1>2. /\ h \in Text /\ Len(h) = Len(t) - s + 1
      /\ \A n \in 1..(Len(t) - s + 1) : h[n] = t[s + n - 1]
  BY <1>1, PartOf
<1> HIDE DEF a, h
<1>3. /\ u \in Text /\ Len(u) = Len(a) - s + 1
      /\ \A n \in 1..(Len(a) - s + 1) : u[n] = a[s + n - 1]
  <2>1. s \in Nat \ {0} /\ Len(a) \in 0..Len(a) /\ s <= Len(a) + 1
    BY <1>1
  <2> QED BY <1>1, <2>1, PartOf
<1>4. /\ v \in Text /\ Len(v) = Len(h) + Len(f)
      /\ \A i \in 1..Len(h) : v[i] = h[i]
      /\ \A i \in 1..Len(f) : v[Len(h) + i] = f[i]
  BY <1>2, Glue
<1> HIDE DEF u, v
<1>5. Len(u) = Len(v)
  BY <1>1, <1>2, <1>3, <1>4
<1>6. ASSUME NEW n \in 1..Len(u) PROVE u[n] = v[n]
  <2>1. u[n] = a[s + n - 1]
    BY <1>3
  <2>2. CASE n <= Len(h)
    <3>1. n \in 1..Len(h) /\ n \in 1..(Len(t) - s + 1) /\ s + n - 1 \in 1..Len(t)
      BY <1>1, <1>2, <2>2
    <3> QED BY <1>1, <1>2, <1>4, <2>1, <3>1
  <2>3. CASE ~(n <= Len(h))
    <3>1. PICK k \in Int : k = n - Len(h)
      <4>1. n \in Int /\ Len(h) \in Int
        BY <1>1, <1>2, <1>3
      <4>2. n - Len(h) \in Int
        BY <4>1
      <4> QED BY <4>2
    <3>2. k \in 1..Len(f) /\ n = Len(h) + k /\ s + n - 1 = Len(t) + k
      BY <1>1, <1>2, <1>3, <2>3, <3>1
    <3>3. v[Len(h) + k] = f[k] /\ a[Len(t) + k] = f[k]
      BY <1>1, <1>4, <3>2
    <3> QED BY <2>1, <3>2, <3>3
  <2> QED BY <2>2, <2>3
<1>7. u = v
  BY <1>3, <1>4, <1>5, <1>6, SameText
<1> QED BY <1>2, <1>7 DEF u, v, a, h

\* A line is a hit if the whole text has the signature where the line starts.
LEMMA HitIs ==
    ASSUME NEW t \in Text, NEW f \in Text, NEW r, NEW o, NEW s, Remembers(r, t, o, s),
           Signatures(t) = {}, NEW m \in LineStarts(f)
    PROVE  /\ m \in Hits(r, f) <=> Has(t \o f, Whole(t, s, m))
           /\ Whole(t, s, m) \in LineStarts(t \o f)
<1> DEFINE a == t \o f
<1>1. /\ a \in Text /\ Len(t) \in Nat /\ Len(f) \in Nat /\ Len(a) = Len(t) + Len(f)
      /\ \A i \in 1..Len(t) : a[i] = t[i]
      /\ \A i \in 1..Len(f) : a[Len(t) + i] = f[i]
  BY Glue
<1>2. m \in 1..Len(f) /\ (m = 1 \/ f[m - 1] = NL)
  BY SignaturesAre
<1>3. s \in 1..(Len(t) + 1) /\ (s = 1 \/ t[s - 1] = NL)
  BY DEF Remembers, Open
<1>4. /\ LineFrom(f, m) \in Text
      /\ \A h \in Text : IsPrefix(Signature, h \o LineFrom(f, m)) <=> Has(h \o SubSeq(f, m, Len(f)), 1)
  BY <1>2, SignatureInLine
<1>5. m \in Hits(r, f) <=> ~(m = 1 /\ r.midLine) /\ IsPrefix(Signature, Line(r, f, m))
  BY DEF Hits, MayBeSignature
<1> HIDE DEF a
<1>6. \A i \in LineStarts(a) : Has(SubSeq(a, i, Len(a)), 1) <=> Has(a, i)
  <2> TAKE i \in LineStarts(a)
  <2>1. i \in 1..Len(a) /\ i \in Nat \ {0} /\ Len(a) \in 0..Len(a) /\ i <= Len(a) + 1
    BY <1>1, SignaturesAre
  <2>2. SubSeq(a, i, Len(a)) \in Text
    BY <1>1, <2>1, PartOf
  <2> QED BY <1>1, <2>1, <2>2, SignatureAt, StartsWith
<1>7. CASE m = 1
  <2>1. s \in LineStarts(a)
    <3>1. s \in 1..Len(a)
      BY <1>1, <1>2, <1>3
    <3>2. s # 1 => s - 1 \in 1..Len(t)
      BY <1>1, <1>3
    <3>3. s = 1 \/ a[s - 1] = NL
      BY <1>1, <1>3, <3>2
    <3> QED BY <1>1, <3>1, <3>3, SignaturesAre
  <2>2. SubSeq(f, 1, Len(f)) = f
    BY SubSeqFull DEF Text
  <2>3. CASE r.midLine
    <3>1. ~Starting(t, s)
      BY <2>3 DEF Remembers
    <3>2. ASSUME Has(a, s) PROVE FALSE
      <4>1. CASE s + 2 <= Len(t)
        <5>1. s \in 1..Len(t) /\ s + 1 \in 1..Len(t) /\ s + 2 \in 1..Len(t)
          BY <1>1, <1>3, <4>1
        <5>2. Has(t, s)
          BY <1>1, <3>2, <4>1, <5>1 DEF Has
        <5>3. s \in LineStarts(t)
          BY <1>3, <5>1, SignaturesAre
        <5> QED BY <5>2, <5>3, SignaturesAre
      <4>2. CASE ~(s + 2 <= Len(t))
        <5>1. PICK j \in 1..(Len(t) - s + 1) : t[s + j - 1] # Signature[j]
          BY <1>1, <1>3, <3>1, <4>2 DEF Starting
        <5>2. j \in {1, 2} /\ s + j - 1 \in 1..Len(t) /\ (j = 1 => s + j - 1 = s) /\ (j = 2 => s + j - 1 = s + 1)
          BY <1>1, <1>3, <4>2, <5>1
        <5>3. a[s + j - 1] = t[s + j - 1]
          BY <1>1, <5>2
        <5> QED BY <3>2, <5>1, <5>2, <5>3 DEF Has
      <4> QED BY <4>1, <4>2
    <3> QED BY <1>5, <1>7, <2>1, <2>3, <3>2 DEF a, Whole
  <2>4. CASE ~r.midLine
    <3>1. r.head = SubSeq(t, s, Len(t))
      BY <2>4 DEF Remembers
    <3>2. r.head \in Text /\ r.head \o f = SubSeq(a, s, Len(a))
      BY <1>3, <3>1, Remainder DEF a
    <3>3. IsPrefix(Signature, Line(r, f, m)) <=> Has(r.head \o f, 1)
      BY <1>4, <1>7, <2>2, <3>2 DEF Line
    <3>4. Has(r.head \o f, 1) <=> Has(a, s)
      BY <1>6, <2>1, <3>2
    <3> QED BY <1>5, <1>7, <2>1, <2>4, <3>3, <3>4 DEF a, Whole
  <2> QED BY <2>3, <2>4
<1>8. CASE m # 1
  <2>1. Len(t) + m \in LineStarts(a)
    <3>1. Len(t) + m \in 1..Len(a) /\ m - 1 \in 1..Len(f) /\ Len(t) + m - 1 = Len(t) + (m - 1)
      BY <1>1, <1>2, <1>8
    <3>2. a[Len(t) + m - 1] = NL
      BY <1>1, <1>2, <1>8, <3>1
    <3> QED BY <1>1, <3>1, <3>2, SignaturesAre
  <2>2. <<>> \in Text /\ \A u \in Text : <<>> \o u = u
    BY EmptySeq, ConcatEmptySeq DEF Text
  <2>3. SubSeq(f, m, Len(f)) \in Text
    <3>1. m \in Nat \ {0} /\ Len(f) \in 0..Len(f) /\ m <= Len(f) + 1
      BY <1>1, <1>2
    <3> QED BY <3>1, PartOf
  <2>4. IsPrefix(Signature, Line(r, f, m)) <=> Has(SubSeq(f, m, Len(f)), 1)
    BY <1>4, <1>8, <2>2, <2>3 DEF Line
  <2>5. Has(SubSeq(f, m, Len(f)), 1) <=> Has(f, m)
    BY <1>2, <2>3, SignatureAt, StartsWith
  <2>6. Has(f, m) <=> Has(a, Len(t) + m)
    <3>1. m + 2 <= Len(f) <=> Len(t) + m + 2 <= Len(a)
      BY <1>1, <1>2
    <3>2. ASSUME m + 2 <= Len(f)
          PROVE  /\ a[Len(t) + m] = f[m] /\ a[Len(t) + m + 1] = f[m + 1]
                 /\ a[Len(t) + m + 2] = f[m + 2]
      <4>1. /\ m + 1 \in 1..Len(f) /\ Len(t) + m + 1 = Len(t) + (m + 1)
            /\ m + 2 \in 1..Len(f) /\ Len(t) + m + 2 = Len(t) + (m + 2)
        BY <1>1, <1>2, <3>2
      <4>2. a[Len(t) + (m + 1)] = f[m + 1] /\ a[Len(t) + (m + 2)] = f[m + 2]
        BY <1>1, <4>1
      <4> QED BY <1>1, <1>2, <4>1, <4>2
    <3> QED BY <3>1, <3>2 DEF Has
  <2> QED BY <1>5, <1>8, <2>1, <2>4, <2>5, <2>6 DEF a, Whole
<1> QED BY <1>7, <1>8

\* The signatures of the whole text are the hits.
LEMMA SignaturesGrow ==
    ASSUME NEW t \in Text, NEW f \in Text, f # <<>>, NEW r, NEW o, NEW s,
           Remembers(r, t, o, s), Signatures(t) = {}
    PROVE  Signatures(t \o f) = {Whole(t, s, m) : m \in Hits(r, f)}
<1> DEFINE a == t \o f
<1>1. /\ a \in Text /\ Len(t) \in Nat /\ Len(f) \in Nat /\ Len(a) = Len(t) + Len(f)
      /\ \A i \in 1..Len(t) : a[i] = t[i]
      /\ \A i \in 1..Len(f) : a[Len(t) + i] = f[i]
  BY Glue
<1> HIDE DEF a
<1>2. Len(f) >= 1
  BY <1>1, EmptySeq DEF Text
<1>3. /\ s \in 1..(Len(t) + 1) /\ (s = 1 \/ t[s - 1] = NL)
      /\ \A j \in s..Len(t) : t[j] # NL
  BY DEF Remembers, Open
<1>4. ASSUME NEW m \in LineStarts(f)
      PROVE  (m \in Hits(r, f) <=> Has(a, Whole(t, s, m))) /\ Whole(t, s, m) \in LineStarts(a)
  BY HitIs DEF a
<1>5. Hits(r, f) \subseteq LineStarts(f)
  BY DEF Hits
<1>6. ASSUME NEW i \in LineStarts(a), Has(a, i)
      PROVE  \E m \in LineStarts(f) : i = Whole(t, s, m)
  <2>1. i \in 1..Len(a) /\ (i = 1 \/ a[i - 1] = NL)
    BY <1>1, SignaturesAre
  <2>2. 1 \in LineStarts(f)
    BY <1>1, <1>2, SignaturesAre
  <2>3. CASE i = s
    BY <2>2, <2>3 DEF Whole
  <2>4. CASE i < s
    <3>1. i + 2 <= Len(a)
      BY <1>6 DEF Has
    <3>2. s - 1 \in 1..Len(t) /\ a[s - 1] = NL
      BY <1>1, <1>3, <2>1, <2>4
    <3>3. a[i] # NL /\ a[i + 1] # NL /\ a[i + 2] # NL
      BY <1>6, TheSignature DEF Has
    <3>4. s - 1 # i /\ s - 1 # i + 1 /\ s - 1 # i + 2
      BY <3>2, <3>3
    <3>5. i + 2 < s - 1
      <4>1. s \in Int /\ i \in Int
        BY <1>1, <1>3, <2>1
      <4> QED BY <2>4, <3>4, <4>1
    <3>6. i \in 1..Len(t) /\ i + 1 \in 1..Len(t) /\ i + 2 \in 1..Len(t) /\ (i # 1 => i - 1 \in 1..Len(t))
      BY <1>1, <2>1, <3>2, <3>5
    <3>7. t[i] = a[i] /\ t[i + 1] = a[i + 1] /\ t[i + 2] = a[i + 2] /\ (i # 1 => t[i - 1] = a[i - 1])
      BY <1>1, <3>6
    <3>8. Has(t, i)
      BY <1>1, <1>6, <3>6, <3>7 DEF Has
    <3>9. i \in LineStarts(t)
      BY <2>1, <3>6, <3>7, SignaturesAre
    <3> QED BY <3>8, <3>9, SignaturesAre
  <2>5. CASE i > s
    <3>1. i # 1 /\ a[i - 1] = NL
      BY <1>3, <2>1, <2>5
    <3>2. i > Len(t) + 1
      <4>1. SUFFICES ASSUME i <= Len(t) + 1 PROVE FALSE
        BY <1>1, <2>1
      <4>2. i - 1 \in s..Len(t) /\ i - 1 \in 1..Len(t)
        BY <1>1, <1>3, <2>1, <2>5, <4>1
      <4> QED BY <1>1, <1>3, <3>1, <4>2
    <3>3. PICK m \in Int : m = i - Len(t)
      <4>1. i - Len(t) \in Int
        BY <1>1, <2>1
      <4> QED BY <4>1
    <3>4. m \in 1..Len(f) /\ m # 1 /\ m - 1 \in 1..Len(f) /\ Len(t) + m = i /\ Len(t) + (m - 1) = i - 1
      BY <1>1, <2>1, <3>2, <3>3
    <3>5. a[Len(t) + (m - 1)] = f[m - 1]
      BY <1>1, <3>4
    <3>6. m \in LineStarts(f)
      BY <3>1, <3>4, <3>5, SignaturesAre
    <3> QED BY <3>4, <3>6 DEF Whole
  <2> QED BY <1>3, <2>1, <2>3, <2>4, <2>5
<1>7. Signatures(a) = {i \in LineStarts(a) : Has(a, i)}
  BY <1>1, SignaturesAre
<1>8. ASSUME NEW i \in Signatures(a) PROVE \E m \in Hits(r, f) : i = Whole(t, s, m)
  <2>1. i \in LineStarts(a) /\ Has(a, i)
    BY <1>7
  <2>2. PICK m \in LineStarts(f) : i = Whole(t, s, m)
    BY <1>6, <2>1
  <2> QED BY <1>4, <2>1, <2>2
<1>9. ASSUME NEW m \in Hits(r, f) PROVE Whole(t, s, m) \in Signatures(a)
  BY <1>4, <1>5, <1>7
<1> QED BY <1>8, <1>9 DEF a

\* The last line that starts in a text has no newline but its last lump.
LEMMA LastLine ==
    ASSUME NEW f \in Text, f # <<>>
    PROVE  /\ Max(LineStarts(f)) \in LineStarts(f) /\ Len(f) \in Nat \ {0}
           /\ \A j \in Max(LineStarts(f))..(Len(f) - 1) : f[j] # NL
<1> DEFINE last == Max(LineStarts(f))
<1>1. /\ LineStarts(f) \in SUBSET (1..Len(f)) /\ Len(f) \in Nat
      /\ \A i : i \in LineStarts(f) <=> i \in 1..Len(f) /\ (i = 1 \/ f[i - 1] = NL)
  BY SignaturesAre
<1>2. Len(f) \in Nat \ {0}
  BY EmptySeq DEF Text
<1>3. LineStarts(f) \in SUBSET (0..Len(f)) /\ 1 \in LineStarts(f)
  BY <1>1, <1>2
<1>4. last \in LineStarts(f) /\ \A m \in LineStarts(f) : m <= last
  BY <1>1, <1>3, TheGreatest
<1> HIDE DEF last
<1>5. ASSUME NEW j \in last..(Len(f) - 1), f[j] = NL PROVE FALSE
  <2>1. j + 1 \in 1..Len(f) /\ j + 1 - 1 = j /\ ~(j + 1 <= last)
    BY <1>1, <1>4
  <2>2. j + 1 \in LineStarts(f)
    BY <1>1, <1>5, <2>1
  <2> QED BY <1>4, <2>1, <2>2
<1> QED BY <1>2, <1>4, <1>5 DEF last

\* timeoutDump when it found the signature in f.
FoundIn(r, f, keep) == [Found(r, f) EXCEPT !.retained = keep]

\* The tests a text was given to, with f given to test.
GivenTo(o, f, test) == o \o [i \in DOMAIN f |-> test]

\* scan found it: what is routed to the dump is the text from its line on.
LEMMA FoundStep ==
    ASSUME NEW t \in Text, NEW f \in Text, f # <<>>, NEW r \in DumpRecord, NEW o, NEW s,
           Remembers(r, t, o, s), Signatures(t) = {}, Idle(r), Hits(r, f) # {},
           NEW test \in Tests, NEW keep \in BOOLEAN
    PROVE  LET q == Route(r, f, test, keep)
               a == t \o f
           IN  /\ Signatures(a) # {} /\ q.dump # <<>>
               /\ q.d = FoundIn(r, f, keep)
               /\ q.carried \o q.dump = SubSeq(a, Min(Signatures(a)), Len(a))
               /\ Min(Signatures(a)) \in Signatures(a)
               /\ q.carried # <<>> => /\ q.carriedTest = o[Min(Signatures(a))]
                                      /\ Min(Signatures(a)) <= Len(t)
<1> DEFINE q == Route(r, f, test, keep)
           a == t \o f
           start == Min(Hits(r, f))
           at == Min(Signatures(a))
<1>1. /\ a \in Text /\ Len(t) \in Nat /\ Len(f) \in Nat /\ Len(a) = Len(t) + Len(f)
      /\ \A i \in 1..Len(t) : a[i] = t[i]
      /\ \A i \in 1..Len(f) : a[Len(t) + i] = f[i]
  BY Glue
<1>2. q = [d |-> [Found(r, f) EXCEPT !.retained = keep],
           before |-> SubSeq(f, 1, start - 1),
           dump |-> SubSeq(f, start, Len(f)),
           carried |-> Carried(r, start),
           carriedTest |-> IF start = 1 THEN r.headTest ELSE NoTest]
  BY DEF Route, Idle
<1> HIDE DEF q
<1>3. Hits(r, f) \subseteq LineStarts(f) /\ LineStarts(f) \in SUBSET (1..Len(f))
  BY SignaturesAre DEF Hits
<1>4. start \in Hits(r, f) /\ \A m \in Hits(r, f) : start <= m
  BY <1>1, <1>3, TheLeast
<1>5. Signatures(a) = {Whole(t, s, m) : m \in Hits(r, f)}
  BY SignaturesGrow
<1>6. s \in 1..(Len(t) + 1)
  BY DEF Remembers, Open
<1> HIDE DEF start, a
<1>7. start \in 1..Len(f)
  BY <1>3, <1>4
<1>8. Whole(t, s, start) \in Signatures(a) /\ Signatures(a) \in SUBSET Nat
  <2>1. \A m \in Hits(r, f) : Whole(t, s, m) \in Nat
    BY <1>1, <1>3, <1>6 DEF Whole
  <2> QED BY <1>4, <1>5, <2>1
<1>9. at \in Signatures(a) /\ \A m \in Signatures(a) : at <= m
  BY <1>8, TheLeast
<1>10. \A m \in Hits(r, f) : Whole(t, s, start) <= Whole(t, s, m)
  <2> TAKE m \in Hits(r, f)
  <2>1. start <= m /\ m \in 1..Len(f)
    BY <1>3, <1>4
  <2> QED BY <1>1, <1>6, <1>7, <2>1 DEF Whole
<1>11. at = Whole(t, s, start)
  <2>1. PICK m \in Hits(r, f) : at = Whole(t, s, m)
    BY <1>5, <1>9
  <2>2. Whole(t, s, start) <= at /\ at <= Whole(t, s, start)
    BY <1>8, <1>9, <1>10, <2>1
  <2>3. at \in Nat /\ Whole(t, s, start) \in Nat
    BY <1>8, <1>9
  <2> QED BY <2>2, <2>3
<1> HIDE DEF at
<1>12. SubSeq(f, start, Len(f)) \in Text /\ Len(SubSeq(f, start, Len(f))) = Len(f) - start + 1
  <2>1. start \in Nat \ {0} /\ Len(f) \in 0..Len(f) /\ start <= Len(f) + 1
    BY <1>1, <1>7
  <2> QED BY <2>1, PartOf
<1>13. q.dump # <<>>
  <2>1. Len(SubSeq(f, start, Len(f))) # 0
    BY <1>1, <1>7, <1>12
  <2> QED BY <1>2, <2>1, EmptySeq
<1>14. CASE start = 1
  <2>1. ~r.midLine
    BY <1>4, <1>14 DEF Hits, MayBeSignature
  <2>2. r.head = SubSeq(t, s, Len(t)) /\ (r.head # <<>> => r.headTest = o[s])
    BY <2>1 DEF Remembers
  <2>3. q.carried = r.head /\ q.carriedTest = r.headTest /\ q.dump = f
    <3>1. SubSeq(f, 1, Len(f)) = f
      BY SubSeqFull DEF Text
    <3> QED BY <1>2, <1>14, <3>1 DEF Carried
  <2>4. r.head \o f = SubSeq(a, s, Len(a))
    BY <1>6, <2>2, Remainder DEF a
  <2>5. at = s
    BY <1>11, <1>14 DEF Whole
  <2>6. r.head # <<>> => s <= Len(t)
    <3>1. ASSUME s = Len(t) + 1 PROVE r.head = <<>>
      <4>1. Len(t) < s
        BY <1>1, <3>1
      <4> QED BY <1>1, <1>6, <2>2, <4>1, SubSeqEmpty
    <3> QED BY <1>1, <1>6, <3>1
  <2>7. q.d = FoundIn(r, f, keep)
    BY <1>2 DEF FoundIn
  <2> QED BY <1>8, <1>9, <1>13, <2>2, <2>3, <2>4, <2>5, <2>6, <2>7 DEF q, a, at
<1>15. CASE start # 1
  <2>1. q.carried = <<>> /\ q.dump = SubSeq(f, start, Len(f))
    BY <1>2, <1>15 DEF Carried
  <2>2. q.carried \o q.dump = SubSeq(f, start, Len(f))
    BY <1>12, <2>1, ConcatEmptySeq DEF Text
  <2>3. at = Len(t) + start
    BY <1>11, <1>15 DEF Whole
  <2>4. SubSeq(a, at, Len(a)) = SubSeq(f, start, Len(f))
    <3> DEFINE u == SubSeq(a, at, Len(a))
               v == SubSeq(f, start, Len(f))
    <3>1. /\ u \in Text /\ Len(u) = Len(a) - at + 1
          /\ \A n \in 1..(Len(a) - at + 1) : u[n] = a[at + n - 1]
      <4>1. at \in Nat \ {0} /\ Len(a) \in 0..Len(a) /\ at <= Len(a) + 1
        BY <1>1, <1>7, <2>3
      <4> QED BY <1>1, <4>1, PartOf
    <3>2. \A n \in 1..(Len(f) - start + 1) : v[n] = f[start + n - 1]
      <4>1. start \in Nat \ {0} /\ Len(f) \in 0..Len(f) /\ start <= Len(f) + 1
        BY <1>1, <1>7
      <4> QED BY <4>1, PartOf
    <3> HIDE DEF u, v
    <3>3. Len(u) = Len(v)
      BY <1>1, <1>7, <1>12, <2>3, <3>1 DEF v
    <3>4. ASSUME NEW n \in 1..Len(u) PROVE u[n] = v[n]
      <4>1. /\ n \in 1..(Len(a) - at + 1) /\ n \in 1..(Len(f) - start + 1)
            /\ start + n - 1 \in 1..Len(f) /\ at + n - 1 = Len(t) + (start + n - 1)
        BY <1>1, <1>7, <2>3, <3>1
      <4>2. a[Len(t) + (start + n - 1)] = f[start + n - 1]
        BY <1>1, <4>1
      <4> QED BY <3>1, <3>2, <4>1, <4>2
    <3> QED BY <1>12, <3>1, <3>3, <3>4, SameText DEF u, v
  <2>5. q.d = FoundIn(r, f, keep)
    BY <1>2 DEF FoundIn
  <2> QED BY <1>8, <1>9, <1>13, <2>1, <2>2, <2>4, <2>5 DEF q, a, at
<1> QED BY <1>14, <1>15

\* scan found nothing: what it remembers is that of the whole text.
LEMMA NotFoundStep ==
    ASSUME NEW t \in Text, NEW f \in Text, f # <<>>, NEW r \in DumpRecord,
           NEW o \in Seq(Tests), Len(o) = Len(t), NEW s,
           Remembers(r, t, o, s), Signatures(t) = {}, Idle(r), Hits(r, f) = {},
           NEW test \in Tests, NEW keep \in BOOLEAN
    PROVE  LET q == Route(r, f, test, keep)
               a == t \o f
           IN  /\ Signatures(a) = {} /\ q.dump = <<>>
               /\ q.d \in DumpRecord /\ Idle(q.d)
               /\ \E z : Remembers(q.d, a, GivenTo(o, f, test), z)
<1> DEFINE q == Route(r, f, test, keep)
           a == t \o f
           w == GivenTo(o, f, test)
           last == Max(LineStarts(f))
           line == Line(r, f, last)
           z == Whole(t, s, last)
<1>1. /\ a \in Text /\ Len(t) \in Nat /\ Len(f) \in Nat /\ Len(a) = Len(t) + Len(f)
      /\ \A i \in 1..Len(t) : a[i] = t[i]
      /\ \A i \in 1..Len(f) : a[Len(t) + i] = f[i]
  BY Glue
<1>2. q.d = NotFound(r, f, test) /\ q.dump = <<>>
  BY DEF Route, Idle
<1>3. Signatures(a) = {}
  BY SignaturesGrow
<1>4. /\ last \in LineStarts(f) /\ Len(f) \in Nat \ {0}
      /\ \A j \in last..(Len(f) - 1) : f[j] # NL
  BY LastLine
<1>5. last \in 1..Len(f) /\ (last = 1 \/ f[last - 1] = NL)
  BY <1>4, SignaturesAre
<1>6. /\ s \in 1..(Len(t) + 1) /\ (s = 1 \/ t[s - 1] = NL)
      /\ \A j \in s..Len(t) : t[j] # NL
  BY DEF Remembers, Open
<1>7. /\ \A i \in 1..Len(t) : w[i] = o[i]
      /\ \A i \in 1..Len(f) : w[Len(t) + i] = test
  <2> DEFINE u == [i \in DOMAIN f |-> test]
  <2>1. DOMAIN f = 1..Len(f)
    BY DEF Text
  <2>2. u \in Seq(Tests) /\ Len(u) = Len(f) /\ \A i \in 1..Len(f) : u[i] = test
    BY <1>1, <2>1
  <2> HIDE DEF u
  <2>3. \A i \in 1..Len(o) + Len(u) : (o \o u)[i] = IF i <= Len(o) THEN o[i] ELSE u[i - Len(o)]
    BY <2>2, ConcatProperties
  <2>4. ASSUME NEW i \in 1..Len(t) PROVE (o \o u)[i] = o[i]
    <3>1. i \in 1..Len(o) + Len(u) /\ i <= Len(o)
      BY <1>1, <2>2
    <3> QED BY <2>3, <3>1
  <2>5. ASSUME NEW i \in 1..Len(f) PROVE (o \o u)[Len(t) + i] = test
    <3>1. /\ Len(t) + i \in 1..Len(o) + Len(u) /\ ~(Len(t) + i <= Len(o))
          /\ Len(t) + i - Len(o) = i
      BY <1>1, <2>2
    <3>2. (o \o u)[Len(t) + i] = u[Len(t) + i - Len(o)]
      BY <2>3, <3>1
    <3> QED BY <2>2, <3>1, <3>2
  <2> QED BY <2>4, <2>5 DEF u, GivenTo
<1>8. z \in 1..Len(a) /\ (z = 1 \/ a[z - 1] = NL)
  <2>1. z \in LineStarts(a)
    BY <1>4, HitIs
  <2> QED BY <1>1, <2>1, SignaturesAre
<1> HIDE DEF q, a, w, last
<1>9. CASE f[Len(f)] = NL
  <2>1. q.d = [r EXCEPT !.head = <<>>, !.headTest = NoTest, !.midLine = FALSE]
    BY <1>2, <1>9 DEF NotFound
  <2>2. q.d \in DumpRecord /\ Idle(q.d) /\ q.d.head = <<>> /\ q.d.midLine = FALSE
    BY <2>1, EmptySeq DEF DumpRecord, Text, Idle
  <2>3. Open(a, Len(a) + 1)
    <3>1. Len(a) = Len(t) + Len(f) /\ Len(f) \in 1..Len(f) /\ Len(a) + 1 - 1 = Len(t) + Len(f)
          /\ Len(a) + 1 \in 1..(Len(a) + 1)
      BY <1>1, <1>4
    <3>2. a[Len(a) + 1 - 1] = NL
      BY <1>1, <1>9, <3>1
    <3>3. \A j \in (Len(a) + 1)..Len(a) : FALSE
      BY <1>1
    <3> QED BY <3>1, <3>2, <3>3 DEF Open
  <2>4. Starting(a, Len(a) + 1) /\ SubSeq(a, Len(a) + 1, Len(a)) = <<>>
    <3>1. Len(a) \in Int /\ Len(a) + 1 \in Int /\ Len(a) < Len(a) + 1
          /\ Len(a) <= Len(a) + 1 + 2 /\ Len(a) - (Len(a) + 1) + 1 = 0
      BY <1>1
    <3>2. Starting(a, Len(a) + 1)
      BY <3>1 DEF Starting
    <3> QED BY <3>1, <3>2, SubSeqEmpty
  <2>5. Remembers(q.d, a, w, Len(a) + 1)
    BY <2>2, <2>3, <2>4 DEF Remembers
  <2> QED BY <1>2, <1>3, <2>2, <2>5 DEF q, a, w
<1>10. CASE f[Len(f)] # NL
  <2>1. \A j \in last..Len(f) : f[j] # NL
    BY <1>4, <1>5, <1>10
  <2>2. Open(a, z)
    <3>1. ASSUME NEW j \in z..Len(a) PROVE a[j] # NL
      <4>1. CASE j <= Len(t)
        <5>1. last = 1 /\ j \in s..Len(t) /\ j \in 1..Len(t)
          BY <1>1, <1>5, <1>6, <1>8, <4>1 DEF Whole
        <5> QED BY <1>1, <1>6, <5>1
      <4>2. CASE ~(j <= Len(t))
        <5>1. PICK k \in Int : k = j - Len(t)
          <6>1. j - Len(t) \in Int
            BY <1>1, <1>8
          <6> QED BY <6>1
        <5>2. k \in 1..Len(f) /\ Len(t) + k = j
          BY <1>1, <1>8, <4>2, <5>1
        <5>3. k \in last..Len(f)
          BY <1>1, <1>5, <1>8, <5>2 DEF Whole
        <5> QED BY <1>1, <2>1, <5>2, <5>3
      <4> QED BY <4>1, <4>2
    <3>2. z \in 1..(Len(a) + 1)
      BY <1>1, <1>8
    <3> HIDE DEF z
    <3> QED BY <1>8, <3>1, <3>2 DEF Open
  <2>3. LineFrom(f, last) = SubSeq(f, last, Len(f))
    <3>1. PICK e \in last..Len(f) : LineFrom(f, last) = SubSeq(f, last, e) /\ (e = Len(f) \/ f[e] = NL)
      BY <1>5, TheLineFrom
    <3> QED BY <2>1, <3>1
  <2>4. ~(last = 1 /\ r.midLine) => line = SubSeq(a, z, Len(a))
    <3>1. CASE last = 1 /\ ~r.midLine
      <4>1. r.head = SubSeq(t, s, Len(t)) /\ SubSeq(f, 1, Len(f)) = f
        BY <3>1, SubSeqFull DEF Remembers, Text
      <4>2. r.head \o f = SubSeq(a, s, Len(a))
        BY <1>6, <4>1, Remainder DEF a
      <4> QED BY <2>3, <3>1, <4>1, <4>2 DEF Line, Whole
    <3>2. CASE last # 1
      <4>1. Len(t) + last \in 1..(Len(t) + Len(f))
        BY <1>1, <1>5
      <4>2. line = SubSeq(f, last, Len(f)) /\ z = Len(t) + last
        BY <2>3, <3>2 DEF Line, Whole
      <4> DEFINE u == SubSeq(a, z, Len(a))
                 v == SubSeq(f, last, Len(f))
      <4>3. /\ u \in Text /\ Len(u) = Len(a) - z + 1
            /\ \A n \in 1..(Len(a) - z + 1) : u[n] = a[z + n - 1]
        <5>1. z \in Nat \ {0} /\ Len(a) \in 0..Len(a) /\ z <= Len(a) + 1
          BY <1>1, <1>8
        <5> HIDE DEF z
        <5> QED BY <1>1, <5>1, PartOf
      <4>4. /\ v \in Text /\ Len(v) = Len(f) - last + 1
            /\ \A n \in 1..(Len(f) - last + 1) : v[n] = f[last + n - 1]
        <5>1. last \in Nat \ {0} /\ Len(f) \in 0..Len(f) /\ last <= Len(f) + 1
          BY <1>1, <1>5
        <5> QED BY <5>1, PartOf
      <4> HIDE DEF u, v, z, line
      <4>5. Len(u) = Len(v)
        BY <1>1, <1>5, <4>2, <4>3, <4>4
      <4>6. ASSUME NEW n \in 1..Len(u) PROVE u[n] = v[n]
        <5>1. /\ n \in 1..(Len(a) - z + 1) /\ n \in 1..(Len(f) - last + 1)
              /\ last + n - 1 \in 1..Len(f) /\ z + n - 1 = Len(t) + (last + n - 1)
          BY <1>1, <1>5, <4>2, <4>3
        <5>2. a[Len(t) + (last + n - 1)] = f[last + n - 1]
          BY <1>1, <5>1
        <5> QED BY <4>3, <4>4, <5>1, <5>2
      <4> QED BY <4>2, <4>3, <4>4, <4>5, <4>6, SameText DEF u, v
    <3> QED BY <3>1, <3>2
  <2>5. IsPrefix(SubSeq(a, z, Len(a)), Signature) <=> Starting(a, z)
    <3> DEFINE u == SubSeq(a, z, Len(a))
    <3>1. /\ u \in Text /\ Len(u) = Len(a) - z + 1
          /\ \A n \in 1..(Len(a) - z + 1) : u[n] = a[z + n - 1]
      <4>1. z \in Nat \ {0} /\ Len(a) \in 0..Len(a) /\ z <= Len(a) + 1
        BY <1>1, <1>8
      <4> HIDE DEF z
      <4> QED BY <1>1, <4>1, PartOf
    <3> HIDE DEF u, z
    <3>2. Len(u) - 1 + 1 = Len(u) /\ \A n \in 1..Len(u) : 1 + n - 1 = n
      BY <1>1, <1>8, <3>1
    <3>3. Len(u) <= 1 + 2 <=> Len(a) <= z + 2
      BY <1>1, <1>8, <3>1
    <3>4. Starting(u, 1) <=> Starting(a, z)
      BY <3>1, <3>2, <3>3 DEF Starting
    <3> QED BY <3>1, <3>4, MayStart DEF u
  <2>6. last = 1 /\ r.midLine => ~Starting(a, z)
    <3> SUFFICES ASSUME last = 1, r.midLine, Starting(a, s) PROVE FALSE
      BY DEF Whole
    <3>1. ~Starting(t, s)
      BY DEF Remembers
    <3>2. Len(t) <= s + 2
      BY <1>1, <1>6 DEF Starting
    <3>3. PICK j \in 1..(Len(t) - s + 1) : t[s + j - 1] # Signature[j]
      BY <3>1, <3>2 DEF Starting
    <3>4. j \in 1..(Len(a) - s + 1) /\ s + j - 1 \in 1..Len(t)
      BY <1>1, <1>6
    <3> QED BY <1>1, <3>3, <3>4 DEF Starting
  <2>7. a \in Text /\ SubSeq(a, z, Len(a)) \in Text
    <3>1. z \in Nat \ {0} /\ Len(a) \in 0..Len(a) /\ z <= Len(a) + 1
      BY <1>1, <1>8
    <3> HIDE DEF z
    <3> QED BY <1>1, <3>1, PartOf
  <2>8. CASE MayBeSignature(r, last) /\ IsPrefix(line, Signature)
    <3>1. line = SubSeq(a, z, Len(a)) /\ Starting(a, z)
      BY <2>4, <2>5, <2>8 DEF MayBeSignature
    <3>2. q.d = [r EXCEPT !.head = line, !.midLine = FALSE,
                          !.headTest = OwnerOfHead(r, last, test)]
      BY <1>2, <1>10, <2>8 DEF NotFound, last
    <3>3. OwnerOfHead(r, last, test) \in Tests \cup {NoTest}
      BY DEF OwnerOfHead, DumpRecord
    <3>4. OwnerOfHead(r, last, test) = w[z]
      <4>1. CASE last = 1 /\ r.head # <<>>
        <5>1. ~r.midLine /\ r.headTest = o[s] /\ r.head = SubSeq(t, s, Len(t))
          BY <4>1 DEF Remembers
        <5>2. s \in 1..Len(t)
          <6>1. ASSUME s = Len(t) + 1 PROVE FALSE
            <7>1. Len(t) < s
              BY <1>1, <6>1
            <7> QED BY <1>1, <1>6, <4>1, <5>1, <7>1, SubSeqEmpty
          <6> QED BY <1>1, <1>6, <6>1
        <5> QED BY <1>7, <4>1, <5>1, <5>2 DEF OwnerOfHead, Whole
      <4>2. CASE last = 1 /\ r.head = <<>>
        <5>1. s = Len(t) + 1
          <6>1. ~r.midLine /\ r.head = SubSeq(t, s, Len(t))
            BY <2>8, <4>2 DEF Remembers, MayBeSignature
          <6>2. Len(SubSeq(t, s, Len(t))) = Len(t) - s + 1
            <7>1. s \in Nat \ {0} /\ Len(t) \in 0..Len(t) /\ s <= Len(t) + 1
              BY <1>1, <1>6
            <7> QED BY <7>1, PartOf
          <6>3. Len(t) - s + 1 = 0
            BY <4>2, <6>1, <6>2, EmptySeq
          <6> QED BY <1>1, <1>6, <6>3
        <5>2. 1 \in 1..Len(f)
          BY <1>4
        <5>3. w[Len(t) + 1] = test
          BY <1>7, <5>2
        <5> QED BY <4>2, <5>1, <5>3 DEF OwnerOfHead, Whole
      <4>3. CASE last # 1
        BY <1>5, <1>7, <4>3 DEF OwnerOfHead, Whole
      <4> QED BY <4>1, <4>2, <4>3
    <3> HIDE DEF line, z
    <3>5. q.d \in DumpRecord /\ Idle(q.d) /\ q.d.head = line /\ q.d.midLine = FALSE /\ q.d.headTest = w[z]
      <4>1. line \in Text
        BY <2>7, <3>1
      <4> QED BY <3>2, <3>3, <3>4, <4>1 DEF DumpRecord, Idle
    <3>6. Remembers(q.d, a, w, z)
      BY <2>2, <3>1, <3>5 DEF Remembers
    <3> QED BY <1>2, <1>3, <3>5, <3>6 DEF q, a, w
  <2>9. CASE ~(MayBeSignature(r, last) /\ IsPrefix(line, Signature))
    <3>1. ~Starting(a, z)
      BY <2>4, <2>5, <2>6, <2>9 DEF MayBeSignature
    <3>2. q.d = [r EXCEPT !.head = <<>>, !.headTest = NoTest, !.midLine = TRUE]
      BY <1>2, <1>10, <2>9 DEF NotFound, last
    <3>3. q.d \in DumpRecord /\ Idle(q.d) /\ q.d.head = <<>> /\ q.d.midLine = TRUE
      BY <3>2, EmptySeq DEF DumpRecord, Text, Idle
    <3> HIDE DEF line, z
    <3>4. Remembers(q.d, a, w, z)
      BY <2>2, <3>1, <3>3 DEF Remembers
    <3> QED BY <1>2, <1>3, <3>3, <3>4 DEF q, a, w
  <2> QED BY <2>8, <2>9
<1> QED BY <1>9, <1>10
----------------------------------------------------------------------------
(* The lines of a text and of its parts.                                   *)

LEMMA TheStart ==
    ASSUME NEW t \in Text, NEW i \in 1..Len(t)
    PROVE  /\ LineStart(t, i) \in 1..i
           /\ LineStart(t, i) = 1 \/ t[LineStart(t, i) - 1] = NL
           /\ \A j \in LineStart(t, i)..(i - 1) : t[j] # NL
<1> DEFINE S == {j \in LineStarts(t) : j <= i}
<1>1. /\ Len(t) \in Nat
      /\ \A j : j \in LineStarts(t) <=> j \in 1..Len(t) /\ (j = 1 \/ t[j - 1] = NL)
  BY SignaturesAre
<1>2. S \in SUBSET (0..Len(t)) /\ 1 \in S
  BY <1>1
<1>3. Max(S) \in S /\ \A m \in S : m <= Max(S)
  BY <1>1, <1>2, TheGreatest
<1>4. LineStart(t, i) = Max(S)
  BY DEF LineStart
<1>5. ASSUME NEW j \in Max(S)..(i - 1), t[j] = NL PROVE FALSE
  <2>1. j + 1 \in 1..Len(t) /\ j + 1 - 1 = j /\ ~(j + 1 <= Max(S)) /\ j + 1 <= i
    BY <1>1, <1>3
  <2>2. j + 1 \in S
    BY <1>1, <1>5, <2>1
  <2> QED BY <1>3, <2>1, <2>2
<1> QED BY <1>1, <1>3, <1>4, <1>5

LEMMA OneStart ==
    ASSUME NEW t \in Text, NEW i \in 1..Len(t), NEW b \in 1..i, b = 1 \/ t[b - 1] = NL,
           \A j \in b..(i - 1) : t[j] # NL
    PROVE  LineStart(t, i) = b
<1> DEFINE c == LineStart(t, i)
<1>1. c \in 1..i /\ (c = 1 \/ t[c - 1] = NL) /\ \A j \in c..(i - 1) : t[j] # NL
  BY TheStart
<1>2. Len(t) \in Nat
  BY LenProperties DEF Text
<1> HIDE DEF c
<1>3. ASSUME c < b PROVE FALSE
  <2>1. b # 1 /\ b - 1 \in c..(i - 1)
    BY <1>1, <1>2, <1>3
  <2> QED BY <1>1, <2>1
<1>4. ASSUME b < c PROVE FALSE
  <2>1. c # 1 /\ c - 1 \in b..(i - 1)
    BY <1>1, <1>2, <1>4
  <2> QED BY <1>1, <2>1
<1> QED BY <1>1, <1>3, <1>4 DEF c

LEMMA LineIs ==
    ASSUME NEW t \in Text, NEW i \in 1..Len(t)
    PROVE  /\ LineTo(t, i) \in Text /\ Len(LineTo(t, i)) = i - LineStart(t, i) + 1
           /\ \A n \in 1..(i - LineStart(t, i) + 1) : LineTo(t, i)[n] = t[LineStart(t, i) + n - 1]
<1>1. Len(t) \in Nat
  BY LenProperties DEF Text
<1>2. LineStart(t, i) \in 1..i
  BY TheStart
<1>3. LineStart(t, i) \in Nat \ {0} /\ i \in 0..Len(t) /\ LineStart(t, i) <= i + 1
  BY <1>1, <1>2
<1> QED BY <1>3, PartOf DEF LineTo

\* t is a part of g, after its first s lumps, and starts with a line of g.
PartAt(t, g, s) ==
    /\ s \in Nat /\ s + Len(t) <= Len(g)
    /\ \A n \in 1..Len(t) : g[s + n] = t[n]
    /\ s = 0 \/ g[s] = NL

LEMMA SameLine ==
    ASSUME NEW t \in Text, NEW g \in Text, NEW s, PartAt(t, g, s), NEW i \in 1..Len(t)
    PROVE  /\ s + i \in 1..Len(g)
           /\ LineStart(g, s + i) = s + LineStart(t, i)
           /\ LineTo(g, s + i) = LineTo(t, i)
<1> DEFINE b == LineStart(t, i)
<1>1. Len(t) \in Nat /\ Len(g) \in Nat
  BY LenProperties DEF Text
<1>2. /\ s \in Nat /\ s + Len(t) <= Len(g)
      /\ \A n \in 1..Len(t) : g[s + n] = t[n]
      /\ s = 0 \/ g[s] = NL
  BY DEF PartAt
<1>3. b \in 1..i /\ (b = 1 \/ t[b - 1] = NL) /\ \A j \in b..(i - 1) : t[j] # NL
  BY TheStart
<1> HIDE DEF b
<1>4. s + i \in 1..Len(g) /\ s + b \in 1..(s + i)
  BY <1>1, <1>2, <1>3
<1>5. s + b = 1 \/ g[s + b - 1] = NL
  <2>1. CASE b = 1
    <3>1. s + b - 1 = s /\ (s = 0 => s + b = 1)
      BY <1>2, <2>1
    <3> QED BY <1>2, <3>1
  <2>2. CASE b # 1
    <3>1. b - 1 \in 1..Len(t) /\ s + (b - 1) = s + b - 1
      BY <1>1, <1>2, <1>3, <2>2
    <3> QED BY <1>2, <1>3, <2>2, <3>1
  <2> QED BY <2>1, <2>2
<1>6. ASSUME NEW j \in (s + b)..(s + i - 1) PROVE g[j] # NL
  <2>1. PICK n \in Int : n = j - s
    <3>1. j - s \in Int
      BY <1>2, <1>3
    <3> QED BY <3>1
  <2>2. n \in b..(i - 1) /\ n \in 1..Len(t) /\ s + n = j
    BY <1>1, <1>2, <1>3, <2>1
  <2> QED BY <1>2, <1>3, <2>2
<1>7. LineStart(g, s + i) = s + b
  <2> DEFINE k == s + i
             c == s + b
  <2>1. \A j \in c..(k - 1) : g[j] # NL
    BY <1>2, <1>3, <1>6
  <2>2. k \in 1..Len(g) /\ c \in 1..k /\ (c = 1 \/ g[c - 1] = NL)
    BY <1>2, <1>3, <1>4, <1>5
  <2> HIDE DEF k, c
  <2>3. LineStart(g, k) = c
    BY <2>1, <2>2, OneStart
  <2> QED BY <2>3 DEF k, c
<1> DEFINE u == LineTo(g, s + i)
           v == LineTo(t, i)
<1>8. /\ u \in Text /\ Len(u) = s + i - (s + b) + 1
      /\ \A n \in 1..(s + i - (s + b) + 1) : u[n] = g[s + b + n - 1]
  <2> DEFINE k == s + i
  <2>1. k \in 1..Len(g)
    BY <1>4
  <2> HIDE DEF k, u
  <2>2. /\ LineTo(g, k) \in Text /\ Len(LineTo(g, k)) = k - LineStart(g, k) + 1
        /\ \A n \in 1..(k - LineStart(g, k) + 1) : LineTo(g, k)[n] = g[LineStart(g, k) + n - 1]
    BY <2>1, LineIs
  <2>3. LineStart(g, k) = s + b /\ u = LineTo(g, k)
    BY <1>7 DEF k, u
  <2>4. /\ u \in Text /\ Len(u) = k - (s + b) + 1
        /\ \A n \in 1..(k - (s + b) + 1) : u[n] = g[s + b + n - 1]
    BY <2>2, <2>3
  <2> QED BY <1>2, <1>3, <2>4 DEF k
<1>9. /\ v \in Text /\ Len(v) = i - b + 1
      /\ \A n \in 1..(i - b + 1) : v[n] = t[b + n - 1]
  BY LineIs DEF b
<1> HIDE DEF u, v
<1>10. ASSUME NEW n \in 1..Len(u) PROVE u[n] = v[n]
  <2>1. /\ n \in 1..(i - b + 1) /\ n \in 1..(s + i - (s + b) + 1)
        /\ b + n - 1 \in 1..Len(t) /\ s + (b + n - 1) = s + b + n - 1
    BY <1>1, <1>2, <1>3, <1>8
  <2>2. g[s + (b + n - 1)] = t[b + n - 1]
    BY <1>2, <2>1
  <2> QED BY <1>8, <1>9, <2>1, <2>2
<1>11. Len(u) = Len(v)
  BY <1>2, <1>3, <1>8, <1>9
<1>12. u = v
  BY <1>8, <1>9, <1>10, <1>11, SameText
<1> QED BY <1>4, <1>7, <1>12 DEF u, v, b

\* The stacks have begun.
Begun(t, i) == \E j \in LineEnds(t) : j <= i /\ LineTo(t, j)[1] = Goroutine

LEMMA EndsAre ==
    ASSUME NEW t
    PROVE  /\ \A j : j \in LineEnds(t) <=> j \in 1..Len(t) /\ t[j] = NL
           /\ \A i : InStacks(t, i) <=> Begun(t, i) /\ ~IsPackageSummary(LineTo(t, i))
           /\ \A i : Stacks(t, i) = UNION {LineStart(t, j)..j :
                                           j \in {k \in LineEnds(t) : k <= i /\ InStacks(t, k)}}
           /\ \A i : Fits(t, i) <=> Cardinality(Stacks(t, i)) <= StacksLimit
BY DEF LineEnds, InStacks, Begun, Stacks, Fits

\* What is said of the lines up to i holds whatever comes after them.
LEMMA Continues ==
    ASSUME NEW t \in Text, NEW g \in Text, PartAt(t, g, 0), NEW i \in 0..Len(t)
    PROVE  /\ \A j : j \in LineEnds(g) /\ j <= i <=> j \in LineEnds(t) /\ j <= i
           /\ Begun(g, i) <=> Begun(t, i)
           /\ Stacks(g, i) = Stacks(t, i)
           /\ Fits(g, i) <=> Fits(t, i)
           /\ \A j \in 1..i : /\ LineTo(g, j) = LineTo(t, j) /\ (InStacks(g, j) <=> InStacks(t, j))
                              /\ Printed(g, j, retains) = Printed(t, j, retains)
<1>1. Len(t) \in Nat /\ Len(g) \in Nat /\ Len(t) <= Len(g) /\ \A n \in 1..Len(t) : g[n] = t[n]
  <2>1. Len(t) \in Nat /\ Len(g) \in Nat
    BY LenProperties DEF Text
  <2>2. 0 + Len(t) = Len(t) /\ \A n \in 1..Len(t) : 0 + n = n
    BY <2>1
  <2> QED BY <2>1, <2>2 DEF PartAt
<1>2. ASSUME NEW j \in 1..Len(t)
      PROVE  j \in 1..Len(g) /\ LineStart(g, j) = LineStart(t, j) /\ LineTo(g, j) = LineTo(t, j)
  <2>1. LineStart(t, j) \in Nat /\ 0 + j = j
    BY <1>1, TheStart
  <2>2. LineStart(g, 0 + j) = 0 + LineStart(t, j) /\ LineTo(g, 0 + j) = LineTo(t, j)
    BY SameLine
  <2> QED BY <1>1, <2>1, <2>2
<1>3. ASSUME NEW k \in 0..Len(t), NEW j
      PROVE  j \in LineEnds(g) /\ j <= k <=> j \in LineEnds(t) /\ j <= k
  <2>1. ASSUME j \in LineEnds(g), j <= k PROVE j \in LineEnds(t)
    BY <1>1, <2>1, EndsAre
  <2>2. ASSUME j \in LineEnds(t), j <= k PROVE j \in LineEnds(g)
    BY <1>1, <2>2, EndsAre
  <2> QED BY <2>1, <2>2
<1>4. ASSUME NEW k \in 0..Len(t) PROVE Begun(g, k) <=> Begun(t, k)
  <2>1. \A j \in LineEnds(t) : LineTo(g, j) = LineTo(t, j)
    BY <1>2, EndsAre
  <2> QED BY <1>3, <2>1 DEF Begun
<1>5. ASSUME NEW j \in 1..Len(t) PROVE InStacks(g, j) <=> InStacks(t, j)
  <2>1. j \in 0..Len(t)
    BY <1>1
  <2> QED BY <1>2, <1>4, <2>1, EndsAre
<1>6. ASSUME NEW k \in 0..Len(t) PROVE Stacks(g, k) = Stacks(t, k)
  <2>1. {j \in LineEnds(g) : j <= k /\ InStacks(g, j)} = {j \in LineEnds(t) : j <= k /\ InStacks(t, j)}
    <3>1. \A j \in LineEnds(t) : InStacks(g, j) <=> InStacks(t, j)
      BY <1>5, EndsAre
    <3> QED BY <1>3, <3>1
  <2> DEFINE E == {j \in LineEnds(t) : j <= k /\ InStacks(t, j)}
  <2>2. \A j \in E : LineStart(g, j) = LineStart(t, j)
    BY <1>2, EndsAre
  <2>3. {LineStart(g, j)..j : j \in E} = {LineStart(t, j)..j : j \in E}
    BY <2>2
  <2> QED BY <2>1, <2>3, EndsAre
<1>7. ASSUME NEW k \in 0..Len(t) PROVE Fits(g, k) <=> Fits(t, k)
  BY <1>6, EndsAre
<1>8. ASSUME NEW j \in 1..Len(t) PROVE Printed(g, j, retains) = Printed(t, j, retains)
  <2>1. j \in 0..Len(t)
    BY <1>1
  <2>2. (\A k \in LineEnds(g) : k < j /\ InStacks(g, k) => Fits(g, k))
          <=> (\A k \in LineEnds(t) : k < j /\ InStacks(t, k) => Fits(t, k))
    <3>1. \A k \in LineEnds(t) : /\ k \in 1..Len(t) /\ k \in 0..Len(t)
                                 /\ (InStacks(g, k) <=> InStacks(t, k)) /\ (Fits(g, k) <=> Fits(t, k))
      <4> TAKE k \in LineEnds(t)
      <4>1. k \in 1..Len(t) /\ k \in 0..Len(t)
        BY <1>1, EndsAre
      <4> QED BY <1>5, <1>7, <4>1
    <3>2. \A k : k \in LineEnds(g) /\ k < j => k \in LineEnds(t)
      <4> SUFFICES ASSUME NEW k, k \in LineEnds(g), k < j PROVE k \in LineEnds(t)
        OBVIOUS
      <4>1. k <= j
        BY <1>1, EndsAre
      <4> QED BY <1>3, <2>1, <4>1
    <3>3. \A k \in LineEnds(t) : k < j => k \in LineEnds(g)
      <4> TAKE k \in LineEnds(t)
      <4> HAVE k < j
      <4>1. k <= j
        BY <1>1, EndsAre
      <4> QED BY <1>3, <2>1, <4>1
    <3> QED BY <3>1, <3>2, <3>3
  <2>3. g[j] = t[j]
    BY <1>1
  <2>4. (InStacks(g, j) <=> InStacks(t, j)) /\ (Fits(g, j) <=> Fits(t, j)) /\ LineTo(g, j) = LineTo(t, j)
    BY <1>2, <1>5, <1>7, <2>1
  <2> QED BY <2>2, <2>3, <2>4, Zenon DEF Printed
<1>9. \A j \in 1..i : j \in 1..Len(t)
  BY <1>1
<1> QED BY <1>2, <1>3, <1>4, <1>5, <1>6, <1>7, <1>8, <1>9
----------------------------------------------------------------------------
(* copyLine, line by line.                                                 *)

Copy == [d : DumpRecord, out : Text]

PrintedTo(t, i, keep) == FlattenSeq([j \in 1..i |-> Printed(t, j, keep)])

\* The limit was passed at a line up to i.
Passed(t, i) == \E j \in LineEnds(t) : j <= i /\ InStacks(t, j) /\ ~Fits(t, j)

\* c is what copyLine has made of the lines of t up to i.
CopiedTo(c, t, i, keep) ==
    /\ c \in Copy /\ c.d.active /\ c.d.retained = keep
    /\ c.d.inStacks <=> Begun(t, i)
    /\ keep => (c.d.truncated <=> Passed(t, i))
    /\ keep /\ ~c.d.truncated => c.d.copied = Cardinality(Stacks(t, i))
    /\ c.out = PrintedTo(t, i, keep)

LEMMA StacksAre ==
    ASSUME NEW t \in Text, NEW i \in 0..Len(t)
    PROVE  /\ Stacks(t, i) \subseteq 1..i /\ IsFiniteSet(Stacks(t, i))
           /\ Cardinality(Stacks(t, i)) \in Nat
           /\ \A k \in 0..i : Stacks(t, k) \subseteq Stacks(t, i) /\ (Fits(t, i) => Fits(t, k))
<1>1. Len(t) \in Nat
  BY LenProperties DEF Text
<1>2. \A k \in 0..Len(t) : Stacks(t, k) \subseteq 1..k
  <2> TAKE k \in 0..Len(t)
  <2>1. ASSUME NEW j \in LineEnds(t), j <= k PROVE LineStart(t, j)..j \subseteq 1..k
    <3>1. j \in 1..Len(t)
      BY EndsAre
    <3>2. LineStart(t, j) \in 1..j
      BY <3>1, TheStart
    <3> QED BY <1>1, <2>1, <3>1, <3>2
  <2> QED BY <2>1, EndsAre
<1>3. \A k \in 0..Len(t) : IsFiniteSet(Stacks(t, k)) /\ Cardinality(Stacks(t, k)) \in Nat
  <2> TAKE k \in 0..Len(t)
  <2>1. IsFiniteSet(1..k)
    BY <1>1, FS_Interval
  <2> QED BY <1>2, <2>1, FS_Subset, FS_CardinalityType
<1>4. ASSUME NEW k \in 0..i PROVE Stacks(t, k) \subseteq Stacks(t, i) /\ (Fits(t, i) => Fits(t, k))
  <2>1. {j \in LineEnds(t) : j <= k /\ InStacks(t, j)} \subseteq {j \in LineEnds(t) : j <= i /\ InStacks(t, j)}
    <3>1. \A j \in LineEnds(t) : j <= k => j <= i
      BY <1>1, EndsAre
    <3> QED BY <3>1
  <2>2. Stacks(t, k) \subseteq Stacks(t, i)
    BY <2>1, EndsAre
  <2>3. Cardinality(Stacks(t, k)) <= Cardinality(Stacks(t, i))
    BY <1>3, <2>2, FS_Subset
  <2>4. k \in 0..Len(t)
    BY <1>1
  <2> QED BY <1>3, <2>2, <2>3, <2>4, EndsAre, StacksLimitAssumption
<1> QED BY <1>2, <1>3, <1>4

LEMMA PrintedMore ==
    ASSUME NEW t \in Text, NEW i \in 1..Len(t)
    PROVE  /\ Printed(t, i, retains) \in Text /\ PrintedTo(t, i - 1, retains) \in Text
           /\ PrintedTo(t, i, retains) = PrintedTo(t, i - 1, retains) \o Printed(t, i, retains)
<1>1. Len(t) \in Nat
  BY LenProperties DEF Text
<1>2. \A j \in 1..Len(t) : Printed(t, j, retains) \in Text
  <2> TAKE j \in 1..Len(t)
  <2>1. LineTo(t, j) \in Text
    BY LineIs
  <2>2. <<>> \in Text /\ <<Truncation, NL>> \in Text
    BY TheSignature, EmptySeq, Pair DEF Text
  <2> QED BY <2>1, <2>2, Zenon DEF Printed
<1> DEFINE u == [j \in 1..(i - 1) |-> Printed(t, j, retains)]
           v == [j \in 1..i |-> Printed(t, j, retains)]
<1>3. u \in Seq(Text) /\ Len(u) = i - 1 /\ \A j \in 1..(i - 1) : u[j] = Printed(t, j, retains)
  <2>1. i - 1 \in Nat /\ \A j \in 1..(i - 1) : Printed(t, j, retains) \in Text
    BY <1>1, <1>2
  <2> HIDE DEF Text
  <2> QED BY <2>1
<1>4. v \in Seq(Text) /\ Len(v) = i /\ \A j \in 1..i : v[j] = Printed(t, j, retains)
  <2>1. i \in Nat /\ \A j \in 1..i : Printed(t, j, retains) \in Text
    BY <1>1, <1>2
  <2> HIDE DEF Text
  <2> QED BY <2>1
<1> HIDE DEF u, v
<1>5. v = Append(u, Printed(t, i, retains))
  <2> DEFINE w == Append(u, Printed(t, i, retains))
  <2>1. /\ w \in Seq(Text) /\ Len(w) = i
        /\ \A j \in 1..(i - 1) : w[j] = u[j] 
        /\ w[i] = Printed(t, i, retains)
    <3>1. /\ w \in Seq(Text) /\ Len(w) = Len(u) + 1
          /\ \A j \in 1..Len(u) : w[j] = u[j]
          /\ w[Len(u) + 1] = Printed(t, i, retains)
      BY <1>2, <1>3, AppendProperties
    <3>2. Len(u) + 1 = i
      BY <1>1, <1>3
    <3> HIDE DEF w
    <3> QED BY <1>3, <3>1, <3>2
  <2> HIDE DEF w
  <2>2. \A j \in 1..i : v[j] = w[j]
    <3> TAKE j \in 1..i
    <3>1. j = i \/ j \in 1..(i - 1)
      BY <1>1
    <3> QED BY <1>3, <1>4, <2>1, <3>1
  <2>3. v = w
    BY <1>4, <2>1, <2>2, SeqEqual
  <2> QED BY <2>3 DEF w
<1>6. FlattenSeq(v) = FlattenSeq(u) \o Printed(t, i, retains)
  BY <1>2, <1>3, <1>5, FlattenAppend DEF Text
<1>7. FlattenSeq(u) \in Text
  BY <1>3, FlattenedType DEF Text
<1> QED BY <1>2, <1>6, <1>7 DEF u, v, PrintedTo

\* A lump that ends no line changes nothing.
LEMMA NoLine ==
    ASSUME NEW t \in Text, NEW i \in 1..Len(t), t[i] # NL
    PROVE  \A c : CopiedTo(c, t, i - 1, retains) => CopiedTo(c, t, i, retains)
<1>1. Len(t) \in Nat
  BY LenProperties DEF Text
<1>2. \A j \in LineEnds(t) : j <= i <=> j <= i - 1
  BY <1>1, EndsAre
<1>3. (Begun(t, i) <=> Begun(t, i - 1)) /\ (Passed(t, i) <=> Passed(t, i - 1))
  BY <1>2 DEF Begun, Passed
<1>4. Stacks(t, i) = Stacks(t, i - 1)
  <2>1. {j \in LineEnds(t) : j <= i /\ InStacks(t, j)} = {j \in LineEnds(t) : j <= i - 1 /\ InStacks(t, j)}
    BY <1>2
  <2> QED BY <2>1, EndsAre
<1>5. PrintedTo(t, i, retains) = PrintedTo(t, i - 1, retains)
  <2>1. Printed(t, i, retains) = <<>>
    BY DEF Printed
  <2>2. PrintedTo(t, i, retains) = PrintedTo(t, i - 1, retains) \o <<>> /\ PrintedTo(t, i - 1, retains) \in Seq(Lump)
    BY <2>1, PrintedMore DEF Text
  <2> QED BY <2>2, ConcatEmptySeq
<1> QED BY <1>3, <1>4, <1>5 DEF CopiedTo

\* copyLine does with a line what is printed of it.
LEMMA OneLine ==
    ASSUME NEW t \in Text, NEW i \in 1..Len(t), t[i] = NL, NEW c, CopiedTo(c, t, i - 1, retains),
           retains \in BOOLEAN
    PROVE  CopiedTo(CopyLine(c, LineTo(t, i)), t, i, retains)
<1> DEFINE line == LineTo(t, i)
           b == LineStart(t, i)
           x == [c.d EXCEPT !.inStacks = @ \/ Head(line) = Goroutine]
           q == CopyLine(c, line)
<1>1. Len(t) \in Nat
  BY LenProperties DEF Text
<1>2. b \in 1..i /\ (\A j \in b..(i - 1) : t[j] # NL)
  BY TheStart
<1>3. line \in Text /\ Len(line) = i - b + 1
  BY LineIs
<1>4. Head(line) = line[1]
  <2>1. line # <<>>
    BY <1>1, <1>2, <1>3, EmptySeq
  <2> QED BY <1>3, <2>1, HeadTailProperties DEF Text
<1>5. c \in Copy /\ c.d \in DumpRecord /\ c.out \in Text
  BY DEF CopiedTo, Copy
<1>6. i \in LineEnds(t) /\ \A j \in LineEnds(t) : j <= i <=> (j <= i - 1 \/ j = i)
  BY <1>1, EndsAre
<1>7. Begun(t, i) <=> Begun(t, i - 1) \/ line[1] = Goroutine
  BY <1>6 DEF Begun
<1>8. x \in DumpRecord /\ x.active /\ x.retained = retains /\ (x.inStacks <=> Begun(t, i))
      /\ x.truncated = c.d.truncated /\ x.copied = c.d.copied
  <2> HIDE DEF line
  <2> QED BY <1>4, <1>5, <1>7 DEF DumpRecord, CopiedTo
<1>9. InStacks(t, i) <=> x.inStacks /\ ~IsPackageSummary(line)
  BY <1>8, EndsAre
<1>10. Passed(t, i) <=> Passed(t, i - 1) \/ (InStacks(t, i) /\ ~Fits(t, i))
  BY <1>6 DEF Passed
<1>11. Stacks(t, i) = Stacks(t, i - 1) \cup (IF InStacks(t, i) THEN b..i ELSE {})
  <2>1. {j \in LineEnds(t) : j <= i /\ InStacks(t, j)}
          = {j \in LineEnds(t) : j <= i - 1 /\ InStacks(t, j)} \cup (IF InStacks(t, i) THEN {i} ELSE {})
    BY <1>6
  <2> DEFINE E == {j \in LineEnds(t) : j <= i - 1 /\ InStacks(t, j)}
             F == IF InStacks(t, i) THEN {i} ELSE {}
  <2>2. Stacks(t, i) = UNION {LineStart(t, j)..j : j \in E \cup F}
    BY <2>1, EndsAre
  <2>3. Stacks(t, i - 1) = UNION {LineStart(t, j)..j : j \in E}
    BY EndsAre
  <2> HIDE DEF E
  <2>4. UNION {LineStart(t, j)..j : j \in E \cup F}
          = (UNION {LineStart(t, j)..j : j \in E}) \cup (IF InStacks(t, i) THEN b..i ELSE {})
    <3>1. CASE InStacks(t, i)
      BY <3>1
    <3>2. CASE ~InStacks(t, i)
      BY <3>2
    <3> QED BY <3>1, <3>2
  <2> QED BY <2>2, <2>3, <2>4
<1>12. Cardinality(Stacks(t, i - 1)) \in Nat
  <2>1. i - 1 \in 0..Len(t)
    BY <1>1
  <2> QED BY <2>1, StacksAre
<1>13. InStacks(t, i) => Cardinality(Stacks(t, i)) = Cardinality(Stacks(t, i - 1)) + Len(line)
  <2> SUFFICES ASSUME InStacks(t, i)
               PROVE  Cardinality(Stacks(t, i)) = Cardinality(Stacks(t, i - 1)) + Len(line)
    OBVIOUS
  <2>1. IsFiniteSet(b..i) /\ Cardinality(b..i) = i - b + 1
    <3> HIDE DEF line, b, x, q
    <3>1. b \in Int /\ i \in Int /\ ~(b > i)
      BY <1>1, <1>2
    <3> QED BY <3>1, FS_Interval
  <2>2. IsFiniteSet(Stacks(t, i - 1))
    <3>1. i - 1 \in 0..Len(t)
      BY <1>1
    <3> QED BY <3>1, StacksAre
  <2>3. Stacks(t, i - 1) \cap (b..i) = {}
    <3>1. ASSUME NEW j \in LineEnds(t), j <= i - 1 PROVE j < b
      BY <1>1, <1>2, <3>1, EndsAre
    <3>2. ASSUME NEW j \in LineEnds(t), j <= i - 1, NEW n \in LineStart(t, j)..j PROVE n \notin b..i
      <4>1. j \in 1..Len(t) /\ j < b
        BY <3>1, <3>2, EndsAre
      <4>2. LineStart(t, j) \in 1..j
        BY <4>1, TheStart
      <4> QED BY <1>1, <1>2, <4>1, <4>2
    <3> QED BY <3>2, EndsAre
  <2>4. Cardinality({}) = 0
    BY FS_EmptySet
  <2>5. Cardinality(Stacks(t, i - 1) \cup (b..i))
          = Cardinality(Stacks(t, i - 1)) + Cardinality(b..i) - Cardinality(Stacks(t, i - 1) \cap (b..i))
    BY <2>1, <2>2, FS_Union
  <2>6. Stacks(t, i) = Stacks(t, i - 1) \cup (b..i)
    BY <1>11
  <2> HIDE DEF line, b
  <2>7. Cardinality(Stacks(t, i)) = Cardinality(Stacks(t, i - 1)) + Cardinality(b..i) - 0
    BY <2>3, <2>4, <2>5, <2>6
  <2> QED BY <1>1, <1>2, <1>3, <1>12, <2>1, <2>7
<1>14. ~InStacks(t, i) => Stacks(t, i) = Stacks(t, i - 1)
  BY <1>11
<1>15. /\ PrintedTo(t, i, retains) = c.out \o Printed(t, i, retains)
  BY PrintedMore DEF CopiedTo
<1>16. Printed(t, i, retains) = IF ~InStacks(t, i) \/ ~retains \/ Fits(t, i) THEN line
                       ELSE IF ~Passed(t, i - 1) THEN <<Truncation, NL>> ELSE <<>>
  <2>1. (\A j \in LineEnds(t) : j < i /\ InStacks(t, j) => Fits(t, j)) <=> ~Passed(t, i - 1)
    <3>1. \A j \in LineEnds(t) : j < i <=> j <= i - 1
      BY <1>1, EndsAre
    <3> QED BY <3>1 DEF Passed
  <2> HIDE DEF line
  <2> QED BY <2>1, Zenon DEF Printed, line
<1>17. Passed(t, i - 1) => ~Fits(t, i)
  <2> SUFFICES ASSUME NEW j \in LineEnds(t), j <= i - 1, ~Fits(t, j) PROVE ~Fits(t, i)
    BY DEF Passed
  <2>1. j \in 0..i /\ i \in 0..Len(t)
    BY <1>1, EndsAre
  <2> QED BY <2>1, StacksAre
<1>18. /\ retains => (c.d.truncated <=> Passed(t, i - 1))
       /\ retains /\ ~c.d.truncated => c.d.copied = Cardinality(Stacks(t, i - 1))
  BY DEF CopiedTo
<1>19. q = IF ~InStacks(t, i) \/ ~retains THEN [d |-> x, out |-> c.out \o line]
           ELSE IF x.truncated THEN [d |-> x, out |-> c.out]
           ELSE IF Overflows(x, line)
                THEN [d |-> [x EXCEPT !.truncated = TRUE], out |-> c.out \o <<Truncation, NL>>]
           ELSE [d |-> [x EXCEPT !.copied = @ + Len(line)], out |-> c.out \o line]
  <2>1. (~x.inStacks \/ ~x.retained \/ IsPackageSummary(line)) <=> (~InStacks(t, i) \/ ~retains)
    BY <1>8, <1>9
  <2> HIDE DEF line
  <2> QED BY <2>1, Zenon DEF CopyLine
<1> HIDE DEF x, q, line, b
<1>20. c.out \o line \in Text /\ c.out \o <<>> = c.out /\ c.out \o <<Truncation, NL>> \in Text
       /\ Len(line) \in Nat
  <2>1. <<Truncation, NL>> \in Text
    BY TheSignature, Pair DEF Text
  <2> QED BY <1>3, <1>5, <2>1, ConcatProperties, ConcatEmptySeq, LenProperties DEF Text
<1>21. CASE ~InStacks(t, i) \/ ~retains
  <2>1. q = [d |-> x, out |-> c.out \o line] /\ Printed(t, i, retains) = line
    BY <1>16, <1>19, <1>21
  <2>2. q \in Copy /\ q.d = x /\ q.out = c.out \o line
    BY <1>8, <1>20, <2>1 DEF Copy
  <2> QED BY <1>8, <1>10, <1>14, <1>15, <1>18, <1>21, <2>1, <2>2 DEF CopiedTo, q, line
<1>22. CASE InStacks(t, i) /\ retains /\ x.truncated
  <2>1. q = [d |-> x, out |-> c.out]
    BY <1>19, <1>22
  <2>2. q \in Copy /\ q.d = x /\ q.out = c.out
    BY <1>5, <1>8, <2>1 DEF Copy
  <2>3. Passed(t, i - 1) /\ ~Fits(t, i)
    BY <1>8, <1>17, <1>18, <1>22
  <2>4. Printed(t, i, retains) = <<>>
    BY <1>16, <1>22, <2>3
  <2> QED BY <1>8, <1>10, <1>15, <1>20, <1>22, <2>2, <2>3, <2>4 DEF CopiedTo, q, line
<1>23. CASE InStacks(t, i) /\ retains /\ ~x.truncated
  <2>1. ~Passed(t, i - 1) /\ x.copied = Cardinality(Stacks(t, i - 1))
    BY <1>8, <1>18, <1>23
  <2>2. Overflows(x, line) <=> ~Fits(t, i)
    <3>1. x.copied + Len(line) = Cardinality(Stacks(t, i))
      BY <1>13, <1>23, <2>1
    <3>2. x.copied + Len(line) \in Nat
      BY <1>12, <1>20, <2>1
    <3> QED BY <3>1, <3>2, EndsAre, StacksLimitAssumption DEF Overflows
  <2>3. CASE Overflows(x, line)
    <3>1. q = [d |-> [x EXCEPT !.truncated = TRUE], out |-> c.out \o <<Truncation, NL>>]
      BY <1>19, <1>23, <2>3
    <3>2. /\ q \in Copy /\ q.d.active /\ q.d.retained = retains /\ (q.d.inStacks <=> Begun(t, i))
          /\ q.d.truncated /\ q.out = c.out \o <<Truncation, NL>>
      BY <1>8, <1>20, <3>1 DEF Copy, DumpRecord
    <3>3. Printed(t, i, retains) = <<Truncation, NL>> /\ Passed(t, i)
      BY <1>10, <1>16, <1>23, <2>1, <2>2, <2>3
    <3> QED BY <1>15, <3>2, <3>3 DEF CopiedTo, q, line
  <2>4. CASE ~Overflows(x, line)
    <3>1. q = [d |-> [x EXCEPT !.copied = @ + Len(line)], out |-> c.out \o line]
      BY <1>19, <1>23, <2>4
    <3>2. /\ q \in Copy /\ q.d.active /\ q.d.retained = retains /\ (q.d.inStacks <=> Begun(t, i))
          /\ ~q.d.truncated /\ q.d.copied = x.copied + Len(line) /\ q.out = c.out \o line
      <4>1. x.copied + Len(line) \in Nat
        BY <1>12, <1>20, <2>1
      <4> QED BY <1>8, <1>20, <1>23, <3>1, <4>1 DEF Copy, DumpRecord
    <3>3. Printed(t, i, retains) = line /\ ~Passed(t, i)
      BY <1>10, <1>16, <1>23, <2>1, <2>2, <2>4
    <3> QED BY <1>13, <1>15, <1>23, <2>1, <3>2, <3>3 DEF CopiedTo, q, line
  <2> QED BY <2>3, <2>4
<1>24. x.truncated \in BOOLEAN
  BY <1>8 DEF DumpRecord
<1> QED BY <1>21, <1>22, <1>23, <1>24

\* Nor do any number of them.
LEMMA NoLines ==
    ASSUME NEW t \in Text, NEW i \in 0..Len(t), NEW k \in i..Len(t),
           \A j \in (i + 1)..k : t[j] # NL
    PROVE  \A c : CopiedTo(c, t, i, retains) <=> CopiedTo(c, t, k, retains)
<1>1. Len(t) \in Nat
  BY LenProperties DEF Text
<1>2. \A j \in LineEnds(t) : j <= i <=> j <= k
  <2> TAKE j \in LineEnds(t)
  <2>1. j \in 1..Len(t) /\ t[j] = NL
    BY EndsAre
  <2>2. ~(j \in (i + 1)..k)
    BY <2>1
  <2> QED BY <1>1, <2>1, <2>2
<1>3. (Begun(t, i) <=> Begun(t, k)) /\ (Passed(t, i) <=> Passed(t, k))
  BY <1>2 DEF Begun, Passed
<1>4. Stacks(t, i) = Stacks(t, k)
  <2>1. {j \in LineEnds(t) : j <= i /\ InStacks(t, j)} = {j \in LineEnds(t) : j <= k /\ InStacks(t, j)}
    BY <1>2
  <2> QED BY <2>1, EndsAre
<1>5. PrintedTo(t, i, retains) = PrintedTo(t, k, retains)
  <2> DEFINE N == {n \in Nat : i + n <= k => PrintedTo(t, i, retains) = PrintedTo(t, i + n, retains)}
  <2>1. 0 \in N
    BY <1>1
  <2>2. ASSUME NEW n \in N PROVE n + 1 \in N
    <3> SUFFICES ASSUME i + (n + 1) <= k PROVE PrintedTo(t, i, retains) = PrintedTo(t, i + (n + 1), retains)
      BY <2>2
    <3> DEFINE m == i + (n + 1)
    <3>1. m \in 1..Len(t) /\ m \in (i + 1)..k /\ m - 1 = i + n /\ i + n <= k
      BY <1>1
    <3>2. PrintedTo(t, i, retains) = PrintedTo(t, i + n, retains)
      BY <3>1
    <3> HIDE DEF m
    <3>3. Printed(t, m, retains) = <<>>
      BY <3>1 DEF Printed
    <3>4. PrintedTo(t, m, retains) = PrintedTo(t, m - 1, retains) \o <<>> /\ PrintedTo(t, m - 1, retains) \in Seq(Lump)
      BY <3>1, <3>3, PrintedMore DEF Text
    <3>5. PrintedTo(t, m, retains) = PrintedTo(t, m - 1, retains)
      BY <3>4, ConcatEmptySeq
    <3> QED BY <3>1, <3>2, <3>5 DEF m
  <2> HIDE DEF N
  <2>3. N = Nat
    BY <2>1, <2>2, Induct DEF N
  <2>4. PICK n \in Nat : i + n = k
    <3>1. k - i \in Nat /\ i + (k - i) = k
      BY <1>1
    <3> QED BY <3>1
  <2>5. n \in N /\ i + n <= k
    BY <1>1, <2>3, <2>4
  <2>6. PrintedTo(t, i, retains) = PrintedTo(t, i + n, retains)
    BY <2>5 DEF N
  <2> QED BY <2>4, <2>6
<1> QED BY <1>3, <1>4, <1>5 DEF CopiedTo

\* What a text has said is what it has said when it goes on.
LEMMA CopiedContinues ==
    ASSUME NEW t \in Text, NEW g \in Text, PartAt(t, g, 0), NEW i \in 0..Len(t)
    PROVE  \A c : CopiedTo(c, t, i, retains) <=> CopiedTo(c, g, i, retains)
<1>1. /\ \A j : j \in LineEnds(g) /\ j <= i <=> j \in LineEnds(t) /\ j <= i
      /\ Begun(g, i) <=> Begun(t, i)
      /\ Stacks(g, i) = Stacks(t, i)
      /\ \A j \in 1..i : (InStacks(g, j) <=> InStacks(t, j)) /\ Printed(g, j, retains) = Printed(t, j, retains)
  BY Continues
<1>2. \A j \in LineEnds(t) : j <= i => j \in 1..i /\ (Fits(g, j) <=> Fits(t, j))
  <2> TAKE j \in LineEnds(t)
  <2> HAVE j <= i
  <2>1. j \in 1..i /\ j \in 0..Len(t)
    <3>1. Len(t) \in Nat /\ j \in 1..Len(t)
      BY LenProperties, EndsAre DEF Text
    <3> QED BY <3>1
  <2> QED BY <2>1, Continues
<1>3. Passed(g, i) <=> Passed(t, i)
  BY <1>1, <1>2 DEF Passed
<1>4. [j \in 1..i |-> Printed(g, j, retains)] = [j \in 1..i |-> Printed(t, j, retains)]
  BY <1>1
<1> QED BY <1>1, <1>3, <1>4 DEF CopiedTo, PrintedTo

----------------------------------------------------------------------------
(* copyTo, event by event.                                                 *)

\* The recursive function in CopyLines.
Copied(r, a) ==
    CHOOSE f : f = [i \in 0..Len(a) |->
                      IF i = 0 THEN [d |-> [r EXCEPT !.pending = Partial(a)], out |-> <<>>]
                      ELSE IF a[i] = NL THEN CopyLine(f[i - 1], LineTo(a, i)) ELSE f[i - 1]]

\* What it is at i, from what it is at i - 1.
Next1(a, c, i) == IF a[i] = NL THEN CopyLine(c, LineTo(a, i)) ELSE c

LEMMA CopiedExists ==
    ASSUME NEW r, NEW a \in Text
    PROVE  LET f == Copied(r, a)
           IN  /\ f[0] = [d |-> [r EXCEPT !.pending = Partial(a)], out |-> <<>>]
               /\ \A i \in 1..Len(a) : f[i] = Next1(a, f[i - 1], i)
               /\ CopyLines(r, a) = f[Len(a)]
<1> DEFINE zero == [d |-> [r EXCEPT !.pending = Partial(a)], out |-> <<>>]
           Good(f, n) == f = [i \in 0..n |-> IF i = 0 THEN zero ELSE Next1(a, f[i - 1], i)]
           N == {n \in Nat : \E f : Good(f, n)}
<1> HIDE DEF zero
<1>1. 0 \in N
  <2>1. Good([i \in 0..0 |-> zero], 0)
    OBVIOUS
  <2> QED BY <2>1
<1>2. ASSUME NEW n \in N PROVE n + 1 \in N
  <2>1. PICK f : Good(f, n)
    OBVIOUS
  <2> DEFINE g == [i \in 0..(n + 1) |-> IF i = n + 1 THEN Next1(a, f[i - 1], i) ELSE f[i]]
  <2>2. ASSUME NEW i \in 0..(n + 1)
        PROVE  g[i] = IF i = 0 THEN zero ELSE Next1(a, g[i - 1], i)
    <3>1. CASE i = 0
      <4>1. i \in 0..n /\ i # n + 1
        BY <3>1
      <4> QED BY <2>1, <3>1, <4>1
    <3>2. CASE i # 0
      <4>1. i - 1 \in 0..n /\ i - 1 # n + 1 /\ i - 1 \in 0..(n + 1)
        BY <3>2
      <4>2. g[i - 1] = f[i - 1]
        BY <4>1
      <4>3. i # n + 1 => i \in 0..n
        BY <3>2
      <4>4. i # n + 1 => f[i] = Next1(a, f[i - 1], i)
        BY <2>1, <3>2, <4>3
      <4> QED BY <3>2, <4>2, <4>4
    <3> QED BY <3>1, <3>2
  <2>3. g = [i \in 0..(n + 1) |-> IF i = 0 THEN zero ELSE Next1(a, g[i - 1], i)]
    <3> DEFINE h == [i \in 0..(n + 1) |-> IF i = 0 THEN zero ELSE Next1(a, g[i - 1], i)]
    <3>1. \A i \in 0..(n + 1) : g[i] = h[i]
      BY <2>2
    <3>2. g = [i \in 0..(n + 1) |-> g[i]] /\ h = [i \in 0..(n + 1) |-> h[i]]
      OBVIOUS
    <3> HIDE DEF g, h
    <3>3. g = h
      BY <3>1, <3>2
    <3> QED BY <3>3 DEF h
  <2> HIDE DEF g
  <2>4. \E f1 : Good(f1, n + 1)
    BY <2>3
  <2> QED BY <2>4
<1>3. N = Nat
  <2> HIDE DEF N
  <2>1. N \in SUBSET Nat
    BY DEF N
  <2> QED BY <1>1, <1>2, <2>1, Induct
<1>4. Len(a) \in Nat
  BY LenProperties DEF Text
<1>5. \E f : Good(f, Len(a))
  BY <1>3, <1>4
<1> DEFINE f == Copied(r, a)
<1>6. Good(f, Len(a))
  <2>1. \E g : g = [i \in 0..Len(a) |->
                      IF i = 0 THEN [d |-> [r EXCEPT !.pending = Partial(a)], out |-> <<>>]
                      ELSE IF a[i] = NL THEN CopyLine(g[i - 1], LineTo(a, i)) ELSE g[i - 1]]
    BY <1>5, Zenon DEF Next1, zero
  <2>2. f = [i \in 0..Len(a) |->
                      IF i = 0 THEN [d |-> [r EXCEPT !.pending = Partial(a)], out |-> <<>>]
                      ELSE IF a[i] = NL THEN CopyLine(f[i - 1], LineTo(a, i)) ELSE f[i - 1]]
    BY <2>1, Zenon DEF Copied
  <2> HIDE DEF f
  <2> QED BY <2>2, Zenon DEF Next1, zero
<1>7. CopyLines(r, a) = f[Len(a)]
  BY Zenon DEF CopyLines, Copied
<1> HIDE DEF f
<1>8. f[0] = zero
  BY <1>4, <1>6
<1>9. \A i \in 1..Len(a) : f[i] = Next1(a, f[i - 1], i)
  <2> TAKE i \in 1..Len(a)
  <2>1. i \in 0..Len(a) /\ i # 0
    BY <1>4
  <2> QED BY <1>6, <2>1
<1> QED BY <1>7, <1>8, <1>9 DEF f, zero

\* c, with o written before.
After(o, c) == [d |-> c.d, out |-> o \o c.out]

LEMMA CopyLineAfter ==
    ASSUME NEW o \in Text, NEW x \in DumpRecord, NEW u \in Text, NEW line \in Text,
           NEW c, c = [d |-> x, out |-> u]
    PROVE  /\ CopyLine(After(o, c), line) = After(o, CopyLine(c, line))
           /\ CopyLine(c, line) \in Copy
           /\ CopyLine(c, line).d.pending = x.pending
<1> DEFINE y == [x EXCEPT !.inStacks = @ \/ Head(line) = Goroutine]
           notice == <<Truncation, NL>>
<1>1. c.d = x /\ c.out = u /\ After(o, c).d = x /\ After(o, c).out = o \o u
  BY DEF After
<1>2. y \in DumpRecord /\ y.pending = x.pending
  BY DEF DumpRecord
<1>3. notice \in Text
  BY TheSignature, Pair DEF Text
<1>4. /\ (o \o u) \o line = o \o (u \o line) /\ (o \o u) \o notice = o \o (u \o notice)
      /\ u \o line \in Text /\ u \o notice \in Text
  <2> HIDE DEF notice
  <2>1. o \in Seq(Lump) /\ u \in Seq(Lump) /\ line \in Seq(Lump) /\ notice \in Seq(Lump)
    BY <1>3 DEF Text
  <2>2. (o \o u) \o line = o \o (u \o line)
    BY <2>1, ConcatAssociative
  <2>3. (o \o u) \o notice = o \o (u \o notice)
    BY <2>1, ConcatAssociative
  <2>4. u \o line \in Seq(Lump) /\ u \o notice \in Seq(Lump)
    BY <2>1, ConcatProperties
  <2> QED BY <2>2, <2>3, <2>4 DEF Text
<1>5. Len(line) \in Nat
  BY LenProperties DEF Text
<1> HIDE DEF notice
<1> DEFINE whole == ~y.inStacks \/ ~y.retained \/ IsPackageSummary(line)
           p == [y EXCEPT !.truncated = TRUE]
           q == [y EXCEPT !.copied = @ + Len(line)]
<1>6. /\ p \in DumpRecord /\ p.pending = x.pending
      /\ q \in DumpRecord /\ q.pending = x.pending
  <2>1. y.copied + Len(line) \in Nat
    BY <1>2, <1>5 DEF DumpRecord
  <2> HIDE DEF y
  <2> QED BY <1>2, <2>1 DEF DumpRecord
<1>7. \A a, v : a = [d |-> x, out |-> v] =>
        CopyLine(a, line) = IF whole THEN [d |-> y, out |-> v \o line]
                            ELSE IF y.truncated THEN [d |-> y, out |-> v]
                            ELSE IF Overflows(y, line) THEN [d |-> p, out |-> v \o notice]
                            ELSE [d |-> q, out |-> v \o line]
  <2> TAKE a, v
  <2> HAVE a = [d |-> x, out |-> v]
  <2>1. a.d = x /\ a.out = v
    OBVIOUS
  <2> QED BY <2>1, Zenon DEF CopyLine, notice
<1> HIDE DEF y, whole, p, q
<1>8. After(o, c) = [d |-> x, out |-> o \o u]
  BY <1>1 DEF After
<1> DEFINE k == CopyLine(c, line)
           l == CopyLine(After(o, c), line)
<1>9. /\ k = IF whole THEN [d |-> y, out |-> u \o line]
             ELSE IF y.truncated THEN [d |-> y, out |-> u]
             ELSE IF Overflows(y, line) THEN [d |-> p, out |-> u \o notice]
             ELSE [d |-> q, out |-> u \o line]
      /\ l = IF whole THEN [d |-> y, out |-> (o \o u) \o line]
             ELSE IF y.truncated THEN [d |-> y, out |-> o \o u]
             ELSE IF Overflows(y, line) THEN [d |-> p, out |-> (o \o u) \o notice]
             ELSE [d |-> q, out |-> (o \o u) \o line]
  BY <1>7, <1>8
<1> HIDE DEF k, l
<1>10. k \in Copy /\ k.d.pending = x.pending /\ l = [d |-> k.d, out |-> o \o k.out]
  BY <1>2, <1>4, <1>6, <1>9 DEF Copy
<1> QED BY <1>10 DEF k, l, After

LEMMA TheOpen ==
    ASSUME NEW t \in Text
    PROVE  \E s : Open(t, s) /\ Partial(t) = SubSeq(t, s, Len(t))
<1>1. Len(t) \in Nat
  BY LenProperties DEF Text
<1>2. CASE LineEnds(t) = {}
  <2>1. Partial(t) = t /\ SubSeq(t, 1, Len(t)) = t
    BY <1>2, SubSeqFull DEF Partial, Text
  <2>2. Open(t, 1)
    BY <1>1, <1>2, EndsAre DEF Open
  <2> QED BY <2>1, <2>2
<1>3. CASE LineEnds(t) # {}
  <2> DEFINE e == Max(LineEnds(t))
  <2>1. LineEnds(t) \in SUBSET (0..Len(t))
    BY <1>1, EndsAre
  <2>2. e \in LineEnds(t) /\ \A m \in LineEnds(t) : m <= e
    BY <1>1, <1>3, <2>1, TheGreatest
  <2>3. Partial(t) = SubSeq(t, e + 1, Len(t))
    BY <1>3 DEF Partial
  <2> HIDE DEF e
  <2>4. e \in 1..Len(t) /\ t[e] = NL
    BY <2>2, EndsAre
  <2>5. ASSUME NEW j \in (e + 1)..Len(t) PROVE t[j] # NL
    <3>1. j \in 1..Len(t) /\ ~(j <= e)
      BY <1>1, <2>4
    <3> QED BY <2>2, <3>1, EndsAre
  <2>6. e + 1 \in 1..(Len(t) + 1) /\ e + 1 - 1 = e
    BY <1>1, <2>4
  <2>7. t[e + 1 - 1] = NL
    BY <2>4, <2>6
  <2> DEFINE z == e + 1
  <2>8. z \in 1..(Len(t) + 1) /\ t[z - 1] = NL /\ (\A j \in z..Len(t) : t[j] # NL)
        /\ Partial(t) = SubSeq(t, z, Len(t))
    BY <1>1, <2>3, <2>4, <2>5, <2>6, <2>7
  <2> HIDE DEF z
  <2> QED BY <2>8 DEF Open
<1> QED BY <1>2, <1>3

\* copyTo: if what was copied before is what is printed of the text so far, what
\* has been copied after it is what is printed of the text with f.
LEMMA CopyOn ==
    ASSUME NEW t \in Text, NEW f \in Text, NEW s, Open(t, s), NEW r \in DumpRecord,
           r.pending = SubSeq(t, s, Len(t)), NEW o \in Text,
           CopiedTo([d |-> r, out |-> o], t, Len(t), retains), retains \in BOOLEAN
    PROVE  LET c == CopyTo(r, f)
               g == t \o f
           IN  /\ c \in Copy
               /\ CopiedTo(After(o, c), g, Len(g), retains)
               /\ \E z : Open(g, z) /\ c.d.pending = SubSeq(g, z, Len(g))
<1> DEFINE g == t \o f
           a == r.pending \o f
           k == Copied(r, a)
           p == s - 1
<1>1. /\ g \in Text /\ Len(t) \in Nat /\ Len(f) \in Nat /\ Len(g) = Len(t) + Len(f)
      /\ \A i \in 1..Len(t) : g[i] = t[i]
      /\ \A i \in 1..Len(f) : g[Len(t) + i] = f[i]
  BY Glue
<1>2. /\ s \in 1..(Len(t) + 1) /\ (s = 1 \/ t[s - 1] = NL)
      /\ \A j \in s..Len(t) : t[j] # NL
  BY DEF Open
<1>3. a \in Text /\ a = SubSeq(g, s, Len(g))
  <2>1. r.pending \in Text /\ a = SubSeq(g, s, Len(g))
    <3>1. s \in 1..(Len(t) + 1)
      BY <1>2
    <3>2. /\ SubSeq(t, s, Len(t)) \in Text
          /\ SubSeq(t, s, Len(t)) \o f = SubSeq(t \o f, s, Len(t \o f))
      <4> HIDE DEF g, a, k, p
      <4> QED BY <3>1, Remainder
    <3> QED BY <3>2
  <2> QED BY <2>1, Glue
<1> HIDE DEF g, a
<1>4. /\ Len(a) = Len(g) - s + 1 /\ Len(a) \in Nat
      /\ \A n \in 1..(Len(g) - s + 1) : a[n] = g[s + n - 1]
  <2>1. s \in Nat \ {0} /\ Len(g) \in 0..Len(g) /\ s <= Len(g) + 1
    BY <1>1, <1>2
  <2>2. /\ Len(a) = Len(g) - s + 1
        /\ \A n \in 1..(Len(g) - s + 1) : a[n] = g[s + n - 1]
    BY <1>1, <1>3, <2>1, PartOf
  <2> QED BY <1>3, <2>2, LenProperties DEF Text
<1>5. p \in Nat /\ p <= Len(t) /\ p \in 0..Len(t) /\ p \in 0..Len(g) /\ p + Len(a) = Len(g)
  BY <1>1, <1>2, <1>4
<1>6. PartAt(t, g, 0)
  <2>1. 0 + Len(t) <= Len(g) /\ \A n \in 1..Len(t) : 0 + n = n
    BY <1>1
  <2> QED BY <1>1, <2>1 DEF PartAt
<1>7. PartAt(a, g, p)
  <2>1. \A n \in 1..Len(a) : g[p + n] = a[n]
    <3> TAKE n \in 1..Len(a)
    <3>1. n \in 1..(Len(g) - s + 1) /\ s + n - 1 = p + n
      BY <1>1, <1>2, <1>4
    <3> QED BY <1>4, <3>1
  <2>2. p = 0 \/ g[p] = NL
    <3>1. CASE s = 1
      BY <3>1
    <3>2. CASE s # 1
      <4>1. s - 1 \in 1..Len(t)
        BY <1>1, <1>2, <3>2
      <4> QED BY <1>1, <1>2, <3>2, <4>1
    <3> QED BY <3>1, <3>2
  <2> QED BY <1>5, <2>1, <2>2 DEF PartAt
<1>8. /\ k[0] = [d |-> [r EXCEPT !.pending = Partial(a)], out |-> <<>>]
      /\ \A i \in 1..Len(a) : k[i] = Next1(a, k[i - 1], i)
      /\ CopyTo(r, f) = k[Len(a)]
  BY <1>3, CopiedExists DEF CopyTo, a
<1>9. PICK e : Open(a, e) /\ Partial(a) = SubSeq(a, e, Len(a))
  BY <1>3, TheOpen
<1>10. /\ e \in 1..(Len(a) + 1) /\ (e = 1 \/ a[e - 1] = NL) /\ \A j \in e..Len(a) : a[j] # NL
  BY <1>9 DEF Open
<1>11. Partial(a) \in Text
  <2>1. e \in Nat \ {0} /\ Len(a) \in 0..Len(a) /\ e <= Len(a) + 1
    BY <1>4, <1>10
  <2>2. SubSeq(a, e, Len(a)) \in Text
    BY <1>3, <2>1, PartOf
  <2> QED BY <1>9, <2>2
<1> HIDE DEF k, p
<1> DEFINE Up(n) == /\ k[n] \in Copy /\ k[n].d.pending = Partial(a)
                    /\ CopiedTo(After(o, k[n]), g, p + n, retains)
           N == {n \in Nat : n <= Len(a) => Up(n)}
<1>12. 0 \in N
  <2>1. k[0] \in Copy /\ k[0].d.pending = Partial(a) /\ k[0].d = [r EXCEPT !.pending = Partial(a)]
        /\ k[0].out = <<>>
    <3> DEFINE x == [r EXCEPT !.pending = Partial(a)]
    <3>1. x \in DumpRecord /\ x.pending = Partial(a)
      BY <1>11 DEF DumpRecord
    <3>2. k[0] = [d |-> x, out |-> <<>>]
      BY <1>8
    <3>3. <<>> \in Text
      BY EmptySeq DEF Text
    <3> HIDE DEF x
    <3>4. k[0] \in Copy /\ k[0].d = x /\ k[0].out = <<>>
      BY <3>1, <3>2, <3>3 DEF Copy
    <3> QED BY <3>1, <3>4 DEF x
  <2>2. CopiedTo([d |-> r, out |-> o], t, p, retains)
    <3>1. Len(t) \in p..Len(t) /\ \A j \in (p + 1)..Len(t) : t[j] # NL
      <4>1. p + 1 = s
        BY <1>2 DEF p
      <4> QED BY <1>1, <1>2, <1>5, <4>1
    <3> QED BY <1>5, <3>1, NoLines
  <2>3. CopiedTo([d |-> r, out |-> o], g, p, retains)
    BY <1>1, <1>5, <1>6, <2>2, CopiedContinues
  <2>4. After(o, k[0]) = [d |-> [r EXCEPT !.pending = Partial(a)], out |-> o]
    BY <2>1, ConcatEmptySeq DEF After, Text
  <2>5. /\ After(o, k[0]) \in Copy /\ After(o, k[0]).out = o
        /\ After(o, k[0]).d.active = r.active /\ After(o, k[0]).d.retained = r.retained
        /\ After(o, k[0]).d.inStacks = r.inStacks /\ After(o, k[0]).d.truncated = r.truncated
        /\ After(o, k[0]).d.copied = r.copied
    BY <1>11, <2>4 DEF Copy, DumpRecord
  <2>6. CopiedTo(After(o, k[0]), g, p, retains)
    <3> DEFINE x == [d |-> r, out |-> o]
    <3>1. x.d = r /\ x.out = o
      OBVIOUS
    <3> HIDE DEF x
    <3>2. CopiedTo(x, g, p, retains)
      BY <2>3 DEF x
    <3> QED BY <2>5, <3>1, <3>2 DEF CopiedTo
  <2>7. p + 0 = p
    BY <1>5
  <2> QED BY <2>1, <2>6, <2>7
<1>13. ASSUME NEW n \in N PROVE n + 1 \in N
  <2> SUFFICES ASSUME n + 1 <= Len(a) PROVE Up(n + 1)
    BY <1>13
  <2>1. n \in Nat /\ n <= Len(a) /\ n + 1 \in 1..Len(a) /\ n + 1 - 1 = n
    BY <1>4
  <2>2. Up(n)
    BY <2>1
  <2> HIDE DEF N
  <2> DEFINE i == p + (n + 1)
  <2>3. i \in 1..Len(g) /\ i - 1 = p + n /\ g[i] = a[n + 1]
    <3>1. g[p + (n + 1)] = a[n + 1]
      BY <1>7, <2>1 DEF PartAt
    <3>2. i \in 1..Len(g) /\ i - 1 = p + n
      BY <1>4, <1>5, <2>1
    <3> QED BY <3>1, <3>2
  <2>4. LineTo(g, i) = LineTo(a, n + 1) /\ LineTo(a, n + 1) \in Text
    <3>1. LineTo(g, p + (n + 1)) = LineTo(a, n + 1)
      <4> DEFINE m == n + 1
      <4>1. m \in 1..Len(a)
        BY <2>1
      <4> HIDE DEF m, i, Up
      <4>2. a \in Text /\ g \in Text /\ PartAt(a, g, p)
        BY <1>1, <1>3, <1>7
      <4>3. LineTo(g, p + m) = LineTo(a, m)
        BY <4>1, <4>2, SameLine
      <4> QED BY <4>3 DEF m
    <3> QED BY <1>3, <2>1, <3>1, LineIs
  <2>5. k[n + 1] = Next1(a, k[n], n + 1)
    BY <1>8, <2>1
  <2>6. CopiedTo(After(o, k[n]), g, i - 1, retains)
    BY <2>2, <2>3
  <2> HIDE DEF i
  <2>7. CASE a[n + 1] # NL
    <3>1. k[n + 1] = k[n]
      BY <2>5, <2>7 DEF Next1
    <3>2. CopiedTo(After(o, k[n]), g, i, retains)
      BY <1>1, <2>3, <2>6, <2>7, NoLine
    <3> QED BY <2>2, <3>1, <3>2 DEF i
  <2>8. CASE a[n + 1] = NL
    <3>1. k[n + 1] = CopyLine(k[n], LineTo(a, n + 1))
      BY <2>5, <2>8 DEF Next1
    <3>2. k[n] = [d |-> k[n].d, out |-> k[n].out] /\ k[n].d \in DumpRecord /\ k[n].out \in Text
      BY <2>2 DEF Copy
    <3>3. /\ CopyLine(After(o, k[n]), LineTo(a, n + 1)) = After(o, k[n + 1])
          /\ k[n + 1] \in Copy /\ k[n + 1].d.pending = k[n].d.pending
      BY <2>4, <3>1, <3>2, CopyLineAfter
    <3>4. CopiedTo(CopyLine(After(o, k[n]), LineTo(g, i)), g, i, retains)
      BY <1>1, <2>3, <2>6, <2>8, OneLine
    <3> QED BY <2>2, <2>4, <3>3, <3>4 DEF i
  <2> QED BY <2>7, <2>8
<1>14. Up(Len(a))
  <2>1. N = Nat
    <3> HIDE DEF N
    <3>1. N \in SUBSET Nat
      BY DEF N
    <3> QED BY <1>12, <1>13, <3>1, Induct
  <2>2. Len(a) \in N
    BY <1>4, <2>1
  <2> QED BY <1>4, <2>2
<1>15. CopiedTo(After(o, CopyTo(r, f)), g, Len(g), retains) /\ CopyTo(r, f) \in Copy
       /\ CopyTo(r, f).d.pending = Partial(a)
  BY <1>5, <1>8, <1>14
<1>16. Open(g, p + e) /\ Partial(a) = SubSeq(g, p + e, Len(g))
  <2>1. p + e \in 1..(Len(g) + 1) /\ p + e \in Nat \ {0} /\ Len(g) \in 0..Len(g) /\ p + e <= Len(g) + 1
    BY <1>1, <1>4, <1>5, <1>10
  <2>2. p + e = 1 \/ g[p + e - 1] = NL
    <3>1. CASE e = 1
      <4>1. p + e - 1 = p /\ (p = 0 => p + e = 1)
        BY <1>5, <3>1
      <4> QED BY <1>7, <4>1 DEF PartAt
    <3>2. CASE e # 1
      <4>1. e - 1 \in 1..Len(a) /\ p + (e - 1) = p + e - 1
        BY <1>4, <1>5, <1>10, <3>2
      <4>2. g[p + (e - 1)] = a[e - 1]
        BY <1>7, <4>1 DEF PartAt
      <4> QED BY <1>10, <3>2, <4>1, <4>2
    <3> QED BY <3>1, <3>2
  <2>3. ASSUME NEW j \in (p + e)..Len(g) PROVE g[j] # NL
    <3>1. PICK n \in Int : n = j - p
      <4>1. j - p \in Int
        BY <1>5, <1>10
      <4> QED BY <4>1
    <3>2. n \in e..Len(a) /\ n \in 1..Len(a) /\ p + n = j
      BY <1>1, <1>4, <1>5, <1>10, <3>1
    <3>3. g[p + n] = a[n]
      BY <1>7, <3>2 DEF PartAt
    <3> QED BY <1>10, <3>2, <3>3
  <2> DEFINE u == SubSeq(g, p + e, Len(g))
             v == SubSeq(a, e, Len(a))
  <2>4. /\ u \in Text /\ Len(u) = Len(g) - (p + e) + 1
        /\ \A n \in 1..(Len(g) - (p + e) + 1) : u[n] = g[p + e + n - 1]
    <3> DEFINE m == p + e
    <3>1. m \in Nat \ {0} /\ Len(g) \in 0..Len(g) /\ m <= Len(g) + 1
      BY <2>1
    <3> HIDE DEF m
    <3>2. /\ SubSeq(g, m, Len(g)) \in Text /\ Len(SubSeq(g, m, Len(g))) = Len(g) - m + 1
          /\ \A n \in 1..(Len(g) - m + 1) : SubSeq(g, m, Len(g))[n] = g[m + n - 1]
      BY <1>1, <3>1, PartOf
    <3> QED BY <3>2 DEF m
  <2>5. /\ v \in Text /\ Len(v) = Len(a) - e + 1
        /\ \A n \in 1..(Len(a) - e + 1) : v[n] = a[e + n - 1]
    <3>1. e \in Nat \ {0} /\ Len(a) \in 0..Len(a) /\ e <= Len(a) + 1
      BY <1>4, <1>10
    <3> QED BY <1>3, <3>1, PartOf
  <2> HIDE DEF u, v
  <2>6. Len(u) = Len(v)
    BY <1>1, <1>4, <1>5, <1>10, <2>4, <2>5
  <2>7. ASSUME NEW n \in 1..Len(u) PROVE u[n] = v[n]
    <3>1. /\ n \in 1..(Len(g) - (p + e) + 1) /\ n \in 1..(Len(a) - e + 1)
          /\ e + n - 1 \in 1..Len(a) /\ p + (e + n - 1) = p + e + n - 1
      BY <1>1, <1>4, <1>5, <1>10, <2>4
    <3>2. g[p + (e + n - 1)] = a[e + n - 1]
      BY <1>7, <3>1 DEF PartAt
    <3> QED BY <2>4, <2>5, <3>1, <3>2
  <2>8. u = v
    BY <2>4, <2>5, <2>6, <2>7, SameText
  <2> DEFINE z == p + e
  <2>9. Open(g, z)
    <3>1. z \in 1..(Len(g) + 1) /\ (z = 1 \/ g[z - 1] = NL) /\ \A j \in z..Len(g) : g[j] # NL
      BY <1>1, <1>4, <1>5, <1>10, <2>1, <2>2, <2>3
    <3> HIDE DEF z
    <3> QED BY <3>1 DEF Open
  <2> QED BY <1>9, <2>8, <2>9 DEF u, v
<1> QED BY <1>15, <1>16 DEF g
----------------------------------------------------------------------------
(* What the events of a package leave.                                     *)

DumpTyped ==
    /\ d \in DumpRecord /\ text \in Text /\ out \in Text
    /\ retains \in BOOLEAN /\ flushed \in BOOLEAN

\* No signature yet: what timeoutDump keeps is what a later event needs of the
\* unfinished line.
Waiting ==
    /\ Idle(d) /\ Signatures(text) = {} /\ log = <<>> /\ out = <<>>
    /\ owner \in Seq(Tests) /\ Len(owner) = Len(text)
    /\ \E s \in 1..(Len(text) + 1) : Remembers(d, text, owner, s)

\* From the signature on: the complete lines are copied, the last one pending.
Copying ==
    /\ Has(text, 1)
    /\ log = text
    /\ carried[1] # <<>> => carried[2] = owner[1]
    /\ CopiedTo([d |-> d, out |-> out], text, Len(text), retains)
    /\ \E s \in 1..(Len(text) + 1) : Open(text, s) /\ d.pending = SubSeq(text, s, Len(text))

DumpInv ==
    /\ DumpTyped
    /\ ~flushed => IF d.active THEN Copying ELSE Waiting
    /\ CopyFaithful

LEMMA NoText ==
    /\ <<>> \in Text /\ Len(<<>>) = 0 /\ Signatures(<<>>) = {}
    /\ Open(<<>>, 1) /\ Starting(<<>>, 1) /\ SubSeq(<<>>, 1, Len(<<>>)) = <<>>
    /\ ~Begun(<<>>, 0) /\ ~Passed(<<>>, 0) /\ Stacks(<<>>, 0) = {}
    /\ PrintedTo(<<>>, 0, retains) = <<>>
<1>1. <<>> \in Text /\ Len(<<>>) = 0
  BY EmptySeq DEF Text
<1>2. LineEnds(<<>>) = {}
  BY <1>1 DEF LineEnds
<1>3. Signatures(<<>>) = {}
  BY <1>1 DEF Signatures, LineStarts
<1>4. Open(<<>>, 1) /\ Starting(<<>>, 1)
  BY <1>1 DEF Open, Starting
<1>5. SubSeq(<<>>, 1, Len(<<>>)) = <<>>
  BY <1>1, SubSeqFull DEF Text
<1>6. ~Begun(<<>>, 0) /\ ~Passed(<<>>, 0) /\ Stacks(<<>>, 0) = {}
  BY <1>2 DEF Begun, Passed, Stacks
<1>7. PrintedTo(<<>>, 0, retains) = <<>>
  <2>1. [j \in 1..0 |-> Printed(<<>>, j, retains)] = <<>>
    OBVIOUS
  <2> QED BY <2>1, FlattenEmpty DEF PrintedTo
<1> QED BY <1>1, <1>3, <1>4, <1>5, <1>6, <1>7

\* A text that has the signature at its start.
LEMMA StartsAtOne ==
    ASSUME NEW t \in Text, Has(t, 1)
    PROVE  1 \in Signatures(t)
<1>1. Len(t) \in Nat /\ 1 \in 1..Len(t)
  BY LenProperties DEF Text, Has
<1> QED BY <1>1, SignaturesAre

LEMMA AllPrinted ==
    ASSUME NEW t \in Text
    PROVE  PrintedOf(t, retains) = PrintedTo(t, Len(t), retains)
<1>1. DOMAIN t = 1..Len(t)
  BY DEF Text
<1> QED BY <1>1 DEF PrintedOf, PrintedTo

LEMMA FragmentsAre ==
    ASSUME NEW f \in Fragments
    PROVE  f \in Text /\ f # <<>>
BY StreamAssumption DEF Text, Lump

LEMMA DumpStarts == Init => DumpInv
<1> SUFFICES ASSUME Init PROVE DumpInv
  OBVIOUS
<1>1. /\ d = NewDump /\ text = <<>> /\ owner = <<>> /\ log = <<>> /\ out = <<>>
      /\ retains \in BOOLEAN /\ flushed = FALSE
  BY DEF Init
<1>2. /\ NewDump \in DumpRecord /\ Idle(NewDump) /\ ~NewDump.active
      /\ NewDump.head = <<>> /\ NewDump.midLine = FALSE
  BY NoText DEF NewDump, DumpRecord, Idle
<1>3. 1 \in 1..(Len(<<>>) + 1) /\ Remembers(NewDump, <<>>, <<>>, 1)
  BY <1>2, NoText DEF Remembers
<1>4. <<>> \in Seq(Tests)
  OBVIOUS
<1> QED BY <1>1, <1>2, <1>3, <1>4, NoText DEF DumpInv, DumpTyped, Waiting, CopyFaithful

\* copyTo has nothing before it when the dump is found.
LEMMA CopyFirst ==
    ASSUME NEW r \in DumpRecord, r.active, r.retained = retains, r.pending = <<>>,
           ~r.inStacks, r.copied = 0, ~r.truncated, retains \in BOOLEAN, NEW f \in Text
    PROVE  LET c == CopyTo(r, f)
           IN  /\ c \in Copy /\ CopiedTo([d |-> c.d, out |-> c.out], f, Len(f), retains)
               /\ \E z \in 1..(Len(f) + 1) : Open(f, z) /\ c.d.pending = SubSeq(f, z, Len(f))
<1> DEFINE c == CopyTo(r, f)
           e == <<>>
           x == [d |-> r, out |-> e]
<1>1. x \in Copy /\ x.d = r /\ x.out = <<>>
  BY NoText DEF Copy
<1>2. Cardinality({}) = 0
  BY FS_EmptySet
<1> HIDE DEF x
<1>3. CopiedTo(x, <<>>, 0, retains)
  BY <1>1, <1>2, NoText DEF CopiedTo
<1>4. e \in Text /\ Len(e) = 0 /\ Open(e, 1) /\ r.pending = SubSeq(e, 1, Len(e))
      /\ CopiedTo([d |-> r, out |-> e], e, Len(e), retains) /\ e \o f = f
  BY <1>3, NoText, ConcatEmptySeq DEF x, Text
<1> HIDE DEF c, e
<1>5. /\ c \in Copy /\ CopiedTo(After(e, c), e \o f, Len(e \o f), retains)
      /\ \E z : Open(e \o f, z) /\ c.d.pending = SubSeq(e \o f, z, Len(e \o f))
  BY <1>4, CopyOn DEF c
<1>6. e \o c.out = c.out
  BY <1>5, ConcatEmptySeq DEF Copy, Text, e
<1> QED BY <1>4, <1>5, <1>6 DEF After, Open, c

\* The state after a step is known by what is copied of the text after it.
LEMMA CopyingNext ==
    ASSUME text' \in Text, d' \in DumpRecord, out' \in Text, retains \in BOOLEAN,
           retains' = retains, flushed \in BOOLEAN, ~flushed, flushed' = flushed,
           CopiedTo([d |-> d', out |-> out'], text', Len(text'), retains),
           Has(text', 1), log' = text', carried'[1] # <<>> => carried'[2] = owner'[1],
           \E s \in 1..(Len(text') + 1) : Open(text', s) /\ d'.pending = SubSeq(text', s, Len(text'))
    PROVE  DumpInv'
<1> DEFINE x == [d |-> d', out |-> out']
<1>1. x.d = d' /\ x.out = out'
  OBVIOUS
<1>2. CopiedTo(x, text', Len(text'), retains)
  OBVIOUS
<1> HIDE DEF x
<1>3. d'.active /\ out' = PrintedTo(text', Len(text'), retains)
  BY <1>1, <1>2 DEF CopiedTo
<1>4. PrintedOf(text', retains) = PrintedTo(text', Len(text'), retains)
  BY AllPrinted
<1>5. CopyFaithful'
  BY <1>3, <1>4 DEF CopyFaithful
<1>6. Copying'
  BY DEF Copying
<1>7. DumpTyped'
  BY DEF DumpTyped
<1> QED BY <1>3, <1>5, <1>6, <1>7 DEF DumpInv

LEMMA BeforeStep ==
    ASSUME DumpInv, NEW f \in Fragments, NEW t \in Tests, Before(f, t)
    PROVE  DumpInv'
<1> DEFINE r == Route(d, f, t, retains)
           a == text \o f
           owners == GivenTo(owner, f, t)
           c == CopyTo(r.d, r.carried \o r.dump)
<1>1. /\ d \in DumpRecord /\ text \in Text /\ out \in Text /\ retains \in BOOLEAN
      /\ flushed \in BOOLEAN /\ ~flushed /\ ~d.active
      /\ Waiting /\ f \in Text /\ f # <<>>
  BY FragmentsAre DEF DumpInv, DumpTyped, Before
<1>2. PICK s : s \in 1..(Len(text) + 1) /\ Remembers(d, text, owner, s)
  BY <1>1 DEF Waiting
<1>3. /\ Idle(d) /\ Signatures(text) = {} /\ log = <<>> /\ out = <<>>
      /\ owner \in Seq(Tests) /\ Len(owner) = Len(text)
  BY <1>1 DEF Waiting
<1>4. a \in Text
  BY <1>1, Glue
<1>5. retains' = retains /\ flushed' = flushed
  BY DEF Before
<1>6. IF r.dump = <<>>
      THEN /\ d' = r.d /\ text' = a /\ owner' = owners
           /\ carried' = carried /\ log' = log /\ out' = out
      ELSE /\ d' = c.d /\ out' = c.out /\ log' = r.carried \o r.dump
           /\ carried' = <<r.carried, r.carriedTest>>
           /\ IF Signatures(a) = {} THEN text' = <<>> /\ owner' = <<>>
              ELSE /\ text' = SubSeq(a, Min(Signatures(a)), Len(a))
                   /\ owner' = SubSeq(owners, Min(Signatures(a)), Min(Signatures(a)))
  BY DEF Before, GivenTo
<1>7. CASE Hits(d, f) = {}
  <2>1. /\ Signatures(a) = {} /\ r.dump = <<>> /\ r.d \in DumpRecord /\ Idle(r.d)
        /\ \E z : Remembers(r.d, a, owners, z)
    <3> HIDE DEF c
    <3> QED BY <1>1, <1>2, <1>3, <1>7, NotFoundStep
  <2>2. owners \in Seq(Tests) /\ Len(owners) = Len(a)
    <3> DEFINE u == [i \in DOMAIN f |-> t]
    <3>1. DOMAIN f = 1..Len(f) /\ Len(f) \in Nat
      BY <1>1, LenProperties DEF Text
    <3>2. u \in Seq(Tests) /\ Len(u) = Len(f) /\ owners = owner \o u
      BY <3>1 DEF GivenTo
    <3> HIDE DEF u, owners
    <3>3. owners \in Seq(Tests) /\ Len(owners) = Len(owner) + Len(u)
      BY <1>3, <3>2, ConcatProperties
    <3> QED BY <1>1, <1>3, <3>2, <3>3, Glue
  <2> HIDE DEF r, a, owners, c
  <2>3. /\ d' = r.d /\ text' = a /\ owner' = owners
        /\ carried' = carried /\ log' = log /\ out' = out
    BY <1>6, <2>1
  <2>4. ~d'.active
    BY <2>1, <2>3 DEF Idle
  <2>5. \A z : Remembers(r.d, a, owners, z) => z \in 1..(Len(a) + 1)
    BY DEF Remembers, Open
  <2>6. Waiting'
    BY <1>3, <2>1, <2>2, <2>3, <2>5 DEF Waiting
  <2>7. DumpTyped'
    BY <1>1, <1>4, <1>5, <2>1, <2>3 DEF DumpTyped
  <2> QED BY <2>4, <2>6, <2>7 DEF DumpInv, CopyFaithful
<1>8. CASE Hits(d, f) # {}
  <2> DEFINE at == Min(Signatures(a))
  <2>1. /\ Signatures(a) # {} /\ r.dump # <<>>
        /\ r.d = FoundIn(d, f, retains)
        /\ r.carried \o r.dump = SubSeq(a, at, Len(a)) /\ at \in Signatures(a)
        /\ r.carried # <<>> => r.carriedTest = owner[at] /\ at <= Len(text)
    <3> HIDE DEF c, owners
    <3>1. /\ text \in Text /\ f \in Text /\ f # <<>> /\ d \in DumpRecord
          /\ Remembers(d, text, owner, s) /\ Signatures(text) = {} /\ Idle(d)
          /\ Hits(d, f) # {} /\ t \in Tests /\ retains \in BOOLEAN
      BY <1>1, <1>2, <1>3, <1>8
    <3>2. LET q == Route(d, f, t, retains)
              g == text \o f
          IN  /\ Signatures(g) # {} /\ q.dump # <<>>
              /\ q.d = FoundIn(d, f, retains)
              /\ q.carried \o q.dump = SubSeq(g, Min(Signatures(g)), Len(g))
              /\ Min(Signatures(g)) \in Signatures(g)
              /\ q.carried # <<>> => /\ q.carriedTest = owner[Min(Signatures(g))]
                                     /\ Min(Signatures(g)) <= Len(text)
      <4> HIDE DEF r, a, at
      <4> QED BY <3>1, FoundStep
    <3> QED BY <3>2
  <2>2. /\ r.d \in DumpRecord /\ r.d.active /\ r.d.retained = retains /\ r.d.pending = <<>>
        /\ ~r.d.inStacks /\ r.d.copied = 0 /\ ~r.d.truncated
    <3> DEFINE q == r.d
    <3>1. q = [d EXCEPT !.head = <<>>, !.headTest = NoTest, !.active = TRUE, !.retained = retains]
      BY <1>1, <2>1 DEF FoundIn, Found, DumpRecord
    <3> HIDE DEF q
    <3>2. /\ q \in DumpRecord /\ q.active /\ q.retained = retains /\ q.pending = <<>>
          /\ ~q.inStacks /\ q.copied = 0 /\ ~q.truncated
      BY <1>1, <1>3, <3>1, NoText DEF DumpRecord, Idle
    <3> QED BY <3>2 DEF q
  <2> HIDE DEF r, c, at
  <2>3. at \in 1..Len(a) /\ Len(a) \in Nat /\ Has(a, at)
    BY <1>4, <2>1, SignaturesAre
  <2> DEFINE g == SubSeq(a, at, Len(a))
  <2>4. g \in Text /\ Has(g, 1)
    <3>1. IsPrefix(Signature, g)
      BY <1>4, <2>3, SignatureAt
    <3>2. at \in Nat \ {0} /\ Len(a) \in 0..Len(a) /\ at <= Len(a) + 1
      BY <2>3
    <3>3. g \in Text
      BY <1>4, <3>2, PartOf
    <3> QED BY <3>1, <3>3, StartsWith
  <2> HIDE DEF g
  <2>5. r.carried \o r.dump = g
    BY <2>1 DEF g
  <2>6. /\ c \in Copy /\ CopiedTo([d |-> c.d, out |-> c.out], g, Len(g), retains)
        /\ \E z \in 1..(Len(g) + 1) : Open(g, z) /\ c.d.pending = SubSeq(g, z, Len(g))
    BY <1>1, <2>2, <2>4, <2>5, CopyFirst DEF c
  <2>7. /\ d' = c.d /\ out' = c.out /\ log' = g /\ carried' = <<r.carried, r.carriedTest>>
        /\ text' = g /\ owner' = SubSeq(owners, at, at)
    BY <1>6, <2>1, <2>5 DEF at, g
  <2>8. r.carried # <<>> => r.carriedTest = owner'[1]
    <3> SUFFICES ASSUME r.carried # <<>> PROVE r.carriedTest = owner'[1]
      OBVIOUS
    <3>1. at \in 1..Len(owner) /\ r.carriedTest = owner[at]
      BY <1>3, <2>1, <2>3
    <3>2. [i \in DOMAIN f |-> t] \in Seq(Tests)
      <4>1. DOMAIN f = 1..Len(f) /\ Len(f) \in Nat
        BY <1>1 DEF Text
      <4> QED BY <4>1
    <3>3. owners \in Seq(Tests) /\ at \in 1..Len(owners) /\ owners[at] = owner[at]
      BY <1>3, <3>1, <3>2, ConcatProperties DEF GivenTo
    <3> HIDE DEF owners
    <3>4. SubSeq(owners, at, at)[1] = owners[at]
      BY <3>3, SubSeqProperties
    <3> QED BY <2>7, <3>1, <3>3, <3>4
  <2>9. c.d \in DumpRecord /\ c.out \in Text
    BY <2>6 DEF Copy
  <2>10. carried'[1] # <<>> => carried'[2] = owner'[1]
    BY <2>7, <2>8
  <2> HIDE DEF a, owners
  <2> QED BY <1>1, <1>5, <2>4, <2>6, <2>7, <2>9, <2>10, CopyingNext
<1> QED BY <1>7, <1>8

LEMMA DuringStep ==
    ASSUME DumpInv, NEW f \in Fragments, During(f)
    PROVE  DumpInv'
<1> DEFINE c == CopyTo(d, f)
           g == text \o f
<1>1. /\ d \in DumpRecord /\ text \in Text /\ out \in Text /\ retains \in BOOLEAN
      /\ flushed \in BOOLEAN /\ ~flushed /\ d.active /\ Copying /\ f \in Text /\ f # <<>>
  BY FragmentsAre DEF DumpInv, DumpTyped, During
<1>2. /\ Has(text, 1) /\ log = text /\ (carried[1] # <<>> => carried[2] = owner[1])
      /\ CopiedTo([d |-> d, out |-> out], text, Len(text), retains)
  BY <1>1 DEF Copying
<1>3. PICK s : Open(text, s) /\ d.pending = SubSeq(text, s, Len(text))
  BY <1>1 DEF Copying
<1>4. LET r == Route(d, f, NoTest, retains) IN r.d = d /\ r.carried = <<>> /\ r.dump = f
  BY <1>1 DEF Route
<1>5. <<>> \o f = f /\ log \o <<>> = text
  BY <1>1, <1>2, ConcatEmptySeq DEF Text
<1>6. /\ d' = c.d /\ out' = out \o c.out /\ log' = g /\ text' = g
      /\ owner' = owner /\ carried' = carried /\ retains' = retains /\ flushed' = flushed
  BY <1>2, <1>4, <1>5 DEF During
<1> HIDE DEF c
<1>7. /\ c \in Copy /\ CopiedTo(After(out, c), g, Len(g), retains)
      /\ \E z : Open(g, z) /\ c.d.pending = SubSeq(g, z, Len(g))
  BY <1>1, <1>2, <1>3, CopyOn DEF c
<1>8. g \in Text /\ Has(g, 1)
  <2>1. /\ g \in Text /\ Len(text) \in Nat /\ Len(g) = Len(text) + Len(f) /\ Len(f) \in Nat
        /\ \A i \in 1..Len(text) : g[i] = text[i]
    BY <1>1, Glue
  <2>2. 1 \in 1..Len(text) /\ 1 + 1 \in 1..Len(text) /\ 1 + 2 \in 1..Len(text) /\ 1 + 2 <= Len(g)
    BY <1>2, <2>1 DEF Has
  <2> HIDE DEF g
  <2> QED BY <1>2, <2>1, <2>2 DEF Has
<1> HIDE DEF g
<1>9. c.d \in DumpRecord /\ c.out \in Text /\ out \o c.out \in Text
  BY <1>1, <1>7, Glue DEF Copy
<1>10. CopiedTo([d |-> d', out |-> out'], text', Len(text'), retains)
  BY <1>6, <1>7 DEF After
<1>11. \E z \in 1..(Len(text') + 1) : Open(text', z) /\ d'.pending = SubSeq(text', z, Len(text'))
  BY <1>6, <1>7 DEF Open
<1>12. carried'[1] # <<>> => carried'[2] = owner'[1]
  BY <1>2, <1>6
<1>13. text' \in Text /\ d' \in DumpRecord /\ out' \in Text /\ Has(text', 1) /\ log' = text'
  BY <1>6, <1>8, <1>9
<1> QED BY <1>1, <1>6, <1>10, <1>11, <1>12, <1>13, CopyingNext

LEMMA OneOpen ==
    ASSUME NEW t \in Text, NEW s, Open(t, s), NEW z, Open(t, z)
    PROVE  s = z
<1>1. Len(t) \in Nat
  BY LenProperties DEF Text
<1>2. \A x, y : Open(t, x) /\ Open(t, y) => ~(x < y)
  <2> TAKE x, y
  <2> HAVE Open(t, x) /\ Open(t, y)
  <2>1. x \in 1..(Len(t) + 1) /\ y \in 1..(Len(t) + 1) /\ (y = 1 \/ t[y - 1] = NL)
        /\ \A j \in x..Len(t) : t[j] # NL
    BY DEF Open
  <2>2. ASSUME x < y PROVE y - 1 \in x..Len(t) /\ y # 1
    BY <1>1, <2>1, <2>2
  <2> QED BY <2>1, <2>2
<1>3. s \in 1..(Len(t) + 1) /\ z \in 1..(Len(t) + 1)
  BY DEF Open
<1>4. ~(s < z) /\ ~(z < s)
  BY <1>2
<1> QED BY <1>1, <1>3, <1>4

\* flush ends the last line of the dump.
LEMMA FlushStep ==
    ASSUME NEW t \in Text, NEW s, Open(t, s), NEW r \in DumpRecord,
           r.pending = SubSeq(t, s, Len(t)), r.pending # <<>>, NEW o \in Text,
           CopiedTo([d |-> r, out |-> o], t, Len(t), retains), retains \in BOOLEAN
    PROVE  LET c == Flush(r)
               g == Append(t, NL)
           IN  /\ c \in Copy /\ g \in Text
               /\ CopiedTo(After(o, c), g, Len(g), retains)
<1> DEFINE n == Len(t)
           g == Append(t, NL)
           line == Append(r.pending, NL)
           y == [r EXCEPT !.pending = <<>>]
           e == <<>>
           b == [d |-> y, out |-> e]
<1>1. /\ g \in Text /\ n \in Nat /\ Len(g) = n + 1 /\ g[n + 1] = NL
      /\ \A i \in 1..n : g[i] = t[i]
  BY TheSignature, AppendProperties, LenProperties DEF Text
<1>2. /\ s \in 1..(n + 1) /\ (s = 1 \/ t[s - 1] = NL) /\ \A j \in s..n : t[j] # NL
  BY DEF Open
<1>3. line = SubSeq(g, s, n + 1)
  <2> DEFINE nl == <<NL>>
  <2>1. nl \in Text /\ Append(t, NL) = t \o nl /\ Append(r.pending, NL) = r.pending \o nl
    <3>1. nl \in Text
      BY TheSignature DEF Text
    <3>2. r.pending \in Seq(Lump) /\ t \in Seq(Lump)
      BY DEF DumpRecord, Text
    <3> QED BY <3>1, <3>2, TheSignature, AppendIsConcat
  <2> HIDE DEF nl
  <2>2. SubSeq(t, s, Len(t)) \o nl = SubSeq(t \o nl, s, Len(t \o nl))
    BY <1>2, <2>1, Remainder
  <2> QED BY <1>1, <2>1, <2>2
<1>4. LineStart(g, n + 1) = s
  <2> DEFINE m == n + 1
  <2>1. m \in 1..Len(g) /\ s \in 1..m /\ m - 1 = n
    BY <1>1, <1>2
  <2>2. s = 1 \/ g[s - 1] = NL
    <3>1. s # 1 => s - 1 \in 1..n
      BY <1>1, <1>2
    <3> QED BY <1>1, <1>2, <3>1
  <2>3. \A j \in s..(m - 1) : g[j] # NL
    <3>1. \A j \in s..n : j \in 1..n
      BY <1>1, <1>2
    <3> QED BY <1>1, <1>2, <2>1, <3>1
  <2> HIDE DEF m, g, n
  <2>4. LineStart(g, m) = s
    BY <1>1, <2>1, <2>2, <2>3, OneStart
  <2> QED BY <2>4 DEF m
<1> HIDE DEF g, line
<1>5. LineTo(g, n + 1) = line
  BY <1>3, <1>4 DEF LineTo
<1>6. line \in Text
  <2>1. r.pending \in Seq(Lump)
    BY DEF DumpRecord, Text
  <2> QED BY <2>1, TheSignature, AppendProperties DEF line, Text
<1>7. y \in DumpRecord /\ e \in Text /\ b = [d |-> y, out |-> e]
  BY NoText DEF DumpRecord
<1>8. After(o, b) = [d |-> y, out |-> o]
  <2>1. o \o e = o
    BY ConcatEmptySeq DEF Text
  <2> QED BY <2>1 DEF After
<1>9. /\ After(o, b) \in Copy /\ After(o, b).out = o
      /\ After(o, b).d.active = r.active /\ After(o, b).d.retained = r.retained
      /\ After(o, b).d.inStacks = r.inStacks /\ After(o, b).d.truncated = r.truncated
      /\ After(o, b).d.copied = r.copied
  BY <1>7, <1>8 DEF Copy, DumpRecord
<1>10. CopiedTo([d |-> r, out |-> o], g, n, retains)
  <2>1. PartAt(t, g, 0)
    <3>1. 0 + n <= Len(g) /\ \A j \in 1..n : 0 + j = j
      BY <1>1
    <3> QED BY <1>1, <3>1 DEF PartAt
  <2>2. n \in 0..n
    BY <1>1
  <2> QED BY <1>1, <2>1, <2>2, CopiedContinues
<1> HIDE DEF y, b, e
<1>11. CopiedTo(After(o, b), g, n, retains)
  <2> DEFINE x == [d |-> r, out |-> o]
  <2>1. x.d = r /\ x.out = o
    OBVIOUS
  <2> HIDE DEF x
  <2>2. CopiedTo(x, g, n, retains)
    BY <1>10 DEF x
  <2> QED BY <1>9, <2>1, <2>2 DEF CopiedTo
<1>12. CopiedTo(CopyLine(After(o, b), line), g, n + 1, retains)
  <2> DEFINE m == n + 1
  <2>1. m \in 1..Len(g) /\ m - 1 = n
    BY <1>1
  <2> HIDE DEF m
  <2>2. CopiedTo(CopyLine(After(o, b), LineTo(g, m)), g, m, retains)
    <3>1. g[m] = NL /\ CopiedTo(After(o, b), g, m - 1, retains)
      BY <1>1, <1>11, <2>1 DEF m
    <3> QED BY <1>1, <2>1, <3>1, OneLine
  <2> QED BY <1>5, <2>2 DEF m
<1>13. CopyLine(After(o, b), line) = After(o, CopyLine(b, line)) /\ CopyLine(b, line) \in Copy
  BY <1>6, <1>7, CopyLineAfter
<1>14. Flush(r) = CopyLine(b, line)
  BY DEF Flush, b, y, e, line
<1> QED BY <1>1, <1>12, <1>13, <1>14 DEF g

LEMMA PackageFailStep ==
    ASSUME DumpInv, PackageFail
    PROVE  DumpInv'
<1>1. /\ d \in DumpRecord /\ text \in Text /\ out \in Text /\ retains \in BOOLEAN /\ ~flushed
      /\ IF d.active THEN Copying ELSE Waiting
  BY DEF DumpInv, DumpTyped, PackageFail
<1>2. /\ flushed' = TRUE /\ retains' = retains /\ d' = Flush(d).d /\ out' = out \o Flush(d).out
      /\ text' = IF Partial(text) = <<>> THEN text ELSE Append(text, NL)
  BY DEF PackageFail
<1>3. CASE d.pending = <<>>
  <2>1. Flush(d) = [d |-> d, out |-> <<>>]
    BY <1>3 DEF Flush
  <2>2. out \o <<>> = out
    BY <1>1, ConcatEmptySeq DEF Text
  <2>3. d' = d /\ out' = out
    BY <1>2, <2>1, <2>2
  <2>4. Append(text, NL) \in Text
    BY <1>1, TheSignature, AppendProperties DEF Text
  <2>5. DumpTyped'
    BY <1>1, <1>2, <2>3, <2>4 DEF DumpTyped
  <2>6. d.active => text' = text
    <3> SUFFICES ASSUME d.active PROVE Partial(text) = <<>>
      BY <1>2
    <3>1. PICK s : Open(text, s) /\ d.pending = SubSeq(text, s, Len(text))
      BY <1>1 DEF Copying
    <3>2. PICK z : Open(text, z) /\ Partial(text) = SubSeq(text, z, Len(text))
      BY <1>1, TheOpen
    <3>3. s = z
      BY <1>1, <3>1, <3>2, OneOpen
    <3> QED BY <1>3, <3>1, <3>2, <3>3
  <2>7. CopyFaithful'
    BY <1>2, <2>3, <2>6 DEF CopyFaithful, DumpInv
  <2> QED BY <1>2, <2>5, <2>7 DEF DumpInv
<1>4. CASE d.pending # <<>>
  <2>1. Copying
    BY <1>1, <1>4 DEF Waiting, Idle
  <2>2. PICK s : Open(text, s) /\ d.pending = SubSeq(text, s, Len(text))
    BY <2>1 DEF Copying
  <2>3. PICK z : Open(text, z) /\ Partial(text) = SubSeq(text, z, Len(text))
    BY <1>1, TheOpen
  <2>4. s = z
    BY <1>1, <2>2, <2>3, OneOpen
  <2> DEFINE g == Append(text, NL)
             c == Flush(d)
  <2>5. text' = g
    BY <1>2, <1>4, <2>2, <2>3, <2>4
  <2>6. CopiedTo([d |-> d, out |-> out], text, Len(text), retains)
    BY <2>1 DEF Copying
  <2> HIDE DEF c, g
  <2>7. c \in Copy /\ g \in Text /\ CopiedTo(After(out, c), g, Len(g), retains)
    BY <1>1, <1>4, <2>2, <2>6, FlushStep DEF c, g
  <2>8. d' = c.d /\ out' = out \o c.out
    BY <1>2 DEF c
  <2>9. c.d \in DumpRecord /\ out \o c.out \in Text
    BY <1>1, <2>7, Glue DEF Copy
  <2>10. DumpTyped'
    BY <1>1, <1>2, <2>5, <2>7, <2>8, <2>9 DEF DumpTyped
  <2>11. CopyFaithful'
    <3>1. After(out, c).out = out'
      BY <2>8 DEF After
    <3>2. out' = PrintedTo(g, Len(g), retains)
      BY <2>7, <3>1 DEF CopiedTo
    <3>3. PrintedOf(g, retains) = PrintedTo(g, Len(g), retains)
      BY <2>7, AllPrinted
    <3> QED BY <1>2, <2>5, <3>2, <3>3 DEF CopyFaithful
  <2> QED BY <1>2, <2>10, <2>11 DEF DumpInv
<1> QED BY <1>3, <1>4
----------------------------------------------------------------------------
(* The theorems.                                                           *)

\* What timeoutDump keeps between events is enough: of the unfinished line while
\* the signature may still come, and of the lines copied afterwards.
THEOREM DumpInvariant == Spec => []DumpInv
<1>1. Init => DumpInv
  BY DumpStarts
<1>2. DumpInv /\ [Next]_vars => DumpInv'
  <2> SUFFICES ASSUME DumpInv, [Next]_vars PROVE DumpInv'
    OBVIOUS
  <2>1. ASSUME NEW f \in Fragments, During(f) PROVE DumpInv'
    BY <2>1, DuringStep
  <2>2. ASSUME NEW f \in Fragments, NEW t \in Tests, Before(f, t) PROVE DumpInv'
    BY <2>2, BeforeStep
  <2>3. CASE PackageFail
    BY <2>3, PackageFailStep
  <2>4. CASE UNCHANGED vars
    BY <2>4 DEF vars, DumpInv, DumpTyped, Waiting, Copying, CopyFaithful
  <2> QED BY <2>1, <2>2, <2>3, <2>4 DEF Next
<1> QED BY <1>1, <1>2, PTL DEF Spec

\* The panic of a timeout is found with the event that completes its signature,
\* and nothing else is taken for it (gotest.go:79-117).
THEOREM DumpFound == Spec => []DumpDetected
<1>1. DumpInv => DumpDetected
  BY StartsAtOne DEF DumpInv, DumpTyped, Waiting, Copying, Idle, DumpDetected
<1> QED BY <1>1, DumpInvariant, PTL

\* What the package span's log gets is the text from the panic's line on, and the
\* carried fragments come from the test that was given the first of them
\* (gotest.go:339-359).
THEOREM DumpLogged == Spec => []DumpLoggedWhole
<1>1. DumpInv => DumpLoggedWhole
  BY DEF DumpInv, Copying, DumpLoggedWhole
<1> QED BY <1>1, DumpInvariant, PTL

\* What is copied of the dump depends on its lines, not on the events they came
\* in (gotest.go:130-176).
THEOREM DumpCopied == Spec => []CopyFaithful
<1>1. DumpInv => CopyFaithful
  BY DEF DumpInv
<1> QED BY <1>1, DumpInvariant, PTL
============================================================================
