-------------------------- MODULE PipelineProofs ---------------------------
(***************************************************************************)
(* What Run has read when the program returns, for every output of the    *)
(* tests, every bound and every capacity of the pipes. KilledInv follows   *)
(* the line that says why the binary was killed on its way from the        *)
(* trailer through the converter's pipe to Run. StreamInv says of the      *)
(* whole stream what it holds so far and what is still to come: the tests' *)
(* writes in their order, the outputTracker knowing those it has passed    *)
(* on, and then the trailer with the report and the result.                *)
(***************************************************************************)
EXTENDS Pipeline, SequenceFacts

Tracker(L) ==
    [n : Nat, last : L \cup {""}, tail : Seq(L), noTests : BOOLEAN,
     coverage : Seq(L), line : Seq(L), longLine : BOOLEAN]

\* The warning is found from the start of a line, and a text's start is one.
KnowsWarning(o, text) ==
    /\ o.noTests <=> HasText(<<NL>> \o text, noTestsToRun)
    /\ ~o.noTests => o.tail = Keep(<<NL>> \o text)

\* The line the text ends in, not yet complete, is in o.line if it is short.
KnowsLine(o, text) ==
    \E s \in 0..Len(text) :
        /\ s = 0 \/ text[s] = NL
        /\ \A i \in (s + 1)..Len(text) : text[i] # NL
        /\ o.longLine <=> (Len(text) - s > MaxCoverageLine)
        /\ o.line = IF o.longLine THEN <<>> ELSE SubSeq(text, s + 1, Len(text))

KnowsCoverage(o, text) ==
    IF o.coverage # <<>>
    THEN \E s, k, e \in 0..Len(text) : /\ FirstCoverageAt(text, s, k, e)
                                       /\ o.coverage = SubSeq(text, k + 1, e - 1)
    ELSE /\ \A s, k, e \in 0..Len(text) : ~CoverageAt(text, s, k, e)
         /\ KnowsLine(o, text)

Knows(o, text) ==
    /\ o.n = Len(text)
    /\ text # <<>> => o.last = Last(text)
    /\ KnowsWarning(o, text)
    /\ KnowsCoverage(o, text)

----------------------------------------------------------------------------
(* The warning.                                                            *)

LEMMA HasWarning ==
    ASSUME NEW L, NEW text \in Seq(L)
    PROVE  HasText(text, noTestsToRun) <=>
             \E i \in 0..(Len(text) - 4) :
                /\ text[i + 1] = noTestsToRun[1] /\ text[i + 2] = noTestsToRun[2]
                /\ text[i + 3] = noTestsToRun[3] /\ text[i + 4] = noTestsToRun[4]
<1>1. Len(noTestsToRun) = 4
  BY DEF noTestsToRun
<1>2. 1..4 = {1, 2, 3, 4}
  OBVIOUS
<1> QED BY <1>1, <1>2 DEF HasText

\* The last three lumps of a text, or all of it.
LEMMA KeepIs ==
    ASSUME NEW L, NEW text \in Seq(L)
    PROVE  /\ Keep(text) \in Seq(L)
           /\ Len(Keep(text)) = IF Len(text) > 3 THEN 3 ELSE Len(text)
           /\ \A j \in 1..Len(Keep(text)) :
                 Keep(text)[j] = text[Len(text) - Len(Keep(text)) + j]
<1>1. Len(noTestsToRun) - 1 = 3
  BY DEF noTestsToRun
<1>2. Len(text) \in Nat /\ \A i \in 1..Len(text) : text[i] \in L
  BY ElementOfSeq
<1> DEFINE m == IF 3 < Len(text) THEN Len(text) - 3 + 1 ELSE 1
<1>3. Keep(text) = SubSeq(text, m, Len(text))
  BY <1>1 DEF Keep, LastOf
<1>4. m \in Int /\ m >= 1 /\ m <= Len(text) + 1
      /\ Len(text) - m + 1 = IF Len(text) > 3 THEN 3 ELSE Len(text)
  BY <1>2
<1> HIDE DEF m
<1>5. /\ SubSeq(text, m, Len(text)) \in Seq(L)
      /\ Len(SubSeq(text, m, Len(text))) = IF m <= Len(text) THEN Len(text) - m + 1 ELSE 0
      /\ \A i \in 1..(Len(text) - m + 1) : SubSeq(text, m, Len(text))[i] = text[m + i - 1]
  BY <1>2, <1>4, SubSeqProperties
<1>6. Len(Keep(text)) = Len(text) - m + 1
  BY <1>2, <1>3, <1>4, <1>5
<1>7. ASSUME NEW j \in 1..Len(Keep(text))
      PROVE  Keep(text)[j] = text[Len(text) - Len(Keep(text)) + j]
  <2>1. m + j - 1 = Len(text) - Len(Keep(text)) + j
    BY <1>2, <1>4, <1>6
  <2> QED BY <1>3, <1>5, <1>6, <2>1
<1> QED BY <1>3, <1>4, <1>5, <1>6, <1>7

\* Three lumps are enough: an occurrence that is not in text ends in b.
LEMMA KeepSuffices ==
    ASSUME NEW L, NEW text \in Seq(L), NEW b \in Seq(L), b # <<>>
    PROVE  /\ ~HasText(text, noTestsToRun) =>
                /\ (HasText(Keep(text) \o b, noTestsToRun) <=> HasText(text \o b, noTestsToRun))
                /\ Keep(Keep(text) \o b) = Keep(text \o b)
           /\ HasText(text, noTestsToRun) => HasText(text \o b, noTestsToRun)
<1> DEFINE kept == Keep(text)
           buf == kept \o b
           all == text \o b
           d == Len(text) - Len(kept)
<1>1. /\ kept \in Seq(L) /\ Len(kept) = IF Len(text) > 3 THEN 3 ELSE Len(text)
      /\ \A j \in 1..Len(kept) : kept[j] = text[d + j]
  BY KeepIs
<1>2. Len(text) \in Nat /\ Len(b) \in Nat /\ Len(b) > 0 /\ Len(kept) \in Nat /\ d \in Nat
      /\ (Len(text) > 3 => Len(kept) = 3) /\ (Len(text) <= 3 => d = 0)
  BY <1>1, EmptySeq
<1> HIDE DEF kept
<1>3. /\ buf \in Seq(L) /\ Len(buf) = Len(kept) + Len(b)
      /\ \A i \in 1..(Len(kept) + Len(b)) : buf[i] = IF i <= Len(kept) THEN kept[i] ELSE b[i - Len(kept)]
  BY <1>1, ConcatProperties
<1>4. /\ all \in Seq(L) /\ Len(all) = Len(text) + Len(b)
      /\ \A i \in 1..(Len(text) + Len(b)) : all[i] = IF i <= Len(text) THEN text[i] ELSE b[i - Len(text)]
  BY ConcatProperties
<1> HIDE DEF buf, all
<1>5. d = Len(text) - Len(kept) /\ Len(all) = d + Len(buf)
  BY <1>2, <1>3, <1>4
<1> HIDE DEF d
<1>6. ASSUME NEW j \in 1..Len(buf) PROVE buf[j] = all[d + j]
  <2>1. CASE j <= Len(kept)
    <3>1. d + j <= Len(text) /\ d + j \in 1..(Len(text) + Len(b)) /\ j \in 1..(Len(kept) + Len(b))
      BY <1>2, <1>3, <1>5, <2>1
    <3>2. buf[j] = kept[j] /\ all[d + j] = text[d + j]
      BY <1>3, <1>4, <2>1, <3>1
    <3> QED BY <1>1, <1>2, <2>1, <3>2
  <2>2. CASE j > Len(kept)
    <3>1. d + j > Len(text) /\ d + j \in 1..(Len(text) + Len(b)) /\ j \in 1..(Len(kept) + Len(b))
          /\ d + j - Len(text) = j - Len(kept) /\ ~(d + j <= Len(text)) /\ ~(j <= Len(kept))
      BY <1>2, <1>3, <1>5, <2>2
    <3>2. buf[j] = b[j - Len(kept)]
      BY <1>3, <3>1
    <3>3. \A i \in 1..(Len(text) + Len(b)) : ~(i <= Len(text)) => all[i] = b[i - Len(text)]
      BY <1>4
    <3>4. all[d + j] = b[d + j - Len(text)]
      BY <1>2, <3>1, <3>3
    <3> QED BY <3>1, <3>2, <3>4
  <2> QED BY <1>2, <1>3, <2>1, <2>2
<1> DEFINE At(t, i) == /\ t[i + 1] = noTestsToRun[1] /\ t[i + 2] = noTestsToRun[2]
                       /\ t[i + 3] = noTestsToRun[3] /\ t[i + 4] = noTestsToRun[4]
<1>7. /\ HasText(text, noTestsToRun) <=> \E i \in 0..(Len(text) - 4) : At(text, i)
      /\ HasText(buf, noTestsToRun) <=> \E i \in 0..(Len(buf) - 4) : At(buf, i)
      /\ HasText(all, noTestsToRun) <=> \E i \in 0..(Len(all) - 4) : At(all, i)
  BY <1>3, <1>4, HasWarning
<1>8. ASSUME NEW i \in 0..(Len(text) - 4), At(text, i) PROVE i \in 0..(Len(all) - 4) /\ At(all, i)
  <2>1. \A j \in 1..4 : i + j \in 1..(Len(text) + Len(b)) /\ i + j <= Len(text)
    BY <1>2
  <2>2. \A j \in 1..4 : all[i + j] = text[i + j]
    BY <1>4, <2>1
  <2> QED BY <1>2, <1>4, <1>8, <2>2
<1>9. ASSUME NEW i \in 0..(Len(buf) - 4) PROVE d + i \in 0..(Len(all) - 4) /\ (At(buf, i) <=> At(all, d + i))
  <2>1. \A j \in 1..4 : i + j \in 1..Len(buf) /\ d + (i + j) = (d + i) + j
    BY <1>2, <1>3
  <2>2. \A j \in 1..4 : buf[i + j] = all[(d + i) + j]
    BY <1>6, <2>1
  <2>3. d + i \in 0..(Len(all) - 4)
    BY <1>2, <1>3, <1>5
  <2> QED BY <2>2, <2>3
<1>10. ASSUME NEW i \in 0..(Len(all) - 4), At(all, i), ~HasText(text, noTestsToRun)
       PROVE  i - d \in 0..(Len(buf) - 4)
  <2>1. i + 4 > Len(text)
    <3> SUFFICES ASSUME i + 4 <= Len(text) PROVE FALSE
      BY <1>2
    <3>1. \A j \in 1..4 : i + j \in 1..(Len(text) + Len(b)) /\ i + j <= Len(text)
      BY <1>2
    <3>2. \A j \in 1..4 : all[i + j] = text[i + j]
      BY <1>4, <3>1
    <3>3. At(text, i) /\ i \in 0..(Len(text) - 4)
      BY <1>2, <1>10, <3>2
    <3> QED BY <1>7, <1>10, <3>3
  <2>2. i >= d
    <3>1. i \in Nat /\ i > Len(text) - 4
      BY <1>2, <1>4, <2>1
    <3>2. CASE Len(text) > 3
      <4>1. d = Len(text) - 3
        BY <1>2, <1>5, <3>2
      <4> QED BY <1>2, <3>1, <4>1
    <3>3. CASE Len(text) <= 3
      BY <1>2, <3>1, <3>3
    <3> QED BY <1>2, <3>2, <3>3
  <2> QED BY <1>2, <1>3, <1>5, <2>2
<1>11. ~HasText(text, noTestsToRun) => (HasText(buf, noTestsToRun) <=> HasText(all, noTestsToRun))
  <2> SUFFICES ASSUME ~HasText(text, noTestsToRun)
               PROVE  HasText(buf, noTestsToRun) <=> HasText(all, noTestsToRun)
    OBVIOUS
  <2>1. ASSUME NEW i \in 0..(Len(buf) - 4), At(buf, i) PROVE HasText(all, noTestsToRun)
    BY <1>7, <1>9, <2>1
  <2>2. ASSUME NEW i \in 0..(Len(all) - 4), At(all, i) PROVE HasText(buf, noTestsToRun)
    <3>1. i - d \in 0..(Len(buf) - 4) /\ d + (i - d) = i
      BY <1>2, <1>10, <2>2
    <3>2. At(buf, i - d)
      BY <1>9, <2>2, <3>1
    <3> QED BY <1>7, <3>1, <3>2
  <2> QED BY <1>7, <2>1, <2>2
<1>12. HasText(text, noTestsToRun) => HasText(all, noTestsToRun)
  BY <1>7, <1>8
<1>13. Keep(buf) = Keep(all)
  <2>1. /\ Keep(buf) \in Seq(L) /\ Len(Keep(buf)) = IF Len(buf) > 3 THEN 3 ELSE Len(buf)
        /\ \A j \in 1..Len(Keep(buf)) : Keep(buf)[j] = buf[Len(buf) - Len(Keep(buf)) + j]
    BY <1>3, KeepIs
  <2>2. /\ Keep(all) \in Seq(L) /\ Len(Keep(all)) = IF Len(all) > 3 THEN 3 ELSE Len(all)
        /\ \A j \in 1..Len(Keep(all)) : Keep(all)[j] = all[Len(all) - Len(Keep(all)) + j]
    BY <1>4, KeepIs
  <2>3. Len(Keep(buf)) = Len(Keep(all)) /\ Len(Keep(buf)) \in Nat /\ Len(Keep(buf)) <= Len(buf)
        /\ Len(buf) \in Nat /\ Len(all) \in Nat
    BY SMTT(40), <1>2, <1>3, <1>5, <2>1, <2>2
  <2>4. ASSUME NEW j \in 1..Len(Keep(buf)) PROVE Keep(buf)[j] = Keep(all)[j]
    <3>1. Len(buf) - Len(Keep(buf)) + j \in 1..Len(buf)
          /\ d + (Len(buf) - Len(Keep(buf)) + j) = Len(all) - Len(Keep(all)) + j
      BY <1>2, <1>5, <2>3
    <3> QED BY <1>6, <2>1, <2>2, <2>3, <3>1
  <2> QED BY <2>1, <2>2, <2>3, <2>4, SeqEqual
<1> QED BY <1>11, <1>12, <1>13 DEF kept, buf, all

LEMMA WarningStep ==
    ASSUME NEW L, NL \in L, NEW text \in Seq(L), NEW b \in Seq(L), b # <<>>,
           NEW o \in Tracker(L), KnowsWarning(o, text)
    PROVE  /\ FindNoTests(o, b) \in Tracker(L)
           /\ KnowsWarning(FindNoTests(o, b), text \o b)
           /\ FindNoTests(o, b).n = o.n /\ FindNoTests(o, b).last = o.last
           /\ FindNoTests(o, b).coverage = o.coverage /\ FindNoTests(o, b).line = o.line
           /\ FindNoTests(o, b).longLine = o.longLine
<1> DEFINE full == <<NL>> \o text
           p == FindNoTests(o, b)
<1>1. /\ <<NL>> \in Seq(L) /\ full \in Seq(L)
      /\ full \o b = <<NL>> \o (text \o b)
  BY ConcatProperties, ConcatAssociative
<1> HIDE DEF full
<1>2. /\ ~HasText(full, noTestsToRun) =>
            /\ (HasText(Keep(full) \o b, noTestsToRun) <=> HasText(full \o b, noTestsToRun))
            /\ Keep(Keep(full) \o b) = Keep(full \o b)
      /\ HasText(full, noTestsToRun) => HasText(full \o b, noTestsToRun)
  BY <1>1, KeepSuffices
<1>3. /\ o.noTests \in BOOLEAN /\ (o.noTests <=> HasText(full, noTestsToRun))
      /\ ~o.noTests => o.tail = Keep(full)
  BY DEF KnowsWarning, full, Tracker
<1>4. CASE o.noTests
  <2>1. p = o
    BY <1>4 DEF FindNoTests
  <2>2. HasText(full \o b, noTestsToRun)
    BY <1>2, <1>3, <1>4
  <2> QED BY <1>1, <1>4, <2>1, <2>2 DEF KnowsWarning
<1>5. CASE ~o.noTests
  <2>1. o.tail = Keep(full) /\ ~HasText(full, noTestsToRun)
    BY <1>3, <1>5
  <2>2. p = [o EXCEPT !.noTests = HasText(o.tail \o b, noTestsToRun), !.tail = Keep(o.tail \o b)]
    BY <1>5 DEF FindNoTests
  <2>3. o.tail \o b \in Seq(L) /\ Keep(o.tail \o b) \in Seq(L)
    BY <1>1, <2>1, KeepIs, ConcatProperties
  <2>4. HasText(o.tail \o b, noTestsToRun) \in BOOLEAN
    BY DEF HasText
  <2>5. /\ p \in Tracker(L)
        /\ p.noTests = HasText(o.tail \o b, noTestsToRun) /\ p.tail = Keep(o.tail \o b)
    BY <2>2, <2>3, <2>4 DEF Tracker
  <2>6. /\ p.noTests <=> HasText(full \o b, noTestsToRun)
        /\ p.tail = Keep(full \o b)
    BY <1>2, <2>1, <2>5
  <2>7. /\ p.n = o.n /\ p.last = o.last /\ p.coverage = o.coverage
        /\ p.line = o.line /\ p.longLine = o.longLine
    BY <2>2 DEF Tracker
  <2> HIDE DEF p
  <2>8. KnowsWarning(p, text \o b)
    BY <1>1, <2>6 DEF KnowsWarning
  <2> QED BY <2>5, <2>7, <2>8 DEF p
<1> QED BY <1>4, <1>5

\* The lumps of the warning make a line of their own.
LEMMA WarningIsALine ==
    ASSUME NEW L, NL \in L, NEW text \in Seq(L)
    PROVE  HasText(<<NL>> \o text, noTestsToRun) <=>
             \E s, e \in 0..Len(text) : WarnsAt(text, s, e)
<1> DEFINE full == <<NL>> \o text
<1>1. /\ <<NL>> \in Seq(L) /\ Len(<<NL>>) = 1 /\ <<NL>>[1] = NL /\ Len(text) \in Nat
  OBVIOUS
<1>2. /\ full \in Seq(L) /\ Len(full) = Len(text) + 1
      /\ \A i \in 1..(1 + Len(text)) : full[i] = IF i <= 1 THEN <<NL>>[i] ELSE text[i - 1]
  BY <1>1, ConcatProperties
<1> HIDE DEF full
<1>3. /\ noTestsToRun[1] = NL /\ noTestsToRun[4] = NL
      /\ noTestsToRun[2] # NL /\ noTestsToRun[3] # NL
  BY DEF noTestsToRun, NL
<1>4. HasText(full, noTestsToRun) <=>
        \E i \in 0..(Len(full) - 4) :
           /\ full[i + 1] = noTestsToRun[1] /\ full[i + 2] = noTestsToRun[2]
           /\ full[i + 3] = noTestsToRun[3] /\ full[i + 4] = noTestsToRun[4]
  BY <1>2, HasWarning
<1>5. ASSUME NEW s \in 0..(Len(text) - 3)
      PROVE  /\ s + 3 \in 1..Len(text) /\ s \in 0..Len(text) /\ s \in 0..(Len(full) - 4)
             /\ full[s + 1] = IF s = 0 THEN NL ELSE text[s]
             /\ full[s + 2] = text[s + 1] /\ full[s + 3] = text[s + 2] /\ full[s + 4] = text[s + 3]
  <2>1. \A j \in 1..4 : s + j \in 1..(1 + Len(text))
    BY <1>1
  <2>2. \A j \in 2..4 : full[s + j] = text[s + j - 1]
    BY <1>1, <1>2, <2>1
  <2>3. s = 0 => full[s + 1] = NL
    BY <1>1, <1>2
  <2>4. s # 0 => full[s + 1] = text[s]
    BY <1>1, <1>2
  <2> QED BY <1>1, <1>2, <2>2, <2>3, <2>4
<1>6. ASSUME NEW i \in 0..(Len(full) - 4),
             full[i + 1] = noTestsToRun[1], full[i + 2] = noTestsToRun[2],
             full[i + 3] = noTestsToRun[3], full[i + 4] = noTestsToRun[4]
      PROVE  \E s, e \in 0..Len(text) : WarnsAt(text, s, e)
  <2>1. i \in 0..(Len(text) - 3) /\ i + 3 \in 0..Len(text)
    BY <1>1, <1>2
  <2>2. /\ i = 0 \/ text[i] = NL
        /\ text[i + 1] = noTestsToRun[2] /\ text[i + 2] = noTestsToRun[3] /\ text[i + 3] = NL
    BY <1>3, <1>5, <1>6, <2>1
  <2>3. \A j \in (i + 1)..(i + 2) : text[j] # NL
    <3>1. \A j \in (i + 1)..(i + 2) : j = i + 1 \/ j = i + 2
      BY <2>1
    <3> QED BY <1>3, <2>2, <3>1
  <2>4. WarnsAt(text, i, i + 3)
    BY <1>1, <2>1, <2>2, <2>3 DEF WarnsAt, IsLine
  <2> QED BY <1>1, <2>1, <2>4
<1>7. ASSUME NEW s \in 0..Len(text), NEW e \in 0..Len(text), WarnsAt(text, s, e)
      PROVE  HasText(full, noTestsToRun)
  <2>1. s \in 0..(Len(text) - 3) /\ e = s + 3
    BY <1>1, <1>7 DEF WarnsAt, IsLine
  <2>2. /\ s = 0 \/ text[s] = NL
        /\ text[s + 1] = noTestsToRun[2] /\ text[s + 2] = noTestsToRun[3] /\ text[s + 3] = NL
    BY <1>7, <2>1 DEF WarnsAt, IsLine
  <2>3. /\ full[s + 1] = noTestsToRun[1] /\ full[s + 2] = noTestsToRun[2]
        /\ full[s + 3] = noTestsToRun[3] /\ full[s + 4] = noTestsToRun[4]
        /\ s \in 0..(Len(full) - 4)
    BY <1>3, <1>5, <2>1, <2>2
  <2> QED BY <1>4, <2>3
<1>8. HasText(full, noTestsToRun) <=> \E s, e \in 0..Len(text) : WarnsAt(text, s, e)
  BY <1>4, <1>6, <1>7
<1> QED BY <1>8 DEF full

----------------------------------------------------------------------------
(* The coverage line.                                                      *)

LEMMA AfterPrefixIs ==
    ASSUME NEW L, NEW line \in Seq(L)
    PROVE  IF Contains(line, coveragePrefix)
           THEN \E k \in 1..Len(line) :
                   /\ line[k] = coveragePrefix
                   /\ \A i \in 1..(k - 1) : line[i] # coveragePrefix
                   /\ AfterPrefix(line) = SubSeq(line, k + 1, Len(line))
           ELSE AfterPrefix(line) = <<>>
<1>1. CASE ~Contains(line, coveragePrefix)
  BY <1>1 DEF AfterPrefix
<1>2. CASE Contains(line, coveragePrefix)
  <2> DEFINE I == {i \in 1..Len(line) : line[i] = coveragePrefix}
  <2>1. I # {} /\ I \in SUBSET Nat
    BY <1>2 DEF Contains
  <2>2. \E n \in I : \A m \in I : n <= m
    BY <2>1, Least
  <2>3. Min(I) \in I /\ \A m \in I : Min(I) <= m
    BY <2>2 DEF Min
  <2>4. SelectInSeq(line, LAMBDA c : c = coveragePrefix) = Min(I)
    BY <2>1 DEF SelectInSeq
  <2>5. AfterPrefix(line) = SubSeq(line, Min(I) + 1, Len(line))
    BY <1>2, <2>4 DEF AfterPrefix
  <2> DEFINE k == Min(I)
  <2>6. \A i \in 1..(k - 1) : line[i] # coveragePrefix
    <3> HIDE DEF k
    <3>1. k \in 1..Len(line) /\ \A m \in I : k <= m
      BY <2>3 DEF k
    <3>2. \A i \in 1..(k - 1) : i \in 1..Len(line) /\ ~(k <= i)
      BY <3>1
    <3> QED BY <3>1, <3>2
  <2> QED BY <1>2, <2>3, <2>5, <2>6
<1> QED BY <1>1, <1>2

\* One more lump changes nothing about the lines that end before it.
LEMMA LinesBefore ==
    ASSUME NEW L, NEW text \in Seq(L), NEW c \in L
    PROVE  LET all == Append(text, c)
           IN  \A s, k \in Nat, e \in 0..Len(text) :
                  CoverageAt(all, s, k, e) <=> CoverageAt(text, s, k, e)
<1> DEFINE all == Append(text, c)
<1>1. /\ Len(text) \in Nat /\ all \in Seq(L) /\ Len(all) = Len(text) + 1
      /\ \A i \in 1..Len(text) : all[i] = text[i]
  BY AppendProperties
<1> HIDE DEF all
<1>2. ASSUME NEW s \in Nat, NEW k \in Nat, NEW e \in 0..Len(text)
      PROVE  CoverageAt(all, s, k, e) <=> CoverageAt(text, s, k, e)
  <2>1. IsLine(all, s, e) <=> IsLine(text, s, e)
    <3>1. s \in 0..(e - 1) /\ s # 0 => all[s] = text[s]
      BY <1>1
    <3>2. e # 0 => all[e] = text[e]
      BY <1>1
    <3>3. \A i \in (s + 1)..(e - 1) : all[i] = text[i]
      BY <1>1
    <3> QED BY <1>1, <3>1, <3>2, <3>3 DEF IsLine
  <2>2. k \in (s + 1)..(e - 2) => \A i \in (s + 1)..k : all[i] = text[i]
    BY <1>1
  <2> QED BY <1>1, <2>1, <2>2 DEF CoverageAt
<1> QED BY <1>2 DEF all

LEMMA PartsOfAppend ==
    ASSUME NEW L, NEW text \in Seq(L), NEW c \in L
    PROVE  LET all == Append(text, c)
           IN  /\ \A m \in 1..(Len(text) + 1), n \in 0..Len(text) :
                     SubSeq(all, m, n) = SubSeq(text, m, n)
               /\ \A m \in 1..(Len(text) + 1) :
                     SubSeq(all, m, Len(text) + 1) = Append(SubSeq(text, m, Len(text)), c)
               /\ \A m \in 1..(Len(text) + 1), n \in 0..Len(text) :
                     /\ SubSeq(text, m, n) \in Seq(L)
                     /\ Len(SubSeq(text, m, n)) = IF m <= n THEN n - m + 1 ELSE 0
                     /\ \A i \in 1..(n - m + 1) : SubSeq(text, m, n)[i] = text[m + i - 1]
<1> DEFINE all == Append(text, c)
<1>1. /\ Len(text) \in Nat /\ all \in Seq(L) /\ Len(all) = Len(text) + 1
      /\ all[Len(text) + 1] = c
      /\ \A i \in 1..Len(text) : all[i] = text[i] /\ text[i] \in L
  BY AppendProperties, ElementOfSeq
<1> HIDE DEF all
<1>2. ASSUME NEW m \in 1..(Len(text) + 1), NEW n \in 0..Len(text)
      PROVE  /\ SubSeq(text, m, n) \in Seq(L)
             /\ Len(SubSeq(text, m, n)) = IF m <= n THEN n - m + 1 ELSE 0
             /\ \A i \in 1..(n - m + 1) : SubSeq(text, m, n)[i] = text[m + i - 1]
  <2>1. m \in Int /\ n \in Int /\ \A i \in m..n : text[i] \in L
    BY <1>1
  <2> QED BY <2>1, SubSeqProperties
<1>3. ASSUME NEW m \in 1..(Len(text) + 1), NEW n \in 0..(Len(text) + 1)
      PROVE  /\ SubSeq(all, m, n) \in Seq(L)
             /\ Len(SubSeq(all, m, n)) = IF m <= n THEN n - m + 1 ELSE 0
             /\ \A i \in 1..(n - m + 1) : SubSeq(all, m, n)[i] = all[m + i - 1]
  <2>1. m \in Int /\ n \in Int /\ \A i \in m..n : all[i] \in L
    BY <1>1
  <2> QED BY <2>1, SubSeqProperties
<1>4. ASSUME NEW m \in 1..(Len(text) + 1), NEW n \in 0..Len(text)
      PROVE  SubSeq(all, m, n) = SubSeq(text, m, n)
  <2>1. n \in 0..(Len(text) + 1) /\ Len(SubSeq(all, m, n)) = Len(SubSeq(text, m, n))
    BY <1>1, <1>2, <1>3
  <2>2. ASSUME NEW i \in 1..Len(SubSeq(all, m, n)) PROVE SubSeq(all, m, n)[i] = SubSeq(text, m, n)[i]
    <3>1. i \in 1..(n - m + 1) /\ m + i - 1 \in 1..Len(text)
      BY <1>1, <1>3, <2>1
    <3> QED BY <1>1, <1>2, <1>3, <2>1, <3>1
  <2> QED BY <1>2, <1>3, <2>1, <2>2, SeqEqual
<1>5. ASSUME NEW m \in 1..(Len(text) + 1)
      PROVE  SubSeq(all, m, Len(text) + 1) = Append(SubSeq(text, m, Len(text)), c)
  <2> DEFINE part == SubSeq(text, m, Len(text))
             whole == SubSeq(all, m, Len(text) + 1)
  <2>1. /\ part \in Seq(L) /\ Len(part) = Len(text) - m + 1
        /\ \A i \in 1..(Len(text) - m + 1) : part[i] = text[m + i - 1]
    BY <1>1, <1>2
  <2>2. /\ whole \in Seq(L) /\ Len(whole) = Len(text) - m + 2
        /\ \A i \in 1..(Len(text) - m + 2) : whole[i] = all[m + i - 1]
    <3>1. Len(text) + 1 \in 0..(Len(text) + 1) /\ m <= Len(text) + 1
          /\ Len(text) + 1 - m + 1 = Len(text) - m + 2
      BY <1>1
    <3> QED BY <1>1, <1>3, <3>1
  <2> HIDE DEF part, whole
  <2>3. /\ Append(part, c) \in Seq(L) /\ Len(Append(part, c)) = Len(part) + 1
        /\ Append(part, c)[Len(part) + 1] = c
        /\ \A i \in 1..Len(part) : Append(part, c)[i] = part[i]
    <3>1. \A v \in Seq(L) : /\ Append(v, c) \in Seq(L) /\ Len(Append(v, c)) = Len(v) + 1
                            /\ Append(v, c)[Len(v) + 1] = c
                            /\ \A i \in 1..Len(v) : Append(v, c)[i] = v[i]
      BY AppendProperties
    <3> QED BY <2>1, <3>1
  <2>4. ASSUME NEW i \in 1..Len(whole) PROVE whole[i] = Append(part, c)[i]
    <3>1. CASE i <= Len(part)
      <4>1. i \in 1..Len(part) /\ m + i - 1 \in 1..Len(text)
        BY <1>1, <2>1, <2>2, <3>1
      <4> QED BY <1>1, <2>1, <2>2, <2>3, <4>1
    <3>2. CASE i > Len(part)
      <4>1. i = Len(part) + 1 /\ m + i - 1 = Len(text) + 1 /\ i \in 1..(Len(text) - m + 2)
        <5>1. m \in Nat /\ Len(text) \in Nat /\ i \in Nat /\ m <= Len(text) + 1
              /\ Len(part) = Len(text) - m + 1 /\ i <= Len(text) - m + 2
          BY <1>1, <2>1, <2>2
        <5> QED BY <3>2, <5>1
      <4> QED BY <1>1, <2>2, <2>3, <4>1
    <3> QED BY <1>1, <2>1, <2>2, <3>1, <3>2
  <2>5. Len(whole) = Len(Append(part, c))
    BY <1>1, <2>1, <2>2, <2>3
  <2>6. whole = Append(part, c)
    BY <2>2, <2>3, <2>4, <2>5, SeqEqual
  <2> QED BY <2>6 DEF part, whole
<1> QED BY <1>2, <1>4, <1>5 DEF all

\* What is found stays found, and is the first.
LEMMA FoundStays ==
    ASSUME NEW L, NEW text \in Seq(L), NEW c \in L, NEW o,
           o.coverage # <<>>, KnowsCoverage(o, text)
    PROVE  KnowsCoverage(o, Append(text, c))
<1> DEFINE all == Append(text, c)
<1>1. PICK s \in 0..Len(text), k \in 0..Len(text), e \in 0..Len(text) :
         FirstCoverageAt(text, s, k, e) /\ o.coverage = SubSeq(text, k + 1, e - 1)
  BY DEF KnowsCoverage
<1>2. Len(text) \in Nat /\ Len(all) = Len(text) + 1
  BY AppendProperties
<1>3. \A t, l \in Nat, f \in 0..Len(text) : CoverageAt(all, t, l, f) <=> CoverageAt(text, t, l, f)
  BY LinesBefore
<1>4. k + 1 \in 1..(Len(text) + 1) /\ e - 1 \in 0..Len(text)
  BY <1>1, <1>2 DEF FirstCoverageAt, CoverageAt
<1>5. SubSeq(all, k + 1, e - 1) = SubSeq(text, k + 1, e - 1)
  BY <1>4, PartsOfAppend
<1> HIDE DEF all
<1>6. CoverageAt(all, s, k, e)
  BY <1>1, <1>2, <1>3 DEF FirstCoverageAt
<1>7. ASSUME NEW t \in 0..Len(all), NEW l \in 0..Len(all), NEW f \in 0..Len(all), CoverageAt(all, t, l, f)
      PROVE  e <= f
  <2>1. CASE f <= Len(text)
    <3>1. f \in 0..Len(text) /\ t \in 0..Len(text) /\ l \in 0..Len(text)
      BY <1>2, <1>7, <2>1 DEF CoverageAt, IsLine
    <3> QED BY <1>1, <1>3, <1>7, <3>1 DEF FirstCoverageAt
  <2>2. CASE f > Len(text)
    BY <1>2, <2>2
  <2> QED BY <1>2, <2>1, <2>2
<1>8. FirstCoverageAt(all, s, k, e)
  BY <1>6, <1>7 DEF FirstCoverageAt
<1>9. s \in 0..Len(all) /\ k \in 0..Len(all) /\ e \in 0..Len(all)
  BY <1>2
<1>10. KnowsCoverage(o, all)
  BY <1>1, <1>5, <1>8, <1>9 DEF KnowsCoverage
<1> QED BY <1>10 DEF all

\* The only line that a newline after text completes is the one text ends in.
LEMMA NewlineEnds ==
    ASSUME NEW L, NL \in L, NEW text \in Seq(L), NEW s \in 0..Len(text),
           s = 0 \/ text[s] = NL, \A i \in (s + 1)..Len(text) : text[i] # NL
    PROVE  LET all == Append(text, NL)
           IN  /\ IsLine(all, s, Len(text) + 1)
               /\ \A t \in Nat : IsLine(all, t, Len(text) + 1) => t = s
<1> DEFINE all == Append(text, NL)
<1>1. /\ Len(text) \in Nat /\ all \in Seq(L) /\ Len(all) = Len(text) + 1
      /\ all[Len(text) + 1] = NL
      /\ \A i \in 1..Len(text) : all[i] = text[i]
  BY AppendProperties
<1> HIDE DEF all
<1>2. /\ s # 0 => all[s] = NL
      /\ \A i \in (s + 1)..Len(text) : all[i] # NL
  BY <1>1
<1>3. IsLine(all, s, Len(text) + 1)
  <2>1. Len(text) + 1 - 1 = Len(text) /\ s \in 0..Len(text) /\ Len(text) + 1 \in 1..Len(all)
    BY <1>1
  <2> QED BY <1>1, <1>2, <2>1 DEF IsLine
<1>4. ASSUME NEW t \in Nat, IsLine(all, t, Len(text) + 1) PROVE t = s
  <2>1. /\ t \in 0..Len(text) /\ (t # 0 => all[t] = NL)
        /\ \A i \in (t + 1)..Len(text) : all[i] # NL
    <3>1. Len(text) + 1 - 1 = Len(text)
      BY <1>1
    <3> QED BY <1>4, <3>1 DEF IsLine
  <2>2. ~(t < s)
    BY <1>1, <1>2, <2>1
  <2>3. ~(s < t)
    BY <1>1, <1>2, <2>1
  <2> QED BY <2>1, <2>2, <2>3
<1> QED BY <1>3, <1>4 DEF all

\* The search of a line at its end: it finds what there is on the line.
LEMMA EndOfLineKnows ==
    ASSUME NEW L, NL \in L, NEW text \in Seq(L), NEW o \in Tracker(L),
           o.coverage = <<>>, KnowsCoverage(o, text)
    PROVE  /\ EndOfLine(o) \in Tracker(L)
           /\ KnowsCoverage(EndOfLine(o), Append(text, NL))
<1> DEFINE all == Append(text, NL)
           n == Len(text)
           p == EndOfLine(o)
<1>1. /\ n \in Nat /\ all \in Seq(L) /\ Len(all) = n + 1 /\ all[n + 1] = NL
      /\ \A i \in 1..n : all[i] = text[i]
  BY AppendProperties
<1>2. \A t, l \in Nat, f \in 0..n : CoverageAt(all, t, l, f) <=> CoverageAt(text, t, l, f)
  BY LinesBefore
<1>3. \A t, l, f \in 0..n : ~CoverageAt(text, t, l, f)
  BY DEF KnowsCoverage
<1>4. PICK s \in 0..n :
         /\ s = 0 \/ text[s] = NL
         /\ \A i \in (s + 1)..n : text[i] # NL
         /\ o.longLine <=> (n - s > MaxCoverageLine)
         /\ o.line = IF o.longLine THEN <<>> ELSE SubSeq(text, s + 1, n)
  BY DEF KnowsCoverage, KnowsLine
<1>5. /\ IsLine(all, s, n + 1)
      /\ \A t \in Nat : IsLine(all, t, n + 1) => t = s
  BY <1>4, NewlineEnds
<1>6. \A m \in 1..(n + 1), e \in 0..n :
         /\ SubSeq(all, m, e) = SubSeq(text, m, e)
         /\ SubSeq(text, m, e) \in Seq(L)
         /\ Len(SubSeq(text, m, e)) = IF m <= e THEN e - m + 1 ELSE 0
         /\ \A i \in 1..(e - m + 1) : SubSeq(text, m, e)[i] = text[m + i - 1]
  BY PartsOfAppend
<1>7. /\ p = [o EXCEPT !.coverage = IF o.longLine THEN <<>> ELSE AfterPrefix(o.line),
                       !.line = <<>>, !.longLine = FALSE]
  BY DEF EndOfLine
<1>8. p.line = <<>> /\ p.longLine = FALSE
      /\ p.coverage = IF o.longLine THEN <<>> ELSE AfterPrefix(o.line)
  BY <1>7 DEF Tracker
<1>9. SubSeq(all, n + 2, n + 1) = <<>>
  BY <1>1, SubSeqEmpty
<1> HIDE DEF all, p, n
<1>10. \* Whatever line has coverage now is the one that has ended.
       ASSUME NEW t \in 0..(n + 1), NEW l \in 0..(n + 1), NEW f \in 0..(n + 1), CoverageAt(all, t, l, f)
       PROVE  t = s /\ f = n + 1
  <2>1. t \in Nat /\ l \in Nat /\ IsLine(all, t, f) /\ t < f /\ l < f
    BY <1>1, <1>10 DEF CoverageAt, IsLine
  <2>2. f = n + 1
    <3> SUFFICES ASSUME f \in 0..n PROVE FALSE
      BY <1>1
    <3>1. t \in 0..n /\ l \in 0..n
      BY <1>1, <2>1
    <3> QED BY <1>2, <1>3, <1>10, <3>1
  <2> QED BY <1>5, <2>1, <2>2
<1>11. KnowsLine(p, all)
  <2>1. n + 1 \in 0..Len(all) /\ Len(all) - (n + 1) = 0 /\ \A i \in (n + 1 + 1)..Len(all) : FALSE
    BY <1>1
  <2>2. ~(0 > MaxCoverageLine)
    BY MaxCoverageLineAssumption
  <2>3. SubSeq(all, n + 1 + 1, Len(all)) = <<>>
    BY <1>1, <1>9
  <2> QED BY <1>1, <1>8, <2>1, <2>2, <2>3 DEF KnowsLine
<1>12. ASSUME p.coverage = <<>>, \A l \in 0..(n + 1) : ~CoverageAt(all, s, l, n + 1)
       PROVE  KnowsCoverage(p, all)
  <2>1. \A t, l, f \in 0..Len(all) : ~CoverageAt(all, t, l, f)
    BY <1>1, <1>10, <1>12
  <2> QED BY <1>11, <1>12, <2>1 DEF KnowsCoverage
<1>13. CASE o.longLine
  <2>1. p.coverage = <<>> /\ n - s > MaxCoverageLine
    BY <1>4, <1>8, <1>13
  <2>2. \A l : ~CoverageAt(all, s, l, n + 1)
    <3>1. ~(n + 1 - s - 1 <= MaxCoverageLine)
      BY <1>1, <2>1, MaxCoverageLineAssumption
    <3> QED BY <1>1, <3>1 DEF CoverageAt
  <2>3. p \in Tracker(L)
    BY <1>7, <1>13, EmptySeq DEF Tracker
  <2> QED BY <1>12, <2>1, <2>2, <2>3 DEF p, all
<1>14. CASE ~o.longLine
  <2> DEFINE line == o.line
  <2>1. /\ line \in Seq(L) /\ Len(line) = n - s /\ n - s <= MaxCoverageLine
        /\ \A i \in 1..(n - s) : line[i] = all[s + i]
    <3>1. s + 1 \in 1..(n + 1) /\ n \in 0..n
      BY <1>1
    <3>2. /\ line = SubSeq(text, s + 1, n) /\ line \in Seq(L)
          /\ Len(line) = IF s + 1 <= n THEN n - (s + 1) + 1 ELSE 0
          /\ \A i \in 1..(n - (s + 1) + 1) : line[i] = text[s + 1 + i - 1]
      BY <1>4, <1>6, <1>14, <3>1
    <3>3. n - (s + 1) + 1 = n - s /\ Len(line) = n - s
      BY <1>1, <3>2
    <3>4. ASSUME NEW i \in 1..(n - s) PROVE line[i] = all[s + i]
      <4>1. s + 1 + i - 1 = s + i /\ s + i \in 1..n
        BY <1>1
      <4> QED BY <1>1, <3>2, <3>3, <4>1
    <3>5. n - s <= MaxCoverageLine
      <4>1. ~(n - s > MaxCoverageLine)
        BY <1>4, <1>14
      <4> QED BY <1>1, <4>1, MaxCoverageLineAssumption
    <3> QED BY <3>2, <3>3, <3>4, <3>5
  <2> HIDE DEF line
  <2>2. p.coverage = AfterPrefix(line)
    BY <1>8, <1>14 DEF line
  <2>3. ASSUME NEW l \in 0..(n + 1), CoverageAt(all, s, l, n + 1)
        PROVE  /\ l - s \in 1..(Len(line) - 1) /\ line[l - s] = coveragePrefix
    <3>1. l \in (s + 1)..(n + 1 - 2) /\ all[l] = coveragePrefix
      BY <1>1, <2>3 DEF CoverageAt
    <3>2. l - s \in 1..(n - s) /\ s + (l - s) = l /\ l - s \in 1..(n - s - 1)
      BY <1>1, <3>1
    <3> QED BY <2>1, <3>1, <3>2
  <2>4. CASE ~Contains(line, coveragePrefix)
    <3>1. p.coverage = <<>>
      BY <2>1, <2>2, <2>4, AfterPrefixIs
    <3>2. \A l \in 0..(n + 1) : ~CoverageAt(all, s, l, n + 1)
      <4>1. \A i \in 1..(Len(line) - 1) : i \in 1..Len(line)
        BY <1>1, <2>1
      <4> QED BY <2>3, <2>4, <4>1 DEF Contains
    <3>3. p \in Tracker(L)
      BY <1>7, <1>8, <3>1, EmptySeq DEF Tracker
    <3> QED BY <1>12, <3>1, <3>2, <3>3 DEF p, all
  <2>5. CASE Contains(line, coveragePrefix)
    <3>1. PICK k \in 1..Len(line) :
             /\ line[k] = coveragePrefix
             /\ \A i \in 1..(k - 1) : line[i] # coveragePrefix
             /\ AfterPrefix(line) = SubSeq(line, k + 1, Len(line))
      BY <2>1, <2>5, AfterPrefixIs
    <3>2. /\ SubSeq(line, k + 1, Len(line)) \in Seq(L)
          /\ Len(SubSeq(line, k + 1, Len(line))) = Len(line) - k
          /\ \A i \in 1..(Len(line) - k) : SubSeq(line, k + 1, Len(line))[i] = line[k + i]
      <4> DEFINE sub == SubSeq(line, k + 1, Len(line))
      <4>1. k + 1 \in Int /\ Len(line) \in Int /\ \A i \in (k + 1)..Len(line) : line[i] \in L
        BY <1>1, <2>1, ElementOfSeq
      <4>2. /\ sub \in Seq(L)
            /\ Len(sub) = IF k + 1 <= Len(line) THEN Len(line) - (k + 1) + 1 ELSE 0
            /\ \A i \in 1..(Len(line) - (k + 1) + 1) : sub[i] = line[k + 1 + i - 1]
        BY <4>1, SubSeqProperties
      <4> HIDE DEF sub
      <4>3. k \in Nat /\ Len(line) \in Nat /\ k <= Len(line)
        BY <1>1, <2>1
      <4>4. ASSUME NEW i \in 1..(Len(line) - k) PROVE sub[i] = line[k + i]
        <5>1. i \in 1..(Len(line) - (k + 1) + 1) /\ k + 1 + i - 1 = k + i
          BY <4>3
        <5> QED BY <4>2, <5>1
      <4>5. Len(sub) = Len(line) - k
        BY <4>2, <4>3
      <4> QED BY <4>2, <4>4, <4>5 DEF sub
    <3>3. p \in Tracker(L)
      BY <1>7, <1>14, <2>2, <3>1, <3>2, EmptySeq DEF Tracker, line
    <3>4. CASE k = Len(line)
      <4>1. p.coverage = <<>>
        <5>1. p.coverage \in Seq(L) /\ Len(p.coverage) = 0
          BY SMTT(40), <1>1, <2>1, <2>2, <3>1, <3>2, <3>4
        <5> QED BY <5>1, EmptySeq
      <4>2. \A i \in 1..(Len(line) - 1) : line[i] # coveragePrefix
        BY <3>1, <3>4
      <4>3. \A l \in 0..(n + 1) : ~CoverageAt(all, s, l, n + 1)
        BY <2>3, <4>2
      <4> QED BY <1>12, <3>3, <4>1, <4>3 DEF p, all
    <3>5. CASE k # Len(line)
      <4>1. Len(line) - k > 0 /\ k \in Nat /\ Len(line) \in Nat /\ k + s \in (s + 1)..(n + 1 - 2)
            /\ s \in Nat /\ k + s \in 1..n /\ Len(line) = n - s
        BY <1>1, <2>1, <3>5
      <4>2. p.coverage # <<>>
        <5>1. p.coverage \in Seq(L) /\ Len(p.coverage) > 0
          BY <2>2, <3>1, <3>2, <4>1
        <5> QED BY <5>1, EmptySeq
      <4>3. PICK l \in Nat, e \in Nat : l = k + s /\ e = n + 1
        BY <1>1, <4>1
      <4>4. CoverageAt(all, s, l, e)
        <5>1. all[l] = coveragePrefix
          <6>1. k \in 1..(n - s) /\ s + k = l
            BY <2>1, <4>1, <4>3
          <6> QED BY <2>1, <3>1, <6>1
        <5>2. ASSUME NEW i \in (s + 1)..(l - 1) PROVE all[i] # coveragePrefix
          <6>1. i - s \in 1..(k - 1) /\ i - s \in 1..(n - s) /\ s + (i - s) = i
            BY <2>1, <4>3, <4>1
          <6> QED BY <2>1, <3>1, <6>1
        <5>3. e - s - 1 <= MaxCoverageLine
          BY <1>1, <2>1, <4>3, <4>1
        <5>4. l \in (s + 1)..(e - 2)
          BY <1>1, <4>3, <4>1
        <5> QED BY <1>5, <4>3, <5>1, <5>2, <5>3, <5>4 DEF CoverageAt
      <4>5. FirstCoverageAt(all, s, l, e)
        <5>1. \A t, j, f \in 0..Len(all) : CoverageAt(all, t, j, f) => e <= f
          BY <1>1, <1>10, <4>3
        <5> QED BY <4>4, <5>1 DEF FirstCoverageAt
      <4>6. p.coverage = SubSeq(all, l + 1, e - 1)
        <5> DEFINE part == SubSeq(text, l + 1, n)
        <5>1. /\ l + 1 \in 1..(n + 1) /\ n \in 0..n /\ e - 1 = n
              /\ n - (l + 1) + 1 = Len(line) - k /\ l + 1 <= n
          BY <1>1, <4>3, <4>1
        <5>2. /\ SubSeq(all, l + 1, e - 1) = part
              /\ part \in Seq(L) /\ Len(part) = Len(line) - k
              /\ \A i \in 1..(Len(line) - k) : part[i] = text[l + 1 + i - 1]
          BY <1>6, <5>1
        <5>3. ASSUME NEW i \in 1..(Len(line) - k) PROVE part[i] = p.coverage[i]
          <6>1. /\ l + 1 + i - 1 = s + (k + i) /\ k + i \in 1..(n - s) /\ s + (k + i) \in 1..n
            BY <1>1, <4>3, <4>1
          <6>2. p.coverage[i] = all[s + (k + i)]
            BY <2>1, <2>2, <3>1, <3>2, <6>1
          <6> QED BY <1>1, <5>2, <6>1, <6>2
        <5>4. p.coverage \in Seq(L) /\ Len(p.coverage) = Len(line) - k
          BY <2>2, <3>1, <3>2
        <5> HIDE DEF part
        <5>5. part = p.coverage
          BY <5>2, <5>3, <5>4, SeqEqual
        <5> QED BY <5>2, <5>5
      <4>7. s \in 0..Len(all) /\ l \in 0..Len(all) /\ e \in 0..Len(all)
        BY <1>1, <4>3, <4>1
      <4>8. KnowsCoverage(p, all)
        <5>1. \E t, j, f \in 0..Len(all) : /\ FirstCoverageAt(all, t, j, f)
                                          /\ p.coverage = SubSeq(all, j + 1, f - 1)
          BY <4>5, <4>6, <4>7
        <5> QED BY <4>2, <5>1 DEF KnowsCoverage
      <4> QED BY <3>3, <4>8 DEF p, all
    <3> QED BY <3>4, <3>5
  <2> QED BY <2>4, <2>5
<1> QED BY <1>13, <1>14

\* A lump that is no newline makes the unfinished line longer, or too long.
LEMMA LineGrows ==
    ASSUME NEW L, NEW text \in Seq(L), NEW c \in L, c # NL,
           NEW o \in Tracker(L), o.coverage = <<>>, KnowsCoverage(o, text)
    PROVE  /\ FindCoverage(o, c) \in Tracker(L)
           /\ KnowsCoverage(FindCoverage(o, c), Append(text, c))
<1> DEFINE all == Append(text, c)
           n == Len(text)
           p == FindCoverage(o, c)
<1>1. /\ n \in Nat /\ all \in Seq(L) /\ Len(all) = n + 1 /\ all[n + 1] = c
      /\ \A i \in 1..n : all[i] = text[i]
  BY AppendProperties
<1>2. \A t, l \in Nat, f \in 0..n : CoverageAt(all, t, l, f) <=> CoverageAt(text, t, l, f)
  BY LinesBefore
<1>3. \A t, l, f \in 0..n : ~CoverageAt(text, t, l, f)
  BY DEF KnowsCoverage
<1>4. PICK s \in 0..n :
         /\ s = 0 \/ text[s] = NL
         /\ \A i \in (s + 1)..n : text[i] # NL
         /\ o.longLine <=> (n - s > MaxCoverageLine)
         /\ o.line = IF o.longLine THEN <<>> ELSE SubSeq(text, s + 1, n)
  BY DEF KnowsCoverage, KnowsLine
<1>5. /\ SubSeq(all, s + 1, n + 1) = Append(SubSeq(text, s + 1, n), c)
      /\ SubSeq(text, s + 1, n) \in Seq(L) /\ Len(SubSeq(text, s + 1, n)) = n - s
  <2>1. s + 1 \in 1..(n + 1) /\ n \in 0..n /\ (s + 1 <= n => n - (s + 1) + 1 = n - s)
        /\ (~(s + 1 <= n) => n - s = 0)
    BY <1>1
  <2> HIDE DEF all
  <2>2. /\ SubSeq(text, s + 1, n) \in Seq(L)
        /\ Len(SubSeq(text, s + 1, n)) = IF s + 1 <= n THEN n - (s + 1) + 1 ELSE 0
    BY <2>1, PartsOfAppend
  <2>3. SubSeq(all, s + 1, n + 1) = Append(SubSeq(text, s + 1, n), c)
    BY <2>1, PartsOfAppend DEF all
  <2> QED BY <2>1, <2>2, <2>3
<1>6. p = IF o.longLine THEN o
          ELSE IF Len(o.line) + 1 > MaxCoverageLine THEN [o EXCEPT !.longLine = TRUE, !.line = <<>>]
          ELSE [o EXCEPT !.line = Append(o.line, c)]
  BY DEF FindCoverage
<1> HIDE DEF all, p, n
<1>7. \A t, l, f \in 0..Len(all) : ~CoverageAt(all, t, l, f)
  <2> SUFFICES ASSUME NEW t \in 0..Len(all), NEW l \in 0..Len(all), NEW f \in 0..Len(all),
                      CoverageAt(all, t, l, f)
               PROVE  FALSE
    OBVIOUS
  <2>1. f # n + 1
    BY <1>1 DEF CoverageAt, IsLine
  <2>2. f \in 0..n /\ t \in 0..n /\ l \in 0..n
    BY <1>1, <2>1 DEF CoverageAt, IsLine
  <2> QED BY <1>2, <1>3, <2>2
<1>8. /\ s \in 0..Len(all) /\ (s = 0 \/ all[s] = NL)
      /\ \A i \in (s + 1)..Len(all) : all[i] # NL
  <2>1. s \in 0..Len(all) /\ (s = 0 \/ all[s] = NL)
    BY <1>1, <1>4
  <2>2. ASSUME NEW i \in (s + 1)..Len(all) PROVE all[i] # NL
    <3>1. CASE i = n + 1
      BY <1>1, <3>1
    <3>2. CASE i # n + 1
      <4>1. i \in 1..n /\ i \in (s + 1)..n
        BY <1>1, <3>2
      <4> QED BY <1>1, <1>4, <4>1
    <3> QED BY <3>1, <3>2
  <2> QED BY <2>1, <2>2
<1>9. Len(all) - s = n - s + 1
  BY <1>1
<1>10. CASE o.longLine
  <2>1. n - s > MaxCoverageLine
    BY <1>4, <1>10
  <2>2. Len(all) - s > MaxCoverageLine
    BY <1>1, <1>9, <2>1, MaxCoverageLineAssumption
  <2>3. p = o /\ p.longLine = TRUE /\ p.line = <<>>
    BY <1>4, <1>6, <1>10 DEF Tracker
  <2>4. KnowsLine(p, all)
    BY <1>8, <2>2, <2>3 DEF KnowsLine
  <2> QED BY <1>7, <2>3, <2>4 DEF KnowsCoverage, p, all
<1>11. CASE ~o.longLine /\ Len(o.line) + 1 > MaxCoverageLine
  <2>1. Len(all) - s > MaxCoverageLine
    BY <1>1, <1>4, <1>5, <1>9, <1>11
  <2>2. p = [o EXCEPT !.longLine = TRUE, !.line = <<>>]
    BY <1>6, <1>11
  <2>3. p \in Tracker(L) /\ p.longLine = TRUE /\ p.line = <<>> /\ p.coverage = <<>>
    BY <2>2, EmptySeq DEF Tracker
  <2>4. KnowsLine(p, all)
    BY <1>8, <2>1, <2>3 DEF KnowsLine
  <2> QED BY <1>7, <2>3, <2>4 DEF KnowsCoverage, p, all
<1>12. CASE ~o.longLine /\ ~(Len(o.line) + 1 > MaxCoverageLine)
  <2>1. ~(Len(all) - s > MaxCoverageLine) /\ o.line = SubSeq(text, s + 1, n)
    BY <1>1, <1>4, <1>5, <1>9, <1>12
  <2>2. p = [o EXCEPT !.line = Append(o.line, c)]
    BY <1>6, <1>12
  <2>3. Append(o.line, c) \in Seq(L)
    BY <1>5, <2>1, AppendProperties
  <2>4. /\ p \in Tracker(L) /\ p.longLine = FALSE /\ p.coverage = <<>>
        /\ p.line = SubSeq(all, s + 1, Len(all))
    BY <1>1, <1>5, <1>12, <2>1, <2>2, <2>3 DEF Tracker
  <2>5. /\ p.longLine <=> (Len(all) - s > MaxCoverageLine)
        /\ p.line = IF p.longLine THEN <<>> ELSE SubSeq(all, s + 1, Len(all))
    BY <2>1, <2>4
  <2>6. KnowsLine(p, all)
    BY <1>8, <2>5 DEF KnowsLine
  <2> QED BY <1>7, <2>4, <2>6 DEF KnowsCoverage, p, all
<1> QED BY <1>10, <1>11, <1>12

LEMMA FindCoverageStep ==
    ASSUME NEW L, NL \in L, NEW text \in Seq(L), NEW c \in L,
           NEW o \in Tracker(L), KnowsCoverage(o, text)
    PROVE  LET p == FindCoverage(o, c)
           IN  /\ p \in Tracker(L)
               /\ KnowsCoverage(p, Append(text, c))
               /\ p.n = o.n /\ p.last = o.last /\ p.tail = o.tail /\ p.noTests = o.noTests
<1>1. CASE o.coverage # <<>>
  <2>1. FindCoverage(o, c) = o
    BY <1>1 DEF FindCoverage
  <2> QED BY <1>1, <2>1, FoundStays
<1>2. CASE o.coverage = <<>> /\ c = NL
  <2>1. FindCoverage(o, c) = EndOfLine(o)
    BY <1>2 DEF FindCoverage
  <2>2. /\ EndOfLine(o).n = o.n /\ EndOfLine(o).last = o.last
        /\ EndOfLine(o).tail = o.tail /\ EndOfLine(o).noTests = o.noTests
    BY DEF EndOfLine, Tracker
  <2> QED BY <1>2, <2>1, <2>2, EndOfLineKnows
<1>3. CASE o.coverage = <<>> /\ c # NL
  <2>1. /\ FindCoverage(o, c).n = o.n /\ FindCoverage(o, c).last = o.last
        /\ FindCoverage(o, c).tail = o.tail /\ FindCoverage(o, c).noTests = o.noTests
    BY <1>3 DEF FindCoverage, Tracker
  <2> QED BY <1>3, <2>1, LineGrows
<1> QED BY <1>1, <1>2, <1>3

----------------------------------------------------------------------------
(* A whole write.                                                          *)

\* The recursive function in SearchCoverage(o, b): the tracker after k lumps.
IsAfter(f, o, b) == f = [k \in 0..Len(b) |-> IF k = 0 THEN o ELSE FindCoverage(f[k - 1], b[k])]
After(o, b) == CHOOSE f : IsAfter(f, o, b)

\* There is such a function: the one for n + 1 lumps extends the one for n.
LEMMA AfterExists ==
    ASSUME NEW o, NEW L, NEW b \in Seq(L)
    PROVE  \E f : IsAfter(f, o, b)
<1> DEFINE Good(f, n) == f = [k \in 0..n |-> IF k = 0 THEN o ELSE FindCoverage(f[k - 1], b[k])]
           N == {n \in Nat : \E f : Good(f, n)}
<1>1. 0 \in N
  <2> DEFINE f == [k \in 0..0 |-> o]
  <2>1. \A k \in 0..0 : k = 0
    OBVIOUS
  <2>2. Good(f, 0)
    BY <2>1
  <2> QED BY <2>2
<1>2. ASSUME NEW n \in N PROVE n + 1 \in N
  <2>1. PICK f : Good(f, n)
    OBVIOUS
  <2> DEFINE g == [k \in 0..(n + 1) |-> IF k = n + 1 THEN FindCoverage(f[n], b[n + 1]) ELSE f[k]]
  <2>2. ASSUME NEW k \in 0..(n + 1)
        PROVE  g[k] = IF k = 0 THEN o ELSE FindCoverage(g[k - 1], b[k])
    <3>1. CASE k = 0
      <4>1. k \in 0..n /\ k # n + 1
        BY <3>1
      <4> QED BY <2>1, <3>1, <4>1
    <3>2. CASE k # 0
      <4>1. k - 1 \in 0..n /\ k - 1 # n + 1 /\ k - 1 \in 0..(n + 1)
        BY <3>2
      <4>2. g[k - 1] = f[k - 1]
        BY <4>1
      <4>3. CASE k = n + 1
        BY <3>2, <4>2, <4>3
      <4>4. CASE k # n + 1
        <5>1. k \in 0..n
          BY <4>4
        <5> QED BY <2>1, <3>2, <4>2, <4>4, <5>1
      <4> QED BY <4>3, <4>4
    <3> QED BY <3>1, <3>2
  <2>3. g = [k \in 0..(n + 1) |-> IF k = 0 THEN o ELSE FindCoverage(g[k - 1], b[k])]
    <3> DEFINE h == [k \in 0..(n + 1) |-> IF k = 0 THEN o ELSE FindCoverage(g[k - 1], b[k])]
    <3>1. \A k \in 0..(n + 1) : g[k] = h[k]
      BY <2>2
    <3>2. g = [k \in 0..(n + 1) |-> g[k]] /\ h = [k \in 0..(n + 1) |-> h[k]]
      OBVIOUS
    <3> HIDE DEF g, h
    <3>3. g = h
      BY <3>1, <3>2
    <3> QED BY <3>3 DEF h
  <2> HIDE DEF g
  <2>4. \E f1 : Good(f1, n + 1)
    BY <2>3
  <2> QED BY <2>4
<1>3. N = Nat
  BY <1>1, <1>2, Induct
<1>4. Len(b) \in N
  BY <1>3
<1> QED BY <1>4 DEF IsAfter

LEMMA AfterStep ==
    ASSUME NEW o, NEW L, NEW b \in Seq(L)
    PROVE  /\ After(o, b)[0] = o
           /\ \A k \in 1..Len(b) : After(o, b)[k] = FindCoverage(After(o, b)[k - 1], b[k])
           /\ SearchCoverage(o, b) = After(o, b)[Len(b)]
<1> DEFINE f == After(o, b)
<1>1. f = [k \in 0..Len(b) |-> IF k = 0 THEN o ELSE FindCoverage(f[k - 1], b[k])]
  <2>1. \E g : IsAfter(g, o, b)
    BY AfterExists
  <2>2. IsAfter(f, o, b)
    BY <2>1, Zenon DEF After
  <2> QED BY <2>2 DEF IsAfter
<1>2. SearchCoverage(o, b) = f[Len(b)]
  BY Zenon DEF SearchCoverage, After, IsAfter
<1> HIDE DEF f
<1>3. Len(b) \in Nat
  OBVIOUS
<1>4. f[0] = o
  BY <1>1, <1>3
<1>5. \A k \in 1..Len(b) : f[k] = FindCoverage(f[k - 1], b[k])
  BY <1>1, <1>3
<1> QED BY <1>2, <1>4, <1>5 DEF f

LEMMA SearchKnows ==
    ASSUME NEW L, NL \in L, NEW text \in Seq(L), NEW b \in Seq(L),
           NEW o \in Tracker(L), KnowsCoverage(o, text)
    PROVE  LET p == SearchCoverage(o, b)
           IN  /\ p \in Tracker(L)
               /\ KnowsCoverage(p, text \o b)
               /\ p.n = o.n /\ p.last = o.last /\ p.tail = o.tail /\ p.noTests = o.noTests
<1> DEFINE f == After(o, b)
           Upto(k) == text \o SubSeq(b, 1, k)
           Good(k) == /\ f[k] \in Tracker(L)
                      /\ KnowsCoverage(f[k], Upto(k))
                      /\ f[k].n = o.n /\ f[k].last = o.last
                      /\ f[k].tail = o.tail /\ f[k].noTests = o.noTests
           N == {k \in Nat : k <= Len(b) => Good(k)}
<1>1. /\ f[0] = o
      /\ \A k \in 1..Len(b) : f[k] = FindCoverage(f[k - 1], b[k])
      /\ SearchCoverage(o, b) = f[Len(b)]
  BY AfterStep
<1>2. Len(b) \in Nat /\ \A k \in 1..Len(b) : b[k] \in L
  BY ElementOfSeq
<1>3. \A k \in 0..Len(b) : SubSeq(b, 1, k) \in Seq(L) /\ Upto(k) \in Seq(L)
  <2> SUFFICES ASSUME NEW k \in 0..Len(b) PROVE SubSeq(b, 1, k) \in Seq(L) /\ Upto(k) \in Seq(L)
    OBVIOUS
  <2>1. SubSeq(b, 1, k) \in Seq(L)
    <3>1. 1 \in Int /\ k \in Int /\ \A i \in 1..k : b[i] \in L
      BY <1>2
    <3> QED BY <3>1, SubSeqProperties
  <2> QED BY <2>1, ConcatProperties
<1>4. ASSUME NEW k \in 1..Len(b) PROVE Upto(k) = Append(Upto(k - 1), b[k])
  <2>1. k \in Int /\ k - 1 \in 0..Len(b) /\ SubSeq(b, 1, k - 1) \in Seq(L) /\ b[k] \in L
        /\ 1 \in 1..Len(b) /\ k \in 1..Len(b)
    BY <1>2, <1>3
  <2>2. SubSeq(b, 1, k) = SubSeq(b, 1, k - 1) \o <<b[k]>>
    BY <2>1, SubSeqRecursiveSecond
  <2>3. SubSeq(b, 1, k) = Append(SubSeq(b, 1, k - 1), b[k])
    BY <2>1, <2>2, AppendIsConcat
  <2> QED BY <2>1, <2>3, ComesLast
<1>5. Upto(0) = text /\ Upto(Len(b)) = text \o b
  <2>1. SubSeq(b, 1, 0) = <<>> /\ SubSeq(b, 1, Len(b)) = b
    BY SubSeqEmpty, SubSeqFull
  <2> QED BY <2>1, ConcatEmptySeq
<1> HIDE DEF f, Upto
<1>6. 0 \in N
  BY <1>1, <1>5
<1>7. ASSUME NEW k \in N PROVE k + 1 \in N
  <2> SUFFICES ASSUME k + 1 <= Len(b) PROVE Good(k + 1)
    OBVIOUS
  <2>1. /\ k \in Nat /\ k <= Len(b) /\ k + 1 \in 1..Len(b) /\ k \in 0..Len(b) /\ k + 1 - 1 = k
    BY <1>2
  <2>2. Good(k)
    BY <2>1
  <2>3. /\ f[k + 1] = FindCoverage(f[k], b[k + 1])
        /\ Upto(k + 1) = Append(Upto(k), b[k + 1])
        /\ Upto(k) \in Seq(L) /\ b[k + 1] \in L
    BY <1>1, <1>2, <1>3, <1>4, <2>1
  <2>4. \A q \in Tracker(L), t \in Seq(L), c \in L : KnowsCoverage(q, t) =>
           \A x, u : x = FindCoverage(q, c) /\ u = Append(t, c) =>
             /\ x \in Tracker(L) /\ KnowsCoverage(x, u)
             /\ x.n = q.n /\ x.last = q.last /\ x.tail = q.tail /\ x.noTests = q.noTests
    BY FindCoverageStep
  <2>5. f[k] \in Tracker(L) /\ KnowsCoverage(f[k], Upto(k))
    BY <2>2
  <2>6. /\ f[k + 1] \in Tracker(L)
        /\ KnowsCoverage(f[k + 1], Upto(k + 1))
        /\ f[k + 1].n = f[k].n /\ f[k + 1].last = f[k].last
        /\ f[k + 1].tail = f[k].tail /\ f[k + 1].noTests = f[k].noTests
    BY <2>3, <2>4, <2>5
  <2> QED BY <2>2, <2>6
<1>8. N = Nat
  BY <1>6, <1>7, Induct
<1>9. Good(Len(b))
  BY <1>2, <1>8
<1> QED BY <1>1, <1>5, <1>9

LEMMA NewTrackerKnows ==
    ASSUME NEW L, NL \in L
    PROVE  newOutputTracker \in Tracker(L) /\ Knows(newOutputTracker, <<>>)
<1> DEFINE o == newOutputTracker
<1>1. <<NL>> \in Seq(L) /\ <<>> \in Seq(L) /\ Len(<<>>) = 0 /\ Len(<<NL>>) = 1
  BY EmptySeq
<1>2. o \in Tracker(L)
  BY <1>1 DEF newOutputTracker, Tracker
<1>3. <<NL>> \o <<>> = <<NL>>
  BY <1>1, ConcatEmptySeq
<1>4. KnowsWarning(o, <<>>)
  <2>1. \A x \in Seq(L) : Len(x) = 1 => ~HasText(x, noTestsToRun)
    BY HasWarning
  <2>2. ASSUME NEW x \in Seq(L), Len(x) = 1 PROVE Keep(x) = x
    <3>1. /\ Keep(x) \in Seq(L) /\ Len(Keep(x)) = 1
          /\ \A j \in 1..1 : Keep(x)[j] = x[1 - 1 + j]
      BY <2>2, KeepIs
    <3>2. \A i \in 1..1 : Keep(x)[i] = x[i]
      BY <3>1
    <3> QED BY <2>2, <3>1, <3>2, SeqEqual
  <2>3. ~HasText(<<NL>>, noTestsToRun) /\ Keep(<<NL>>) = <<NL>>
    BY <1>1, <2>1, <2>2
  <2> QED BY <1>3, <2>3 DEF KnowsWarning, newOutputTracker
<1>5. KnowsCoverage(o, <<>>)
  <2>1. \A s, k, e \in 0..0 : ~CoverageAt(<<>>, s, k, e)
    BY <1>1 DEF CoverageAt, IsLine
  <2>2. KnowsLine(o, <<>>)
    <3>1. SubSeq(<<>>, 0 + 1, 0) = <<>>
      BY SubSeqEmpty
    <3>2. 0 \in 0..Len(<<>>) /\ ~(Len(<<>>) - 0 > MaxCoverageLine)
          /\ \A i \in (0 + 1)..Len(<<>>) : <<>>[i] # NL
      BY <1>1, MaxCoverageLineAssumption
    <3>3. o.longLine = FALSE /\ o.line = <<>>
      BY DEF newOutputTracker
    <3>4. SubSeq(<<>>, 0 + 1, Len(<<>>)) = <<>>
      BY <1>1, <3>1
    <3> QED BY <3>2, <3>3, <3>4 DEF KnowsLine
  <2> QED BY <1>1, <2>1, <2>2 DEF KnowsCoverage, newOutputTracker
<1> QED BY <1>1, <1>2, <1>4, <1>5 DEF Knows, newOutputTracker

\* A tracker that knows what there is in a text knows, after one more write,
\* what there is in the text with that write, wherever the one ends and the
\* other begins: in the warning, in "coverage: ", in a line (prebuilt.go:366-412).
THEOREM TrackerKnows ==
    ASSUME NEW L, NL \in L, NEW text \in Seq(L), NEW b \in Seq(L), b # <<>>,
           NEW o \in Tracker(L), Knows(o, text)
    PROVE  Track(o, b) \in Tracker(L) /\ Knows(Track(o, b), text \o b)
<1> DEFINE q == [o EXCEPT !.n = o.n + Len(b), !.last = Last(b)]
           r == FindNoTests(q, b)
           p == SearchCoverage(r, b)
<1>1. /\ Len(b) \in Nat /\ Len(b) > 0 /\ Len(text) \in Nat /\ Last(b) \in L
  <2>1. Len(b) \in Nat /\ Len(b) > 0 /\ Len(text) \in Nat
    BY EmptySeq
  <2> QED BY <2>1, ElementOfSeq DEF Last
<1>2. /\ q \in Tracker(L) /\ q.n = Len(text) + Len(b) /\ q.last = Last(b)
      /\ q.tail = o.tail /\ q.noTests = o.noTests
      /\ q.coverage = o.coverage /\ q.line = o.line /\ q.longLine = o.longLine
  <2>1. o.n = Len(text)
    BY DEF Knows
  <2>2. /\ q.n = o.n + Len(b) /\ q.last = Last(b)
        /\ q.tail = o.tail /\ q.noTests = o.noTests
        /\ q.coverage = o.coverage /\ q.line = o.line /\ q.longLine = o.longLine
    BY DEF Tracker
  <2>3. q \in Tracker(L)
    <3>1. \A x \in Nat, y \in L \cup {""} : [o EXCEPT !.n = x, !.last = y] \in Tracker(L)
      BY DEF Tracker
    <3>2. o.n + Len(b) \in Nat
      BY <1>1, <2>1
    <3> QED BY <1>1, <3>1, <3>2
  <2> QED BY <2>1, <2>2, <2>3
<1> HIDE DEF q
<1>3. KnowsWarning(q, text)
  BY <1>2 DEF Knows, KnowsWarning
<1>4. KnowsCoverage(q, text)
  BY <1>2 DEF Knows, KnowsCoverage, KnowsLine
<1>5. /\ r \in Tracker(L) /\ KnowsWarning(r, text \o b)
      /\ r.n = q.n /\ r.last = q.last /\ r.coverage = q.coverage
      /\ r.line = q.line /\ r.longLine = q.longLine
  <2>1. \A x \in Tracker(L) : KnowsWarning(x, text) =>
           /\ FindNoTests(x, b) \in Tracker(L)
           /\ KnowsWarning(FindNoTests(x, b), text \o b)
           /\ FindNoTests(x, b).n = x.n /\ FindNoTests(x, b).last = x.last
           /\ FindNoTests(x, b).coverage = x.coverage /\ FindNoTests(x, b).line = x.line
           /\ FindNoTests(x, b).longLine = x.longLine
    BY WarningStep
  <2> QED BY <1>2, <1>3, <2>1
<1> HIDE DEF r
<1>6. KnowsCoverage(r, text)
  BY <1>4, <1>5 DEF KnowsCoverage, KnowsLine
<1>7. /\ p \in Tracker(L) /\ KnowsCoverage(p, text \o b)
      /\ p.n = r.n /\ p.last = r.last /\ p.tail = r.tail /\ p.noTests = r.noTests
  BY <1>5, <1>6, SearchKnows
<1> HIDE DEF p
<1>8. KnowsWarning(p, text \o b)
  BY <1>5, <1>7 DEF KnowsWarning
<1>9. /\ text \o b \in Seq(L) /\ Len(text \o b) = Len(text) + Len(b)
       /\ Last(text \o b) = Last(b)
  <2>1. /\ text \o b \in Seq(L) /\ Len(text \o b) = Len(text) + Len(b)
        /\ \A i \in 1..(Len(text) + Len(b)) :
              (text \o b)[i] = IF i <= Len(text) THEN text[i] ELSE b[i - Len(text)]
    BY ConcatProperties
  <2>2. Len(text) + Len(b) \in 1..(Len(text) + Len(b)) /\ Len(text) + Len(b) - Len(text) = Len(b)
        /\ ~(Len(text) + Len(b) <= Len(text))
    BY <1>1
  <2> QED BY <2>1, <2>2 DEF Last
<1>10. Knows(p, text \o b)
  BY <1>2, <1>5, <1>7, <1>8, <1>9 DEF Knows
<1>11. p = Track(o, b)
  BY DEF p, r, q, Track
<1> QED BY <1>7, <1>10, <1>11

----------------------------------------------------------------------------

\* A sequence, of whatever it holds; x is one of its elements.
IsSeq(s) == s \in Seq({s[i] : i \in DOMAIN s})
In(x, s) == \E i \in DOMAIN s : s[i] = x

LEMMA NoneSeq == IsSeq(<<>>) /\ \A x : ~In(x, <<>>)
<1>1. ASSUME NEW S PROVE <<>> \in Seq(S) /\ DOMAIN <<>> = {}
  OBVIOUS
<1>2. <<>> \in Seq({<<>>[i] : i \in DOMAIN <<>>})
  BY <1>1
<1>3. DOMAIN <<>> = {}
  BY <1>1
<1> QED BY <1>2, <1>3 DEF IsSeq, In

LEMMA OneSeq == \A e : IsSeq(<<e>>) /\ In(e, <<e>>)
BY DEF IsSeq, In

LEMMA AppendSeq ==
    ASSUME NEW s, IsSeq(s), NEW e
    PROVE  /\ IsSeq(Append(s, e)) /\ In(e, Append(s, e))
           /\ \A x : In(x, s) => In(x, Append(s, e))
<1> DEFINE S == {s[i] : i \in DOMAIN s} \cup {e}
           new == Append(s, e)
<1>1. s \in Seq(S)
  BY DEF IsSeq
<1>2. new \in Seq(S) /\ Len(new) = Len(s) + 1 /\ new[Len(s) + 1] = e
      /\ \A i \in 1..Len(s) : new[i] = s[i]
  BY <1>1
<1>3. DOMAIN s = 1..Len(s) /\ DOMAIN new = 1..(Len(s) + 1) /\ Len(s) \in Nat
  BY <1>1, <1>2
<1> HIDE DEF new
<1>4. new \in Seq({new[i] : i \in DOMAIN new})
  <2>1. \A i \in 1..Len(new) : new[i] \in {new[j] : j \in DOMAIN new}
    BY <1>2, <1>3
  <2> QED BY <1>2, <2>1
<1>5. In(e, new) /\ \A x : In(x, s) => In(x, new)
  BY <1>2, <1>3 DEF In
<1> QED BY <1>4, <1>5 DEF IsSeq, new

LEMMA TailSeq ==
    ASSUME NEW s, IsSeq(s), s # <<>>
    PROVE  /\ IsSeq(Tail(s))
           /\ \A x : In(x, s) => x = Head(s) \/ In(x, Tail(s))
<1> DEFINE S == {s[i] : i \in DOMAIN s}
           rest == Tail(s)
<1>1. s \in Seq(S)
  BY DEF IsSeq
<1>2. rest \in Seq(S) /\ Len(rest) = Len(s) - 1 /\ Head(s) = s[1]
      /\ \A i \in 1..Len(rest) : rest[i] = s[i + 1]
  BY <1>1
<1>3. DOMAIN s = 1..Len(s) /\ DOMAIN rest = 1..Len(rest) /\ Len(s) \in Nat /\ Len(rest) \in Nat
  BY <1>1, <1>2
<1> HIDE DEF rest
<1>4. rest \in Seq({rest[i] : i \in DOMAIN rest})
  <2>1. \A i \in 1..Len(rest) : rest[i] \in {rest[j] : j \in DOMAIN rest}
    BY <1>3
  <2> QED BY <1>2, <2>1
<1>5. ASSUME NEW x, In(x, s) PROVE x = Head(s) \/ In(x, rest)
  <2>1. PICK i \in 1..Len(s) : s[i] = x
    BY <1>3, <1>5 DEF In
  <2>2. CASE i = 1
    BY <1>2, <2>1, <2>2
  <2>3. CASE i # 1
    <3>1. i - 1 \in 1..Len(rest) /\ rest[i - 1] = x
      BY <1>2, <1>3, <2>1, <2>3
    <3> QED BY <1>3, <3>1 DEF In
  <2> QED BY <2>2, <2>3
<1> QED BY <1>4, <1>5 DEF IsSeq, rest

LEMMA ConcatSeq ==
    ASSUME NEW s, IsSeq(s), NEW t, IsSeq(t)
    PROVE  IsSeq(s \o t) /\ \A x : In(x, s) => In(x, s \o t)
<1> DEFINE S == {s[i] : i \in DOMAIN s} \cup {t[i] : i \in DOMAIN t}
           both == s \o t
<1>1. s \in Seq(S) /\ t \in Seq(S)
  BY DEF IsSeq
<1>2. both \in Seq(S) /\ Len(both) = Len(s) + Len(t)
      /\ \A i \in 1..Len(s) : both[i] = s[i]
  BY <1>1
<1>3. DOMAIN s = 1..Len(s) /\ DOMAIN both = 1..Len(both) /\ Len(s) \in Nat /\ Len(t) \in Nat
  BY <1>1, <1>2
<1> HIDE DEF both
<1>4. both \in Seq({both[i] : i \in DOMAIN both})
  <2>1. \A i \in 1..Len(both) : both[i] \in {both[j] : j \in DOMAIN both}
    BY <1>3
  <2> QED BY <1>2, <2>1
<1>5. \A x : In(x, s) => In(x, both)
  BY <1>2, <1>3 DEF In
<1> QED BY <1>4, <1>5 DEF IsSeq, both

----------------------------------------------------------------------------
Killed == <<"killed", NL>>
InTrailer == {"trailer", "close", "await", "returned"}

\* Where the main goroutine may be, in each form.
Places ==
    /\ mode \in {"go test", "prebuilt", "gotestmain"}
    /\ mode = "prebuilt" => main \in {"start", "wait"} \cup InTrailer
    /\ main \in {"wait", "trailer", "close"} => mode = "prebuilt"
    /\ signaled => mode = "prebuilt" /\ main # "start"

\* The copying goroutine is over before the trailer is written, and Run reads
\* the end of the events only after it.
Phases ==
    /\ child \in {"exited", "reaped"} => exit \in {"ok", "status", "signal"}
    /\ run \in {"reading", "stopped", "done"}
    /\ mode = "prebuilt" /\ main \in InTrailer => ~copying
    /\ mode = "prebuilt" /\ run = "done" => events = <<>> /\ main \in {"await", "returned"}
    /\ mode = "prebuilt" /\ main = "returned" /\ run # "stopped" => run = "done"

\* The line is read, or in the pipe, or still in the trailer.
OnItsWay == In(Killed, seen) \/ In(Killed, events) \/ (main = "trailer" /\ In(Killed, todo))

KilledInv ==
    /\ IsSeq(todo) /\ IsSeq(events) /\ IsSeq(seen)
    /\ Places /\ Phases
    /\ signaled /\ main \in InTrailer => err # "nil" /\ (run # "stopped" => OnItsWay)

LEMMA KilledInit == Init => KilledInv
<1> SUFFICES ASSUME Init PROVE KilledInv
  OBVIOUS
<1>1. mode \in {"go test", "prebuilt", "gotestmain"}
  BY PipelineAssumption DEF Init
<1>2. IsSeq(todo) /\ IsSeq(events) /\ IsSeq(seen)
  BY NoneSeq DEF Init
<1>3. /\ main = "start" /\ ~signaled /\ child = "none" /\ run = "reading"
  BY DEF Init
<1> QED BY <1>1, <1>2, <1>3 DEF KilledInv, Places, Phases, InTrailer

LEMMA KilledImplies == KilledInv => KillsAreReported
BY NoneSeq DEF KilledInv, Places, Phases, InTrailer, OnItsWay, In, Killed, KillsAreReported, Returned, Succeeds

LEMMA TrailerTells ==
    ASSUME NEW e
    PROVE  IsSeq(Trailer(e)) /\ (signaled /\ e # "nil" => In(Killed, Trailer(e)))
<1>1. IsSeq(Newline)
  <2>1. IsSeq(<< <<NL>> >>) /\ IsSeq(<<>>)
    BY NoneSeq, OneSeq
  <2> QED BY <2>1 DEF Newline
<1>2. IsSeq(Why(e)) /\ (signaled => In(Killed, Why(e)))
  <2>1. IsSeq(<< Killed >>) /\ IsSeq(<< <<"incomplete", NL>> >>) /\ IsSeq(<<>>)
    BY NoneSeq, OneSeq
  <2>2. In(Killed, << Killed >>)
    BY OneSeq
  <2>3. Why(e) = IF signaled THEN << Killed >>
                 ELSE IF e = "waitdelay" THEN << <<"incomplete", NL>> >> ELSE <<>>
    BY DEF Why, Killed
  <2> QED BY <2>1, <2>2, <2>3
<1>3. CASE e = "nil"
  BY <1>1, <1>3, AppendSeq DEF Trailer
<1>4. CASE e # "nil"
  <2> DEFINE middle == IF e # "status" \/ out.n = 0 THEN << <<"error", NL>> >> ELSE Newline
             last == << <<"FAIL", NL>> >>
  <2>1. IsSeq(middle) /\ IsSeq(last)
    BY <1>1, OneSeq
  <2>2. Trailer(e) = Why(e) \o middle \o last
    BY <1>4 DEF Trailer
  <2> HIDE DEF middle, last
  <2>3. IsSeq(Why(e) \o middle) /\ (signaled => In(Killed, Why(e) \o middle))
    BY <1>2, <2>1, ConcatSeq
  <2> QED BY <2>1, <2>2, <2>3, ConcatSeq
<1> QED BY <1>3, <1>4

\* The tests and the converter: a write of theirs comes after what is there.
LEMMA TestsKeep == ASSUME KilledInv, TestsNext \/ Release PROVE KilledInv'
<1> USE DEF KilledInv, Places, Phases, InTrailer, OnItsWay
<1>1. CASE TestsPrint
  BY <1>1 DEF TestsPrint, config
<1>2. CASE TestsWrite
  <2>1. CASE mode = "go test"
    BY <1>2, <2>1, AppendSeq DEF TestsWrite, config
  <2>2. CASE mode # "go test"
    BY <1>2, <2>2 DEF TestsWrite, config
  <2> QED BY <2>1, <2>2
<1>3. CASE TestsEnd
  BY <1>3 DEF TestsEnd, config
<1>4. CASE Release
  BY <1>4 DEF Release, config
<1> QED BY <1>1, <1>2, <1>3, <1>4 DEF TestsNext

LEMMA ConverterKeeps == ASSUME KilledInv, ConverterNext PROVE KilledInv'
<1> USE DEF KilledInv, Places, Phases, InTrailer, OnItsWay
<1>1. CASE Copy
  BY <1>1, AppendSeq DEF Copy, TakeWrite, config, tests
<1>2. CASE CopyEnds
  BY <1>2 DEF CopyEnds, config, tests
<1> QED BY <1>1, <1>2 DEF ConverterNext

\* Run takes the first event: the line, if it is that one, is read.
LEMMA RunKeeps == ASSUME KilledInv, RunNext PROVE KilledInv'
<1> USE DEF KilledInv, Places, Phases, InTrailer, OnItsWay
<1>1. CASE ReadEvent
  <2>1. /\ IsSeq(events') /\ IsSeq(seen')
        /\ In(Killed, seen) \/ In(Killed, events) => In(Killed, seen') \/ In(Killed, events')
    BY <1>1, AppendSeq, TailSeq DEF ReadEvent
  <2> QED BY <1>1, <2>1 DEF ReadEvent, config, tests
<1>2. CASE StdoutFails
  <2>1. IsSeq(events')
    BY <1>2, TailSeq DEF StdoutFails
  <2> QED BY <1>2, <2>1 DEF StdoutFails, config, tests
<1>3. CASE ReadEOF
  BY <1>3 DEF ReadEOF, EndOfEvents, config, tests
<1>4. CASE Drain
  <2>1. IsSeq(events')
    BY <1>4, TailSeq DEF Drain
  <2> QED BY <1>4, <2>1 DEF Drain, config, tests
<1> QED BY <1>1, <1>2, <1>3, <1>4 DEF RunNext

LEMMA ExecKeeps == ASSUME KilledInv, ExecNext PROVE KilledInv'
<1> USE DEF KilledInv, Places, Phases, InTrailer, OnItsWay
<1>1. CASE KillTimer
  BY <1>1 DEF KillTimer, config, tests
<1>2. CASE HardKill
  BY <1>2 DEF HardKill, config
<1>3. CASE Reap
  BY <1>3 DEF Reap, config
<1>4. CASE WaitDelay
  BY <1>4 DEF WaitDelay, config, tests
<1> QED BY <1>1, <1>2, <1>3, <1>4 DEF ExecNext

\* The trailer of a binary that was signaled begins with the line; each write of
\* it goes into the pipe, which is empty when the events are closed.
LEMMA MainKeeps == ASSUME KilledInv, MainNext PROVE KilledInv'
<1> USE DEF KilledInv, Places, Phases, InTrailer, OnItsWay
<1>1. CASE Start
  BY <1>1 DEF Start, config
<1>2. CASE StartFails
  <2>1. IsSeq(todo')
    BY <1>2, TrailerTells DEF StartFails
  <2> QED BY <1>2, <2>1 DEF StartFails, config, tests
<1>3. CASE WaitReturns
  <2>1. signaled => RunError # "nil"
    BY <1>3 DEF WaitReturns, RunError
  <2>2. IsSeq(todo') /\ (signaled => In(Killed, todo'))
    BY <1>3, <2>1, TrailerTells DEF WaitReturns
  <2> QED BY <1>3, <2>1, <2>2 DEF WaitReturns, config, tests
<1>4. CASE WriteTrailer
  <2>1. /\ IsSeq(todo') /\ IsSeq(events')
        /\ In(Killed, todo) => In(Killed, todo') \/ In(Killed, events')
    BY <1>4, TailSeq, OneSeq DEF WriteTrailer, NextOfTrailer
  <2>2. ~In(Killed, events)
    BY <1>4, NoneSeq DEF WriteTrailer, NextOfTrailer
  <2> QED BY <1>4, <2>1, <2>2 DEF WriteTrailer, NextOfTrailer, config, tests
<1>5. CASE CloseConverter
  <2>1. IsSeq(events') /\ ~In(Killed, events) /\ ~In(Killed, todo)
    BY <1>5, OneSeq, NoneSeq DEF CloseConverter
  <2> QED BY <1>5, <2>1 DEF CloseConverter, config, tests
<1>6. CASE CloseEvents
  BY <1>6 DEF CloseEvents, config, tests
<1>7. CASE TestsReturn
  BY <1>7 DEF TestsReturn, config, tests
<1>8. CASE AwaitRun
  BY <1>8 DEF AwaitRun, RunOver, config, tests
<1>9. CASE AwaitProcess
  BY <1>9 DEF AwaitProcess, config, tests
<1> QED BY <1>1, <1>2, <1>3, <1>4, <1>5, <1>6, <1>7, <1>8, <1>9 DEF MainNext

LEMMA KilledStep == KilledInv /\ [Next]_vars => KilledInv'
<1> SUFFICES ASSUME KilledInv, [Next]_vars PROVE KilledInv'
  OBVIOUS
<1>1. CASE UNCHANGED vars
  BY <1>1 DEF vars, config, tests, KilledInv, Places, Phases, InTrailer, OnItsWay
<1> QED BY <1>1, TestsKeep, ConverterKeeps, RunKeeps, ExecKeeps, MainKeeps DEF Next

\* A binary that the kill timer signaled counts as failed, and what Run has read
\* says why, unless Run stopped, however its exit, the timers, the copying and
\* Run interleave (prebuilt.go:165-240).
THEOREM KillsReported == Spec => []KillsAreReported
BY KilledInit, KilledStep, KilledImplies, PTL DEF Spec

----------------------------------------------------------------------------
(* The stream: what the tests write, the converter passes on and Run reads, *)
(* followed by what runPrebuilt writes after it.                            *)

Own == {NL, coveragePrefix, "ok", "[no tests to run]", "FAIL", "killed", "incomplete", "error"}
Lump == Own \cup UNION {{t[i] : i \in DOMAIN t} : t \in Texts}
Write == Seq(Lump) \ {<<>>}
Event == Write \cup Results

LEMMA Lumps ==
    /\ NL \in Lump /\ "ok" \in Lump /\ "FAIL" \in Lump /\ "killed" \in Lump
    /\ "incomplete" \in Lump /\ "error" \in Lump /\ coveragePrefix \in Lump
    /\ "[no tests to run]" \in Lump
    /\ "ok" # NL /\ "FAIL" # NL /\ coveragePrefix # NL /\ "[no tests to run]" # NL
    /\ \A v \in {"pass", "fail", "skip"} : v \notin Lump
<1>1. ASSUME NEW t \in Texts
      PROVE  t \in Seq(Lump) /\ \A i \in DOMAIN t : t[i] \notin {"pass", "fail", "skip"}
  <2>1. t \in Seq({t[i] : i \in DOMAIN t} \ {"pass", "fail", "skip"})
    BY TextsAssumption
  <2>2. {t[i] : i \in DOMAIN t} \ {"pass", "fail", "skip"} \subseteq Lump
    BY DEF Lump
  <2>3. t \in Seq(Lump)
    BY <2>1, <2>2, SeqMonotonic
  <2> QED BY <2>1, <2>3, ElementOfSeq, LenProperties
<1> QED BY <1>1 DEF Lump, Own, NL, coveragePrefix

LEMMA TextsAreOfLumps == Texts \subseteq Seq(Lump)
<1>1. ASSUME NEW t \in Texts PROVE t \in Seq(Lump)
  <2>1. t \in Seq({t[i] : i \in DOMAIN t} \ {"pass", "fail", "skip"})
    BY TextsAssumption
  <2>2. {t[i] : i \in DOMAIN t} \ {"pass", "fail", "skip"} \subseteq Lump
    BY DEF Lump
  <2> QED BY <2>1, <2>2, SeqMonotonic
<1> QED BY <1>1

\* A write is output, and no result of a package.
LEMMA WriteIsNoResult ==
    /\ Write \subseteq Seq(Lump) /\ Write \subseteq Event /\ Results \subseteq Event
    /\ \A w \in Write : w \notin Results
<1>1. Write \subseteq Seq(Lump) /\ Write \subseteq Event /\ Results \subseteq Event
  BY DEF Write, Event
<1>2. ASSUME NEW w \in Write, w \in Results PROVE FALSE
  <2>1. w \in Seq(Lump) /\ Len(w) = 1 /\ w[1] \in {"pass", "fail", "skip"}
    BY <1>2 DEF Write, Results
  <2>2. w[1] \in Lump
    BY <2>1, ElementOfSeq
  <2> QED BY <2>1, <2>2, Lumps
<1> QED BY <1>1, <1>2

LEMMA WritesAreTexts ==
    ASSUME NEW s \in Seq(Write)
    PROVE  s \in Seq(Seq(Lump)) /\ s \in Seq(Event) /\ FlattenSeq(s) \in Seq(Lump)
<1>1. s \in Seq(Seq(Lump)) /\ s \in Seq(Event)
  BY WriteIsNoResult, SeqMonotonic
<1> QED BY <1>1, FlattenedType

\* What the writes make up ends as the last one does.
LEMMA FlattenEnds ==
    ASSUME NEW s \in Seq(Write)
    PROVE  /\ s = <<>> <=> FlattenSeq(s) = <<>>
           /\ s # <<>> => Last(FlattenSeq(s)) = Last(s[Len(s)])
<1>1. CASE s = <<>>
  BY <1>1, FlattenEmpty
<1>2. CASE s # <<>>
  <2>1. PICK t \in Seq(Write), e \in Write : s = Append(t, e)
    BY <1>2, SequenceEmptyOrAppend
  <2>2. t \in Seq(Seq(Lump)) /\ FlattenSeq(t) \in Seq(Lump) /\ e \in Seq(Lump) /\ e # <<>>
    BY WritesAreTexts DEF Write
  <2>3. FlattenSeq(s) = FlattenSeq(t) \o e
    BY <2>1, <2>2, FlattenAppend
  <2>4. s[Len(s)] = e
    BY <2>1, AppendProperties
  <2>5. \A a \in Seq(Lump) : a \o e # <<>> /\ Last(a \o e) = Last(e)
    <3> TAKE a \in Seq(Lump)
    <3>1. /\ a \o e \in Seq(Lump) /\ Len(a \o e) = Len(a) + Len(e)
          /\ \A i \in 1..(Len(a) + Len(e)) : (a \o e)[i] = IF i <= Len(a) THEN a[i] ELSE e[i - Len(a)]
      BY <2>2, ConcatProperties
    <3>2. Len(a) \in Nat /\ Len(e) \in Nat /\ Len(e) > 0
      BY <2>2, EmptySeq
    <3>3. /\ Len(a) + Len(e) \in 1..(Len(a) + Len(e)) /\ ~(Len(a) + Len(e) <= Len(a))
          /\ Len(a) + Len(e) - Len(a) = Len(e) /\ Len(a) + Len(e) # 0
      BY <3>2
    <3> QED BY <3>1, <3>2, <3>3, EmptySeq DEF Last
  <2> QED BY <1>2, <2>2, <2>3, <2>4, <2>5
<1> QED BY <1>1, <1>2

----------------------------------------------------------------------------
(* The trailer.                                                            *)

\* The last write, if any, ends a line.
AtLineStart(s) == s # <<>> => Last(s[Len(s)]) = NL

\* A line of its own: a newline at the end and nowhere else.
OneLine(line) == \A i \in DOMAIN line : line[i] = NL <=> i = Len(line)

LEMMA EndsTheLine ==
    ASSUME NEW s \in Seq(Write), NEW e \in Write, Last(e) = NL
    PROVE  s \o <<e>> \in Seq(Write) /\ AtLineStart(s \o <<e>>)
<1>1. s \o <<e>> = Append(s, e)
  BY AppendIsConcat
<1>2. /\ Append(s, e) \in Seq(Write) /\ Len(Append(s, e)) = Len(s) + 1
      /\ Append(s, e)[Len(s) + 1] = e
  BY AppendProperties
<1> QED BY <1>1, <1>2 DEF AtLineStart

LEMMA TextOf ==
    ASSUME NEW c \in Lump, c # NL
    PROVE  /\ <<c, NL>> \in Write /\ Last(<<c, NL>>) = NL /\ OneLine(<<c, NL>>)
           /\ Head(<<c, NL>>) = c
           /\ <<NL>> \in Write /\ Last(<<NL>>) = NL
<1>1. /\ <<c, NL>> \in Seq(Lump) /\ Len(<<c, NL>>) = 2 /\ <<c, NL>>[1] = c /\ <<c, NL>>[2] = NL
      /\ <<c, NL>> # <<>> /\ Last(<<c, NL>>) = NL /\ Head(<<c, NL>>) = c
  <2>1. NL \in Lump
    BY Lumps
  <2> QED BY <2>1, Pair
<1>2. <<NL>> \in Seq(Lump) /\ <<NL>> # <<>> /\ Last(<<NL>>) = NL
  BY Lumps, Single
<1>3. OneLine(<<c, NL>>)
  BY <1>1 DEF OneLine
<1> QED BY <1>1, <1>2, <1>3 DEF Write

\* No newline in the text.
Plain(text) == text \in Seq(Lump) /\ \A i \in 1..Len(text) : text[i] # NL

LEMMA PlainConcat ==
    ASSUME NEW s, Plain(s), NEW t, Plain(t)
    PROVE  Plain(s \o t)
<1>1. /\ s \o t \in Seq(Lump) /\ Len(s \o t) = Len(s) + Len(t)
      /\ \A i \in 1..(Len(s) + Len(t)) : (s \o t)[i] = IF i <= Len(s) THEN s[i] ELSE t[i - Len(s)]
  BY ConcatProperties DEF Plain
<1>2. Len(s) \in Nat /\ Len(t) \in Nat
  BY DEF Plain
<1>3. ASSUME NEW i \in 1..Len(s \o t) PROVE (s \o t)[i] # NL
  <2>1. i <= Len(s) => i \in 1..Len(s)
    BY <1>1, <1>2
  <2>2. ~(i <= Len(s)) => i - Len(s) \in 1..Len(t)
    BY <1>1, <1>2
  <2> QED BY <1>1, <2>1, <2>2 DEF Plain
<1> QED BY <1>1, <1>3 DEF Plain

LEMMA LineOf ==
    ASSUME NEW s, Plain(s), s # <<>>
    PROVE  LET line == s \o <<NL>>
           IN  line \in Write /\ OneLine(line) /\ Head(line) = Head(s)
<1> DEFINE line == s \o <<NL>>
<1>1. s \in Seq(Lump) /\ Len(s) \in Nat /\ Len(s) > 0 /\ \A i \in 1..Len(s) : s[i] # NL
  BY EmptySeq DEF Plain
<1>2. /\ line \in Seq(Lump) /\ Len(line) = Len(s) + 1 /\ line # <<>>
      /\ \A i \in 1..Len(s) : line[i] = s[i]
      /\ line[Len(s) + 1] = NL
  <2>1. NL \in Lump
    BY Lumps
  <2>2. line = Append(s, NL)
    BY <1>1, <2>1, AppendIsConcat
  <2> HIDE DEF line
  <2> QED BY <1>1, <2>1, <2>2, AppendProperties
<1>3. DOMAIN line = 1..Len(line)
  BY <1>2
<1> HIDE DEF line
<1>4. ASSUME NEW i \in 1..Len(line) PROVE line[i] = NL <=> i = Len(line)
  BY <1>1, <1>2
<1>5. line[1] = s[1]
  BY <1>1, <1>2
<1>6. Head(line) = Head(s)
  BY <1>1, <1>2, <1>5
<1> QED BY <1>2, <1>3, <1>4, <1>6 DEF Write, OneLine, line

\* The ok line is a line of its own, as the coverage is the rest of a line.
LEMMA OkLineIsALine ==
    ASSUME NEW text \in Seq(Lump), out \in Tracker(Lump), Knows(out, text)
    PROVE  OkLine \in Write /\ OneLine(OkLine) /\ Head(OkLine) = "ok"
<1> DEFINE cov == IF out.coverage # <<>> /\ BuiltWithCover
                  THEN <<coveragePrefix>> \o out.coverage ELSE <<>>
           none == IF out.noTests THEN <<"[no tests to run]">> ELSE <<>>
<1>1. Plain(<<"ok">>) /\ Plain(<<>>) /\ Plain(<<coveragePrefix>>) /\ Plain(<<"[no tests to run]">>)
  <2>1. \A c \in Lump : c # NL => Plain(<<c>>)
    BY Single DEF Plain
  <2>2. Plain(<<>>)
    BY EmptySeq DEF Plain
  <2> QED BY <2>1, <2>2, Lumps
<1>2. out.coverage # <<>> => Plain(out.coverage)
  <2> SUFFICES ASSUME out.coverage # <<>> PROVE Plain(out.coverage)
    OBVIOUS
  <2>1. PICK s \in 0..Len(text), k \in 0..Len(text), e \in 0..Len(text) :
            FirstCoverageAt(text, s, k, e) /\ out.coverage = SubSeq(text, k + 1, e - 1)
    BY DEF Knows, KnowsCoverage
  <2>2. /\ \A i \in (s + 1)..(e - 1) : text[i] # NL
        /\ k \in (s + 1)..(e - 2) /\ e \in 1..Len(text) /\ s \in 0..(e - 1)
    BY <2>1 DEF FirstCoverageAt, CoverageAt, IsLine
  <2>3. Len(text) \in Nat /\ k + 1 \in Int /\ e - 1 \in Int /\ k \in Int /\ e \in Int /\ s \in Int
    OBVIOUS
  <2>4. \A i \in (k + 1)..(e - 1) : text[i] \in Lump /\ text[i] # NL
    <3> TAKE i \in (k + 1)..(e - 1)
    <3>1. i \in 1..Len(text) /\ i \in (s + 1)..(e - 1)
      BY <2>2, <2>3
    <3> QED BY <2>2, <3>1, ElementOfSeq
  <2> DEFINE sub == SubSeq(text, k + 1, e - 1)
  <2>5. /\ sub \in Seq(Lump)
        /\ Len(sub) = IF k + 1 <= e - 1 THEN e - 1 - (k + 1) + 1 ELSE 0
        /\ \A i \in 1..(e - 1 - (k + 1) + 1) : sub[i] = text[k + 1 + i - 1]
    BY <2>3, <2>4, SubSeqProperties
  <2> HIDE DEF sub
  <2>6. ASSUME NEW i \in 1..Len(sub) PROVE sub[i] # NL
    <3>1. i \in 1..(e - 1 - (k + 1) + 1) /\ k + 1 + i - 1 \in (k + 1)..(e - 1)
      BY SMTT(40), <2>3, <2>5
    <3> QED BY <2>4, <2>5, <3>1
  <2> QED BY <2>1, <2>5, <2>6 DEF Plain, sub
<1>3. Plain(cov)
  BY <1>1, <1>2, PlainConcat
<1>4. Plain(none)
  BY <1>1
<1> HIDE DEF cov, none
<1>5. /\ Plain(<<"ok">> \o cov) /\ Plain((<<"ok">> \o cov) \o none)
  BY <1>1, <1>3, <1>4, PlainConcat
<1>6. Head((<<"ok">> \o cov) \o none) = "ok" /\ (<<"ok">> \o cov) \o none # <<>>
  <2>1. \A a, b \in Seq(Lump) : Head((<<"ok">> \o a) \o b) = "ok" /\ (<<"ok">> \o a) \o b # <<>>
    <3> TAKE a, b \in Seq(Lump)
    <3>0. "ok" \in Lump
      BY Lumps
    <3>1. /\ <<"ok">> \in Seq(Lump) /\ Len(<<"ok">>) = 1 /\ <<"ok">>[1] = "ok"
          /\ Len(a) \in Nat /\ Len(b) \in Nat
      BY <3>0, Single
    <3>2. /\ <<"ok">> \o a \in Seq(Lump) /\ Len(<<"ok">> \o a) = 1 + Len(a)
          /\ (<<"ok">> \o a)[1] = "ok"
      BY <3>1, ConcatProperties
    <3> DEFINE c == <<"ok">> \o a
    <3> HIDE DEF c
    <3>3. /\ c \in Seq(Lump) /\ Len(c) = 1 + Len(a) /\ c[1] = "ok"
      BY <3>2 DEF c
    <3>4. /\ c \o b \in Seq(Lump) /\ Len(c \o b) = Len(c) + Len(b) /\ (c \o b)[1] = c[1]
      BY <3>1, <3>3, ConcatProperties
    <3> QED BY <3>1, <3>3, <3>4, EmptySeq DEF c
  <2> QED BY <1>3, <1>4, <2>1 DEF Plain
<1>7. OkLine = ((<<"ok">> \o cov) \o none) \o <<NL>>
  BY DEF OkLine, cov, none
<1> QED BY <1>5, <1>6, <1>7, LineOf

EndsInReport(s, e) ==
    /\ Len(s) > 1
    /\ LET report == s[Len(s) - 1]
       IN  Head(report) = (IF e = "nil" THEN "ok" ELSE "FAIL") /\ OneLine(report)
    /\ Len(s) > 2 => Last(s[Len(s) - 2]) = NL

\* What the package's result may be, whatever the converter made of the output.
Verdicts(e) == IF e = "nil" THEN {<<"pass">>, <<"skip">>} ELSE {<<"fail">>}

EndsInResult(s, e) ==
    /\ \A i \in DOMAIN s : s[i] \in Results <=> i = Len(s)
    /\ s # <<>> /\ Last(s) \in Verdicts(e)

LEMMA VerdictsAreResults ==
    /\ \A e : Verdicts(e) \subseteq Results /\ Verdicts(e) \subseteq Event /\ \E r : r \in Verdicts(e)
    /\ <<PackageResult>> \in Verdicts(err)
<1>1. ASSUME NEW e PROVE Verdicts(e) \subseteq Results /\ \E r : r \in Verdicts(e)
  BY DEF Verdicts, Results
<1>2. <<PackageResult>> \in Verdicts(err)
  BY DEF Verdicts, PackageResult
<1> QED BY <1>1, <1>2, WriteIsNoResult

\* A binary's output, the report at the start of a line, and the result.
LEMMA ReportThenResult ==
    ASSUME NEW u \in Seq(Write), AtLineStart(u), NEW report \in Write, OneLine(report), NEW e,
           Head(report) = (IF e = "nil" THEN "ok" ELSE "FAIL"), NEW result \in Verdicts(e)
    PROVE  LET s == Append(Append(u, report), result)
           IN  /\ s \in Seq(Event) /\ EndsInReport(s, e) /\ EndsInResult(s, e)
               /\ s[Len(s) - 1] = report /\ Len(s) - 1 \in DOMAIN s
<1> DEFINE v == Append(u, report)
           s == Append(v, result)
<1>1. /\ v \in Seq(Write) /\ Len(v) = Len(u) + 1 /\ v[Len(u) + 1] = report
      /\ \A i \in 1..Len(u) : v[i] = u[i]
      /\ Len(u) \in Nat
  BY AppendProperties
<1>2. result \in Results /\ result \in Event
  BY VerdictsAreResults
<1> HIDE DEF v
<1>3. v \in Seq(Event)
  BY <1>1, WritesAreTexts
<1>4. /\ s \in Seq(Event) /\ Len(s) = Len(u) + 2 /\ s[Len(u) + 2] = result
      /\ \A i \in 1..Len(v) : s[i] = v[i]
      /\ s # <<>>
  BY <1>1, <1>2, <1>3, AppendProperties
<1>5. DOMAIN s = 1..Len(s)
  BY <1>4
<1> HIDE DEF s
<1>6. s[Len(s) - 1] = report /\ Len(s) - 1 \in DOMAIN s
  <2>1. Len(s) - 1 = Len(u) + 1 /\ Len(u) + 1 \in 1..Len(v) /\ Len(s) - 1 \in 1..Len(s)
    BY <1>1, <1>4
  <2> QED BY <1>1, <1>4, <1>5, <2>1
<1>7. Len(s) > 2 => Last(s[Len(s) - 2]) = NL
  <2> SUFFICES ASSUME Len(s) > 2 PROVE Last(s[Len(s) - 2]) = NL
    OBVIOUS
  <2>1. Len(s) - 2 = Len(u) /\ Len(u) \in 1..Len(v) /\ Len(u) \in 1..Len(u)
    BY <1>1, <1>4
  <2>2. s[Len(u)] = u[Len(u)]
    BY <1>1, <1>4, <2>1
  <2>3. u # <<>>
    BY <2>1, EmptySeq
  <2> QED BY <2>1, <2>2, <2>3 DEF AtLineStart
<1>8. EndsInReport(s, e)
  BY <1>1, <1>4, <1>6, <1>7 DEF EndsInReport
<1>9. ASSUME NEW i \in 1..Len(s) PROVE s[i] \in Results <=> i = Len(s)
  <2>1. CASE i = Len(s)
    BY <1>2, <1>4, <2>1
  <2>2. CASE i # Len(s)
    <3>1. i \in 1..Len(v)
      BY <1>1, <1>4, <2>2
    <3>2. s[i] = v[i] /\ v[i] \in Write
      BY <1>1, <1>4, <3>1, ElementOfSeq
    <3> QED BY <2>2, <3>2, WriteIsNoResult
  <2> QED BY <2>1, <2>2
<1>10. Last(s) = result
  BY <1>4 DEF Last
<1>11. EndsInResult(s, e)
  BY <1>4, <1>5, <1>9, <1>10 DEF EndsInResult
<1> QED BY <1>4, <1>6, <1>8, <1>11 DEF s, v

\* Everything the trailer of cmd.Run's error e has before its last line, the report.
BeforeReport(e) ==
    IF e = "nil" THEN Newline
    ELSE Why(e) \o (IF e # "status" \/ out.n = 0 THEN << <<"error", NL>> >> ELSE Newline)
Report(e) == IF e = "nil" THEN OkLine ELSE <<"FAIL", NL>>

\* After the output w and the front of the trailer the report begins a line:
\* out.last is the end of w.
LEMMA FrontEndsTheLine ==
    ASSUME NEW w \in Seq(Write), out \in Tracker(Lump), Knows(out, FlattenSeq(w)), NEW e
    PROVE  BeforeReport(e) \in Seq(Write) /\ w \o BeforeReport(e) \in Seq(Write) /\ AtLineStart(w \o BeforeReport(e))
<1>1. FlattenSeq(w) \in Seq(Lump)
  BY WritesAreTexts
<1>2. /\ <<"killed", NL>> \in Write /\ Last(<<"killed", NL>>) = NL
      /\ <<"incomplete", NL>> \in Write /\ Last(<<"incomplete", NL>>) = NL
      /\ <<"error", NL>> \in Write /\ Last(<<"error", NL>>) = NL
      /\ <<NL>> \in Write /\ Last(<<NL>>) = NL
  <2>1. "killed" # NL /\ "incomplete" # NL /\ "error" # NL
    BY DEF NL
  <2>2. \A c \in Lump : c # NL => /\ <<c, NL>> \in Write /\ Last(<<c, NL>>) = NL
                                  /\ <<NL>> \in Write /\ Last(<<NL>>) = NL
    BY TextOf
  <2> QED BY <2>1, <2>2, Lumps
<1>3. Newline \in {<<>>, << <<NL>> >>} /\ (Newline = <<>> => out.n = 0 \/ out.last = NL)
  <2>1. out.n \in Nat
    BY DEF Tracker
  <2> QED BY <2>1 DEF Newline
<1>4. out.n = 0 \/ out.last = NL => AtLineStart(w)
  <2> SUFFICES ASSUME out.n = 0 \/ out.last = NL, w # <<>> PROVE Last(w[Len(w)]) = NL
    BY DEF AtLineStart
  <2>1. FlattenSeq(w) # <<>> /\ Last(FlattenSeq(w)) = Last(w[Len(w)])
    BY FlattenEnds
  <2>2. out.n # 0
    BY <1>1, <2>1, EmptySeq DEF Knows
  <2> QED BY <2>1, <2>2 DEF Knows
<1>5. <<>> \in Seq(Write) /\ \A s \in Seq(Write) : s \o <<>> = s
  BY EmptySeq, ConcatEmptySeq
<1>6. \A s \in Seq(Write), c \in Write : Last(c) = NL =>
         <<c>> \in Seq(Write) /\ s \o <<c>> \in Seq(Write) /\ AtLineStart(s \o <<c>>)
  BY EndsTheLine, Single
\* A part of the front is empty or ends a line.
<1> DEFINE Part(p) == p = <<>> \/ \E c \in Write : p = <<c>> /\ Last(c) = NL
<1>7. \A p : \A s \in Seq(Write) : Part(p) =>
         /\ p \in Seq(Write) /\ s \o p \in Seq(Write)
         /\ AtLineStart(s) \/ p # <<>> => AtLineStart(s \o p)
  <2> TAKE p
  <2> TAKE s \in Seq(Write)
  <2>1. CASE p = <<>>
    BY <1>5, <2>1
  <2>2. ASSUME NEW c \in Write, p = <<c>>, Last(c) = NL
        PROVE  p \in Seq(Write) /\ s \o p \in Seq(Write) /\ AtLineStart(s \o p)
    BY <1>6, <2>2
  <2> QED BY <2>1, <2>2
<1>8. Part(Newline) /\ Part(<< <<"error", NL>> >>)
  BY <1>2, <1>3
<1>9. Part(Why(e))
  BY <1>2 DEF Why
<1> HIDE DEF Part
<1>10. CASE e = "nil"
  <2>1. AtLineStart(w) \/ Newline # <<>>
    BY <1>3, <1>4
  <2> QED BY <1>7, <1>8, <1>10, <2>1 DEF BeforeReport
<1>11. CASE e # "nil"
  <2> DEFINE middle == IF e # "status" \/ out.n = 0 THEN << <<"error", NL>> >> ELSE Newline
  <2>1. Part(middle) /\ (middle = <<>> => AtLineStart(w))
    BY <1>3, <1>4, <1>8
  <2>2. BeforeReport(e) = Why(e) \o middle
    BY <1>11 DEF BeforeReport
  <2> HIDE DEF middle
  <2>3. /\ Why(e) \in Seq(Write) /\ middle \in Seq(Write)
        /\ w \o Why(e) \in Seq(Write)
        /\ AtLineStart(w) => AtLineStart(w \o Why(e))
    BY <1>7, <1>9, <2>1
  <2>4. (w \o Why(e)) \o middle \in Seq(Write) /\ AtLineStart((w \o Why(e)) \o middle)
    BY <1>7, <2>1, <2>3
  <2>5. (w \o Why(e)) \o middle = w \o (Why(e) \o middle)
    BY <2>3, ConcatAssociative
  <2>6. Why(e) \o middle \in Seq(Write)
    BY <2>3, ConcatProperties
  <2> QED BY <2>2, <2>4, <2>5, <2>6
<1> QED BY <1>10, <1>11

\* The ok line says what go test would find in the output.
LEMMA OkLineSays ==
    ASSUME NEW text \in Seq(Lump), out \in Tracker(Lump), Knows(out, text)
    PROVE  IsOkLineOf(text, OkLine)
<1> DEFINE warning == \E s, e \in 0..Len(text) : WarnsAt(text, s, e)
           covered == \E s, k, e \in 0..Len(text) : CoverageAt(text, s, k, e)
           Line(coverage) ==
               <<"ok">> \o coverage \o (IF warning THEN <<"[no tests to run]">> ELSE <<>>) \o <<NL>>
<1>1. out.noTests <=> warning
  <2>1. NL \in Lump
    BY Lumps
  <2> QED BY <2>1, WarningIsALine DEF Knows, KnowsWarning
<1>2. out.coverage # <<>> =>
        \E s, k, e \in 0..Len(text) : /\ FirstCoverageAt(text, s, k, e)
                                      /\ out.coverage = SubSeq(text, k + 1, e - 1)
  BY DEF Knows, KnowsCoverage
<1>3. out.coverage # <<>> <=> covered
  BY <1>2 DEF Knows, KnowsCoverage, FirstCoverageAt
<1> HIDE DEF warning, covered
<1>4. OkLine = Line(IF out.coverage # <<>> /\ BuiltWithCover
                    THEN <<coveragePrefix>> \o out.coverage ELSE <<>>)
  BY <1>1 DEF OkLine
<1>5. CASE BuiltWithCover /\ covered
  <2>1. PICK s \in 0..Len(text), k \in 0..Len(text), e \in 0..Len(text) :
           FirstCoverageAt(text, s, k, e) /\ out.coverage = SubSeq(text, k + 1, e - 1)
    BY <1>2, <1>3, <1>5
  <2>2. OkLine = Line(<<coveragePrefix>> \o SubSeq(text, k + 1, e - 1))
    BY <1>3, <1>4, <1>5, <2>1
  <2> QED BY <1>5, <2>1, <2>2 DEF IsOkLineOf, warning, covered
<1>6. CASE ~(BuiltWithCover /\ covered)
  <2>1. OkLine = Line(<<>>)
    BY <1>3, <1>4, <1>6
  <2> QED BY <1>6, <2>1 DEF IsOkLineOf, warning, covered
<1> QED BY <1>5, <1>6

\* The trailer, and the result after it, where the tests' output is w.
LEMMA TrailerEnds ==
    ASSUME NEW w \in Seq(Write), out \in Tracker(Lump), Knows(out, FlattenSeq(w)), NEW e,
           NEW result \in Verdicts(e)
    PROVE  LET rest == Append(Trailer(e), result)
               s == w \o rest
           IN  /\ Trailer(e) \in Seq(Write) /\ rest \in Seq(Event) /\ s \in Seq(Event)
               /\ EndsInReport(s, e) /\ EndsInResult(s, e)
               /\ e = "nil" => \E i \in DOMAIN s : IsOkLineOf(FlattenSeq(w), s[i])
<1> DEFINE rest == Append(Trailer(e), result)
           u == w \o BeforeReport(e)
<1>1. /\ BeforeReport(e) \in Seq(Write) /\ u \in Seq(Write) /\ AtLineStart(u)
  BY FrontEndsTheLine
<1>2. FlattenSeq(w) \in Seq(Lump)
  BY WritesAreTexts
<1>3. /\ Report(e) \in Write /\ OneLine(Report(e))
      /\ Head(Report(e)) = (IF e = "nil" THEN "ok" ELSE "FAIL")
  <2>1. "FAIL" \in Lump /\ "FAIL" # NL
    BY Lumps
  <2> QED BY <1>2, <2>1, OkLineIsALine, TextOf DEF Report
<1>4. Trailer(e) = Append(BeforeReport(e), Report(e)) /\ Trailer(e) \in Seq(Write)
  <2>1. CASE e = "nil"
    BY <1>1, <1>3, <2>1, AppendProperties DEF Trailer, BeforeReport, Report
  <2>2. CASE e # "nil"
    <3>1. Trailer(e) = BeforeReport(e) \o <<Report(e)>>
      BY <2>2 DEF Trailer, BeforeReport, Report
    <3> QED BY <1>1, <1>3, <3>1, AppendIsConcat, AppendProperties
  <2> QED BY <2>1, <2>2
<1>5. result \in Event
  BY VerdictsAreResults
<1>6. /\ Trailer(e) \in Seq(Event) /\ w \in Seq(Event) /\ Report(e) \in Event
      /\ BeforeReport(e) \in Seq(Event)
  BY <1>1, <1>3, <1>4, WritesAreTexts, WriteIsNoResult
<1>7. w \o Trailer(e) = Append(u, Report(e))
  BY <1>4, <1>6, ComesLast
<1>8. rest \in Seq(Event) /\ w \o rest = Append(Append(u, Report(e)), result)
  BY <1>5, <1>6, <1>7, ComesLast
<1>9. LET s == Append(Append(u, Report(e)), result)
      IN  /\ s \in Seq(Event) /\ EndsInReport(s, e) /\ EndsInResult(s, e)
          /\ s[Len(s) - 1] = Report(e) /\ Len(s) - 1 \in DOMAIN s
  BY <1>1, <1>3, ReportThenResult
<1>10. e = "nil" => IsOkLineOf(FlattenSeq(w), Report(e))
  BY <1>2, OkLineSays DEF Report
<1> QED BY <1>4, <1>8, <1>9, <1>10

----------------------------------------------------------------------------
StreamTypes ==
    /\ writing \in Seq(Lump) /\ said \in Seq(Write) /\ pipe \in Seq(Write)
    /\ events \in Seq(Event) /\ seen \in Seq(Event) /\ todo \in Seq(Write)
    /\ out \in Tracker(Lump) /\ \E s \in Seq(Write) : Knows(out, FlattenSeq(s))

BeforeTrailer == mode = "prebuilt" /\ main \in {"start", "wait"}
AfterOutput == mode = "prebuilt" /\ main \in InTrailer

\* Who is over when, and what that leaves in the pipe.
Order ==
    /\ deadline => mode = "prebuilt"
    /\ mode = "go test" => pipe = <<>>
    /\ main = "start" =>
         /\ child = "none" /\ pipe = <<>> /\ events = <<>> /\ seen = <<>> /\ said = <<>>
         /\ mode # "go test" => copying
    /\ main = "wait" => child # "none"
    /\ cut => mode = "prebuilt" /\ child \in {"exited", "reaped"}
    /\ mode # "go test" /\ ~copying => child # "running" /\ (cut \/ pipe = <<>>)
    /\ AfterOutput => child # "running" /\ (cut => err # "nil")
    /\ main \in {"reap", "returned"} => run # "reading"
    /\ run = "done" => /\ events = <<>>
                       /\ mode = "go test" => child \in {"exited", "reaped"}
                       /\ mode = "gotestmain" => ~copying

\* What Run has read and what is on its way, in the order of the reading.
Sent == seen \o events
\* With all that is still to come once the tests are over, if that is the result.
Stream(result) == IF main = "trailer" THEN Sent \o Append(todo, result) ELSE Sent

Tells(s) == err = "nil" => \E i \in DOMAIN s : IsOkLineOf(FlattenSeq(said), s[i])

\* The tests' writes come first, in their order, and then the trailer.
Arrives ==
    /\ BeforeTrailer => Sent \in Seq(Write) /\ Knows(out, FlattenSeq(Sent))
    /\ ~AfterOutput /\ ~cut => Sent \o pipe = said
    /\ AfterOutput =>
         \A r \in Verdicts(err) :
            /\ ~cut => \E rest \in Seq(Event) : Stream(r) = said \o rest
            /\ EndsInReport(Stream(r), err) /\ EndsInResult(Stream(r), err) /\ Tells(Stream(r))

StreamInv == KilledInv /\ StreamTypes /\ Order /\ (run # "stopped" => Arrives)

LEMMA StreamInit == Init => StreamInv
<1> SUFFICES ASSUME Init PROVE StreamInv
  OBVIOUS
<1>1. newOutputTracker \in Tracker(Lump) /\ Knows(newOutputTracker, <<>>)
  BY Lumps, NewTrackerKnows
<1>2. <<>> \in Seq(Write) /\ <<>> \in Seq(Lump) /\ <<>> \in Seq(Event) /\ <<>> \o <<>> = <<>>
  BY EmptySeq, ConcatEmptySeq
<1>3. StreamTypes
  BY <1>1, <1>2, FlattenEmpty DEF Init, StreamTypes
<1>4. Order
  BY DEF Init, Order, AfterOutput, InTrailer
<1>5. Arrives
  BY <1>1, <1>2, FlattenEmpty DEF Init, Arrives, BeforeTrailer, AfterOutput, InTrailer, Sent
<1> QED BY <1>3, <1>4, <1>5, KilledInit DEF StreamInv

\* A step of the tests, the converter, Run, the timers or the main goroutine
\* finds the others where Order says, and leaves them there.
LEMMA OrderStep == ASSUME StreamInv, [Next]_vars PROVE Order'
<1> USE DEF StreamInv, KilledInv, Places, Phases, InTrailer, Order, AfterOutput
<1>1. CASE TestsNext \/ Release
  <2>1. CASE TestsPrint
    BY <1>1, <2>1 DEF TestsPrint, config
  <2>2. CASE TestsWrite
    BY <1>1, <2>2 DEF TestsWrite, config
  <2>3. CASE TestsEnd
    BY <1>1, <2>3 DEF TestsEnd, config
  <2>4. CASE Release
    BY <1>1, <2>4 DEF Release, config
  <2> QED BY <1>1, <2>1, <2>2, <2>3, <2>4 DEF TestsNext
<1>2. CASE ConverterNext
  <2>1. CASE Copy
    BY <2>1 DEF Copy, TakeWrite, config, tests
  <2>2. CASE CopyEnds
    BY <2>2 DEF CopyEnds, EndOfOutput, config, tests
  <2> QED BY <1>2, <2>1, <2>2 DEF ConverterNext
<1>3. CASE RunNext
  <2>1. CASE ReadEvent
    BY <2>1 DEF ReadEvent, config, tests
  <2>2. CASE StdoutFails
    BY <2>2 DEF StdoutFails, config, tests
  <2>3. CASE ReadEOF
    BY <2>3 DEF ReadEOF, EndOfEvents, config, tests
  <2>4. CASE Drain
    BY <2>4 DEF Drain, config, tests
  <2> QED BY <1>3, <2>1, <2>2, <2>3, <2>4 DEF RunNext
<1>4. CASE ExecNext
  <2>1. CASE KillTimer
    BY <2>1 DEF KillTimer, config, tests
  <2>2. CASE HardKill
    BY <2>2 DEF HardKill, config
  <2>3. CASE Reap
    BY <2>3 DEF Reap, config
  <2>4. CASE WaitDelay
    BY <2>4 DEF WaitDelay, config, tests
  <2> QED BY <1>4, <2>1, <2>2, <2>3, <2>4 DEF ExecNext
<1>5. CASE MainNext
  <2>1. CASE Start
    BY <2>1 DEF Start, config
  <2>2. CASE StartFails
    BY <2>2 DEF StartFails, config, tests
  <2>3. CASE WaitReturns
    BY <2>3 DEF WaitReturns, RunError, config, tests
  <2>4. CASE WriteTrailer
    BY <2>4 DEF WriteTrailer, NextOfTrailer, config, tests
  <2>5. CASE CloseConverter
    BY <2>5 DEF CloseConverter, config, tests
  <2>6. CASE CloseEvents
    BY <2>6 DEF CloseEvents, config, tests
  <2>7. CASE TestsReturn
    BY <2>7 DEF TestsReturn, config, tests
  <2>8. CASE AwaitRun
    BY <2>8 DEF AwaitRun, RunOver, config, tests
  <2>9. CASE AwaitProcess
    BY <2>9 DEF AwaitProcess, config, tests
  <2> QED BY <1>5, <2>1, <2>2, <2>3, <2>4, <2>5, <2>6, <2>7, <2>8, <2>9 DEF MainNext
<1>6. CASE UNCHANGED vars
  BY <1>6 DEF vars, config, tests
<1> QED BY <1>1, <1>2, <1>3, <1>4, <1>5, <1>6 DEF Next

----------------------------------------------------------------------------
\* A test's write is a piece of a text.
LEMMA WritesType == ASSUME said \in Seq(Write) PROVE Writes \subseteq Seq(Lump)
<1> DEFINE n == Len(FlattenSeq(said))
<1>1. n \in Nat
  BY WritesAreTexts, LenProperties
<1> HIDE DEF n
<1>2. ASSUME NEW t \in Texts, NEW k \in (n + 1)..Len(t)
      PROVE  SubSeq(t, n + 1, k) \in Seq(Lump)
  <2>1. t \in Seq(Lump) /\ Len(t) \in Nat
    BY TextsAreOfLumps, LenProperties
  <2>2. \A i \in (n + 1)..k : t[i] \in Lump
    <3> TAKE i \in (n + 1)..k
    <3>1. i \in 1..Len(t)
      BY <1>1, <2>1
    <3> QED BY <2>1, <3>1, ElementOfSeq
  <2> QED BY <1>1, <2>1, <2>2, SubSeqProperties
<1>3. ASSUME NEW w \in Writes PROVE w \in Seq(Lump)
  <2>1. \E t \in Texts : \E k \in (n + 1)..Len(t) : w = SubSeq(t, n + 1, k)
    BY DEF Writes, n
  <2> QED BY <1>2, <2>1
<1> QED BY <1>3

\* The tracker goes on knowing what it passed through.
LEMMA PassesThrough ==
    ASSUME StreamTypes, NEW w \in Write
    PROVE  /\ Track(out, w) \in Tracker(Lump)
           /\ \E s \in Seq(Write) : Knows(Track(out, w), FlattenSeq(s))
           /\ \A s \in Seq(Write) : Knows(out, FlattenSeq(s)) =>
                 Knows(Track(out, w), FlattenSeq(Append(s, w)))
<1>1. w \in Seq(Lump) /\ w # <<>> /\ NL \in Lump
  BY Lumps DEF Write
<1>2. ASSUME NEW s \in Seq(Write), Knows(out, FlattenSeq(s))
      PROVE  /\ Track(out, w) \in Tracker(Lump) /\ Knows(Track(out, w), FlattenSeq(Append(s, w)))
             /\ Append(s, w) \in Seq(Write)
  <2>1. FlattenSeq(Append(s, w)) = FlattenSeq(s) \o w
    BY <1>1, WritesAreTexts, FlattenAppend
  <2>2. FlattenSeq(s) \in Seq(Lump) /\ out \in Tracker(Lump)
    BY WritesAreTexts DEF StreamTypes
  <2> QED BY <1>1, <1>2, <2>1, <2>2, TrackerKnows, AppendProperties
<1> QED BY <1>2 DEF StreamTypes

LEMMA TrailerType == ASSUME StreamTypes, NEW e PROVE Trailer(e) \in Seq(Write)
<1>1. PICK r : r \in Verdicts(e)
  BY VerdictsAreResults
<1> QED BY <1>1, TrailerEnds DEF StreamTypes

LEMMA TypesStep == ASSUME StreamInv, [Next]_vars PROVE StreamTypes'
<1> USE DEF StreamInv, StreamTypes
<1>1. CASE TestsNext \/ Release
  <2>1. CASE TestsPrint
    BY <2>1, WritesType DEF TestsPrint, config
  <2>2. CASE TestsWrite
    <3>1. writing \in Write /\ writing \in Event
      BY <2>2, WriteIsNoResult DEF TestsWrite, Write
    <3>2. /\ Append(said, writing) \in Seq(Write) /\ Append(pipe, writing) \in Seq(Write)
          /\ Append(events, writing) \in Seq(Event)
      BY <3>1, AppendProperties
    <3> QED BY <2>2, <3>2, EmptySeq DEF TestsWrite, config
  <2>3. CASE TestsEnd
    BY <2>3, EmptySeq DEF TestsEnd, config
  <2>4. CASE Release
    BY <2>4 DEF Release, config
  <2> QED BY <1>1, <2>1, <2>2, <2>3, <2>4 DEF TestsNext
<1>2. CASE ConverterNext
  <2>1. CASE Copy
    <3>1. Head(pipe) \in Write /\ Tail(pipe) \in Seq(Write) /\ Head(pipe) \in Event
      BY <2>1, HeadTailProperties, WriteIsNoResult DEF Copy, TakeWrite
    <3>2. Append(events, Head(pipe)) \in Seq(Event)
      BY <3>1, AppendProperties
    <3>3. /\ Track(out, Head(pipe)) \in Tracker(Lump)
          /\ \E s \in Seq(Write) : Knows(Track(out, Head(pipe)), FlattenSeq(s))
      BY <3>1, PassesThrough
    <3> QED BY <2>1, <3>1, <3>2, <3>3 DEF Copy, TakeWrite, config, tests
  <2>2. CASE CopyEnds
    BY <2>2 DEF CopyEnds, config, tests
  <2> QED BY <1>2, <2>1, <2>2 DEF ConverterNext
<1>3. CASE RunNext
  <2>1. events # <<>> => /\ Tail(events) \in Seq(Event)
                         /\ Append(seen, Head(events)) \in Seq(Event)
    BY HeadTailProperties, AppendProperties
  <2>2. CASE ReadEvent
    BY <2>1, <2>2 DEF ReadEvent, config, tests
  <2>3. CASE StdoutFails
    BY <2>1, <2>3 DEF StdoutFails, config, tests
  <2>4. CASE ReadEOF
    BY <2>4 DEF ReadEOF, config, tests
  <2>5. CASE Drain
    BY <2>1, <2>5 DEF Drain, config, tests
  <2> QED BY <1>3, <2>2, <2>3, <2>4, <2>5 DEF RunNext
<1>4. CASE ExecNext
  <2>1. CASE KillTimer
    BY <2>1 DEF KillTimer, config, tests
  <2>2. CASE HardKill
    BY <2>2, EmptySeq DEF HardKill, config
  <2>3. CASE Reap
    BY <2>3 DEF Reap, config
  <2>4. CASE WaitDelay
    BY <2>4 DEF WaitDelay, config, tests
  <2> QED BY <1>4, <2>1, <2>2, <2>3, <2>4 DEF ExecNext
<1>5. CASE MainNext
  <2>1. CASE Start
    BY <2>1 DEF Start, config
  <2>2. CASE StartFails
    BY <2>2, TrailerType DEF StartFails, config, tests
  <2>3. CASE WaitReturns
    BY <2>3, TrailerType DEF WaitReturns, config, tests
  <2>4. CASE WriteTrailer
    <3>1. Head(todo) \in Write /\ Tail(todo) \in Seq(Write) /\ Head(todo) \in Event
      BY <2>4, HeadTailProperties, WriteIsNoResult DEF WriteTrailer, NextOfTrailer
    <3>2. <<Head(todo)>> \in Seq(Event)
      BY <3>1, Single
    <3>3. /\ Track(out, Head(todo)) \in Tracker(Lump)
          /\ \E s \in Seq(Write) : Knows(Track(out, Head(todo)), FlattenSeq(s))
      BY <3>1, PassesThrough
    <3> QED BY <2>4, <3>1, <3>2, <3>3 DEF WriteTrailer, NextOfTrailer, config, tests
  <2>5. CASE CloseConverter
    <3>1. <<PackageResult>> \in Event
      BY VerdictsAreResults
    <3>2. << <<PackageResult>> >> \in Seq(Event)
      BY <3>1, Single
    <3> QED BY <2>5, <3>2 DEF CloseConverter, config, tests
  <2>6. CASE CloseEvents
    BY <2>6 DEF CloseEvents, config, tests
  <2>7. CASE TestsReturn
    BY <2>7 DEF TestsReturn, config, tests
  <2>8. CASE AwaitRun
    BY <2>8 DEF AwaitRun, config, tests
  <2>9. CASE AwaitProcess
    BY <2>9 DEF AwaitProcess, config, tests
  <2> QED BY <1>5, <2>1, <2>2, <2>3, <2>4, <2>5, <2>6, <2>7, <2>8, <2>9 DEF MainNext
<1>6. CASE UNCHANGED vars
  BY <1>6 DEF vars, config, tests
<1> QED BY <1>1, <1>2, <1>3, <1>4, <1>5, <1>6 DEF Next

----------------------------------------------------------------------------
\* The steps that leave the stream alone.
LEMMA StreamUntouched ==
    ASSUME StreamInv, run # "stopped", UNCHANGED <<mode, main, cut, said, pipe, out, events, seen, todo, err>>
    PROVE  Arrives'
BY DEF StreamInv, Arrives, BeforeTrailer, AfterOutput, Sent, Stream, Tells

\* The parts of the stream are sequences of events.
LEMMA StreamParts ==
    ASSUME StreamTypes
    PROVE  /\ pipe \in Seq(Event) /\ todo \in Seq(Event) /\ events \in Seq(Event) /\ seen \in Seq(Event)
           /\ Sent \in Seq(Event) /\ Sent \o <<>> = Sent /\ <<>> \in Seq(Event)
           /\ \A e \in Event : seen \o Append(events, e) = Append(Sent, e) /\ Append(Sent, e) \in Seq(Event)
<1>1. pipe \in Seq(Event) /\ todo \in Seq(Event) /\ events \in Seq(Event) /\ seen \in Seq(Event)
  BY WritesAreTexts DEF StreamTypes
<1>2. Sent \in Seq(Event)
  BY <1>1, ConcatProperties DEF Sent
<1>3. Sent \o <<>> = Sent /\ <<>> \in Seq(Event)
  BY <1>2, ConcatEmptySeq, EmptySeq
<1>4. ASSUME NEW e \in Event
      PROVE  seen \o Append(events, e) = Append(Sent, e) /\ Append(Sent, e) \in Seq(Event)
  BY <1>1, <1>2, ComesLast, AppendProperties DEF Sent
<1> QED BY <1>1, <1>2, <1>3, <1>4

\* A write of the tests comes last.
LEMMA WriteArrives == ASSUME StreamInv, run # "stopped", TestsWrite PROVE Arrives'
<1>1. ~AfterOutput /\ ~cut /\ ~AfterOutput'
  BY DEF StreamInv, Order, TestsWrite, config, AfterOutput, InTrailer
<1>2. writing \in Event
  BY WriteIsNoResult DEF StreamInv, StreamTypes, TestsWrite, Write
<1>3. Sent \o pipe = said
  BY <1>1 DEF StreamInv, Arrives
<1>4. /\ pipe \in Seq(Event) /\ Sent \in Seq(Event) /\ Sent \o <<>> = Sent
      /\ seen \o Append(events, writing) = Append(Sent, writing)
      /\ Append(Sent, writing) \in Seq(Event)
  BY <1>2, StreamParts DEF StreamInv
<1>5. CASE mode = "go test"
  <2>1. /\ Sent' = Append(Sent, writing) /\ said' = Append(said, writing) /\ mode' = "go test"
        /\ pipe = <<>> /\ pipe' = <<>>
    BY <1>4, <1>5 DEF StreamInv, Order, TestsWrite, Sent, config
  <2>2. said = Sent
    BY <1>3, <1>4, <2>1
  <2>3. Append(Sent, writing) \o <<>> = Append(Sent, writing)
    BY <1>4, ConcatEmptySeq
  <2>4. Sent' \o pipe' = said'
    BY <2>1, <2>2, <2>3
  <2> QED BY <1>1, <2>1, <2>4 DEF Arrives, BeforeTrailer
<1>6. CASE mode # "go test"
  <2>1. /\ Sent' = Sent /\ pipe' = Append(pipe, writing) /\ said' = Append(said, writing)
        /\ UNCHANGED <<mode, main, out>>
    BY <1>6 DEF TestsWrite, Sent, config
  <2>2. Sent \o Append(pipe, writing) = Append(Sent \o pipe, writing)
    BY <1>2, <1>4, ComesLast
  <2>3. Sent' \o pipe' = said'
    BY <1>3, <2>1, <2>2
  <2> QED BY <1>1, <2>1, <2>3 DEF StreamInv, Arrives, BeforeTrailer
<1> QED BY <1>5, <1>6

\* The converter moves a write on, and the tracker knows it.
LEMMA CopyArrives == ASSUME StreamInv, run # "stopped", Copy PROVE Arrives'
<1> DEFINE h == Head(pipe)
<1>1. ~AfterOutput /\ ~AfterOutput' /\ ~cut
  BY DEF StreamInv, KilledInv, Phases, Copy, TakeWrite, config, AfterOutput
<1>2. h \in Write /\ h \in Event
  BY HeadTailProperties, WriteIsNoResult DEF StreamInv, StreamTypes, Copy, TakeWrite
<1>3. Append(Sent, h) \o Tail(pipe) = Sent \o pipe
  <2>1. pipe \in Seq(Event) /\ Sent \in Seq(Event) /\ pipe # <<>>
    BY StreamParts DEF StreamInv, Copy, TakeWrite
  <2> QED BY <2>1, MovesOn
<1>4. Sent' = Append(Sent, h) /\ pipe' = Tail(pipe) /\ UNCHANGED <<mode, main, said>>
  BY <1>2, StreamParts DEF StreamInv, Copy, TakeWrite, Sent, config, tests
<1> HIDE DEF h
<1>5. Sent \o pipe = said
  BY <1>1 DEF StreamInv, Arrives
<1>6. ASSUME BeforeTrailer PROVE Sent' \in Seq(Write) /\ Knows(out', FlattenSeq(Sent'))
  <2>1. Sent \in Seq(Write) /\ Knows(out, FlattenSeq(Sent)) /\ StreamTypes
    BY <1>6 DEF StreamInv, Arrives
  <2>2. out' = Track(out, h)
    BY <1>6 DEF Copy, BeforeTrailer, h
  <2>3. Append(Sent, h) \in Seq(Write)
    BY <1>2, <2>1, AppendProperties
  <2>4. Knows(Track(out, h), FlattenSeq(Append(Sent, h)))
    BY <1>2, <2>1, PassesThrough
  <2> QED BY <1>4, <2>2, <2>3, <2>4
<1> QED BY <1>1, <1>3, <1>4, <1>5, <1>6 DEF Arrives, BeforeTrailer

\* Run takes the first.
LEMMA ReadArrives == ASSUME StreamInv, run # "stopped", ReadEvent PROVE Arrives'
<1>1. Sent' = Sent
  BY SMTT(40), MovesOn DEF StreamInv, StreamTypes, ReadEvent, Sent
<1> QED BY <1>1 DEF StreamInv, ReadEvent, config, tests, Arrives, BeforeTrailer, AfterOutput, Stream, Tells

\* Once the tests' output is complete the trailer is, too.
LEMMA TrailerArrives ==
    ASSUME StreamInv, run # "stopped", BeforeTrailer, cut \/ pipe = <<>>,
           NEW e, cut => e # "nil", NEW result \in Verdicts(e)
    PROVE  LET rest == Append(Trailer(e), result)
               s == Sent \o rest
           IN  /\ ~cut => rest \in Seq(Event) /\ s = said \o rest
               /\ EndsInReport(s, e) /\ EndsInResult(s, e)
               /\ e = "nil" => \E i \in DOMAIN s : IsOkLineOf(FlattenSeq(said), s[i])
<1>1. /\ Sent \in Seq(Write) /\ Knows(out, FlattenSeq(Sent)) /\ out \in Tracker(Lump)
      /\ ~cut => Sent \o pipe = said
  BY DEF StreamInv, StreamTypes, Arrives, BeforeTrailer, AfterOutput, InTrailer
<1>2. ~cut => Sent = said
  BY <1>1, ConcatEmptySeq
<1> QED BY <1>1, <1>2, TrailerEnds

\* The trailer is there as soon as cmd.Run has returned.
LEMMA TrailerBegins ==
    ASSUME StreamInv, run # "stopped", BeforeTrailer, cut \/ pipe = <<>>,
           NEW e, cut => e # "nil", Sent' = Sent, todo' = Trailer(e), err' = e, main' = "trailer",
           UNCHANGED <<mode, cut, said>>
    PROVE  Arrives'
<1>1. ASSUME NEW r \in Verdicts(e)
      PROVE  /\ ~cut => \E rest \in Seq(Event) : Stream(r)' = said \o rest
             /\ EndsInReport(Stream(r)', e) /\ EndsInResult(Stream(r)', e)
             /\ e = "nil" => \E i \in DOMAIN Stream(r)' : IsOkLineOf(FlattenSeq(said), Stream(r)'[i])
  <2> DEFINE rest == Append(Trailer(e), r)
             s == Sent \o rest
  <2>1. /\ ~cut => rest \in Seq(Event) /\ s = said \o rest
        /\ EndsInReport(s, e) /\ EndsInResult(s, e)
        /\ e = "nil" => \E i \in DOMAIN s : IsOkLineOf(FlattenSeq(said), s[i])
    BY TrailerArrives
  <2>2. Stream(r)' = s
    BY DEF Stream
  <2> HIDE DEF rest, s
  <2> QED BY <2>1, <2>2
<1>2. ~BeforeTrailer' /\ AfterOutput'
  BY DEF BeforeTrailer, AfterOutput, InTrailer
<1> QED BY <1>1, <1>2 DEF Arrives, Tells

LEMMA StartFailsArrives == ASSUME StreamInv, run # "stopped", StartFails PROVE Arrives'
<1>1. BeforeTrailer /\ pipe = <<>> /\ ~cut
  BY DEF StreamInv, Order, StartFails, BeforeTrailer
<1>2. /\ Sent' = Sent /\ todo' = Trailer("start") /\ err' = "start" /\ main' = "trailer"
      /\ UNCHANGED <<mode, cut, said>>
  BY DEF StartFails, config, tests, Sent
<1> QED BY <1>1, <1>2, TrailerBegins

LEMMA WaitReturnsArrives == ASSUME StreamInv, run # "stopped", WaitReturns PROVE Arrives'
<1> DEFINE e == RunError
<1>1. BeforeTrailer /\ (cut \/ pipe = <<>>) /\ (cut => e # "nil")
  BY DEF StreamInv, KilledInv, Phases, Order, WaitReturns, BeforeTrailer, RunError
<1>2. /\ Sent' = Sent /\ todo' = Trailer(e) /\ err' = e /\ main' = "trailer"
      /\ UNCHANGED <<mode, cut, said>>
  BY DEF WaitReturns, config, tests, Sent
<1> HIDE DEF e
<1> QED BY <1>1, <1>2, TrailerBegins

\* The rest of the trailer moves on.
LEMMA TrailerMoves == ASSUME StreamInv, run # "stopped", WriteTrailer \/ CloseConverter PROVE Arrives'
<1>1. /\ seen \in Seq(Event) /\ todo \in Seq(Event)
      /\ <<>> \in Seq(Event) /\ events = <<>> /\ mode = "prebuilt" /\ main = "trailer"
  <2>1. mode = "prebuilt" /\ main = "trailer" /\ events = <<>>
    BY DEF StreamInv, KilledInv, Places, WriteTrailer, CloseConverter, NextOfTrailer
  <2> QED BY <2>1, WritesAreTexts, EmptySeq DEF StreamInv, StreamTypes
<1>2. \A r : Stream(r) = seen \o Append(todo, r)
  BY <1>1, ConcatEmptySeq DEF Stream, Sent
<1>3. UNCHANGED <<mode, cut, said, err, seen>>
  BY DEF WriteTrailer, CloseConverter, config, tests
<1>4. ASSUME NEW r \in Verdicts(err) PROVE \E v \in Verdicts(err) : Stream(r)' = Stream(v)
  <2> DEFINE h == Head(todo)
             t == Tail(todo)
  <2>1. CASE WriteTrailer
    <3>1. todo # <<>> /\ todo' = t /\ events' = <<h>> /\ main' = "trailer"
      BY <1>1, <2>1 DEF WriteTrailer, NextOfTrailer
    <3>2. /\ h \in Event /\ t \in Seq(Event) /\ Append(seen, h) \in Seq(Event)
          /\ Append(seen, h) \o t = seen \o todo
      BY <1>1, <3>1, MovesOn
    <3>3. Stream(r)' = (seen \o <<h>>) \o Append(t, r)
      BY <1>3, <3>1 DEF Stream, Sent
    <3> HIDE DEF h, t
    <3>4. seen \o <<h>> = Append(seen, h)
      BY <1>1, <3>2, AppendIsConcat
    <3>5. Append(seen, h) \o Append(t, r) = Append(Append(seen, h) \o t, r)
      <4>1. r \in Event
        BY VerdictsAreResults
      <4>2. \A a, b \in Seq(Event), c \in Event : a \o Append(b, c) = Append(a \o b, c)
        BY ComesLast
      <4> QED BY <3>2, <4>1, <4>2
    <3>6. seen \o Append(todo, r) = Append(seen \o todo, r)
      BY <1>1, ComesLast, VerdictsAreResults
    <3> QED BY <1>2, <3>2, <3>3, <3>4, <3>5, <3>6
  <2>2. CASE CloseConverter
    <3>1. PICK v \in Verdicts(err) : v = <<PackageResult>>
      BY VerdictsAreResults
    <3>2. todo = <<>> /\ events' = <<v>> /\ main' = "close"
      BY <2>2, <3>1 DEF CloseConverter
    <3>3. Stream(r)' = seen \o <<v>>
      BY <1>3, <3>2 DEF Stream, Sent
    <3>4. Append(todo, v) = <<v>>
      BY <3>2
    <3> QED BY <1>2, <3>3, <3>4
  <2> QED BY <2>1, <2>2
<1>5. AfterOutput /\ ~BeforeTrailer' /\ AfterOutput'
  BY <1>1, <1>3 DEF AfterOutput, BeforeTrailer, InTrailer, WriteTrailer, CloseConverter, NextOfTrailer
<1>6. ASSUME NEW r \in Verdicts(err)'
      PROVE  /\ ~cut => \E rest \in Seq(Event) : Stream(r)' = said \o rest
             /\ EndsInReport(Stream(r)', err) /\ EndsInResult(Stream(r)', err) /\ Tells(Stream(r)')
  <2>1. r \in Verdicts(err)
    BY <1>3
  <2>2. PICK v \in Verdicts(err) : Stream(r)' = Stream(v)
    BY <1>4, <2>1
  <2> QED BY <1>5, <2>2 DEF StreamInv, Arrives
<1> QED BY <1>3, <1>5, <1>6 DEF Arrives, Tells

LEMMA ArrivesStep == ASSUME StreamInv, [Next]_vars, run' # "stopped" PROVE Arrives'
<1>0. run # "stopped"
  BY DEF StreamInv, Next, TestsNext, ConverterNext, RunNext, ExecNext, MainNext, vars, config, tests,
         TestsPrint, TestsWrite, TestsEnd, Release, Copy, CopyEnds, ReadEvent, StdoutFails, ReadEOF, Drain,
         KillTimer, HardKill, Reap, WaitDelay, Start, StartFails, WaitReturns, WriteTrailer, CloseConverter,
         CloseEvents, TestsReturn, AwaitRun, AwaitProcess
<1>1. CASE TestsNext \/ Release
  <2>1. CASE TestsPrint
    BY <1>0, <2>1, StreamUntouched DEF TestsPrint, config
  <2>2. CASE TestsEnd
    BY <1>0, <2>2, StreamUntouched DEF TestsEnd, config
  <2>3. CASE Release
    BY <1>0, <2>3, StreamUntouched DEF Release, config
  <2> QED BY <1>0, <1>1, <2>1, <2>2, <2>3, WriteArrives DEF TestsNext
<1>2. CASE ConverterNext
  <2>1. CASE CopyEnds
    BY <1>0, <2>1, StreamUntouched DEF CopyEnds, config, tests
  <2> QED BY <1>0, <1>2, <2>1, CopyArrives DEF ConverterNext
<1>3. CASE RunNext
  <2>1. ~StdoutFails /\ ~Drain
    BY <1>0 DEF StdoutFails, Drain
  <2>2. CASE ReadEOF
    BY <1>0, <2>2, StreamUntouched DEF ReadEOF, config, tests
  <2> QED BY <1>0, <1>3, <2>1, <2>2, ReadArrives DEF RunNext
<1>4. CASE ExecNext
  <2>1. CASE KillTimer
    BY <1>0, <2>1, StreamUntouched DEF KillTimer, config, tests
  <2>2. CASE HardKill
    <3>1. cut' /\ ~AfterOutput' /\ UNCHANGED <<mode, main, said, pipe, out, events, seen>>
      BY <2>2 DEF HardKill, config, StreamInv, KilledInv, Places, Order, AfterOutput, InTrailer
    <3> QED BY <1>0, <3>1 DEF StreamInv, Arrives, BeforeTrailer, Sent
  <2>3. CASE Reap
    BY <1>0, <2>3, StreamUntouched DEF Reap, config
  <2>4. CASE WaitDelay
    <3>1. cut' /\ ~AfterOutput' /\ UNCHANGED <<mode, main, said, pipe, out, events, seen>>
      BY <2>4 DEF WaitDelay, config, tests, StreamInv, KilledInv, Phases, AfterOutput, InTrailer
    <3> QED BY <1>0, <3>1 DEF StreamInv, Arrives, BeforeTrailer, Sent
  <2> QED BY <1>4, <2>1, <2>2, <2>3, <2>4 DEF ExecNext
<1>5. CASE MainNext
  <2>1. CASE Start
    BY <1>0, <2>1 DEF Start, config, StreamInv, KilledInv, Places, Arrives, BeforeTrailer, AfterOutput, InTrailer, Sent
  <2>2. CASE CloseEvents
    BY <1>0, <2>2 DEF CloseEvents, config, tests, StreamInv, KilledInv, Places, Arrives, BeforeTrailer, AfterOutput,
                      InTrailer, Sent, Stream, Tells
  <2>3. CASE TestsReturn
    BY <1>0, <2>3 DEF TestsReturn, config, tests, StreamInv, KilledInv, Places, Arrives, BeforeTrailer, AfterOutput,
                      InTrailer, Sent
  <2>4. CASE AwaitRun
    BY <1>0, <2>4 DEF AwaitRun, config, tests, StreamInv, KilledInv, Places, Arrives, BeforeTrailer, AfterOutput,
                      InTrailer, Sent, Stream, Tells
  <2>5. CASE AwaitProcess
    BY <1>0, <2>5 DEF AwaitProcess, config, tests, StreamInv, KilledInv, Places, Arrives, BeforeTrailer, AfterOutput,
                      InTrailer, Sent
  <2> QED BY <1>0, <1>5, <2>1, <2>2, <2>3, <2>4, <2>5, StartFailsArrives, WaitReturnsArrives, TrailerMoves DEF MainNext
<1>6. CASE UNCHANGED vars
  BY <1>0, <1>6, StreamUntouched DEF vars, config, tests
<1> QED BY <1>1, <1>2, <1>3, <1>4, <1>5, <1>6 DEF Next

LEMMA StreamStep == StreamInv /\ [Next]_vars => StreamInv'
<1> SUFFICES ASSUME StreamInv, [Next]_vars PROVE StreamInv'
  OBVIOUS
<1>1. KilledInv'
  BY KilledStep DEF StreamInv
<1> QED BY <1>1, OrderStep, TypesStep, ArrivesStep DEF StreamInv

\* When the program has returned, the stream is what Run has read.
LEMMA StreamRead ==
    ASSUME StreamInv, Returned, run # "stopped"
    PROVE  /\ events = <<>> /\ Sent = seen /\ Arrives
           /\ mode = "prebuilt" => AfterOutput /\ \E r \in Verdicts(err) : Stream(r) = seen
           /\ mode # "prebuilt" => ~AfterOutput /\ ~cut /\ pipe = <<>>
<1>1. run = "done"
  BY DEF StreamInv, KilledInv, Phases, Order, Returned
<1>2. events = <<>>
  BY <1>1 DEF StreamInv, Order
<1>3. Sent = seen
  BY <1>2, ConcatEmptySeq DEF StreamInv, StreamTypes, Sent
<1>4. mode = "prebuilt" => AfterOutput /\ \E r \in Verdicts(err) : Stream(r) = seen
  BY <1>3, VerdictsAreResults DEF Returned, AfterOutput, InTrailer, Stream
<1>5. mode # "prebuilt" => ~AfterOutput /\ ~cut /\ pipe = <<>>
  BY <1>1 DEF StreamInv, KilledInv, Places, Order, AfterOutput
<1> QED BY <1>2, <1>3, <1>4, <1>5 DEF StreamInv

LEMMA StreamNothingLost == StreamInv => NothingLost
<1> SUFFICES ASSUME StreamInv, Returned, run # "stopped"
             PROVE  IsPrefix(said, seen) \/ (cut /\ ~Succeeds)
  BY DEF NothingLost
<1>1. said \in Seq(Event) /\ seen \in Seq(Event)
  BY WritesAreTexts DEF StreamInv, StreamTypes
<1>2. ASSUME NEW rest \in Seq(Event), seen = said \o rest PROVE IsPrefix(said, seen)
  <2>1. /\ Len(seen) = Len(said) + Len(rest) /\ Len(said) \in Nat /\ Len(rest) \in Nat
        /\ \A i \in 1..(Len(said) + Len(rest)) :
              seen[i] = IF i <= Len(said) THEN said[i] ELSE rest[i - Len(said)]
    BY <1>1, <1>2, ConcatProperties
  <2>2. Len(said) <= Len(seen) /\ \A i \in 1..Len(said) : said[i] = seen[i]
    BY <2>1
  <2> QED BY <1>1, <2>2, PrefixIs
<1>3. CASE mode = "prebuilt"
  <2>1. cut => err # "nil"
    BY <1>3, StreamRead DEF StreamInv, Order
  <2>2. ~cut => \E rest \in Seq(Event) : seen = said \o rest
    BY <1>3, StreamRead DEF Arrives
  <2> QED BY <1>2, <1>3, <2>1, <2>2 DEF Succeeds
<1>4. CASE mode # "prebuilt"
  <2>1. seen \o <<>> = said
    BY <1>4, StreamRead DEF Arrives
  <2>2. seen = said /\ said \o <<>> = said /\ <<>> \in Seq(Event)
    BY <1>1, <2>1, ConcatEmptySeq, EmptySeq
  <2> QED BY <1>2, <2>2
<1> QED BY <1>3, <1>4

LEMMA StreamReport == StreamInv => ReportIsLastLine
BY StreamRead DEF Arrives, EndsInReport, OneLine, ReportIsLastLine, Succeeds

LEMMA StreamResult == StreamInv => ResultAgrees
BY StreamRead DEF Arrives, EndsInResult, Verdicts, ResultAgrees, Succeeds

LEMMA StreamTells == StreamInv => OkLineTells
BY StreamRead DEF Arrives, Tells, OkLineTells, Succeeds

\* Nothing of the tests' output is lost, or the run has failed, however the
\* writes, the copying, the timers and Run interleave (prebuilt.go:141-245,
\* gotestmain.go, main.go).
THEOREM NothingIsLost == Spec => []NothingLost
BY StreamInit, StreamStep, StreamNothingLost, PTL DEF Spec

\* The report is the last line, on a line of its own (prebuilt.go:198-231).
THEOREM ReportComesLast == Spec => []ReportIsLastLine
BY StreamInit, StreamStep, StreamReport, PTL DEF Spec

\* The package has one result, the last event, and it is a fail if and only if
\* the exit status is one (prebuilt.go:232-242), also where Exited keeps a skip.
THEOREM ResultIsStatus == Spec => []ResultAgrees
BY StreamInit, StreamStep, StreamResult, PTL DEF Spec

\* The ok line tells what go test finds in the whole output (prebuilt.go:198-211, 366-412).
THEOREM OkLineIsRight == Spec => []OkLineTells
BY StreamInit, StreamStep, StreamTells, PTL DEF Spec
============================================================================
