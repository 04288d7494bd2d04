--------------------------- MODULE OutputTracker ---------------------------
(* The outputTracker of cmd/otelgotest/prebuilt.go, which passes a test    *)
(* binary's output through and remembers what go test checks it for, as    *)
(* operators on a record. A text is a sequence of lumps: a newline, the    *)
(* two halves of the warning, "coverage: ", anything else. A length counts *)
(* lumps; MaxCoverageLine stands for maxCoverageLine.                      *)
EXTENDS Integers, Sequences, SequencesExt

CONSTANT MaxCoverageLine

ASSUME MaxCoverageLineAssumption == MaxCoverageLine \in Nat

NL == "\n"
noTestsToRun == <<NL, "testing: warning: ", "no tests to run", NL>>
coveragePrefix == "coverage: "

\* The output's start counts as a line start.
newOutputTracker ==
    [n |-> 0, last |-> "", tail |-> <<NL>>, noTests |-> FALSE,
     coverage |-> <<>>, line |-> <<>>, longLine |-> FALSE]

HasText(text, sub) ==
    \E i \in 0..(Len(text) - Len(sub)) : \A j \in 1..Len(sub) : text[i + j] = sub[j]

\* The last k lumps of text, or all of it.
LastOf(text, k) == SubSeq(text, IF k < Len(text) THEN Len(text) - k + 1 ELSE 1, Len(text))

\* Mutant: a lump too few is kept for the next write.
KeepShort(buf) == LastOf(buf, Len(noTestsToRun) - 2)

\* What a later write may complete to the warning.
Keep(buf) == LastOf(buf, Len(noTestsToRun) - 1)

FindNoTests(o, b) ==
    IF o.noTests THEN o
    ELSE [o EXCEPT !.noTests = HasText(o.tail \o b, noTestsToRun),
                   !.tail = Keep(o.tail \o b)]

\* What follows the first "coverage: " on a line.
AfterPrefix(line) ==
    IF Contains(line, coveragePrefix)
    THEN SubSeq(line, SelectInSeq(line, LAMBDA c : c = coveragePrefix) + 1, Len(line))
    ELSE <<>>

EndOfLine(o) ==
    [o EXCEPT !.coverage = IF o.longLine THEN <<>> ELSE AfterPrefix(o.line),
              !.line = <<>>, !.longLine = FALSE]

\* A lump of the search for the coverage line; it ends with the first hit.
FindCoverage(o, c) ==
    IF o.coverage # <<>> THEN o
    ELSE IF c = NL THEN EndOfLine(o)
    ELSE IF o.longLine THEN o
    ELSE IF Len(o.line) + 1 > MaxCoverageLine
         THEN [o EXCEPT !.longLine = TRUE, !.line = <<>>]
    ELSE [o EXCEPT !.line = Append(@, c)]

\* The search for the coverage line in the lumps of b, one after the other.
SearchCoverage(o, b) ==
    LET after[k \in 0..Len(b)] == IF k = 0 THEN o ELSE FindCoverage(after[k - 1], b[k])
    IN  after[Len(b)]

\* What the tracker knows after passing b, which is not empty, through.
Track(o, b) ==
    SearchCoverage(FindNoTests([o EXCEPT !.n = @ + Len(b), !.last = Last(b)], b), b)
----------------------------------------------------------------------------
(* What go test looks for, in a text as a whole.                           *)

\* The text has a line after index s, and its newline at e.
IsLine(text, s, e) ==
    /\ s \in 0..(e - 1) /\ e \in 1..Len(text)
    /\ s = 0 \/ text[s] = NL
    /\ text[e] = NL
    /\ \A i \in (s + 1)..(e - 1) : text[i] # NL

\* The line is the warning.
WarnsAt(text, s, e) ==
    /\ IsLine(text, s, e)
    /\ e = s + 3 /\ text[s + 1] = noTestsToRun[2] /\ text[s + 2] = noTestsToRun[3]

\* The line is short, and has something after "coverage: ", which is first at k.
CoverageAt(text, s, k, e) ==
    /\ IsLine(text, s, e)
    /\ e - s - 1 <= MaxCoverageLine
    /\ k \in (s + 1)..(e - 2) /\ text[k] = coveragePrefix
    /\ \A i \in (s + 1)..(k - 1) : text[i] # coveragePrefix

FirstCoverageAt(text, s, k, e) ==
    /\ CoverageAt(text, s, k, e)
    /\ \A t, l, f \in 0..Len(text) : CoverageAt(text, t, l, f) => e <= f
============================================================================
