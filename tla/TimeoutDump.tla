---------------------------- MODULE TimeoutDump ----------------------------
(***************************************************************************)
(* gotest/gotest.go's timeoutDump: how Run finds the panic a test binary   *)
(* prints when go test's -timeout fires, in output that reaches it in      *)
(* arbitrary fragments, and what it copies of the goroutine dump that      *)
(* follows. A text is a sequence of lumps, a lump being as much text as    *)
(* these functions tell apart: the three parts of the signature (so that  *)
(* its line can be split twice), "\n", the first words of the lines that   *)
(* copyLine looks for, and anything else. A length is counted in lumps.    *)
(***************************************************************************)
EXTENDS Integers, Sequences, SequencesExt

CONSTANT StacksLimit \* timeoutStacksLimit

ASSUME StacksLimitAssumption == StacksLimit \in Nat

NL == "\n"
Signature == <<"panic: ", "test timed out ", "after ">> \* timeoutPanicPrefix
Goroutine == "goroutine "
Truncation == "... goroutine dump truncated"
NoTest == <<>> \* the "" of a package-level event

\* The zero timeoutDump.
NewDump == [head |-> <<>>, headTest |-> NoTest, midLine |-> FALSE,
            active |-> FALSE, retained |-> FALSE, pending |-> <<>>,
            inStacks |-> FALSE, copied |-> 0, truncated |-> FALSE]
----------------------------------------------------------------------------
(* Lines of a text.                                                        *)

LineStarts(text) == {i \in 1..Len(text) : i = 1 \/ text[i - 1] = NL}
LineEnds(text) == {i \in 1..Len(text) : text[i] = NL}

\* The line that starts at i, with its newline if it has one.
LineFrom(text, i) ==
    LET ends == {j \in LineEnds(text) : j >= i}
    IN  SubSeq(text, i, IF ends = {} THEN Len(text) ELSE Min(ends))

\* The line that the newline at i ends.
LineStart(text, i) == Max({j \in LineStarts(text) : j <= i})
LineTo(text, i) == SubSeq(text, LineStart(text, i), i)

\* What comes after the last complete line.
Partial(text) ==
    IF LineEnds(text) = {} THEN text ELSE SubSeq(text, Max(LineEnds(text)) + 1, Len(text))
----------------------------------------------------------------------------
(* scan, in closed form: its loop looks at the lines of text in turn, the  *)
(* first of them continued from d.head unless d.midLine rules it out.      *)

\* Mutant: the start of a line kept from earlier events is forgotten.
LineUncarried(d, text, i) == LineFrom(text, i)

Line(d, text, i) == IF i = 1 THEN d.head \o LineFrom(text, i) ELSE LineFrom(text, i)

MayBeSignature(d, i) == ~(i = 1 /\ d.midLine)

Hits(d, text) == {i \in LineStarts(text) : /\ MayBeSignature(d, i)
                                           /\ IsPrefix(Signature, Line(d, text, i))}

\* scan found the signature at the first hit; the part of its line that came
\* in earlier events, and the test that part was attributed to, go with it.
Found(d, text) == [d EXCEPT !.head = <<>>, !.headTest = NoTest, !.active = TRUE]

\* The test that the head of the current line was first attributed to.
OwnerOfHead(d, last, test) == IF last = 1 /\ d.head # <<>> THEN d.headTest ELSE test

\* scan found nothing: what it remembers of text's last line.
NotFound(d, text, test) ==
    LET last == Max(LineStarts(text))
        line == Line(d, text, last)
        complete == text[Len(text)] = NL
    IN  IF ~complete /\ MayBeSignature(d, last) /\ IsPrefix(line, Signature)
        THEN [d EXCEPT !.head = line, !.midLine = FALSE,
                       !.headTest = OwnerOfHead(d, last, test)]
        ELSE [d EXCEPT !.head = <<>>, !.headTest = NoTest, !.midLine = ~complete]

\* Mutant: the earlier fragments of the signature's line are left behind.
CarriedNever(d, start) == <<>>

Carried(d, start) == IF start = 1 THEN d.head ELSE <<>>

\* How Run routes an output event (gotest.go:339-359): the dump's next state,
\* the text before the signature, the dump text, and what was carried.
Route(d, text, test, retains) ==
    LET nothing == [d |-> d, before |-> text, dump |-> <<>>, carried |-> <<>>,
                    carriedTest |-> NoTest]
        start == Min(Hits(d, text))
    IN  IF d.active THEN [nothing EXCEPT !.before = <<>>, !.dump = text]
        ELSE IF Hits(d, text) = {} THEN [nothing EXCEPT !.d = NotFound(d, text, test)]
        ELSE [d |-> [Found(d, text) EXCEPT !.retained = retains],
              before |-> SubSeq(text, 1, start - 1),
              dump |-> SubSeq(text, start, Len(text)),
              carried |-> Carried(d, start),
              carriedTest |-> IF start = 1 THEN d.headTest ELSE NoTest]
----------------------------------------------------------------------------
(* copyTo, copyLine and flush: the dump's next state and what is written.  *)

IsPackageSummary(line) ==
    \/ line \in {<<"FAIL">>, <<"PASS">>, <<"FAIL", NL>>, <<"PASS", NL>>}
    \/ Head(line) \in {"FAIL\t", "ok  \t", "exit status "}

\* Mutant: the limit is looked at after the line is copied.
OverflowsLate(d, line) == d.copied > StacksLimit

Overflows(d, line) == d.copied + Len(line) > StacksLimit

CopyLine(c, line) ==
    LET d == [c.d EXCEPT !.inStacks = @ \/ Head(line) = Goroutine]
        whole == ~d.inStacks \/ ~d.retained \/ IsPackageSummary(line)
    IN  IF whole THEN [d |-> d, out |-> c.out \o line]
        ELSE IF d.truncated THEN [d |-> d, out |-> c.out]
        ELSE IF Overflows(d, line)
             THEN [d |-> [d EXCEPT !.truncated = TRUE], out |-> c.out \o <<Truncation, NL>>]
        ELSE [d |-> [d EXCEPT !.copied = @ + Len(line)], out |-> c.out \o line]

\* copyTo's loop over the complete lines of a text; the rest is left pending.
CopyLines(d, text) ==
    LET copied[i \in 0..Len(text)] ==
            IF i = 0 THEN [d |-> [d EXCEPT !.pending = Partial(text)], out |-> <<>>]
            ELSE IF text[i] = NL THEN CopyLine(copied[i - 1], LineTo(text, i))
            ELSE copied[i - 1]
    IN  copied[Len(text)]

\* Mutant: the partial line that an earlier text left is forgotten.
CopyToAfresh(d, text) == CopyLines(d, text)

CopyTo(d, text) == CopyLines(d, d.pending \o text)

\* pending never holds a newline, so flush always adds one.
Flush(d) ==
    IF d.pending = <<>> THEN [d |-> d, out |-> <<>>]
    ELSE CopyLine([d |-> [d EXCEPT !.pending = <<>>], out |-> <<>>], Append(d.pending, NL))
============================================================================
