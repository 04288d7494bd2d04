---------------------------- MODULE Test2Json ----------------------------
(***************************************************************************)
(* The converter of internal/test2json: it is written the output of a test *)
(* binary, in pieces cut anywhere, and writes events.                      *)
(*                                                                         *)
(* A text is a sequence of lumps (a line ending, the ^V marker, a framing  *)
(* prefix with its spaces, a test name, four spaces, a word, half of a     *)
(* two-byte character); a buffer's capacity is counted in lumps.           *)
(***************************************************************************)
EXTENDS Naturals, Sequences, SequencesExt

CONSTANTS InBuffer,     \* capacity of the input buffer, in lumps
          OutBuffer     \* capacity of the output buffer, in lumps

ASSUME Capacities == InBuffer \in Nat \ {0, 1} /\ OutBuffer \in Nat \ {0, 1}

VARIABLES stream,   \* the lines the binary prints, in order
          pos,      \* how many lumps of them have been written
          cv,       \* the Converter
          closed    \* Close has returned

vars == <<stream, pos, cv, closed>>

NL == "\n"
marker == "^V"
Tab == "\t"
fourSpace == "    "
benchmark == "Benchmark"
emptyName == "=== NAME"     \* what is left when trailing spaces are deleted
skipLinePrefix == "?   \t"  \* the line of a package without test files
CharA == "c3"               \* the two bytes of one character
CharB == "a9"

\* A framing prefix, and the action of its event.
updates == [p \in {"=== RUN   ", "=== PAUSE ", "=== CONT  ", "=== NAME  "} |->
              CASE p = "=== RUN   " -> "run"  [] p = "=== PAUSE " -> "pause"
                [] p = "=== CONT  " -> "cont" [] p = "=== NAME  " -> "name"]
reports == [p \in {"--- PASS: ", "--- FAIL: "} |->
              IF p = "--- PASS: " THEN "pass" ELSE "fail"]

Drop(s, n) == SubSeq(s, n + 1, Len(s))
First(s) == IF s = <<>> THEN "" ELSE s[1]
Trim(line) == IF line # <<>> /\ Last(line) = NL THEN Front(line) ELSE line

(***************************************************************************)
(* lineBuffer: it keeps at most cap lumps and turns what is written into   *)
(* calls of line (a whole line) and part (a piece of a long line).         *)
(***************************************************************************)

NewBuffer(cap) == [b |-> <<>>, mid |-> FALSE, cap |-> cap, calls |-> <<>>]

Call(l, whole, n) ==
    [l EXCEPT !.calls = Append(@, [whole |-> whole, text |-> SubSeq(l.b, 1, n)]),
              !.b = Drop(@, n)]

\* The length of the first line, 0 if none ends here: a line ends after a
\* newline, or before a marker that does not begin the text searched.
indexEOL(b) ==
    LET ends == {i \in 1 .. Len(b) : b[i] = NL \/ (b[i] = marker /\ i > 1)}
        e == CHOOSE i \in ends : \A j \in ends : i <= j
    IN IF ends = {} THEN 0 ELSE IF b[e] = NL THEN e ELSE e - 1

\* Mutant: a full buffer is given away to its last byte.
trimUTF8Not(b) == Len(b)

\* How much of b can be given away without cutting a character.
trimUTF8(b) == IF b # <<>> /\ Last(b) = CharA THEN Len(b) - 1 ELSE Len(b)

\* A benchmark's name and tab are passed on before the line is complete.
benchmarkField(b) == IF Len(b) >= 3 /\ b[1] = benchmark /\ b[3] = Tab THEN 3 ELSE 0

RECURSIVE wholeLines(_), bufferWrite(_, _)
wholeLines(l) ==
    LET e == indexEOL(l.b)
        t == benchmarkField(l.b)
    IN IF e > 0 THEN wholeLines([Call(l, ~l.mid, e) EXCEPT !.mid = FALSE])
       ELSE IF ~l.mid /\ t > 0 THEN [Call(l, FALSE, t) EXCEPT !.mid = TRUE]
       ELSE l

bufferWrite(l, text) ==
    LET m == IF Len(text) <= l.cap - Len(l.b) THEN Len(text) ELSE l.cap - Len(l.b)
        w == wholeLines([l EXCEPT !.b = @ \o SubSeq(text, 1, m)])
        full == Len(w.b) = w.cap
    IN IF text = <<>> THEN l
       ELSE bufferWrite(IF full THEN [Call(w, FALSE, trimUTF8(w.b)) EXCEPT !.mid = TRUE] ELSE w,
                        Drop(text, m))

bufferFlush(l) == IF l.b = <<>> THEN l ELSE Call(l, FALSE, Len(l.b))

-----------------------------------------------------------------------------
(***************************************************************************)
(* The Converter                                                           *)
(***************************************************************************)

Event(action, test, output) == [action |-> action, test |-> test, output |-> output]

writeEvent(c, action, test) ==
    [c EXCEPT !.ev = Append(@, Event(action, IF test = "" THEN c.testName ELSE test, <<>>))]

\* Both callbacks of the output buffer write an output event.
Emit(c, l) ==
    [c EXCEPT !.out = [l EXCEPT !.calls = <<>>],
              !.ev = @ \o [i \in DOMAIN l.calls |-> Event("output", c.testName, l.calls[i].text)]]
outputWrite(c, text) == Emit(c, bufferWrite(c.out, text))
outputFlush(c) == Emit(c, bufferFlush(c.out))

NewConverter(in, out) ==
    writeEvent([testName |-> "", report |-> <<>>, result |-> "", needMarker |-> FALSE,
                in |-> NewBuffer(in), out |-> NewBuffer(out), ev |-> <<>>], "start", "")

\* The reports held back at levels depth and deeper, innermost first.
flushReport(c, depth) ==
    [c EXCEPT !.testName = "",
              !.report = SubSeq(@, 1, IF depth < Len(@) THEN depth ELSE Len(@)),
              !.ev = @ \o [i \in 1 .. (IF depth < Len(c.report) THEN Len(c.report) - depth ELSE 0) |->
                             LET r == c.report[Len(c.report) + 1 - i] IN Event(r.action, r.test, <<>>)]]

\* How many times line is indented, and the line without it.
Indent(line) == CHOOSE n \in 0 .. Len(line) :
    /\ \A i \in 1 .. n : line[i] = fourSpace
    /\ n < Len(line) => line[n + 1] # fourSpace

finalLine(c, marked, line) ==
    [outputWrite([flushReport(c, 0) EXCEPT !.needMarker = marked], line)
       EXCEPT !.result = IF Trim(line) = <<"PASS">> THEN "pass" ELSE "fail"]

\* Mutant: indented output stays with the test named last.
plainLineSame(c, line) ==
    outputWrite([c EXCEPT !.result = IF First(line) = skipLinePrefix /\ c.report = <<>> THEN "skip" ELSE @],
                line)

\* Output that is no framing: its indentation may tell which report it is under.
plainLine(c, line) ==
    LET n == Indent(line)
        skip == First(line) = skipLinePrefix /\ c.report = <<>>
    IN outputWrite([c EXCEPT !.testName = IF n > 0 /\ n <= Len(c.report) THEN c.report[n].test ELSE @,
                             !.result = IF skip THEN "skip" ELSE @],
                   line)

\* Mutant: a result is reported with its line.
reportLineAtOnce(c, marked, line, indent, action, name) ==
    LET f == flushReport([c EXCEPT !.needMarker = marked], indent)
    IN outputWrite(writeEvent([f EXCEPT !.testName = name], action, name), line)

\* A result is held back until the next line that says whose output follows.
reportLine(c, marked, line, indent, action, name) ==
    LET f == flushReport([c EXCEPT !.needMarker = marked], indent)
    IN outputWrite([f EXCEPT !.testName = name,
                             !.report = Append(@, [action |-> action, test |-> name])], line)

updateLine(c, marked, line, action, name) ==
    LET f == [flushReport([c EXCEPT !.needMarker = marked], 0) EXCEPT !.testName = name]
    IN CASE action = "name"  -> f
         [] action = "pause" -> writeEvent(outputWrite(f, line), action, name)
         [] OTHER            -> outputWrite(writeEvent(f, action, name), line)

handleInputLine(c0, line0) ==
    LET marked == First(line0) = marker
        c == IF marked THEN outputFlush(c0) ELSE c0
        cut == IF marked THEN Tail(line0) ELSE line0
        line == IF Trim(cut) = <<emptyName>> THEN <<"=== NAME  ", NL>> ELSE cut
        indent == Indent(line)
        head == First(Drop(line, indent))
        name == First(Trim(Drop(line, indent + 1)))
    IN IF line0 = <<>> THEN c0
       ELSE IF c0.needMarker /\ ~marked THEN outputWrite(c0, line0)
       ELSE IF Trim(line) \in {<<"PASS">>, <<"FAIL">>} \/ SubSeq(line, 1, 2) = <<"FAIL", Tab>>
            THEN finalLine(c, marked, line)
       ELSE IF First(line) \in DOMAIN updates
            THEN updateLine(c, marked, line, updates[First(line)], name)
       ELSE IF head \in DOMAIN reports /\ indent <= Len(c.report)
            THEN reportLine(c, marked, line, indent, reports[head], name)
       ELSE IF head \in DOMAIN reports THEN outputWrite(c, line)
       ELSE plainLine(c, line)

\* The calls the input buffer owes: whole lines are read, pieces passed on.
Handle(c) ==
    FoldLeft(LAMBDA d, call : IF call.whole THEN handleInputLine(d, call.text)
                              ELSE outputWrite(d, call.text),
             [c EXCEPT !.in.calls = <<>>], c.in.calls)

WriteText(c, text) == Handle([c EXCEPT !.in = bufferWrite(@, text)])

ExitedWith(c, err) ==
    [c EXCEPT !.result = IF err THEN "fail" ELSE IF @ # "skip" THEN "pass" ELSE @]

CloseConverter(c) ==
    LET f == outputFlush(Handle([c EXCEPT !.in = bufferFlush(@)]))
    IN IF f.result # "" THEN writeEvent(f, f.result, "") ELSE f

-----------------------------------------------------------------------------
\* What the binary prints, as one text.
Whole == FlattenSeq([k \in DOMAIN stream |-> stream[k].text])

Write(n) ==
    /\ ~closed /\ pos < Len(Whole) /\ pos + n <= Len(Whole)
    /\ cv' = WriteText(cv, SubSeq(Whole, pos + 1, pos + n))
    /\ pos' = pos + n
    /\ UNCHANGED <<stream, closed>>

\* The caller reports how the binary exited, then closes.
ExitedAndClose(err) ==
    /\ ~closed /\ pos = Len(Whole)
    /\ cv' = CloseConverter(ExitedWith(cv, err))
    /\ closed' = TRUE
    /\ UNCHANGED <<stream, pos>>

Next == \/ \E n \in 1 .. Len(Whole) : Write(n)
        \/ \E err \in BOOLEAN : ExitedAndClose(err)
=============================================================================
