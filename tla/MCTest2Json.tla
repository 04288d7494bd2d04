--------------------------- MODULE MCTest2Json ---------------------------
(***************************************************************************)
(* What a test binary prints, with the meaning each line has for the       *)
(* testing package, and what the events must say of it.                    *)
(*                                                                         *)
(* A line of a stream has its lumps (text), what an event shows of them    *)
(* (shown), the test it speaks for (who; "?" is whoever spoke last) and    *)
(* depth: a framing line ends the sections of its depth and deeper, and    *)
(* result says that it gives the result of who.                            *)
(***************************************************************************)
EXTENDS Test2Json, FiniteSets

CONSTANTS MaxLines,     \* how many lines may follow the first
          Marked,       \* the lines of a binary run with -test.v=test2json
          Nested        \* the lines of one run with -test.v

Far == 9                \* the depth of a line that is no framing

Line(text, shown, who, under, depth, result) ==
    [text |-> text, shown |-> shown, who |-> who, under |-> under, depth |-> depth,
     result |-> result]
Update(mark, prefix, who) ==
    LET t == <<prefix, who, NL>> IN Line(mark \o t, t, who, "", 0, FALSE)
Report(mark, n, prefix, who, under) ==
    LET t == [i \in 1 .. n |-> fourSpace] \o <<prefix, who, NL>>
    IN Line(mark \o t, t, who, under, n, TRUE)
Said(text) == Line(text, text, "?", "", Far, FALSE)
Log(n, who) ==
    LET t == [i \in 1 .. n |-> fourSpace] \o <<"x", NL>> IN Line(t, t, who, who, Far, FALSE)

\* The lines by name, so that a configuration can choose them.
LineOf ==
  LET v == <<marker>> IN
  [runA     |-> Update(v, "=== RUN   ", "A"),
   runB     |-> Update(v, "=== RUN   ", "A/B"),
   pauseB   |-> Update(v, "=== PAUSE ", "A/B"),
   contA    |-> Update(v, "=== CONT  ", "A"),
   nameA    |-> Line(<<marker, "=== NAME  ", "A", NL>>, <<>>, "A", "", 0, FALSE),
   nameNone |-> Line(<<marker, emptyName, NL>>, <<>>, "", "", 0, FALSE),
   passA    |-> Report(v, 0, "--- PASS: ", "A", ""),
   failB    |-> Report(v, 0, "--- FAIL: ", "A/B", ""),
   pass     |-> Line(<<marker, "PASS", NL>>, <<"PASS", NL>>, "", "", 0, FALSE),
   killed   |-> LET t == <<"FAIL", Tab, "p", NL>> IN Line(<<marker>> \o t, t, "", "", 0, FALSE),
   plainPass|-> LET t == <<"PASS", NL>> IN Line(t, t, "", "", 0, FALSE),
   say      |-> Said(<<"x", NL>>),
   mutter   |-> Said(<<"x">>),
   long     |-> Said(<<"x", "y", "z", "x", CharA, CharB, CharA, CharB, NL>>),
   trail    |-> Said(<<"x", "y", "z", CharA, CharB, "x", "y">>),
   fill     |-> Said(<<"x", "y", "z", "x", "y">>),
   spoof    |-> Said(<<"=== RUN   ", "C", NL>>),
   verdict  |-> Said(<<"FAIL", NL>>),
   bench    |-> Said(<<benchmark, "x", Tab, "y", NL>>),
   startA   |-> Update(<<>>, "=== RUN   ", "A"),
   atA      |-> Report(<<>>, 0, "--- PASS: ", "A", ""),
   atB      |-> Report(<<>>, 1, "--- FAIL: ", "A/B", "A"),
   atC      |-> Report(<<>>, 2, "--- PASS: ", "A/B/C", "A/B"),
   atD      |-> Report(<<>>, 1, "--- PASS: ", "A/D", "A"),
   logA     |-> Log(1, "A"),
   logB     |-> Log(2, "A/B"),
   logC     |-> Log(3, "A/B/C"),
   deep     |-> LET t == [i \in 1 .. 4 |-> fourSpace] \o <<"--- PASS: ", "E", NL>> IN Said(t)]

\* Under -test.v a test's log and the results of its subtests follow its own
\* result, with no result of its level in between.
Stands(s, k) == s[k].under = "" \/ \E j \in 1 .. k - 1 :
    s[j].result /\ s[j].who = s[k].under /\ \A i \in j + 1 .. k - 1 : s[i].depth > s[j].depth

\* Text left without a newline is followed by a framing line or a whole line.
Ends(line) == Last(line.text) = NL

\* Openings, up to MaxLines lines, and the end: the PASS of the binary, or the
\* FAIL line otelgotest adds for a binary that failed or died.
StreamsOf(openings, lines, endings) ==
    {s \in {[k \in 1 .. Len(t) + 2 |-> LineOf[(<<f>> \o t \o <<e>>)[k]]] :
               f \in openings, t \in BoundedSeq(lines, MaxLines), e \in endings} :
       /\ \A k \in DOMAIN s : Stands(s, k)
       /\ \A k \in 2 .. Len(s) : Ends(s[k - 1]) \/ Ends(s[k])}
Streams == StreamsOf({"runA"}, Marked, {"pass", "killed"})
             \cup StreamsOf({"startA", "atA"}, Nested, {"plainPass", "killed"})

Init ==
    /\ stream \in Streams
    /\ pos = 0 /\ cv = NewConverter(InBuffer, OutBuffer) /\ closed = FALSE
Spec == Init /\ [][Next]_vars

-----------------------------------------------------------------------------
(***************************************************************************)
(* Properties                                                              *)
(***************************************************************************)

\* Who line k speaks for.
Author(k) ==
    LET named == {j \in 1 .. k : stream[j].who # "?"}
    IN IF named = {} THEN "" ELSE stream[CHOOSE j \in named : \A i \in named : i <= j].who

\* What test's lines up to line k show, and what the first n events show of it.
SaidBy(test, k) ==
    FlattenSeq([j \in 1 .. k |-> IF Author(j) = test THEN stream[j].shown ELSE <<>>])
ShownOf(test, n) ==
    FlattenSeq([i \in 1 .. n |-> IF cv.ev[i].test = test THEN cv.ev[i].output ELSE <<>>])
Tests == {stream[k].who : k \in DOMAIN stream} \ {"?"}

\* Every lump a test prints is in an output event of that test, once and in
\* order, however the text was cut into writes and whether or not its lines
\* outgrow the buffers (but for text without a newline that fills the input
\* buffer exactly, see MarkerEndsLine): unmarked text that looks like framing is text, and output that follows a
\* result line belongs to the test the testing package wrote it for.
AttributedToSpeaker ==
    closed => \A t \in Tests \cup {""} : ShownOf(t, Len(cv.ev)) = SaidBy(t, Len(stream))

\* A result is held back until the section of its line is over: for each result
\* line that something follows at its level there is one event, after all the output of that
\* section and before any later output of the test.
SectionEnd(k) ==
    LET later == {j \in k + 1 .. Len(stream) : stream[j].depth <= stream[k].depth}
    IN IF later = {} THEN 0 ELSE CHOOSE j \in later : \A i \in later : j <= i
ResultEvents(test) ==
    {i \in DOMAIN cv.ev : cv.ev[i].test = test /\ cv.ev[i].action \in {"pass", "fail"} /\ test # ""}
ResultsHeldBack ==
    closed => \A t \in Tests \ {""} :
        LET rs == {k \in DOMAIN stream : stream[k].result /\ stream[k].who = t /\ SectionEnd(k) > 0}
        IN /\ Cardinality(ResultEvents(t)) = Cardinality(rs)
           /\ \A k \in rs : \E i \in ResultEvents(t) : ShownOf(t, i) = SaidBy(t, SectionEnd(k) - 1)

\* No event ends inside a character, whatever the writes and the buffers cut.
CharactersWhole ==
    \A i \in DOMAIN cv.ev : cv.ev[i].output = <<>> \/ Last(cv.ev[i].output) # CharA

\* "A line ending is either a \n or the empty string just before a ^V not
\* beginning a line" (test2json.go:500): of a binary run with -test.v=test2json,
\* whose framing lines are all marked, a run line printed after unfinished
\* text is recognised, so that each run line has its run event.
MarkerEndsLine ==
    closed /\ First(stream[1].text) = marker => \A t \in Tests :
        Cardinality({i \in DOMAIN cv.ev : cv.ev[i].action = "run" /\ cv.ev[i].test = t})
          = Cardinality({k \in DOMAIN stream : First(stream[k].text) = marker
                           /\ stream[k].text[2] = "=== RUN   " /\ stream[k].who = t})
=============================================================================
