----------------------------- MODULE Pipeline ------------------------------
(* The processes of a test run and the pipes between them, in the three    *)
(* forms the repository has:                                               *)
(*   "go test"     main.go: go test -json -> Run                           *)
(*   "prebuilt"    prebuilt.go: binary -> copying goroutine, outputTracker *)
(*                 and converter -> io.Pipe -> Run                         *)
(*   "gotestmain"  gotestmain.go: the tests of this process -> go tool     *)
(*                 test2json -> Run                                        *)
(* Run is reduced to reading its stream; what it does with the events is   *)
(* modelled in GoTestRun. Of the converter only what decides the package's *)
(* result is kept; Test2Json has the rest. The kill timer, the wait delay  *)
(* and os/exec are modelled as the code uses them; times are left out.     *)
EXTENDS OutputTracker

CONSTANTS
    Modes,          \* the forms to start
    Texts,          \* the tests print one of these, or a part of it
    MaxWrite,       \* bound: the lumps of one write
    PipeCap,        \* the writes an OS pipe holds
    BuiltWithCover, \* the binary was built with -cover
    StdoutMayFail   \* started with -json, and writing to otelgotest's stdout may fail

ASSUME PipelineAssumption ==
    /\ Modes \subseteq {"go test", "prebuilt", "gotestmain"}
    /\ PipeCap \in Nat \ {0}

\* The package's result is an event of its own, which no output is.
Results == { <<"pass">>, <<"fail">>, <<"skip">> }

ASSUME TextsAssumption ==
    \A t \in Texts : t \in Seq({t[i] : i \in DOMAIN t} \ {"pass", "fail", "skip"})

----------------------------------------------------------------------------
(* The lines that decide the package's result: lumps "PASS" and "FAIL", a  *)
(* test's "=== RUN" and its report "--- PASS: ", the marker before them,   *)
(* and the two halves of the line of a package without test files.         *)

marker == "^V"
skipLinePrefix == "?   "
skipLineSuffix == "[no test files]"

newConverter == [line |-> <<>>, needMarker |-> FALSE, report |-> FALSE, result |-> ""]

\* A line without its newline; report: there is a test's result held back.
handleInputLine(c, line) ==
    LET sawMarker == line # <<>> /\ line[1] = marker
        text == IF sawMarker THEN Tail(line) ELSE line
        Starts(lump) == text # <<>> /\ text[1] = lump
    IN  IF c.needMarker /\ ~sawMarker THEN c
        ELSE IF text \in {<<"PASS">>, <<"FAIL">>}
        THEN [c EXCEPT !.needMarker = sawMarker, !.report = FALSE,
                       !.result = IF Starts("PASS") THEN "pass" ELSE "fail"]
        ELSE IF Starts(skipLinePrefix) /\ Last(text) = skipLineSuffix
        THEN [c EXCEPT !.result = IF c.report THEN @ ELSE "skip"]
        ELSE IF Starts("=== RUN") \/ Starts("--- PASS: ")
        THEN [c EXCEPT !.needMarker = sawMarker, !.report = Starts("--- PASS: ")]
        ELSE c

ConverterWrite(c, b) ==
    FoldLeft(LAMBDA d, lump :
                IF lump = NL THEN [handleInputLine(d, d.line) EXCEPT !.line = <<>>]
                ELSE [d EXCEPT !.line = Append(@, lump)],
             c, b)
----------------------------------------------------------------------------
VARIABLES
    mode, deadline, \* the form; killTimeout > 0
    child,    \* the tests: "none", "running", "exited", and "reaped" by Wait
    exit,     \* how they ended: "ok", "status", "signal", or "" before
    leaked,   \* a process the tests started still holds their output open
    writing,  \* the write the tests are in, <<>> if none
    said,     \* history: all the writes of the tests
    pipe,     \* the writes in the pipe the tests print to
    cut,      \* os/exec has closed that pipe's read end
    signaled, \* the kill timer's quit signal was sent
    out,      \* outputTracker
    conv,     \* runPrebuilt's converter
    copying,  \* the converter's input goroutine or process is running
    events,   \* what is on its way to Run
    run,      \* Run: "reading", "stopped" by an error, "done"
    seen,     \* history: what Run has read
    main,     \* where the main goroutine is
    todo,     \* the rest of the trailer runPrebuilt is writing
    err       \* what cmd.Run returned

config == <<mode, deadline>>
tests == <<child, exit, leaked, writing, said>>
vars == <<config, tests, pipe, cut, signaled, out, conv, copying, events, run, seen,
          main, todo, err>>

Init ==
    /\ mode \in Modes
    /\ deadline \in (IF mode = "prebuilt" THEN BOOLEAN ELSE {FALSE})
    /\ child = "none" /\ exit = "" /\ leaked = FALSE
    /\ writing = <<>> /\ said = <<>>
    /\ pipe = <<>> /\ cut = FALSE /\ signaled = FALSE
    /\ out = newOutputTracker /\ conv = newConverter
    /\ copying = (mode # "go test")
    /\ events = <<>> /\ run = "reading" /\ seen = <<>>
    /\ main = "start" /\ todo = <<>> /\ err = ""
----------------------------------------------------------------------------
(* The tests. Nothing makes them print or end: they may be wedged.         *)

\* A text may reach the pipe in any number of writes.
Writes ==
    LET text == FlattenSeq(said)
    IN  UNION {{SubSeq(t, Len(text) + 1, k) : k \in (Len(text) + 1)..Len(t)} :
                  t \in {u \in Texts : IsPrefix(text, u)}}

TestsPrint ==
    /\ child = "running" /\ writing = <<>>
    /\ writing' \in {w \in Writes : Len(w) <= MaxWrite}
    /\ UNCHANGED <<config, child, exit, leaked, said, pipe, cut, signaled, out, conv, copying,
                   events, run, seen, main, todo, err>>

\* A write returns when the pipe has room. go test's own output is the
\* stream of events.
TestsWrite ==
    /\ child = "running" /\ writing # <<>>
    /\ IF mode = "go test"
       THEN /\ Len(events) < PipeCap
            /\ events' = Append(events, writing)
            /\ UNCHANGED pipe
       ELSE /\ Len(pipe) < PipeCap
            /\ pipe' = Append(pipe, writing)
            /\ UNCHANGED events
    /\ said' = Append(said, writing)
    /\ writing' = <<>>
    /\ UNCHANGED <<config, child, exit, leaked, cut, signaled, out, conv, copying, run, seen, main,
                   todo, err>>

\* The binary may also be killed by a signal of somebody else's; go test
\* does not let its tests' processes have its own output.
TestsEnd ==
    /\ child = "running"
    /\ child' = "exited"
    /\ exit' \in (IF writing = <<>> THEN {"ok", "status"} ELSE {})
                   \cup (IF mode = "prebuilt" THEN {"signal"} ELSE {})
    /\ leaked' \in (IF mode = "go test" THEN {FALSE} ELSE BOOLEAN)
    /\ writing' = <<>>
    /\ UNCHANGED <<config, said, pipe, cut, signaled, out, conv, copying, events, run, seen, main,
                   todo, err>>

Release ==
    /\ leaked
    /\ leaked' = FALSE
    /\ UNCHANGED <<config, child, exit, writing, said, pipe, cut, signaled, out, conv, copying,
                   events, run, seen, main, todo, err>>
----------------------------------------------------------------------------
(* The converter's input side: exec's copying goroutine, which calls       *)
(* out.Write, or the process go tool test2json.                            *)

\* Mutant: gotestmain does not close its end of the pipe.
EndOfOutputNotClosed ==
    /\ pipe = <<>>
    /\ child \in {"exited", "reaped"}
    /\ ~leaked
    /\ mode # "gotestmain"

\* No writer is left: gotestmain's own end is closed after m.Run.
EndOfOutput ==
    /\ pipe = <<>>
    /\ child \in {"exited", "reaped"}
    /\ ~leaked
    /\ mode = "gotestmain" => main \notin {"start", "tests"}

\* A write to an io.Pipe returns when it was read; an OS pipe has room.
MayEmit == IF mode = "prebuilt" THEN events = <<>> ELSE Len(events) < PipeCap

TakeWrite ==
    /\ copying /\ ~cut
    /\ pipe # <<>>
    /\ MayEmit
    /\ pipe' = Tail(pipe)

Copy ==
    /\ TakeWrite
    /\ events' = Append(events, Head(pipe))
    /\ IF mode = "prebuilt"
       THEN out' = Track(out, Head(pipe)) /\ conv' = ConverterWrite(conv, Head(pipe))
       ELSE UNCHANGED <<out, conv>>
    /\ UNCHANGED <<config, tests, cut, signaled, copying, run, seen, main, todo, err>>

CopyEnds ==
    /\ copying
    /\ EndOfOutput \/ cut
    /\ mode = "prebuilt" => events = <<>>
    /\ copying' = FALSE
    /\ UNCHANGED <<config, tests, pipe, cut, signaled, out, conv, events, run, seen, main, todo,
                   err>>
----------------------------------------------------------------------------
(* Run's goroutine; in "go test" Run is called by the main goroutine.      *)

EndOfEvents ==
    /\ events = <<>>
    /\ CASE mode = "go test" -> child \in {"exited", "reaped"}
         [] mode = "gotestmain" -> ~copying
         [] mode = "prebuilt" -> main \in {"await", "returned"}

ReadEvent ==
    /\ run = "reading"
    /\ events # <<>>
    /\ events' = Tail(events)
    /\ seen' = Append(seen, Head(events))
    /\ UNCHANGED <<config, tests, pipe, cut, signaled, out, conv, copying, run, main, todo, err>>

\* The TeeReader could not write what it read to stdout.
StdoutFails ==
    /\ StdoutMayFail /\ mode # "gotestmain"
    /\ run = "reading"
    /\ events # <<>>
    /\ events' = Tail(events)
    /\ run' = "stopped"
    /\ UNCHANGED <<config, tests, pipe, cut, signaled, out, conv, copying, seen, main, todo, err>>

ReadEOF ==
    /\ run = "reading"
    /\ EndOfEvents
    /\ run' = "done"
    /\ UNCHANGED <<config, tests, pipe, cut, signaled, out, conv, copying, events, seen, main, todo,
                   err>>

\* Mutant: runPrebuilt leaves the stream alone after an error.
DrainNothing == FALSE

\* io.Copy(io.Discard, stream), only in runPrebuilt.
Drain ==
    /\ mode = "prebuilt"
    /\ run = "stopped"
    /\ events # <<>>
    /\ events' = Tail(events)
    /\ UNCHANGED <<config, tests, pipe, cut, signaled, out, conv, copying, run, seen, main, todo,
                   err>>

\* Mutant: the result of Run is not waited for.
RunOverUnawaited == run # "reading" \/ main = "await"

\* The goroutine's result is there.
RunOver == run = "done" \/ (run = "stopped" /\ (mode = "prebuilt" => EndOfEvents))
----------------------------------------------------------------------------
(* os/exec on behalf of runPrebuilt: CommandContext, Cancel and WaitDelay. *)

\* Cancel may find that the binary has exited already, before Wait has.
KillTimer ==
    /\ deadline /\ ~signaled
    /\ main = "wait" /\ child \in {"running", "exited"}
    /\ signaled' = TRUE
    /\ UNCHANGED <<config, tests, pipe, cut, out, conv, copying, events, run, seen, main, todo,
                   err>>

\* The quit signal did not end the binary within WaitDelay: it is killed,
\* and its output closed.
HardKill ==
    /\ signaled /\ child = "running"
    /\ child' = "exited" /\ exit' = "signal" /\ writing' = <<>>
    /\ leaked' \in BOOLEAN
    /\ cut' = copying
    /\ UNCHANGED <<config, said, pipe, signaled, out, conv, copying, events, run, seen, main, todo,
                   err>>

Reap ==
    /\ main = "wait" /\ mode = "prebuilt"
    /\ child = "exited"
    /\ child' = "reaped"
    /\ UNCHANGED <<config, exit, leaked, writing, said, pipe, cut, signaled, out, conv, copying,
                   events, run, seen, main, todo, err>>

\* The output is still open WaitDelay after the exit. A WaitDelay of zero
\* waits for ever.
WaitDelay ==
    /\ deadline /\ child = "reaped"
    /\ copying /\ ~cut
    /\ cut' = TRUE
    /\ UNCHANGED <<config, tests, pipe, signaled, out, conv, copying, events, run, seen, main, todo,
                   err>>

\* cmd.Run's error: the exit status first, then the context's error, then
\* exec.ErrWaitDelay.
RunError ==
    CASE exit \in {"status", "signal"} -> exit
      [] exit = "ok" /\ signaled -> "deadline"
      [] exit = "ok" /\ ~signaled /\ cut -> "waitdelay"
      [] OTHER -> "nil"
----------------------------------------------------------------------------
(* The main goroutine.                                                     *)

\* Mutant: the report goes on the line the binary left unfinished.
NewlineNever == <<>>

\* A newline if the binary's output does not end in one.
Newline == IF out.n > 0 /\ out.last # NL THEN << <<NL>> >> ELSE <<>>

OkLine ==
    <<"ok">> \o (IF out.coverage # <<>> /\ BuiltWithCover
                  THEN <<coveragePrefix>> \o out.coverage ELSE <<>>)
             \o (IF out.noTests THEN <<"[no tests to run]">> ELSE <<>>)
             \o <<NL>>

\* Mutant: only an incomplete output is explained.
WhyKilledNot(e) == IF e = "waitdelay" THEN << <<"incomplete", NL>> >> ELSE <<>>

Why(e) ==
    IF signaled THEN << <<"killed", NL>> >>
    ELSE IF e = "waitdelay" THEN << <<"incomplete", NL>> >> ELSE <<>>

\* What runPrebuilt writes after the binary's output, write by write.
Trailer(e) ==
    IF e = "nil" THEN Append(Newline, OkLine)
    ELSE Why(e) \o (IF e # "status" \/ out.n = 0 THEN << <<"error", NL>> >> ELSE Newline)
                \o << <<"FAIL", NL>> >>

Start ==
    /\ main = "start"
    /\ child' = "running"
    /\ main' = CASE mode = "go test" -> "run" [] mode = "prebuilt" -> "wait"
                 [] mode = "gotestmain" -> "tests"
    /\ UNCHANGED <<config, exit, leaked, writing, said, pipe, cut, signaled, out, conv, copying,
                   events, run, seen, todo, err>>

\* cmd.Run could not start the binary.
StartFails ==
    /\ main = "start" /\ mode = "prebuilt"
    /\ err' = "start"
    /\ todo' = Trailer("start")
    /\ copying' = FALSE
    /\ main' = "trailer"
    /\ UNCHANGED <<config, tests, pipe, cut, signaled, out, conv, events, run, seen>>

\* Wait has the exit status and the copying goroutine has ended.
WaitReturns ==
    /\ main = "wait" /\ mode = "prebuilt"
    /\ child = "reaped" /\ ~copying
    /\ err' = RunError
    /\ todo' = Trailer(RunError)
    /\ main' = "trailer"
    /\ UNCHANGED <<config, tests, pipe, cut, signaled, out, conv, copying, events, run, seen>>

NextOfTrailer ==
    /\ main = "trailer" /\ todo # <<>>
    /\ events = <<>>
    /\ todo' = Tail(todo)

WriteTrailer ==
    /\ NextOfTrailer
    /\ events' = <<Head(todo)>>
    /\ out' = Track(out, Head(todo)) /\ conv' = ConverterWrite(conv, Head(todo))
    /\ UNCHANGED <<config, tests, pipe, cut, signaled, copying, run, seen, main, err>>

\* Mutant: Exited comes after Close.
PackageResultUnasked == conv.result

\* conv.Exited has the last word on the package's result, but for a skip.
PackageResult ==
    IF err # "nil" THEN "fail" ELSE IF conv.result = "skip" THEN "skip" ELSE "pass"

\* conv.Exited, conv.Close
CloseConverter ==
    /\ main = "trailer" /\ todo = <<>>
    /\ events = <<>>
    /\ events' = << <<PackageResult>> >>
    /\ main' = "close"
    /\ UNCHANGED <<config, tests, pipe, cut, signaled, out, conv, copying, run, seen, todo, err>>

\* events.Close
CloseEvents ==
    /\ main = "close"
    /\ events = <<>>
    /\ main' = "await"
    /\ UNCHANGED <<config, tests, pipe, cut, signaled, out, conv, copying, events, run, seen, todo,
                   err>>

\* gotestmain: m.Run has returned; pipeW.Close
TestsReturn ==
    /\ main = "tests" /\ child = "exited"
    /\ main' = "await"
    /\ UNCHANGED <<config, tests, pipe, cut, signaled, out, conv, copying, events, run, seen, todo,
                   err>>

\* <-done; main.go calls Run itself.
AwaitRun ==
    /\ main \in {"run", "await"} /\ RunOver
    /\ main' = IF mode = "prebuilt" THEN "returned" ELSE "reap"
    /\ UNCHANGED <<config, tests, pipe, cut, signaled, out, conv, copying, events, run, seen, todo,
                   err>>

\* cmd.Wait of go test, test2json.Wait
AwaitProcess ==
    /\ main = "reap"
    /\ IF mode = "go test" THEN child = "exited" ELSE ~copying
    /\ main' = "returned"
    /\ UNCHANGED <<config, tests, pipe, cut, signaled, out, conv, copying, events, run, seen, todo,
                   err>>

\* What run and runPrebuilt return, zero or not; Main returns m.Run's.
Succeeds == IF mode = "prebuilt" THEN err = "nil" ELSE exit = "ok"
----------------------------------------------------------------------------
TestsNext == TestsPrint \/ TestsWrite \/ TestsEnd
ConverterNext == Copy \/ CopyEnds
RunNext == ReadEvent \/ StdoutFails \/ ReadEOF \/ Drain
ExecNext == KillTimer \/ HardKill \/ Reap \/ WaitDelay
MainNext == \/ Start \/ StartFails \/ WaitReturns \/ WriteTrailer \/ CloseConverter
            \/ CloseEvents \/ TestsReturn \/ AwaitRun \/ AwaitProcess

Next == TestsNext \/ Release \/ ConverterNext \/ RunNext \/ ExecNext \/ MainNext

Spec == Init /\ [][Next]_vars

\* Goroutines run on and timers fire; the tests are not obliged to anything.
\* TakeWrite and NextOfTrailer stand for Copy and WriteTrailer: no other
\* step takes from pipe or todo.
Fairness ==
    /\ WF_pipe(TakeWrite) /\ WF_vars(CopyEnds)
    /\ WF_vars(RunNext)
    /\ WF_vars(KillTimer) /\ WF_vars(HardKill) /\ WF_vars(Reap) /\ WF_vars(WaitDelay)
    /\ WF_todo(NextOfTrailer) /\ WF_vars(CloseConverter) /\ WF_vars(CloseEvents)
    /\ WF_vars(Start \/ StartFails) /\ WF_vars(WaitReturns)
    /\ WF_vars(TestsReturn) /\ WF_vars(AwaitRun) /\ WF_vars(AwaitProcess)

FairSpec == Spec /\ Fairness

\* The tests are not wedged either.
DiligentSpec == FairSpec /\ WF_vars(TestsNext)
----------------------------------------------------------------------------
Returned == main = "returned"

\* When the program returns, Run has read every write of the tests, in order
\* and before the report, unless Run stopped with an error. Output is cut only
\* with the wait delay, and then a prebuilt binary's run has failed.
NothingLost ==
    Returned /\ run # "stopped" =>
        \/ IsPrefix(said, seen)
        \/ cut /\ ~Succeeds

\* runPrebuilt: the last line printed is the report, on a line of its own:
\* "ok" if and only if the status is zero.
ReportIsLastLine ==
    Returned /\ mode = "prebuilt" /\ run # "stopped" =>
        /\ Len(seen) > 1
        /\ LET report == seen[Len(seen) - 1]
           IN  /\ Head(report) = IF Succeeds THEN "ok" ELSE "FAIL"
               /\ \A i \in DOMAIN report : report[i] = NL <=> i = Len(report)
        /\ Len(seen) > 2 => Last(seen[Len(seen) - 2]) = NL

\* The package's span gets the result that the exit status reports, once: the
\* last event, whatever the binary printed, is a fail if and only if the status
\* is not zero.
ResultAgrees ==
    Returned /\ mode = "prebuilt" /\ run # "stopped" =>
        /\ \A i \in DOMAIN seen : seen[i] \in Results <=> i = Len(seen)
        /\ seen # <<>>
        /\ Last(seen) \in IF Succeeds THEN {<<"pass">>, <<"skip">>} ELSE {<<"fail">>}

\* The text says on a line of its own that there are no test files, before a
\* marked line and before a test's report, and no PASS or FAIL follows.
SaysSkip(text) ==
    \E s, e \in 0..Len(text) :
        /\ IsLine(text, s, e) /\ e > s + 2
        /\ text[s + 1] = skipLinePrefix /\ text[e - 1] = skipLineSuffix
        /\ \A i \in 1..s : text[i] \notin {marker, "--- PASS: "}
        /\ \A t, f \in e..Len(text) : IsLine(text, t, f) =>
             SubSeq(text, t + 1, f - 1) \notin {<<"PASS">>, <<"FAIL">>,
                                              <<marker, "PASS">>, <<marker, "FAIL">>}

\* And with status zero it is a pass, also if a test prints the line of a package
\* without test files; only a binary that printed it by itself and then ended
\* without a PASS is skipped, and not because of a line cut in two.
ResultMatchesStatus ==
    /\ ResultAgrees
    /\ Returned /\ mode = "prebuilt" /\ run # "stopped" /\ Succeeds =>
         (Last(seen) = <<"skip">> <=> SaysSkip(FlattenSeq(said) \o <<NL>>))

\* A binary the kill timer has signaled counts as failed and the output says
\* why, even if it exits with status zero at that moment.
KillsAreReported ==
    Returned /\ signaled =>
        /\ ~Succeeds
        /\ run # "stopped" => \E i \in DOMAIN seen : seen[i] = <<"killed", NL>>

\* The ok line of a binary with that output, as go test would print it.
IsOkLineOf(text, line) ==
    LET Says(coverage) ==
            line = <<"ok">> \o coverage
                   \o (IF \E s, e \in 0..Len(text) : WarnsAt(text, s, e)
                       THEN <<"[no tests to run]">> ELSE <<>>)
                   \o <<NL>>
    IN  IF BuiltWithCover /\ \E s, k, e \in 0..Len(text) : CoverageAt(text, s, k, e)
        THEN \E s, k, e \in 0..Len(text) :
                /\ FirstCoverageAt(text, s, k, e)
                /\ Says(<<coveragePrefix>> \o SubSeq(text, k + 1, e - 1))
        ELSE Says(<<>>)

\* The ok line tells what go test finds in the whole output, however the
\* binary's writes split it: the warning on a line of its own, and the rest
\* of the first short line that has "coverage: " and something after it.
OkLineTells ==
    Returned /\ mode = "prebuilt" /\ Succeeds /\ run # "stopped" =>
        \E i \in DOMAIN seen : IsOkLineOf(FlattenSeq(said), seen[i])

\* With a timeout runPrebuilt returns, whatever the binary does (it hangs,
\* ignores the quit signal, leaves processes with its output open) and also
\* if writing to stdout fails.
PrebuiltReturns == (mode = "prebuilt" /\ deadline) ~> Returned

\* Once the tests have ended and nobody holds their output open, the
\* program returns, in all three forms.
ReturnsAfterTests == (child = "exited" /\ ~leaked) ~> Returned

\* "a failing stdout does not hang otelgotest" (prebuilt_test.go:427): if
\* the tests are not wedged, the program returns.
FailingStdoutDoesNotHang == <>Returned
============================================================================
