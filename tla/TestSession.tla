---------------------------- MODULE TestSession ----------------------------
(***************************************************************************)
(* A run of otelgotest with its socket (cmd/otelgotest/main.go): go test   *)
(* writes events to a pipe (GoTesting), Run reads them one by one          *)
(* (GoTestRun) and registers the spans it starts (SpanContextRegistry), a  *)
(* goroutine per connection serves them, and the tests, through            *)
(* oteltestctx, wait for theirs before their body runs.                    *)
(***************************************************************************)
EXTENDS GoTestRun, FiniteSets

CONSTANTS Streaming, MaxRound, MaxBegun, MaxStream, MaxPrint, MayDie, MayKill, Panic,
          Requests, \* the tests use oteltestctx with OTEL_TEST_SOCKET
          Timers    \* the 30 s deadlines may pass

ASSUME SessionAssumption == Texts \subseteq Seq(STRING) /\ Panic \in Seq(Seq(STRING))

\* What the proofs about texts assume, and the sessions TLC runs have: what a
\* test says is lines, none of them one of the testing package's own or the start
\* of the signature; the panic go test -timeout causes starts with the signature.
Orderly ==
    /\ \A f \in Texts : f # <<>> /\ Last(f) = NL /\ ~IsFrame(f) /\ Hits(NewDump, f) = {}
    /\ \A n \in DOMAIN Panic : Panic[n] # <<>>
    /\ Panic = <<>> \/ IsPrefix(Signature, FlattenSeq(Panic))

VARIABLES phase, parallel, begun, verdict, failed, root, round, speaker, said, owed, asking,
          stream, eof,
          waiters, closed, buf, shut, pc, want, res, expired,
          got \* per run of a test: not asked, or the span adopted, or 0

Go == INSTANCE GoTesting

\* A call is one run of a test: <<its key, the number of the run>>.
Calls == Keys \X (1..MaxRound)

Reg == INSTANCE SpanContextRegistry WITH
    spans <- registered, Callers <- Calls, SpanContexts <- Nat \ {0}, NoContext <- 0

goVars == <<phase, parallel, begun, verdict, failed, root, round, speaker, said, owed, asking,
            stream, eof>>
regVars == <<waiters, closed, buf, shut, pc, want, res, expired>>
vars == <<runVars, goVars, regVars, got>>

NotAsked == -1

Init ==
    /\ RunInit
    /\ Go!GoInit
    /\ want = [c \in Calls |-> c[1]]
    /\ Reg!RegInit
    /\ got = [c \in Calls |-> NotAsked]

LastRun(k) == <<k, Len(begun[k])>>
----------------------------------------------------------------------------
\* go test and its test binaries.
GoStep == Go!GoNext /\ UNCHANGED <<runVars, regVars, got>>

Read == stream # <<>> /\ stream' = Tail(stream)

\* Run handles the next event; Handle says what becomes of registered, which
\* is Register's r.spans.
Consume ==
    /\ Read
    /\ Handle(Head(stream))
    /\ \/ UNCHANGED registered /\ UNCHANGED regVars
       \/ \E k \in Keys : /\ registered'[k] # registered[k]
                          /\ Reg!Register(k, registered'[k])
    /\ UNCHANGED <<phase, parallel, begun, verdict, failed, root, round, speaker, said,
                   owed, asking, eof, got>>

RunEnds ==
    /\ eof /\ stream = <<>>
    /\ Return
    /\ UNCHANGED <<goVars, regVars, got>>

\* run's deferred registry.Close.
CloseRegistry ==
    /\ returned /\ ~closed
    /\ Reg!Close
    /\ UNCHANGED <<registered, runVars, goVars, got>>
----------------------------------------------------------------------------
\* requestSpanContext: dial, send the key, wait for the line.
Ask(k) ==
    /\ Requests
    /\ Go!Free(k) /\ ~eof /\ root[k[1]] \in {"running", "returned"}
    /\ got[LastRun(k)] = NotAsked
    /\ Go!Children(k) = {}
    /\ asking' = asking \cup {k}
    /\ got' = [got EXCEPT ![LastRun(k)] = 0]
    /\ UNCHANGED <<runVars, phase, parallel, begun, verdict, failed, root, round, speaker, said,
                   owed, stream, eof, regVars>>

\* handleSpanContextConn, whose client may be gone by the time it looks.
Serve(c) ==
    /\ got[c] # NotAsked
    /\ Reg!WaitFor(c) \/ Reg!Select(c)
    /\ UNCHANGED <<runVars, goVars, got>>

\* The deadline of the ctx that the handler waits with.
ServerTimeout(c) ==
    /\ Timers
    /\ pc[c] = "select" /\ c \notin expired
    /\ Reg!Expire(c)
    /\ UNCHANGED <<runVars, goVars, got>>

\* The response, or a connection closed without one.
Answered(k) ==
    /\ k \in asking
    /\ pc[LastRun(k)] = "returned"
    /\ got' = [got EXCEPT ![LastRun(k)] = res[LastRun(k)]]
    /\ asking' = asking \ {k}
    /\ UNCHANGED <<runVars, phase, parallel, begun, verdict, failed, root, round, speaker, said,
                   owed, stream, eof, regVars>>

\* The client's own deadline: the test goes on with a span of its own.
ClientTimeout(k) ==
    /\ Timers
    /\ k \in asking
    /\ asking' = asking \ {k}
    /\ UNCHANGED <<runVars, phase, parallel, begun, verdict, failed, root, round, speaker, said,
                   owed, stream, eof, regVars, got>>

Next ==
    \/ GoStep \/ Consume \/ RunEnds \/ CloseRegistry
    \/ \E k \in Keys : Ask(k) \/ Answered(k) \/ ClientTimeout(k)
    \/ \E c \in Calls : Serve(c) \/ ServerTimeout(c)

Spec == Init /\ [][Next]_vars

\* The processes of otelgotest run on, and so does a client with a response;
\* nothing makes a test do anything, or a deadline pass. Run takes every event
\* it reads, so that reading is its fairness.
FairSpec ==
    /\ Spec
    /\ WF_stream(Read)
    /\ \A c \in Calls : WF_vars(Serve(c))
    /\ \A k \in Keys : WF_vars(Answered(k))
----------------------------------------------------------------------------
\* Which run of its test a test span stands for: events arrive in order.
RunOf(i) ==
    Cardinality({j \in 1..i : /\ spanTab[j].kind = "test"
                              /\ Of(spanTab, j, <<spanTab[i].pkg, spanTab[i].test>>)})

\* Run has handled the package's result.
Settled(p) == \E i \in 1..lastSpan : /\ spanTab[i].kind = "package" /\ spanTab[i].pkg = p
                                     /\ spanTab[i].ends > 0

\* A test's span is under the span of the very run of the test that called
\* t.Run for it, or under its package's span, although parallel tests
\* interleave and the callers have moved on by the time Run reads the event
\* (gotest.go:305-309, 477-498). It holds while at most three names lie on a
\* path: with four, the longest active prefix may be a parallel subtest "B/C"
\* of A, and the caller A/B (MCSessionDeep.cfg).
ParentIsCaller ==
    \A i \in {j \in 1..lastSpan : spanTab[j].kind = "test"} :
      LET s == spanTab[i]
          call == begun[<<s.pkg, s.test>>][RunOf(i)]
          above == spanTab[s.parent]
      IN  /\ s.parent # 0 /\ above.pkg = s.pkg
          /\ IF call[1] = NoTest THEN above.kind = "package"
             ELSE above.kind = "test" /\ above.test = call[1] /\ RunOf(s.parent) = call[2]

\* No span is ended twice, nor its streams closed twice: a paused test's span
\* ends at its pause, its continuation with its result, and a package that
\* fails ends what is left (gotest.go:279-288, 540-550).
EndedOnce == \A i \in 1..lastSpan : spanTab[i].ends <= 1 /\ spanTab[i].eofs <= 1

\* Once a package has its result nothing of it is left open: every span has
\* ended, and the log streams of every test and of the package are closed,
\* also when tests were cut off (gotest.go:254-291, 431-469).
NothingLeftOpen ==
    \A i \in 1..lastSpan :
      Settled(spanTab[i].pkg) =>
        /\ spanTab[i].ends = 1
        /\ WithLogs /\ spanTab[i].kind # "continue" => spanTab[i].eofs = 1

\* The status of span i when its package has its result: of a run of a test
\* only the last span has one, for it was running when the result came.
Expected(i) ==
    LET s == spanTab[i]
        k == <<s.pkg, s.test>>
        run == RunOf(i)
        continued == \E j \in (i + 1)..lastSpan : Of(spanTab, j, k) /\ RunOf(j) = run
    IN  IF continued THEN {"unset"}
        ELSE IF run < Len(begun[k]) THEN {"pass", "fail", "skip"}
        ELSE IF phase[k] \in {"new", "done"} THEN {verdict[k]}
        ELSE IF phase[k] = "paused" THEN {"unset"}
        ELSE {"unfinished"}

\* The verdict is on the span that was running when it came: a test's own, or
\* the continuation of a parallel one; a test cut off while it ran ends in
\* error, and one cut off while paused says nothing (gotest.go:282-287,
\* 608-654).
VerdictsRecorded ==
    \A i \in 1..lastSpan :
      spanTab[i].kind # "package" /\ Settled(spanTab[i].pkg) =>
        spanTab[i].status \in Expected(i)

\* A package's span says "pass" only of a package in which every test that
\* began has its result and none failed, and tells that from one that ran
\* nothing at all (gotest.go:431-470).
PackageVerdicts ==
    \A i \in 1..lastSpan :
      LET s == spanTab[i]
          tests == Go!Of(s.pkg)
      IN  s.kind = "package" /\ s.ends > 0 /\ s.status # "fail" =>
            /\ s.pkg \notin failed
            /\ \A k \in tests : phase[k] \in {"new", "done"}
            /\ s.status = "pass" <=> \E k \in tests : begun[k] # <<>>

Texted(what, k) ==
    FlattenSeq([n \in DOMAIN out |-> IF out[n].what \in what /\ <<out[n].pkg, out[n].test>> = k
                                     THEN out[n].text ELSE <<>>])

\* Without -v the output of the tests that failed or were cut off is printed,
\* once and in order, and of the tests that passed nothing (gotest.go:392-405,
\* 616-639), whatever a timeout's panic was mixed into (gotest.go:368-380).
FailuresPrinted ==
    \A k \in Keys : Settled(k[1]) => Texted({"buffered", "unfinished"}, k) = owed[k]

\* The panic is printed with the package, as often as it is logged there.
PanicPrinted ==
    \A i \in 1..lastSpan :
      spanTab[i].kind = "package" /\ Settled(spanTab[i].pkg) =>
        Texted({"output", "dump"}, <<spanTab[i].pkg, NoTest>>) = FlattenSeq(logged[i])

\* All that a run of a test said is logged to its own span, also what came
\* after a pause; at most the start of a panic that turned out to be one is
\* logged there, too. A continuation logs nothing (gotest.go:540-550).
LogsWhole ==
    \A i \in 1..lastSpan :
      LET k == <<spanTab[i].pkg, spanTab[i].test>>
          log == FlattenSeq(logged[i])
          rest == SubSeq(log, Len(said[k]) + 1, Len(log))
      IN  /\ spanTab[i].kind = "continue" => log = <<>>
          /\ spanTab[i].kind = "test" /\ Settled(k[1]) /\ RunOf(i) = Len(begun[k]) =>
               /\ IsPrefix(said[k], log)
               /\ IsStrictPrefix(rest, Signature)

\* A test that is told a span is told one of its own test, the span of a run or
\* a continuation of it, and of no run that begins later, however the requests,
\* the deadlines and Run interleave (registry.go:32-68, main.go:237-257). With
\* -count it may be one of an earlier run, which the registry still has when Run
\* has not read the event of the run that asks (AdoptsOwnRun is violated then).
AdoptsOwnTest ==
    \A c \in Calls : got[c] > 0 =>
      LET s == spanTab[got[c]]
      IN  /\ Of(spanTab, got[c], c[1])
          /\ RunOf(IF s.kind = "test" THEN got[c] ELSE s.parent) \in 1..c[2]

\* What holds with MaxRound = 1 only: the span is of the very run that asks.
AdoptsOwnRun ==
    \A c \in Calls : got[c] > 0 =>
      LET s == spanTab[got[c]]
      IN  /\ Of(spanTab, got[c], c[1])
          /\ RunOf(IF s.kind = "test" THEN got[c] ELSE s.parent) = c[2]

\* A test that asks for its span is answered, without any deadline: the event
\* that starts it is in the pipe before it asks, and Run reads on.
RequestsAnswered == \A k \in Keys : k \in asking ~> k \notin asking

\* When Run returns, the streams of every span are closed.
StreamsClosed ==
    returned => \A i \in 1..lastSpan : spanTab[i].kind # "continue" => spanTab[i].eofs = 1
============================================================================
