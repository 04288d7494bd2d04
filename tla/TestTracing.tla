---------------------------- MODULE TestTracing ----------------------------
(***************************************************************************)
(* A test binary whose TestMain is oteltestctx.Main and whose tests run    *)
(* under WithTracing. Each test adopts the span context it is told, or     *)
(* starts a span of its own; its body, its helpers' goroutines, functions  *)
(* with spans and its subtests, some of them parallel, run meanwhile. The  *)
(* testing package and testctx are external: a parallel subtest waits for  *)
(* the function of its parent to return, cleanups run after all subtests,  *)
(* a failure is one of all enclosing tests too, and a context is cancelled *)
(* with the contexts derived from it.                                      *)
(***************************************************************************)
EXTENDS ErrorOrigins, FiniteSets

CONSTANTS Tests, Functions, Main,
          ParentTest,  \* the test that runs each test; Main for a top-level one
          Programs,    \* what may run: records [run, errors, helpers, ends]
          Forms(_)     \* the messages an error may be reported with

ASSUME TreeAssumption ==
    /\ ParentTest \in [Tests -> Tests \cup {Main}]
    /\ Main \notin Tests \cup Functions /\ Tests \cap Functions = {}

VARIABLES program,   \* the tests and functions that run, how many errors each test reports, the
                     \* tests with a helper's goroutine, and those whose context may end
          socket,    \* OTEL_TEST_SOCKET is set
          closed,    \* Main has called Close
          phase,     \* of each test: "new", "body", "parked", "returned", "describing", "ended", "done"
          adopted,   \* the tests that were told their span context
          testSpan,  \* the own test span in each test's context, or Main
          span,      \* the spans of tests and functions
          ctxErr,    \* Err() of each test's context
          snapshot,  \* syncEnd and ctxErr, taken when the function returned
          returns,   \* history: the functions that returned, in order, and their contexts' Err()
          failed, skipped,
          errorsAcc, \* the messages accumulated, as one message
          reported,  \* history: the errors each test has reported before its span ended, in order
          late,      \* history: the tests that only a helper failed, when the span had ended
          helper,    \* a helper's goroutine in the middle of its call of Error
          frames     \* of each test, the calls in progress: the function, and the errors it was returned

vars == <<program, socket, closed, phase, adopted, testSpan, span, ctxErr, snapshot, returns,
          failed, skipped, errorsAcc, reported, late, helper, frames>>
contexts == <<adopted, testSpan, ctxErr>>
verdicts == <<failed, skipped, errorsAcc, reported, late, helper>>

NoSpan == [parent |-> <<>>, links |-> <<>>, status |-> "unset", desc |-> <<>>, end |-> 0, ends |-> 0]
Started(s) == span[s] # NoSpan
Ended(s, links, status, desc, end) ==
    [parent |-> s.parent, links |-> links, status |-> status, desc |-> desc, end |-> end,
     ends |-> s.ends + 1]
Frame(f) == [fn |-> f, errs |-> <<>>]

Init ==
    /\ program \in Programs /\ socket \in BOOLEAN /\ closed = FALSE
    /\ phase = [t \in Tests |-> "new"]
    /\ adopted = {} /\ testSpan = [t \in Tests |-> Main] /\ ctxErr = [t \in Tests |-> ""]
    /\ span = [s \in Tests \cup Functions |-> NoSpan]
    /\ snapshot = [t \in Tests |-> [end |-> 0, err |-> ""]] /\ returns = <<>>
    /\ failed = {} /\ skipped = {}
    /\ errorsAcc = [t \in Tests |-> <<>>] /\ reported = [t \in Tests |-> <<>>]
    /\ late = {} /\ helper = [t \in Tests |-> "idle"]
    /\ frames = [t \in Tests |-> <<Frame(t)>>]

-----------------------------------------------------------------------------
Children(t) == {c \in Tests : ParentTest[c] = t}
UpClosed(S) == \A c \in S : ParentTest[c] # Main => ParentTest[c] \in S
\* The least closed set with t: t, its parent test and so on.
WithAncestors(t) == {a \in Tests : \A S \in SUBSET Tests : t \in S /\ UpClosed(S) => a \in S}
Below(t) == {c \in Tests : t \in WithAncestors(c)}

\* The goroutine of t's function is not blocked in t.Run or t.Parallel.
Free(t) == phase[t] = "body" /\ \A c \in Children(t) : phase[c] \in {"new", "parked", "done"}
MayRun(t) ==
    /\ t \in program.run /\ phase[t] = "new" /\ ~closed
    /\ IF ParentTest[t] = Main THEN \A c \in Children(Main) : phase[c] \in {"new", "done"}
       ELSE Free(ParentTest[t]) /\ Len(frames[ParentTest[t]]) = 1

\* The span in the context of t's function: the one it was told, or its own.
InContext(t) == IF t \in adopted THEN <<"remote", t>> ELSE <<"own", t>>
\* The span a test starts in: that of its parent test, or the one Main was given.
Inherited(t) == IF ParentTest[t] = Main THEN <<"propagated", Main>> ELSE InContext(ParentTest[t])
InheritedTestSpan(t) == IF ParentTest[t] = Main THEN Main ELSE testSpan[ParentTest[t]]
InheritedErr(t) == IF ParentTest[t] = Main THEN "" ELSE ctxErr[ParentTest[t]]

\* The span context is requested, and the answer is a valid one.
Adopt(t) ==
    /\ MayRun(t) /\ socket
    /\ adopted' = adopted \cup {t}
    /\ testSpan' = [testSpan EXCEPT ![t] = InheritedTestSpan(t)]
    /\ ctxErr' = [ctxErr EXCEPT ![t] = InheritedErr(t)]
    /\ phase' = [phase EXCEPT ![t] = "body"]
    /\ UNCHANGED <<program, socket, closed, span, snapshot, returns, frames, verdicts>>

StartOwn(t) ==
    LET link == InheritedTestSpan(t)
    IN  /\ MayRun(t)
        /\ span' = [span EXCEPT ![t] = [NoSpan EXCEPT !.parent = Inherited(t),
                                          !.links = IF link = Main THEN <<>> ELSE <<link>>]]
        /\ testSpan' = [testSpan EXCEPT ![t] = t]
        /\ ctxErr' = [ctxErr EXCEPT ![t] = InheritedErr(t)]
        /\ phase' = [phase EXCEPT ![t] = "body"]
        /\ UNCHANGED <<program, socket, closed, adopted, snapshot, returns, frames, verdicts>>

Parallel(t) ==
    /\ Free(t) /\ ParentTest[t] # Main /\ phase[ParentTest[t]] = "body"
    /\ phase' = [phase EXCEPT ![t] = "parked"]
    /\ UNCHANGED <<program, socket, closed, contexts, span, snapshot, returns, frames, verdicts>>
Resume(t) ==
    /\ phase[t] = "parked" /\ phase[ParentTest[t]] = "returned"
    /\ phase' = [phase EXCEPT ![t] = "body"]
    /\ UNCHANGED <<program, socket, closed, contexts, span, snapshot, returns, frames, verdicts>>

-----------------------------------------------------------------------------
(* Functions with spans, which end them with EndWithCause                  *)

Call(t, f) ==
    /\ Free(t) /\ f \in program.run \ Tests /\ ~Started(f)
    /\ LET caller == Last(frames[t]).fn
       IN span' = [span EXCEPT ![f] = [NoSpan EXCEPT !.parent = IF caller = t THEN InContext(t)
                                                                 ELSE <<"own", caller>>]]
    /\ frames' = [frames EXCEPT ![t] = Append(@, Frame(f))]
    /\ UNCHANGED <<program, socket, closed, phase, contexts, snapshot, returns, verdicts>>

\* The errors a call may return: none, one of its own, one it was returned,
\* wrapped or not, or all it was returned, joined, also with one of its own.
ErrorsOf(fr) ==
    {NilError} \cup Range(fr.errs)
      \cup {<<Word("while")>> \o fr.errs[i] : i \in DOMAIN fr.errs}
      \cup {FlattenSeq(fr.errs), <<Word(fr.fn)>> \o FlattenSeq(fr.errs), <<Word(fr.fn)>>}

ReturnFrom(t, err) ==
    LET fr == Last(frames[t])
        r == EndWithCause(fr.fn, err)
        below == Front(frames[t])
        n == Len(below)
    IN  /\ Free(t) /\ Len(frames[t]) > 1
        /\ span' = [span EXCEPT ![fr.fn] = Ended(@, r.links, r.status, r.desc, @.end)]
        /\ frames' = [frames EXCEPT ![t] =
             IF r.err = NilError THEN below ELSE [below EXCEPT ![n].errs = Append(@, r.err)]]
        /\ UNCHANGED <<program, socket, closed, phase, contexts, snapshot, returns, verdicts>>

-----------------------------------------------------------------------------
(* Failures                                                                *)

FailedBy(t) == failed \cup WithAncestors(t)
Accumulated(t, msg) == [errorsAcc EXCEPT ![t] = @ \o cleanErrorMessage(msg)]
\* An error the test's function has: its own, those it was returned, or all.
OwnErrors(t) == ErrorsOf(frames[t][1]) \ {NilError}

\* t.Error, by the test's function. An adopted test accumulates nothing.
Error(t, err, msg) ==
    /\ Free(t) /\ Len(frames[t]) = 1 /\ Len(reported[t]) < program.errors[t]
    /\ failed' = FailedBy(t)
    /\ errorsAcc' = IF t \in adopted THEN errorsAcc ELSE Accumulated(t, msg)
    /\ reported' = [reported EXCEPT ![t] = Append(@, err)]
    /\ UNCHANGED <<program, socket, closed, phase, contexts, span, snapshot, returns, frames,
                   skipped, late, helper>>

\* t.Error by a goroutine that may outlive the function: the logger and the
\* test are told one after the other.
Unfinished(t) == phase[t] \in {"body", "parked", "returned", "describing", "ended"}
HelperLogs(t) ==
    /\ Unfinished(t) /\ helper[t] \in {"idle", "failed"} /\ t \in program.helpers \ adopted
    /\ reported' = IF phase[t] = "ended" THEN reported
                   ELSE [reported EXCEPT ![t] = Append(@, <<Word("helper")>>)]
    /\ errorsAcc' = Accumulated(t, <<PlainLine(<<Word("helper")>>)>>)
    /\ helper' = [helper EXCEPT ![t] = IF @ = "idle" THEN "logged" ELSE "over"]
    /\ UNCHANGED <<program, socket, closed, phase, contexts, span, snapshot, returns, frames,
                   failed, skipped, late>>
HelperFails(t) ==
    /\ Unfinished(t) /\ helper[t] \in {"idle", "logged"} /\ t \in program.helpers \ adopted
    /\ failed' = FailedBy(t)
    /\ late' = IF phase[t] = "ended" /\ t \notin failed THEN late \cup {t} ELSE late
    /\ helper' = [helper EXCEPT ![t] = IF @ = "idle" THEN "failed" ELSE "over"]
    /\ UNCHANGED <<program, socket, closed, phase, contexts, span, snapshot, returns, frames,
                   skipped, errorsAcc, reported>>

\* A deadline passes, somebody cancels, or WithTimeout's cancel unwinds.
Interrupt(t, err) ==
    /\ t \in program.ends /\ phase[t] \in {"body", "parked", "returned"} /\ ctxErr[t] = ""
    /\ ctxErr' = [c \in Tests |-> IF c \in Below(t) /\ phase[c] # "new" /\ ctxErr[c] = ""
                                  THEN err ELSE ctxErr[c]]
    /\ UNCHANGED <<program, socket, closed, phase, adopted, testSpan, span, snapshot, returns, frames,
                   verdicts>>

-----------------------------------------------------------------------------
(* The end of a test                                                       *)

\* The deferred function: it runs when the test's function returns, or is left
\* by Skip or FailNow.
Snapshot(t) == [end |-> Len(returns) + 1, err |-> ctxErr[t]]
ReturnTest(t, skips) ==
    /\ Free(t) /\ Len(frames[t]) = 1
    /\ returns' = Append(returns, [test |-> t, err |-> ctxErr[t]])
    /\ snapshot' = IF t \in adopted THEN snapshot ELSE [snapshot EXCEPT ![t] = Snapshot(t)]
    /\ skipped' = IF skips THEN skipped \cup {t} ELSE skipped
    /\ phase' = [phase EXCEPT ![t] = "returned"]
    /\ UNCHANGED <<program, socket, closed, contexts, span, frames, failed, errorsAcc, reported,
                   late, helper>>

\* Mutant: the verdict is taken when the function has returned.
CleaningEarly(t) == phase[t] = "returned"

\* The cleanups of t run.
Cleaning(t) == phase[t] = "returned" /\ \A c \in Children(t) : phase[c] \in {"new", "done"}

\* Mutant: the span ends when its status is set.
EndSpanNow(t, status, desc, end) ==
    span' = [span EXCEPT ![t] = Ended(@, @.links, status, desc, Len(returns))]

EndSpan(t, status, desc, end) ==
    span' = [span EXCEPT ![t] = Ended(@, @.links, status, desc, end)]

\* The span's end is the last thing the cleanup does. What follows the check of
\* Failed changes nothing that others see, and is one step with it; but the test
\* is over, and its helpers may no longer fail it, only when testing says so.
Quiet(t) == IF t \in skipped THEN "test skipped" ELSE "test passed"
CleanupUnfailed(t) ==
    LET end == snapshot[t].end  err == snapshot[t].err
    IN  /\ Cleaning(t) /\ t \notin adopted
        /\ \/ err # "" /\ EndSpan(t, "error", <<PlainLine(<<Word("test interrupted"), Word(err)>>)>>, end)
           \/ err = "" /\ t \notin failed /\ EndSpan(t, "ok", <<PlainLine(<<Word(Quiet(t))>>)>>, end)
        /\ phase' = [phase EXCEPT ![t] = "ended"]
        /\ UNCHANGED <<program, socket, closed, contexts, snapshot, returns, frames, verdicts>>

\* Failed has said yes; String is called next.
CleanupFailed(t) ==
    /\ Cleaning(t) /\ t \notin adopted /\ snapshot[t].err = "" /\ t \in failed
    /\ phase' = [phase EXCEPT ![t] = "describing"]
    /\ UNCHANGED <<program, socket, closed, contexts, span, snapshot, returns, frames, verdicts>>

Description(t) == IF errorsAcc[t] = <<>> THEN <<PlainLine(<<Word("test failed")>>)>> ELSE errorsAcc[t]
Describe(t) ==
    /\ phase[t] = "describing"
    /\ EndSpan(t, "error", Description(t), snapshot[t].end)
    /\ phase' = [phase EXCEPT ![t] = "ended"]
    /\ UNCHANGED <<program, socket, closed, contexts, snapshot, returns, frames, verdicts>>

\* The cleanups have run, an adopted test's with none of these, and testing
\* reports the test and marks it done.
TestDone(t) ==
    /\ phase[t] = "ended" \/ (Cleaning(t) /\ t \in adopted)
    /\ phase' = [phase EXCEPT ![t] = "done"]
    /\ UNCHANGED <<program, socket, closed, contexts, span, snapshot, returns, frames, verdicts>>

\* m.Run has returned, and Main calls Close.
MainCloses ==
    /\ ~closed /\ \A t \in Tests : phase[t] \in {"new", "done"}
    /\ closed' = TRUE
    /\ UNCHANGED <<program, socket, phase, contexts, span, snapshot, returns, frames, verdicts>>

Step(t) ==
    \/ Adopt(t) \/ StartOwn(t) \/ Parallel(t) \/ Resume(t)
    \/ \E f \in Functions : Call(t, f)
    \/ \E err \in ErrorsOf(Last(frames[t])) : ReturnFrom(t, err)
    \/ \E err \in OwnErrors(t) : \E msg \in Forms(err) : Error(t, err, msg)
    \/ HelperLogs(t) \/ HelperFails(t)
    \/ \E err \in {"deadline exceeded", "canceled"} : Interrupt(t, err)
    \/ \E skips \in BOOLEAN : ReturnTest(t, skips)
    \/ CleanupUnfailed(t) \/ CleanupFailed(t) \/ Describe(t) \/ TestDone(t)
Next == MainCloses \/ \E t \in Tests : Step(t)
Spec == Init /\ [][Next]_vars

-----------------------------------------------------------------------------
Own(t) == phase[t] = "done" /\ t \notin adopted
Returned(t) == CHOOSE i \in DOMAIN returns : returns[i].test = t

\* When a test is over, its span says what go test says of it: failed if its own
\* code, a helper's goroutine or a subtest failed it, also a parallel one after
\* its function had returned; interrupted if its context ended before that, and
\* not because of the cancel that unwinds after it. The one failure it misses is
\* of a helper that was the first to fail the test, after the span had ended and
\* before testing took the test to be done; the tests around it do not miss it.
VerdictStands ==
    \A t \in Tests : Own(t) =>
        (span[t].status = "error" <=> t \in failed \ late \/ returns[Returned(t)].err # "")

\* A test's own span lasts while its function runs, not while parallel subtests
\* do, hangs under the span its caller worked under, and has been ended, once,
\* when Main closes the exporters; so have the spans of functions.
SpanCoversFunction ==
    /\ \A t \in Tests \ adopted : phase[t] # "new" =>
         /\ Own(t) => span[t].end = Returned(t)
         /\ LET p == ParentTest[t]
            IN span[t].parent = IF p = Main THEN <<"propagated", Main>>
                                ELSE IF span[p] = NoSpan THEN <<"remote", p>> ELSE <<"own", p>>
    /\ closed => \A s \in Tests \cup Functions : Started(s) => span[s].ends = 1
    /\ closed => \A t \in adopted : span[t] = NoSpan
=============================================================================
