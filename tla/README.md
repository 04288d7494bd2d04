# A verification of otel-go's test tracing

`otel-go` traces test runs. `otelgotest` runs `go test -json` (or a test binary
built earlier), turns the event stream into OpenTelemetry spans and log records
while the tests run, prints what `go test` would have printed, and lets the
tests adopt their spans over a Unix socket. Around it the repository has a
library that sets up providers and exporters, a middleware for tests, a
profiler and converters. This directory models that system in TLA+, checks the
models with TLC and proves their central invariants with TLAPS.

## 1. Inventory

| Component | Code | State | Operations | Hard parts | Correct when |
|---|---|---|---|---|---|
| Span context registry | `gotest/registry.go` | map of contexts, map of waiting channels, closed flag | Register, WaitFor, Close | waiters, deadlines and Close race; sends under the lock | no send blocks, no wake-up lost, every settled request answered |
| Event processor | `gotest/gotest.go` `Run` | maps of tests, active tests, packages, run counts, dumps | one case per event, end of stream | parallel tests interleave, names contain `/`, results go missing | the trace is the call tree, each span ends once, nothing is lost or printed twice |
| Timeout dump | `gotest/gotest.go` `timeoutDump` | partial line, its owner, pending copy, counters | scan, copyTo, copyLine, flush | output arrives in arbitrary fragments, attributed to the wrong test | found exactly at the signature, logged whole, copied within its bound |
| otelgotest | `cmd/otelgotest/main.go` | a child, a pipe, a listener, a goroutine per connection | run, serveSpanContexts, handleSpanContextConn | requests overtake the event stream; early return of Run | requests are answered, and with a span of the right test |
| Prebuilt binaries | `cmd/otelgotest/prebuilt.go` | pipes binary -> converter -> Run, kill timer | runPrebuilt | a reader that stops, timers against exit | terminates, one package result |
| test2json | `internal/test2json/test2json.go` | line buffer, held-back results, current test | Write, flushReport, Close, Exited | partial lines, markers in mid line | one result per test, output attributed in order |
| oteltestctx | `oteltestctx/*.go` | per test: own or adopted span, accumulated errors | WithTracing, requestSpanContext, Main | helper goroutines, parallel subtests that outlive the function, contexts that end | one span per test, lasting while its function runs, with its errors and verdict |
| Live export | `live.go`, `exporters.go` | bounded queues of span records, batches | OnStart, OnEnd, ExportSpans, Shutdown | live and final record of a span apart in time; two forwards of one batch | nothing is told of a span after the completed span |
| Init and Close | `init.go` | global providers and exporters | Init, Configured*Exporter, Close | order of shutdown, its deadline | what ended before Close and fitted the queues is delivered |
| Span log streams | `logging.go` | a writer per stream | Write, Close | EOF is a record of its own | EOF is the last record, once |
| Profiler | `wcprof/wcprof.go` | span counter | Task, Acquire, Complete | spans dropped or still on their way | who has the declared number of spans has all |
| gotestmain | `gotestmain/gotestmain.go` | redirected stdout, pipe, converter | Main | restoring and draining stdout | exit code kept, no output lost |
| OTLP transforms | `transform.go` | none | to the wire and back, for three signals | grouping keys, nested values, times as unsigned numbers | a record crosses processes unchanged, once, in order |
| Error origins | `span.go` | the error itself | EndWithCause, TrackOrigin, ParseErrorOrigins | errors wrapped, joined, reported through testify | an error leads to the span it came from |
| JUnit conversion | `junit/`, `cmd/oteljunit` | none | Run | – | not modelled |
| Constants and wrappers | `env.go`, `attrs.go`, `metrics.go` | none | – | – | not modelled |

How they interact: `go test` writes events to a pipe; `Run` reads them one at
a time, starts and ends spans in the SDK, writes log records, and registers
each span it starts; the tests, through `oteltestctx`, dial the socket before
their body runs; a goroutine per connection waits in the registry; when `run`
returns it closes the registry. Two of these flows race: a test's request may
reach the registry before or after `Run` reads the event that starts the test.
Inside the test binary the same tests may trace themselves, with spans of their
own. Every program exports through the SDK's processors, live ones too, to an
OTLP endpoint; where that is an engine, it imports what it receives
(`transform.go`) and forwards it to its own collectors (`exporters.go`).

The hazards that follow from this are listed, each at its line, in
`PROJECT.json`. Two have no property: the data race at `prebuilt.go:165`, whose
outcomes differ in nothing that is modelled, and a `go test` that is killed
(`gotest.go:666`), where the code leaves streams open (section 4).

## 2. Modules

| Module | Models |
|---|---|
| `SpanContextPromise` | what the registry promises, without channels: open, settled and answered requests |
| `SpanContextRegistry` | `registry.go`: each critical section an action, each branch of the select an action |
| `SpanContextRegistryProofs` | invariants of the registry, and that it implements the promise |
| `TimeoutDump` | `timeoutDump` as operators on records: `Route` (scan and what `Run` does with its answer), `CopyTo`, `CopyLine`, `Flush` |
| `DumpStream` | a package's output, in events that cut it anywhere, fed to `TimeoutDump`'s operators |
| `DumpProofs` | what `timeoutDump` finds, logs and copies of any output in any events |
| `GoTestRun` | `Run`: its maps are `spans` + `buffered` (one `testSpan` per key), `activeTests`, `pkgSpans`, `pkgRuns`, `dumps`; `out` is what it wrote to `cfg.output`; `spanTab` and `logged` are what the SDK recorded. `Handle(ev)` is the switch, `Return` the end of the stream |
| `GoTestRunProofs` | invariants of `GoTestRun` for any sequence of events; what `Run` records of any stream that a run of tests can send |
| `GoTesting` | external: `go test`, the `testing` package and test2json as `Run` sees them |
| `TestSession` | the composition: `GoTesting`'s pipe, `GoTestRun`, `SpanContextRegistry` and the socket's clients and handlers |
| `SessionProofs` | that every step of a session is a step of `GoTestRun` and of the registry; what `go test` can send, and so what the trace of a session is; what a test is told |
| `OutputTracker` | `outputTracker` of `prebuilt.go`: what is remembered from write to write |
| `Pipeline` | the processes and pipes of `main.go`, `prebuilt.go` and `gotestmain.go`: tests, converter, `Run` as a reader, `os/exec`'s timers, the main goroutine |
| `SequenceFacts` | induction over numbers, and the facts on sequences that proofs share |
| `PipelineProofs` | what an `outputTracker` knows of a text, whatever writes it came in; what `Run` has read when the program returns |
| `Test2Json` | the converter: `lineBuffer`, `handleInputLine`, `flushReport`, `Exited`, `Close` |
| `Wire` | `transform.go`: times on the wire, attributes converted one by one, records grouped by resource and scope |
| `Transform` | `transform.go`: what `Wire` leaves open, that is, spans, log records, metrics and nested values to the wire and back |
| `Relay` | batches that cross processes, `Transform` at each crossing |
| `LiveExport` | a program that exports while it runs (`live.go`, `init.go`, `wcprof.go`) and an engine that forwards (`exporters.go`), with `Wire` in between |
| `ExportProofs` | what collectors are told, for any number of spans and any queues |
| `ErrorOrigins` | `span.go`'s stamps on errors, and `cleanErrorMessage` |
| `TestTracing` | `WithTracing` and `Main` of `oteltestctx`, in a test binary with parallel subtests, helpers and functions with spans |
| `TestTracingProofs` | what the spans say of tests and functions, for any tests |
| `MC*` | instances for TLC, with the properties of `Test2Json` and `OriginsTraced` |

Correspondence. A key (`package/test` in the code) is a pair; a test name is
the sequence of its `/`-separated parts, so a prefix that ends at a `/` is a
sequence prefix. A text is a sequence of lumps: the three parts of the panic's
signature, a newline, the line heads the code looks for, anything else.
Timestamps, attributes and wording are left out. `GoTestRun`'s `spans` keeps
of a `testSpan` the original span (`ts.ctx`, and whose streams it carries), the
current one (`ts.span`) and `paused`. A map that is walked in Go's random order
(`activeTests`, `dumps`) is walked nondeterministically. `TestSession` reads an
event and handles it in one step: nobody else looks at `Run`'s variables, and
`Register` is at most once in an event and is the last thing `Run` does with it.
The channel of a request is part of the registry; the socket's two ends are
`Ask`/`Answered`/`ClientTimeout` (the test) and `Serve`/`ServerTimeout` (the
handler).

`Pipeline` has one variable per process (`child`, `copying`, `run`, `main`), the
two pipes (`pipe`, `events`) and histories of what was printed and read (`said`,
`seen`). A write blocks while its pipe is full; the `io.Pipe` of `runPrebuilt`
holds one write and the writer goes on when it was read. `conv` is what of the
converter decides the package's result (`handleInputLine`, `Exited`): PASS and FAIL
lines, the line of a package without test files, markers, and whether a test's
result is held back; the texts of `Pipeline` are lumps of such lines. `main` walks through
the code in order: start, `cmd.Run` (`Reap`, `WaitReturns`), the trailer write by
write, `conv.Close`, `events.Close`, `<-done`. What `Run` does with an event is
`GoTestRun`'s; here it only reads, stops when the TeeReader cannot write, or
finds the end. `RunError` is the precedence of errors that `os/exec` documents.
The signal sent is that of Unix (`signal_unix.go`).

`GoTesting` is the environment that the code takes for granted, and no part of
the repository: a caller is blocked in `t.Run` until its subtest ends or calls
`t.Parallel`; parallel subtests go on when their caller's body has returned; a
result is held back until the next line that names a test; output belongs to
the test named last; a binary may die, with or without the timeout's panic;
`go test` may be killed. Without `-test.v=test2json` (constant `Streaming`)
subtests report with their top-level test.

`Test2Json` keeps the `Converter` as a record `cv` with its two line buffers,
the held-back results and the current test; a lump is a line ending, the `^V`
marker, a framing prefix, a name, four spaces, a word or half of a two-byte
character, and capacities count lumps. `Write(n)` is one call of `Write`, which
may cut the stream anywhere; `ExitedAndClose` ends it. It is deterministic but
for the cuts: all events of a call happen in one step, as nobody else sees them.

`Transform` maps values kind by kind, as `value`, `attrValue`, `logValue` and
their inverses do; in `Wire` a time is a number from `-SignBit` to `SignBit - 1`
and its wire form the unsigned number of the same bits, so that the zero time (a live span's end)
is a large number on the wire. Go's walk of the grouping maps makes a set of
wire batches (`AnyOrder`). A conversion that reports an error returns what it
could convert.

`LiveExport` has a queue for each processor. `otel` is the program's OTLP
exporter, which calls the engine; `tui` an exporter of `Config.LiveTraceExporters`
or `BatchedTraceExporters`; `logs` the log processor; `e.live` and `e.batch` the
engine's, which `SpanForwarder` feeds. The processors' goroutine, bounded queue
and drain on shutdown are the SDK's (external); what the code adds is which
records each is given (`Start`, `End`), what its exporter makes of a batch
(`Coalesce`, `FilterLive`), what the environment selects (`Kinds`), the forward
by two goroutines that the call waits for (`Call`, `Forward`, `Answer`), and
`Close`, one processor after the other, until the deadline (`Expire`).
`Counted` and `declared` are the producer's counter and what `Complete` declares.

`TestTracing` has a span per test and per function. `Adopt` and `StartOwn` are
the two outcomes of the request for a span context, `ReturnTest` the end of the
test's function, with the snapshot of the time and the context's error,
`CleanupUnfailed`, `CleanupFailed` and `Describe` the cleanup, and `TestDone` the
moment when `testing` takes the test to be done. A helper may come between the
read of `t.Failed()`, that of the accumulated message, and `TestDone`; a failure
that it is the first to report after the span's end is in `late`.
`HelperLogs`/`HelperFails` are the two halves of a helper's `Error`,
`Interrupt` a deadline or a cancellation, which reaches the derived contexts.
`ErrorOrigins` gives texts as sequences of words and stamps.

## 3. Runs

| Run | Properties | Question |
|---|---|---|
| `registry` | `SendNeverBlocks`, `NoLostWakeup`, `KeepsPromise` | can the registry hang or drop a request |
| `dump` | `DumpDetected`, `DumpLoggedWhole`, `CopyFaithful` | is the dump found and copied correctly under every fragmentation |
| `run_any_events` | `RunTypeOK`, `EntriesSound`, `ActiveAreRunning`, `PackagesSound`, `ParentsSound`, `NothingAfterEOF` | is `Run`'s bookkeeping sound under any events at all |
| `session_trace` | `ParentIsCaller`, `EndedOnce`, `NothingLeftOpen`, `VerdictsRecorded`, `PackageVerdicts` | is the trace the call tree, with the right verdicts |
| `session_output` | `FailuresPrinted`, `PanicPrinted`, `LogsWhole` | is everything printed and logged where it belongs, once |
| `session_sockets` | `AdoptsOwnTest`, `RequestsAnswered` | do tests get a span of their own test, over two rounds, and an answer |
| `pipelines` | `NothingLost`, `ReportIsLastLine`, `ResultMatchesStatus`, `KillsAreReported`, `OkLineTells`, `PrebuiltReturns`, `ReturnsAfterTests` | does a run return, and has everything been read and reported, in its three forms; is the package's result the right one |
| `failing_stdout` | `FailingStdoutDoesNotHang` (violated) | does `otelgotest -json` return when stdout fails |
| `test2json` | `AttributedToSpeaker`, `ResultsHeldBack`, `CharactersWhole` | does every piece of output reach its test, and each result come in its place |
| `marker_after_full_buffer` | `MarkerEndsLine` (violated) | is a marked line recognised wherever it follows unfinished text, also text that fills the buffer |
| `export` | `FinalRecordWins`, `NothingLostAtClose`, `DeclaredTells`, `SignalsArrive`, `EngineTellsBoth` | do collectors learn the final state of every span, and does a batch cross processes with no loss but those named |
| `test_tracing` | `VerdictStands`, `SpanCoversFunction`, `OriginsTraced` | does the span of a test say what happened in it |

Bounds, and why they are enough:

- `registry`: two keys, three callers, two contexts. A channel serves one call,
  a critical section touches one key, and two registrations of a key with a
  caller parked before, between and after them are the cases that differ. The
  safety part is proved without these bounds.
- `dump`: texts over seven lumps (the parts of the signature among them), up to
  three lumps before the signature and eight from it on, fragments of one or
  two lumps, two tests: every split of the signature's line, over tests
  that differ, before and after other lines, and a limit that the stacks exceed.
- `run_any_events`: a package and a test with a subtest, at most three spans
  started and output events until something is written, buffered or logged; all
  other events at any time. Three spans hold a test, its continuation and a
  subtest, or a package and two runs of a test. The invariants are inductive and
  proved for all values.
- `session_trace`: three nested names, where `A/B/C` is either the subtest `C`
  of `A/B` or the subtest `B/C` of `A`; three runs of tests in two rounds; two
  events in the pipe. The bound `MaxBegun` keeps the rounds together small; a
  pipe of two lets `Run` lag behind a whole pause or result.
- `session_output`: a test with a subtest, three runs of tests in two rounds,
  two lines of output, and a panic split inside its signature's line and again
  before the newline.
- `session_sockets`: a test with a subtest, two rounds with two runs in all, so
  that a test that asks may find the span of its earlier run; both deadlines,
  a pipe of two. No binary dies: for the registry that is a client that timed out.
- `pipelines`: one write in an OS pipe (a second one blocks, which is what
  matters), writes of up to three lumps, and ten texts: the warning and the
  coverage line in every position and split that the tracker tells apart (a
  coverage line may have two lumps), and the line of a package without test files, printed
  by the binary, before its PASS, by a test after a marked line, or after a test's report.
- `test2json`: an input buffer of five lumps and an output buffer of three, up
  to three lines between the opening and the end, writes cut anywhere. A line of
  nine lumps overflows the input buffer, ordinary ones fit, characters of two
  lumps fall on every boundary. Marked lines (`-test.v=test2json`) and unmarked
  ones (`-test.v`, results nested three deep) are two sets of streams. The
  line that exactly fills the buffer (`fill`) is in `marker_after_full_buffer`
  only: streams of a marked binary with up to two lines, where longer text without
  a newline (`trail`) does no harm.
- `export`: queues and batches of two records, so that both a full queue and a
  batch with two records of a span occur; five set-ups of Init, of which two run
  three spans of two resources, so that the wire reorders them and the
  completion overtakes; times of four bits (`SignBit` is 8). Separately (`signal`
  other than `"none"`) batches of up to three records cross two processes, with
  values nested two deep: the second crossing sees only what the first made.
- `test_tracing`: three programs: two parallel subtests under a test whose
  context ends; a helper in a test and one in its subtest that outlive them; three nested
  functions whose errors are wrapped, joined (also with an own one) and reported. Every test may
  adopt its span or start its own.

A session, a pipeline, a conversion, an export and a test binary end, so
deadlock is not checked there; nor in `dump` and `run_any_events`, which stop at
their bounds.

Fairness. `registry`: the branches of a select (`WF` on `Select`), no deadline
and no registration is forced. `session_sockets`: the goroutines of otelgotest
run on (`WF` on reading the pipe, on `Serve`) and a client whose response is
there reads it (`WF` on `Answered`); nothing forces a test to do anything or a
deadline to pass, so `RequestsAnswered` does not lean on the 30 s timers. `pipelines`: goroutines
and converters run on and timers fire; the tests owe nothing, so a wedged binary
is among the behaviours. `failing_stdout` also has `WF` on the tests: otherwise
they might simply not end. `export`: the engine's batch processors export when
their timer fires (`WF` on `Deliver`); nothing obliges the program.

## 4. Findings

1. `failing_stdout`: with `-json`, a stdout that cannot be written makes `Run`
   return early; `main.go:151` then waits for `go test`, which waits for room in
   the pipe nobody reads. `prebuilt_test.go:427` checks that "a failing stdout
   does not hang otelgotest", for prebuilt binaries, where the stream is drained.
2. `marker_after_full_buffer`: `test2json.go:500` says "A line ending is either
   a \n or the empty string just before a ^V not beginning a line." When
   unfinished text exactly fills the input buffer, it is passed on as a part and
   the buffer is empty; the framing line that follows then has its `^V` at the
   start of the buffer, is taken for the rest of that line, and its event is lost.

Four more instances show where a property of the sessions stops holding. They are
configurations of `MCTestSession`, to be run by hand:

- `MCSessionKilled.cfg` (`StreamsClosed`): at the end of a stream without
  package results `Run` closes the streams of package spans only
  (`gotest.go:666-670`); those of running tests get no EOF, although
  `logging.go:46` says that both streams must be closed for draining to
  complete. Their spans are not ended either.
- `MCSessionCount.cfg` (`AdoptsOwnRun`, stronger than the `AdoptsOwnTest` that is
  checked and proved): the registry answers with whatever it holds under a key. With `-count=2` a test that asks before `Run` has read its
  second run event gets the span of its first run, which has ended.
- `MCSessionPlain.cfg` (`ParentIsCaller`): a prebuilt binary run with `-test.v`
  (the usage `main.go:18` shows) reports subtests only with their top-level
  test, so `A/B` still counts as active when `A` starts its subtest `B/C`, which
  is then put under `A/B`. Under `go test -json` (`Streaming`) the property holds
  for paths of at most three names.
- `MCSessionDeep.cfg` (`ParentIsCaller`): with four names it fails there too. `A`
  has a parallel subtest `B` and a subtest named `B/C`, both running; when `A/B`
  calls `t.Run("C/D")`, the longest active prefix of `A/B/C/D` is `A/B/C`, and
  the new span is put under that test, which did not call it. `gotest.go:305-309`
  says of this rule that it "preserves leaf names that themselves contain '/'".

And some behaviours of the code that properties name as their exceptions, or that
a model shows:

- `TestTracing`: a helper that is the first to fail a test after its cleanup has
  read `Failed` (`trace.go:142`), and before `testing` takes the test to be done, makes
  `go test` report a failure while the span says "test passed". `VerdictStands`
  excludes these tests (`late`).
- `ErrorOrigins`: a function that joins an error of its own with one it was returned
  gets no stamp on its own, since `EndWithCause` finds an origin in the joined
  error (`span.go:103-118`); no span links to it. `OriginsTraced` excludes it.
- `Pipeline`: a prebuilt binary that prints the line of a package without test
  files and exits with status zero and no PASS is recorded as skipped (`test2json.go:142`).
- `TestTracing`: below a test that adopted its span, a test with a span of its own
  has a link to the test span of its grandparent, since an adopting test leaves the
  context's test span as it was.

## 5. Proofs

`SpanContextRegistryProofs`: `RegTypeOK`, `ParkedUnderOwnKey`,
`SendNeverBlocks` and `NoLostWakeup` are inductive together. `NoLostWakeup`
needs `ParkedUnderOwnKey`: that a call whose key is registered is among the
calls `Register` sends to. From them every step of the registry maps to a step
of `SpanContextPromise` or a stutter. Assumption: the zero context is not one
that is registered (`ContextsAssumption`).

`GoTestRunProofs`: the inductive invariant is the conjunction of `RunTypeOK`,
`EntriesSound`, `ActiveAreRunning`, `PackagesSound` and `ParentsSound`. It
holds for any sequence of events, hence for those a session produces.
`EntriesSound` is what makes the rest go through: the original span of an entry
is the span of that very test, so a test started under an active test's
original span has a parent whose name its own extends. `NothingAfterEOF` follows from it: a
stream that is written to or closed belongs to a live entry, whose streams
are open, and no two entries share a span. Assumptions: names are sequences
of strings other than the empty one, the options are Booleans
(`RunAssumption`), the limit is a natural number (`StacksLimitAssumption`).

`SessionProofs`: the invariant adds `PipeOK` to `Run`'s: what is in the pipe is
a sequence of events of known packages and tests, which every action of
`GoTesting` preserves. So the event that `Read` takes is one that
`GoTestRunProofs` covers, every other step of a session leaves `Run` alone, and
`EntriesSound`, `ParentsSound` and `NothingAfterEOF` hold in every session, for
all tests, pipe sizes and interleavings. Likewise every step is one of
`SpanContextRegistry` or leaves it alone: `Run` registers at most one span with
an event, and never under the number that stands for none. Hence
`SendNeverBlocks` holds there too. Assumption: output and the panic are
sequences of strings (`SessionAssumption`).

The second parts of `GoTestRunProofs` and `SessionProofs` prove the trace of a session.
`EndedOnce`, `NothingLeftOpen`, `VerdictsRecorded`, `PackageVerdicts` and
`ParentIsCaller` hold because `go test` sends no event out of turn, which is a
fact about the tests, while `Run` is events behind them. So the argument is about
*views*: which tests are on, paused or off, the runs each has begun, its last
result, and each package's.

1. `Advance(v, ev, w)` says which events may follow a view and what they make of
   it, and `Seen(v)` what `Run`'s maps and the spans it started are as of a view:
   no span has ended twice, one that has not ended is in the maps, every run of a
   test has one test span, the last span of a run has its verdict. If `Seen(v)`
   and `Advance(v, ev, w)`, handling `ev` gives `Seen(w)` (`GoTestRunProofs`, a
   lemma for each part of `Seen`).
2. `Sent(w)` says that `w` is the view of `go test` itself. A step of `go test`
   either sends nothing but output, or sends one event by which its view advances.
   That needs `GoSound`: of the callers (a test that is on is called by one
   that is running or done), and of the results, which are due in an order.
3. `TraceInv`: there is a path of views from one that is `Seen` to one that
   is `Sent`, an event of the pipe for each step of the path. A step of `go test`
   makes it longer at one end, a read shorter at the other. Along a path runs
   are only added, and the result of a package that has one stays (`After`).

The properties follow from `Seen` at the near end and, where they compare the
trace with the tests, `After`. `ParentIsCaller` has the hypothesis `Plain`: events
as `go test -json` sends them and at most three names on a path.
Then no test that is on has a name between those of a caller and its subtest
(`CallerIsOn`). Without it the theorem is false: `MCSessionPlain.cfg` and
`MCSessionDeep.cfg` are the two counterexamples. The other four have no
hypothesis.

What a test is told (last part of `SessionProofs`): the invariant `Told` follows a
span's number from the registry's map through the channel, the handler's result
and the response to the test. Wherever it is, it is a span of the test asked
for, and no later one than of the run that asks, since a request is made by a run
that has begun. Hence `SessionOwnTest`, for every session: a test is told a span
of its own test, of its own run or an earlier one (`AdoptsOwnTest`), for any number of
rounds. That it is never an earlier one is false with `-count`: `MCSessionCount.cfg`.

What is printed and logged (the third parts of both modules): `FailuresPrinted` and
`LogsWhole` have the same argument with *voices* in place of views. A voice is
what has been said of one test: the output of its last run, that of its runs that
did not pass, how much of the panic was printed, and what of the panic was sent
before the signature was complete. `Hear(k, v, ev, w)` says how an event changes
a voice; `Heard(k, v)` what `Run`'s buffer, its output, the dump's remembered
line and the log of the test's span hold; `Spoken(k, w)` what the tests have
said; between the two is the pipe (`TalkInv`). `SessionFailures` and `SessionLogs`
have the hypothesis `Orderly`: what a test says in one event is lines, each ended,
none a line of the testing package's own, none with a start of the signature
in it, and the panic starts with the signature, in any fragments. The first part is
what the code takes for granted of a test (an unmarked `--- FAIL` that a test prints is left out
of its log, `gotest.go:588-598`); a test that itself prints the signature is taken
for the panic by the code too, which is not this property's question. TLC checks
`Orderly` for the instances it runs. `SessionFailures` is about a run without `-v`
(`BufferOutput`), `SessionLogs` about one with a logger provider.

`DumpProofs`: `DumpInv`, for every limit on stacks, set of tests and set of texts
that events may have (sequences of strings, none empty: `StreamAssumption`).
Before the signature is there (`Waiting`), what `timeoutDump` keeps is a function
of the whole text's unfinished line (`Remembers`): the part that may still become
the signature, with the test that was given its first lump, or the fact that the
line is an ordinary one. From the signature on (`Copying`), everything is logged,
what is pending is the unfinished line, and what was copied is what `copyLine` makes
of the complete lines (`CopiedTo`, which relates its counter to the `Stacks` of
the text). `DumpDetected`, `DumpLoggedWhole` and `CopyFaithful` follow. `CopyLines`
is a recursive function over positions in the text; its value is characterised
by induction.

`PipelineProofs` begins with `TrackerKnows`. What `outputTracker` keeps of a text (the
tail that may be the start of the warning, the unfinished line, the coverage
line) is a function of the whole text, not of its writes. The theorem is the step:
if the tracker knows a text, after one more write it knows the text with that
write. The search for coverage lines is a recursive function over positions in the
write; its value is characterised by induction.

Then two invariants. `KilledInv` follows the line "killed" on
its way: once the kill timer has signaled and the command has returned, its error
is not nil, and unless `Run` stopped early the line is in the trailer still to be
written, in the events, or has been read. It needs where the main goroutine
may be in each mode, that the binary's copying is over when the trailer is
written, and that `Run` finds the end only after `events.Close`. `StreamInv` says
the same of the whole stream, that is, of what `Run` has read, what waits in
`events` and what is being written: it is the tests' writes in their order, which
the tracker knows; then, unless the output was cut, all of them, and the trailer,
which ends in the report and the package's result, both as the exit error says.
`NothingLost`, `ReportIsLastLine`, `ResultAgrees` and `OkLineTells` are what
it says once `run` has returned. `ResultAgrees` is the first part of
`ResultMatchesStatus`: one result, the last event, a fail if and only if the
status is not zero. When it is a skip depends on what the converter made of
the text's lines; that part is model-checked. Assumption: what a binary prints is a sequence
of lumps, none of which is the event of the package's result (`TextsAssumption`).

`ExportProofs`, for any finite set of spans, any resources and scopes, any sizes
of queues and batches, any set-ups of Init and times of any width above two bits
(`ExportAssumption`, `SignBitAssumption`). First what the wire does to a batch:
`BatchCrosses` says that the other side gets each record of it once, in some order.
That order is not the sender's, and so the invariant `ExportInv` needs that a batch
has at most one record of a span, which `Coalesce` and `FilterLive` make it. Its
parts: a record tells what its span has been (`Truthful`); from the collectors
back through the engine's queues, the batch in flight and the program's queues, a
completed record has nothing of its span behind it (`InOrder`); a completed record
that no full queue ignored is somewhere on that way (`Kept`); a processor that Close
has left behind is empty, unless the deadline passed (`LeftBehind`); what `Complete`
declares is the number of spans begun (`Counts`). `FinalRecordWins`,
`NothingLostAtClose` and `DeclaredTells` follow.

`TestTracingProofs`, for any tests and parents (`TreeAssumption`: each has a test or
`Main` as its parent, and functions are no tests), any programs and any form of messages. `VerdictStands` and
`SpanCoversFunction` are about things that no step may change any more, and a
failure changes the verdict of all enclosing tests at once. So `TracingInv` says that
a test's parents last as long as the test does (`Family`), hence a failure meets
no test that is done, and of those whose span has ended only the helper's own (which is
then `late`); that what was remembered when a function returned is what
was true then (`ReturnsOnce`); and that the span of a function is open exactly
while it is in the call stack of one test (`Stack`).

A property of a recursive function for all arguments is proved without an
induction theorem, which would take an operator as a parameter: `SequenceFacts`
proves that a set of numbers that has 0 and, with a number, the next one is `Nat`
(`Induct`, from a least element), and a proof applies it to the set of numbers
that have the property. So it proves that recursive functions, `FlattenSeq` of
the community modules among them, exist and satisfy their equations.

Only model-checked:

- liveness (`RequestsAnswered`, `PrebuiltReturns`, `ReturnsAfterTests`,
  `EngineTellsBoth`, the fairness part of `KeepsPromise`), which is beyond the prover;
- `PanicPrinted`, which is about packages, while a voice is one of a test;
- the part of `ResultMatchesStatus` that tells a skip from a pass;
- `Test2Json`, which folds over the lines of a write;
- `Transform` and `Relay` (`SignalsArrive`), recursive over nested values, and
  `OriginsTraced`, recursive over errors that wrap errors.

## 6. Not modelled

- `junit/` and `cmd/oteljunit` map test cases to spans one after the other; they
  keep no state and meet no other actor. `env.go`, `attrs.go`, `metrics.go` are
  constants and wrappers.
- `oteltestctx/log.go`, the options and their attributes; argument parsing and
  the fallbacks to a run without telemetry; the flags and build information that
  `prebuilt.go` reads.
- `init.go`: metric readers, headers, dialers, a second `Init`. `exporters.go`:
  `LogForwarder`, which does with logs what `SpanForwarder` does with spans
  but for the live ones, and `ForceFlush`.
- `test2json.go`: CRLF, benchmark reports, ATTR and ARTIFACTS lines,
  timestamps, `SetFailedBuild`.
- `wcprof.go`: attributes and wait links, and spans that start or run on while
  `Complete` reads the counter: guards of `Start` have `Complete` come after them. The SDK, `os/exec` and the `testing`
  package are external and modelled from how they are used.

Exports that fail or are retried are not modelled: a batch that a processor
hands to its exporter reaches the other side, once, sooner or later. Nor is what
the SDK does to a log record that `ReexportLogsFromPB` emits (its limit on attributes).

What a crossing loses is named in `Relay`'s properties, from `transform.go`:

- of a span: the schema and the attributes of its scope, the dropped counts of links,
  the trace state and flags of its parent's and links' contexts and whether they are
  remote, its own flags (it counts as sampled), the count of its children;
- of a log record: the time it was observed, the count of its dropped attributes,
  its trace flags, its event name, the attributes of its scope;
- of a metric: the schema and attributes of its scope; a time before 1970 (a start
  time that was not set) becomes 1970, and a gauge without points a metric without
  data. On import only gauges are read: any other metric fails the whole
  batch with an error. Of a gauge with integers and floats the integers are kept;
- of an attribute: the element type of an empty slice, an invalid value's being so.

What could be proved further: `PanicPrinted`, with a voice of the package; the rest of
`ResultMatchesStatus`, which needs `conv` as a function of the whole text, as
`TrackerKnows` has it for the tracker; `ResultsHeldBack`, with `Test2Json`'s fold over
lines as a recursive function over positions, as in `TimeoutDump`.
