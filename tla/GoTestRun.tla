----------------------------- MODULE GoTestRun -----------------------------
(***************************************************************************)
(* gotest.Run: it reads a `go test -json` stream event by event and keeps  *)
(* a span for each package and test, the log streams the spans carry, and  *)
(* the human-readable output. One action per case of Run's switch, each    *)
(* including what Run does to the event before the switch. A key is a      *)
(* <<package, test>> pair and a test name the sequence of its '/'-separated*)
(* parts. The OpenTelemetry SDK is external: spanTab is what it recorded.  *)
(***************************************************************************)
EXTENDS TimeoutDump

CONSTANTS Pkgs,         \* package paths
          NameOrder,    \* the test names, in the order sort.Strings gives them
          WithOutput,   \* cfg.output # nil
          Verbose,      \* cfg.verbose
          WithLogs,     \* cfg.loggerProvider # nil
          WithRegistry  \* cfg.registry # nil

Names == Range(NameOrder)
Keys == Pkgs \X Names

\* The names are the keys of a map, sorted.
ASSUME OrderAssumption ==
    /\ NameOrder \in Seq(Names)
    /\ \A i, j \in DOMAIN NameOrder : NameOrder[i] = NameOrder[j] => i = j

ASSUME RunAssumption ==
    /\ IsFiniteSet(Pkgs)
    /\ Names \subseteq Seq(STRING) \ {NoTest}
    /\ {WithOutput, Verbose, WithLogs, WithRegistry} \subseteq BOOLEAN

VARIABLES spans,       \* the tests that have started and not reported: the
                       \* original span, the current one, and paused
          buffered,    \* bufferedOut of each of these tests
          activeTests, \* per package, the tests running and not paused
          pkgSpans,    \* the packages that have started and not reported
          pkgRuns,     \* per package, the number of run events
          dumps,       \* per package, the timeoutDump
          out,         \* what was written to cfg.output, write by write
          registered,  \* the span Run last registered for each key, or 0
          lastSpan,    \* the number of spans started
          spanTab,     \* spans 1..lastSpan as the SDK saw them
          logged,      \* what was written to the stdout stream of each span
          returned     \* Run has returned

runVars == <<spans, buffered, activeTests, pkgSpans, pkgRuns, dumps, out, registered,
             lastSpan, spanTab, logged, returned>>
----------------------------------------------------------------------------
(* Go maps, and what the SDK records.                                      *)

Put(f, k, v) == [x \in DOMAIN f \cup {k} |-> IF x = k THEN v ELSE f[x]]
EmptyMap == [x \in {} |-> x]
Del(f, S) == [x \in DOMAIN f \ S |-> f[x]]

\* tracer.Start: a new span under parent (0: the root ctx), linked to link
\* (0: no link). ends and eofs count the calls of End and of its streams'
\* Close.
NewSpan == lastSpan + 1
Start(kind, p, t, parent, link) ==
    /\ lastSpan' = NewSpan
    /\ spanTab' = Put(spanTab, NewSpan,
                      [kind |-> kind, pkg |-> p, test |-> t, parent |-> parent,
                       link |-> link, status |-> "unset", ends |-> 0,
                       eofs |-> 0])
    /\ logged' = Put(logged, NewSpan, <<>>)

\* SetStatus then End for the spans in S: neither does anything to a span that
\* has ended.
Final(span, status) == IF span.ends = 0 THEN [span EXCEPT !.status = status] ELSE span
End(tab, S, status) ==
    [i \in DOMAIN tab |->
        IF i \in S THEN [Final(tab[i], status) EXCEPT !.ends = @ + 1] ELSE tab[i]]

\* streams.Close of the streams the spans in S carry.
CloseStreams(tab, S) ==
    [i \in DOMAIN tab |->
        IF WithLogs /\ i \in S THEN [tab[i] EXCEPT !.eofs = @ + 1] ELSE tab[i]]

\* A write to the stdout stream of span i; an empty text is not written.
Log(log, i, text) ==
    IF WithLogs /\ text # <<>> THEN [log EXCEPT ![i] = Append(@, text)] ELSE log

\* A write to cfg.output; an empty text leaves no trace.
Write(what, p, t, text) ==
    IF text = <<>> /\ what # "unfinished" THEN <<>>
    ELSE <<[what |-> what, pkg |-> p, test |-> t, text |-> text]>>
----------------------------------------------------------------------------
RunInit ==
    /\ spans = EmptyMap
    /\ buffered = EmptyMap
    /\ activeTests = [p \in Pkgs |-> {}]
    /\ pkgSpans = EmptyMap
    /\ pkgRuns = [p \in Pkgs |-> 0]
    /\ dumps = [p \in Pkgs |-> NewDump]
    /\ out = <<>>
    /\ registered = [k \in Keys |-> 0]
    /\ lastSpan = 0
    /\ spanTab = EmptyMap
    /\ logged = EmptyMap
    /\ returned = FALSE

\* Mutant: what is registered is the span started before.
RegisterPrevious(k) ==
    registered' = IF WithRegistry THEN [registered EXCEPT ![k] = lastSpan] ELSE registered

\* cfg.registry.Register(key, span.SpanContext()) with the span just started.
Register(k) ==
    registered' = IF WithRegistry THEN [registered EXCEPT ![k] = NewSpan] ELSE registered

PackageStart(p) ==
    /\ Start("package", p, NoTest, 0, 0)
    /\ pkgSpans' = Put(pkgSpans, p, NewSpan)
    /\ UNCHANGED <<spans, buffered, activeTests, pkgRuns, dumps, out, registered, returned>>

\* The active tests whose name is a proper prefix of t, and the longest one.
Enclosing(p, t) == {a \in activeTests[p] : <<p, a>> \in DOMAIN spans /\ IsStrictPrefix(a, t)}
\* Mutant: the last active test the map yields is the parent.
LongestAny(S) == S

Longest(S) == {a \in S : \A b \in S : Len(b) <= Len(a)}

\* Mutant: the parent is a test's current span, not its original one.
ParentsCurrent(p, t) ==
    IF Enclosing(p, t) # {} THEN {spans[<<p, a>>].cur : a \in Longest(Enclosing(p, t))}
    ELSE {IF p \in DOMAIN pkgSpans THEN pkgSpans[p] ELSE 0}

\* The span a test is started under, as a set: ts.ctx is the original span's.
Parents(p, t) ==
    IF Enclosing(p, t) # {} THEN {spans[<<p, a>>].orig : a \in Longest(Enclosing(p, t))}
    ELSE {IF p \in DOMAIN pkgSpans THEN pkgSpans[p] ELSE 0}

Run(p, t) ==
    /\ \E parent \in Parents(p, t) : Start("test", p, t, parent, 0)
    /\ spans' = Put(spans, <<p, t>>,
                    [orig |-> NewSpan, cur |-> NewSpan, paused |-> FALSE])
    /\ buffered' = Put(buffered, <<p, t>>, <<>>)
    /\ activeTests' = [activeTests EXCEPT ![p] = @ \cup {t}]
    /\ pkgRuns' = [pkgRuns EXCEPT ![p] = @ + 1]
    /\ Register(<<p, t>>)
    /\ UNCHANGED <<pkgSpans, dumps, out, returned>>

PausedEntry(e) == [orig |-> e.orig, cur |-> e.cur, paused |-> TRUE]

\* The current span ends; the streams stay open.
Pause(p, t) ==
    LET k == <<p, t>> IN
    /\ activeTests' = [activeTests EXCEPT ![p] = @ \ {t}]
    /\ IF k \in DOMAIN spans /\ ~spans[k].paused
       THEN /\ spans' = [spans EXCEPT ![k] = PausedEntry(@)]
            /\ spanTab' = End(spanTab, {spans[k].cur}, "unset")
       ELSE UNCHANGED <<spans, spanTab>>
    /\ UNCHANGED <<buffered, pkgSpans, pkgRuns, dumps, out, registered, lastSpan, logged,
                   returned>>

\* Mutant: ts.span is not replaced by the continuation.
ContinuedSame(e) == [orig |-> e.orig, cur |-> e.cur, paused |-> FALSE]

\* Mutant: ts.paused stays set.
ContinuedPaused(e) == [orig |-> e.orig, cur |-> NewSpan, paused |-> e.paused]

Continued(e) == [orig |-> e.orig, cur |-> NewSpan, paused |-> FALSE]

\* A continuation span, under the original one and linked to the paused one.
Cont(p, t) ==
    LET k == <<p, t>> IN
    /\ IF k \in DOMAIN spans
       THEN /\ activeTests' = [activeTests EXCEPT ![p] = @ \cup {t}]
            /\ IF spans[k].paused
               THEN /\ Start("continue", p, t, spans[k].orig, spans[k].cur)
                    /\ spans' = [spans EXCEPT ![k] = Continued(@)]
                    /\ Register(k)
               ELSE UNCHANGED <<spans, lastSpan, spanTab, logged, registered>>
       ELSE UNCHANGED <<activeTests, spans, lastSpan, spanTab, logged, registered>>
    /\ UNCHANGED <<buffered, pkgSpans, pkgRuns, dumps, out, returned>>

\* pass, fail and skip of a test: only a failing test's buffer is printed.
TestResult(p, t, result) ==
    LET k == <<p, t>> IN
    /\ activeTests' = [activeTests EXCEPT ![p] = @ \ {t}]
    /\ IF k \in DOMAIN spans
       THEN /\ spanTab' = End(CloseStreams(spanTab, {spans[k].orig}), {spans[k].cur}, result)
            /\ out' = IF WithOutput /\ ~Verbose /\ result = "fail"
                      THEN out \o Write("buffered", p, t, buffered[k]) ELSE out
            /\ spans' = Del(spans, {k})
            /\ buffered' = Del(buffered, {k})
       ELSE UNCHANGED <<spanTab, out, spans, buffered>>
    /\ UNCHANGED <<pkgSpans, pkgRuns, dumps, registered, lastSpan, logged, returned>>
----------------------------------------------------------------------------
(* output: a dump, once found, goes to the package; the rest to the test.  *)

FrameHeads == {"=== RUN", "=== PAUSE", "=== CONT", "--- PASS", "--- FAIL", "--- SKIP"}

\* Lines that are printed but not logged.
IsFrame(text) == Head(text) \in FrameHeads \/ text = <<NL>>

IsPass(text) == text \in {<<"PASS">>, <<"PASS", NL>>}

BufferOutput == WithOutput /\ ~Verbose

\* Mutant: a test's output goes to the log streams of its current span.
LogTestCurrent(log, p, t, text) ==
    IF <<p, t>> \in DOMAIN spans /\ text # <<>> /\ ~IsFrame(text)
    THEN Log(log, spans[<<p, t>>].cur, text) ELSE log

\* A test's output goes to the log streams of its original span.
LogTest(log, p, t, text) ==
    IF <<p, t>> \in DOMAIN spans /\ text # <<>> /\ ~IsFrame(text)
    THEN Log(log, spans[<<p, t>>].orig, text) ELSE log

LogPackage(log, p, text) ==
    IF p \in DOMAIN pkgSpans THEN Log(log, pkgSpans[p], text) ELSE log

Buffered(buf, p, t, text) ==
    IF <<p, t>> \in DOMAIN buf THEN [buf EXCEPT ![<<p, t>>] = @ \o text] ELSE buf

\* Mutant: the carried fragments stay in the test's buffer.
UnbufferedNever(buf, p, t, text) == buf

\* The carried fragments move from the buffer they ended in to the dump.
Unbuffered(buf, p, t, text) ==
    IF <<p, t>> \in DOMAIN buf /\ IsSuffix(text, buf[<<p, t>>])
    THEN [buf EXCEPT ![<<p, t>>] = SubSeq(@, 1, Len(@) - Len(text))] ELSE buf

Routed(p, t, text) == Route(dumps[p], text, t, WithLogs /\ p \in DOMAIN pkgSpans)

OutputPlain(p, t, text) ==
    /\ Routed(p, t, text).dump = <<>>
    /\ dumps' = [dumps EXCEPT ![p] = Routed(p, t, text).d]
    /\ IF t # NoTest /\ BufferOutput
       THEN buffered' = Buffered(buffered, p, t, text) /\ UNCHANGED out
       ELSE /\ out' = IF WithOutput /\ (Verbose \/ ~IsPass(text))
                      THEN out \o Write("output", p, t, text) ELSE out
            /\ UNCHANGED buffered
    /\ logged' = LogTest(logged, p, t, text)
    /\ UNCHANGED <<spans, activeTests, pkgSpans, pkgRuns, registered, lastSpan, spanTab,
                   returned>>

OutputDump(p, t, text) ==
    LET r == Routed(p, t, text)
        moved == r.carried # <<>> /\ r.carriedTest # NoTest
        copy == CopyTo(r.d, IF moved THEN r.carried \o r.dump ELSE r.dump)
        trimmed == IF moved THEN Unbuffered(buffered, p, r.carriedTest, r.carried)
                   ELSE buffered
    IN
    /\ r.dump # <<>>
    /\ logged' = LogTest(LogPackage(logged, p, r.carried \o r.dump), p, t, r.before)
    /\ IF BufferOutput
       THEN /\ dumps' = [dumps EXCEPT ![p] = copy.d]
            /\ out' = out \o (IF t = NoTest /\ ~IsPass(r.before)
                              THEN Write("output", p, t, r.before) ELSE <<>>)
                          \o Write("dump", p, NoTest, copy.out)
            /\ buffered' = IF t # NoTest THEN Buffered(trimmed, p, t, r.before) ELSE trimmed
       ELSE /\ dumps' = [dumps EXCEPT ![p] = r.d]
            /\ out' = IF WithOutput THEN out \o Write("output", p, t, text) ELSE out
            /\ UNCHANGED buffered
    /\ UNCHANGED <<spans, activeTests, pkgSpans, pkgRuns, registered, lastSpan, spanTab,
                   returned>>

Output(p, t, text) == OutputPlain(p, t, text) \/ OutputDump(p, t, text)

\* A line that is no JSON event, or an event of no package: printed as it is.
PassThrough(text) ==
    /\ out' = IF WithOutput THEN out \o Write("output", "", NoTest, text) ELSE out
    /\ UNCHANGED <<spans, buffered, activeTests, pkgSpans, pkgRuns, dumps, registered,
                   lastSpan, spanTab, logged, returned>>
----------------------------------------------------------------------------
(* The package's result.                                                   *)

\* Mutant: the package's entry in activeTests survives it.
ForgetPackageNotTests(p) ==
    /\ pkgSpans' = Del(pkgSpans, {p})
    /\ pkgRuns' = [pkgRuns EXCEPT ![p] = 0]
    /\ dumps' = [dumps EXCEPT ![p] = NewDump]
    /\ UNCHANGED <<activeTests, registered, lastSpan, logged, returned>>

\* Mutant: the package's span stays in pkgSpans.
ForgetPackageNotSpan(p) ==
    /\ activeTests' = [activeTests EXCEPT ![p] = {}]
    /\ pkgRuns' = [pkgRuns EXCEPT ![p] = 0]
    /\ dumps' = [dumps EXCEPT ![p] = NewDump]
    /\ UNCHANGED <<pkgSpans, registered, lastSpan, logged, returned>>

\* delete(activeTests, ...), delete(pkgRuns, ...), delete(dumps, ...)
ForgetPackage(p) ==
    /\ pkgSpans' = Del(pkgSpans, {p})
    /\ activeTests' = [activeTests EXCEPT ![p] = {}]
    /\ pkgRuns' = [pkgRuns EXCEPT ![p] = 0]
    /\ dumps' = [dumps EXCEPT ![p] = NewDump]
    /\ UNCHANGED <<registered, lastSpan, logged, returned>>

\* The package's span, as a set.
PackageSpan(p) == IF p \in DOMAIN pkgSpans THEN {pkgSpans[p]} ELSE {}

\* Mutant: the streams stay open.
EndPackageSpanOnly(tab, p, status) == End(tab, PackageSpan(p), status)

\* endPackageSpan, with the status set before it.
EndPackageSpan(tab, p, status) ==
    End(CloseStreams(tab, PackageSpan(p)), PackageSpan(p), status)

\* Mutant: a package that ran nothing has passed.
PassStatusAlways(p) == "pass"

PassStatus(p) == IF pkgRuns[p] = 0 THEN "no tests to run" ELSE "pass"

\* pass and skip leave the package's unfinished tests as they are.
PackagePass(p) ==
    /\ spanTab' = EndPackageSpan(spanTab, p, PassStatus(p))
    /\ ForgetPackage(p)
    /\ UNCHANGED <<spans, buffered, out>>

PackageSkip(p) ==
    /\ spanTab' = EndPackageSpan(spanTab, p, "skip")
    /\ ForgetPackage(p)
    /\ UNCHANGED <<spans, buffered, out>>

Unfinished(p) == {k \in DOMAIN spans : k[1] = p}

\* Mutant: the span of a paused test, which has ended, is ended again.
UnendedAll(p) == {spans[k].cur : k \in Unfinished(p)}

\* The spans of unfinished tests that their pause has not ended already.
Unended(p) == {spans[k].cur : k \in {u \in Unfinished(p) : ~spans[u].paused}}

Terminated(text) == IF text = <<>> \/ Last(text) = NL THEN text ELSE Append(text, NL)

UnfinishedOutput(p) ==
    FlattenSeq([n \in DOMAIN NameOrder |->
        LET t == NameOrder[n] IN
        IF <<p, t>> \in DOMAIN spans
        THEN Write("unfinished", p, t, Terminated(buffered[<<p, t>>])) ELSE <<>>])

\* Mutant: the tests' buffers stay.
DropUnfinishedSpans(p) == spans' = Del(spans, Unfinished(p)) /\ UNCHANGED buffered

\* Mutant: the tests' entries stay.
DropUnfinishedNot(p) == UNCHANGED <<spans, buffered>>

DropUnfinished(p) ==
    /\ spans' = Del(spans, Unfinished(p))
    /\ buffered' = Del(buffered, Unfinished(p))

\* The dump's last partial line, the unfinished tests, then the package.
PackageFail(p) ==
    /\ out' = IF BufferOutput
              THEN out \o Write("dump", p, NoTest, Flush(dumps[p]).out)
                       \o UnfinishedOutput(p)
              ELSE out
    /\ spanTab' =
         LET closed == CloseStreams(spanTab, {spans[k].orig : k \in Unfinished(p)})
         IN  EndPackageSpan(End(closed, Unended(p), "unfinished"), p, "fail")
    /\ DropUnfinished(p)
    /\ ForgetPackage(p)

\* The scanner stops, at EOF or with an error: partial dumps are copied, in
\* whatever order the map is walked, and the package streams closed.
Active == {p \in Pkgs : dumps[p].active}

Return ==
    /\ ~returned
    /\ returned' = TRUE
    /\ IF BufferOutput
       THEN \E order \in SetToSeqs(Active) :
              out' = out \o FlattenSeq([n \in DOMAIN order |->
                              Write("dump", order[n], NoTest, Flush(dumps[order[n]]).out)])
       ELSE UNCHANGED out
    /\ spanTab' = CloseStreams(spanTab, {pkgSpans[p] : p \in DOMAIN pkgSpans})
    /\ dumps' = [p \in Pkgs |-> NewDump]
    /\ UNCHANGED <<spans, buffered, activeTests, pkgSpans, pkgRuns, registered, lastSpan,
                   logged>>
----------------------------------------------------------------------------
(* One event. Any other action ("bench", "attr", ...) changes nothing.     *)

Handle(ev) ==
    /\ ~returned
    /\ \/ ev.test = NoTest /\ ev.action = "start" /\ PackageStart(ev.pkg)
       \/ ev.test = NoTest /\ ev.action = "pass" /\ PackagePass(ev.pkg)
       \/ ev.test = NoTest /\ ev.action = "fail" /\ PackageFail(ev.pkg)
       \/ ev.test = NoTest /\ ev.action = "skip" /\ PackageSkip(ev.pkg)
       \/ ev.test # NoTest /\ ev.action = "run" /\ Run(ev.pkg, ev.test)
       \/ ev.test # NoTest /\ ev.action = "pause" /\ Pause(ev.pkg, ev.test)
       \/ ev.test # NoTest /\ ev.action = "cont" /\ Cont(ev.pkg, ev.test)
       \/ /\ ev.test # NoTest
          /\ ev.action \in {"pass", "fail", "skip"}
          /\ TestResult(ev.pkg, ev.test, ev.action)
       \/ ev.action = "output" /\ Output(ev.pkg, ev.test, ev.text)
       \/ ev.action = "line" /\ PassThrough(ev.text)
----------------------------------------------------------------------------
(* Run on its own, reading any events at all.                              *)

CONSTANT Texts \* the output texts

Events ==
    [action : {"start", "run", "pause", "cont", "pass", "fail", "skip"},
     pkg : Pkgs, test : Names \cup {NoTest}, text : {<<>>}]
    \cup [action : {"output"}, pkg : Pkgs, test : Names \cup {NoTest}, text : Texts]
    \cup [action : {"line"}, pkg : {""}, test : {NoTest}, text : Texts]

RunNext == Return \/ \E ev \in Events : Handle(ev)

RunSpec == RunInit /\ [][RunNext]_runVars
----------------------------------------------------------------------------
Kinds == {"package", "test", "continue"}
Statuses == {"unset", "pass", "fail", "skip", "unfinished", "no tests to run"}
Span == [kind : Kinds, pkg : Pkgs, test : Names \cup {NoTest}, parent : Nat, link : Nat,
         status : Statuses, ends : Nat, eofs : Nat]
Entry == [orig : 1..lastSpan, cur : 1..lastSpan, paused : BOOLEAN]

RunTypeOK ==
    /\ lastSpan \in Nat
    /\ spanTab \in [1..lastSpan -> Span]
    /\ DOMAIN logged = 1..lastSpan
    /\ DOMAIN spans \subseteq Keys
    /\ spans \in [DOMAIN spans -> Entry]
    /\ DOMAIN buffered = DOMAIN spans
    /\ activeTests \in [Pkgs -> SUBSET Names]
    /\ DOMAIN pkgSpans \subseteq Pkgs
    /\ pkgSpans \in [DOMAIN pkgSpans -> 1..lastSpan]
    /\ pkgRuns \in [Pkgs -> Nat]
    /\ registered \in [Keys -> 0..lastSpan]
    /\ returned \in BOOLEAN

\* Span i belongs to test k.
Of(tab, i, k) == tab[i].pkg = k[1] /\ tab[i].test = k[2]

\* Run's entry of a test agrees with what the SDK recorded, whatever events
\* came before: the original span is the test's, its streams are open, and the
\* current span (the original one, or a continuation under it) is still
\* running unless the test is paused (gotest.go:36-57, 540-584).
EntriesSound ==
    \A k \in DOMAIN spans :
      LET e == spans[k] IN
      /\ spanTab[e.orig].kind = "test" /\ Of(spanTab, e.orig, k)
      /\ spanTab[e.orig].eofs = 0
      /\ spanTab[e.cur].ends = (IF e.paused THEN 1 ELSE 0)
      /\ e.cur # e.orig => /\ spanTab[e.cur].kind = "continue"
                           /\ Of(spanTab, e.cur, k)
                           /\ spanTab[e.cur].parent = e.orig

\* A test is active only while it has an entry and is not paused: the lookup
\* that may fail at gotest.go:487-489 never does.
ActiveAreRunning ==
    \A p \in Pkgs : \A t \in activeTests[p] :
      <<p, t>> \in DOMAIN spans /\ ~spans[<<p, t>>].paused

\* A package's entry is its running span, whose streams are open until Run
\* returns.
PackagesSound ==
    \A p \in DOMAIN pkgSpans :
      LET s == spanTab[pkgSpans[p]] IN
      /\ s.kind = "package" /\ s.pkg = p
      /\ s.ends = 0
      /\ ~returned => s.eofs = 0

UnderRightSpan(tab, i) ==
    LET s == tab[i]
        above == tab[s.parent]
    IN  /\ s.kind = "package" => s.parent = 0
        /\ s.kind = "test" /\ s.parent # 0 =>
             /\ s.parent \in 1..(i - 1)
             /\ above.pkg = s.pkg
             /\ \/ above.kind = "package"
                \/ above.kind = "test" /\ IsStrictPrefix(above.test, s.test)
        /\ s.kind = "continue" =>
             /\ s.parent \in 1..(i - 1) /\ s.link \in 1..(i - 1)
             /\ above.kind = "test" /\ Of(tab, s.parent, <<s.pkg, s.test>>)
             /\ tab[s.link].kind # "package" /\ Of(tab, s.link, <<s.pkg, s.test>>)

\* The trace is a tree of the right shape: a test is under the root, its
\* package's span, or the original span of a test of its package that its
\* name extends, never under an internal continuation (gotest.go:477-498);
\* a continuation is under the original span of its own test, and linked to a
\* span of that test.
ParentsSound == \A i \in 1..lastSpan : UnderRightSpan(spanTab, i)

\* The EOF record is the last word on a stream: nothing is logged to a span
\* after it, and it is sent once (logging.go:37-46).
NothingAfterEOF ==
    [][\A i \in 1..lastSpan : spanTab[i].eofs > 0 =>
         spanTab'[i].eofs = spanTab[i].eofs /\ logged'[i] = logged[i]]_runVars
============================================================================
