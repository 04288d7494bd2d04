---------------------------- MODULE LiveExport ----------------------------
(***************************************************************************)
(* A program that exports its spans while they run (live.go, init.go), and *)
(* an engine that receives them and forwards them (exporters.go), with the *)
(* wire of transform.go between the two. The batch span processor and the log *)
(* processor are the SDK's: a bounded queue that drops what does not fit,  *)
(* emptied batch by batch in order, and drained when shut down.            *)
(***************************************************************************)
EXTENDS Wire

CONSTANTS Spans,      \* the spans of the program
          Completion, \* the one that declares how many a wcprof producer started
          Where(_),   \* the resource and scope of a span
          Setups,     \* the calls of Init: records [embedded, detect, live, env, tui, spans]
          QueueSize,  \* capacity of a processor's queue
          BatchSize   \* how many records an export takes at most

ASSUME ExportAssumption == /\ QueueSize \in Nat \ {0} /\ BatchSize \in Nat \ {0}
                           /\ IsFiniteSet(Spans) /\ Completion \in Spans

\* The program's processors, of the OTEL_* exporter, of another exporter of its
\* configuration and of its logs; the engine's, that SpanForwarder feeds.
Program == {"otel", "tui", "logs"}
Engine == {"e.live", "e.batch"}
Processors == Program \cup Engine

VARIABLES phase,    \* "off", "running", "closing", "closed"
          program,  \* the spans the program may start
          kind,     \* what each processor is: "none", "live", "batch" or "filtered"
          span,     \* each span: "new", "live" or "ended"
          intime,   \* the spans that had ended, and the logs emitted, when Close was called
          queue,    \* of each processor, the records that wait
          flight,   \* the program waits for the engine to answer its export
          down,     \* it has been shut down
          lost,     \* the records a full queue or a stopped processor ignored
          got,      \* what each processor's exporter has delivered to its collector
          arrived,  \* the batch the engine is forwarding
          at,       \* how many of its records each of the engine's processors was given
          stopping, \* the processors Close has still to shut down, in order
          expired,  \* the deadline of Close's flush has passed
          started,  \* Producer.spans: the spans counted
          declared  \* the count Complete declared

vars == <<phase, program, kind, span, intime, queue, flight, down, lost, got, arrived, at, stopping,
          expired, started, declared>>
pipes == <<queue, flight, down, lost, got, arrived, at>>

Record(s, end) == [span |-> s, start |-> 1, end |-> end,
                   resource |-> Where(s).resource, scope |-> Where(s).scope]
Live(r) == r.end < r.start
Final(s) == Record(s, 2)

\* Mutant: OnStart queues the span itself, which has ended when it is exported.
SnapshotShared(s) == Final(s)

\* SnapshotSpan: a later End does not change it.
Snapshot(s) == Record(s, ZeroTime)

-----------------------------------------------------------------------------
(* The exporters around a batch                                            *)

\* The latest record of each span, in the place of its first; a completed one
\* is never replaced by a live one.
FilterLive(batch) == Among(batch, {r \in Range(batch) : ~Live(r)})
Latest(rs) == LET done == FilterLive(rs) IN IF done = <<>> THEN Last(rs) ELSE Last(done)
Coalesce(batch) ==
    Map(LAMBDA id : Latest(Among(batch, {r \in Range(batch) : r.span = id})),
        Once(Map(LAMBDA r : r.span, batch)))

Exported(k, batch) ==
    CASE k = "live" -> Coalesce(batch) [] k = "filtered" -> FilterLive(batch) [] OTHER -> batch

\* The orders a batch may have after the wire, live records still live.
ToPB(r) == [r EXCEPT !.start = toUnsigned(@), !.end = toUnsigned(@)]
FromPB(r) == [r EXCEPT !.start = fromUnsigned(@), !.end = fromUnsigned(@)]
Received(groups) == FlatMap(LAMBDA g : FlatMap(LAMBDA sc : Map(FromPB, sc.records), g.scopes), groups)
Crossed(batch) == {Received(w) : w \in AnyOrder(GroupByResource(batch, ToPB))}

-----------------------------------------------------------------------------
(* Init and InitEmbedded                                                   *)

\* Whether the environment configures an exporter of signal s, and where it
\* sends: an endpoint of the signal wins, the general one is only for traces,
\* with the path added when the protocol is http/protobuf.
Or(a, b) == IF a # "" THEN a ELSE b
Protocol(env, s) == Or(env[s].protocol, Or(env.protocol, "http/protobuf"))
Endpoint(env, s) ==
    IF env[s].endpoint # "" THEN [base |-> env[s].endpoint, path |-> ""]
    ELSE IF s # "traces" THEN [base |-> "", path |-> ""]
    ELSE [base |-> env.endpoint,
          path |-> IF Protocol(env, s) = "http/protobuf" /\ env.endpoint # "" THEN "v1/traces" ELSE ""]
Configured(env, s) ==
    Endpoint(env, s).base # "" /\ Protocol(env, s) \in {"http/protobuf", "http", "grpc"}

\* How Init exports: InitEmbedded always live, Init by OTEL_EXPORTER_OTLP_TRACES_LIVE.
Kinds(u) ==
    LET has(s) == (u.embedded \/ u.detect) /\ Configured(u.env, s)
    IN [p \in Processors |->
          CASE p = "otel" -> IF ~has("traces") THEN "none"
                             ELSE IF u.embedded \/ u.live THEN "live" ELSE "filtered"
            [] p = "tui"  -> IF u.embedded THEN "none" ELSE u.tui
            [] p = "logs" -> IF has("logs") THEN "batch" ELSE "none"
            [] p = "e.live" -> "live" [] p = "e.batch" -> "filtered"]

Init ==
    /\ phase = "off" /\ program = {} /\ kind = [p \in Processors |-> "none"]
    /\ span = [s \in Spans |-> "new"] /\ intime = {}
    /\ queue = [p \in Processors |-> <<>>] /\ got = queue /\ flight = FALSE
    /\ down = [p \in Processors |-> FALSE] /\ lost = {}
    /\ arrived = <<>> /\ at = [e \in Engine |-> 0]
    /\ stopping = <<>> /\ expired = FALSE /\ started = 0 /\ declared = 0

InitTelemetry(u) ==
    /\ phase = "off" /\ phase' = "running"
    /\ kind' = Kinds(u) /\ program' = u.spans
    /\ UNCHANGED <<span, intime, stopping, expired, started, declared>> /\ UNCHANGED pipes

-----------------------------------------------------------------------------
(* The program                                                             *)

\* The processors of ps are given r, each if it has room and is not down.
Enqueue(ps, r) ==
    LET room == {p \in ps : kind[p] # "none" /\ ~down[p] /\ Len(queue[p]) < QueueSize}
    IN /\ queue' = [p \in Processors |-> IF p \in room THEN Append(queue[p], r) ELSE queue[p]]
       /\ lost' = lost \cup {<<p, r>> : p \in {q \in ps : kind[q] # "none"} \ room}

LiveOnes(ps) == {p \in ps : kind[p] = "live"}
SpanProcessors == {"otel", "tui"}

\* Mutant: the counter is set, not added to.
CountedOnce(s) == s # Completion /\ started = 0

\* The spans Producer.start counts.
Counted(s) == s # Completion

\* Producer.start and tracer.Start; a live processor queues a snapshot. Complete
\* starts a span too, uncounted, when all the others have ended.
Start(s) ==
    /\ phase = "running" /\ s \in program /\ span[s] = "new" /\ span[Completion] = "new"
    /\ s = Completion => \A t \in Spans : span[t] # "live"
    /\ span' = [span EXCEPT ![s] = "live"]
    /\ started' = IF Counted(s) THEN started + 1 ELSE started
    /\ declared' = IF s = Completion THEN started ELSE declared
    /\ Enqueue(LiveOnes(SpanProcessors), Snapshot(s))
    /\ UNCHANGED <<phase, program, kind, intime, flight, down, got, arrived, at, stopping, expired>>

\* End is given to every processor, and a log record is emitted with it.
End(s) ==
    /\ phase \in {"running", "closing"} /\ span[s] = "live"
    /\ span' = [span EXCEPT ![s] = "ended"]
    /\ Enqueue(Program, Final(s))
    /\ UNCHANGED <<phase, program, kind, intime, flight, down, got, arrived, at, stopping, expired,
                   started, declared>>

-----------------------------------------------------------------------------
(* The processors' goroutines                                              *)

\* A batch of a processor's queue reaches its exporter's collector.
Deliver(p, n) ==
    /\ p # "otel" /\ n <= Len(queue[p])
    /\ phase # "closed" \/ p \in Engine
    /\ got' = [got EXCEPT ![p] = @ \o Exported(kind[p], SubSeq(queue[p], 1, n))]
    /\ queue' = [queue EXCEPT ![p] = SubSeq(@, n + 1, Len(@))]
    /\ UNCHANGED <<phase, program, kind, span, intime, flight, down, lost, arrived, at, stopping, expired,
                   started, declared>>

\* The program calls the engine with a batch: the engine's handler decodes it and
\* calls SpanForwarder.ExportSpans, which answers when every goroutine is done.
Call(n) ==
    /\ phase # "closed" /\ ~flight /\ arrived = <<>> /\ n <= Len(queue["otel"])
    /\ arrived' \in Crossed(Exported(kind["otel"], SubSeq(queue["otel"], 1, n)))
    /\ queue' = [queue EXCEPT !["otel"] = SubSeq(@, n + 1, Len(@))]
    /\ flight' = TRUE
    /\ at' = [e \in Engine |-> 0]
    /\ UNCHANGED <<phase, program, kind, span, intime, down, lost, got, stopping, expired, started, declared>>

\* The goroutine of the engine's processor e: OnStart for a live record, which
\* only a live processor queues, OnEnd for a completed one.
Forward(e) ==
    /\ at[e] < Len(arrived)
    /\ at' = [at EXCEPT ![e] = @ + 1]
    /\ LET r == arrived[at[e] + 1]
       IN Enqueue(IF Live(r) THEN LiveOnes({e}) ELSE {e}, r)
    /\ UNCHANGED <<phase, program, kind, span, intime, flight, down, got, arrived, stopping, expired,
                   started, declared>>

\* Mutant: the first goroutine's result answers.
ForwardedByOne == \E e \in Engine : at[e] = Len(arrived)

Forwarded == \A e \in Engine : at[e] = Len(arrived)
Answer ==
    /\ arrived # <<>> /\ Forwarded
    /\ arrived' = <<>> /\ at' = [e \in Engine |-> 0]
    /\ flight' = FALSE
    /\ got' = [got EXCEPT !["otel"] = @ \o arrived]
    /\ UNCHANGED <<phase, program, kind, span, intime, queue, down, lost, stopping, expired, started,
                   declared>>

-----------------------------------------------------------------------------
(* Close: the tracer provider's processors, then the logger provider's, are *)
(* shut down one after the other, all within one deadline.                  *)

\* As Init registered them: the live ones first.
Registered ==
    LET sps == Among(<<"tui", "otel">>, {p \in Processors : kind[p] # "none"})
        live == LiveOnes(Processors)
    IN Among(sps, live) \o Among(sps, Processors \ live)
         \o IF kind["logs"] = "none" THEN <<>> ELSE <<"logs">>

CloseTelemetry ==
    /\ phase = "running" /\ phase' = "closing"
    /\ intime' = {s \in Spans : span[s] = "ended"}
    /\ stopping' = Registered
    /\ UNCHANGED <<program, kind, span, expired, started, declared>> /\ UNCHANGED pipes

Shutdown ==
    /\ phase = "closing" /\ stopping # <<>> /\ ~down[Head(stopping)]
    /\ down' = [down EXCEPT ![Head(stopping)] = TRUE]
    /\ UNCHANGED <<phase, program, kind, span, intime, queue, flight, lost, got, arrived, at, stopping,
                   expired, started, declared>>

\* Mutant: Shutdown does not wait for the export under way.
IdleQueue(p) == queue[p] = <<>>

Idle(p) == queue[p] = <<>> /\ (p = "otel" => ~flight)
ShutdownDone ==
    /\ phase = "closing" /\ stopping # <<>> /\ down[Head(stopping)]
    /\ expired \/ Idle(Head(stopping))
    /\ stopping' = Tail(stopping)
    /\ UNCHANGED <<phase, program, kind, span, intime, expired, started, declared>> /\ UNCHANGED pipes

Expire ==
    /\ phase = "closing" /\ stopping # <<>> /\ ~expired
    /\ expired' = TRUE
    /\ UNCHANGED <<phase, program, kind, span, intime, stopping, started, declared>> /\ UNCHANGED pipes

\* Close returns, and the program exits: what it still holds is gone.
Closed ==
    /\ phase = "closing" /\ stopping = <<>>
    /\ phase' = "closed"
    /\ UNCHANGED <<program, kind, span, intime, stopping, expired, started, declared>> /\ UNCHANGED pipes

Goroutines == \/ \E n \in 1 .. BatchSize : Call(n) \/ \E p \in Processors : Deliver(p, n)
              \/ Answer \/ \E e \in Engine : Forward(e)
Closing == Shutdown \/ ShutdownDone \/ Closed
Next == \/ \E u \in Setups : InitTelemetry(u)
        \/ \E s \in Spans : Start(s) \/ End(s)
        \/ Goroutines \/ CloseTelemetry \/ Expire \/ Closing
ExportSpec == Init /\ [][Next]_vars

-----------------------------------------------------------------------------
(* Properties of the program's and the engine's exports                    *)

Collectors == {"tui", "e.live", "e.batch"}
Completed(c, s) == \E i \in DOMAIN got[c] : got[c][i].span = s /\ ~Live(got[c][i])
NotDropped(p, s) == \A l \in lost : ~(l[1] = p /\ l[2].span = s /\ ~Live(l[2]))

\* Whatever is dropped, delayed or cut off by the deadline, no collector is told
\* anything of a span after it was told the completed span, and one that does
\* not take live spans is told nothing else: a span is completed once.
FinalRecordWins ==
    \A c \in Collectors : \A i, j \in DOMAIN got[c] :
        /\ i < j /\ got[c][i].span = got[c][j].span => Live(got[c][i])
        /\ Live(got[c][i]) => kind[c] = "live"

\* When Close returns within its deadline, every span that had ended before it
\* and was not dropped by a full queue has reached the program's own collectors
\* and the engine, completed, and its logs theirs: the shutdown of one processor
\* loses nothing of those after it.
NothingLostAtClose ==
    phase = "closed" /\ ~expired =>
        \A s \in intime : \A p \in Program :
            kind[p] # "none" /\ NotDropped(p, s) => Completed(p, s)

\* A reader that has the completion and as many completed spans as it declares
\* has all the spans the program started, even when queues were full or Close
\* was cut off (wcprof.go:15-17).
DeclaredTells ==
    \A c \in {"tui", "e.batch"} :
        LET read == {s \in Spans \ {Completion} : Completed(c, s)}
        IN Completed(c, Completion) /\ Cardinality(read) = declared
             => read = {s \in Spans \ {Completion} : span[s] # "new"}

\* Again and again the engine is up to date: what it was given as completed has
\* reached both of its collectors, unless its queue was full, so the live one does
\* not keep showing a span as running.
EngineTellsBoth ==
    []<>(\A s \in Spans, e \in Engine :
           Completed("otel", s) => Completed(e, s) \/ ~NotDropped(e, s))
=============================================================================
