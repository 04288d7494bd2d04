----------------------------- MODULE MCExport -----------------------------
EXTENDS LiveExport, Relay
-----------------------------------------------------------------------------
(* Batches that cross processes: alone, a span or a log record with each   *)
(* kind of value; together, records of two resources and two scopes.       *)

S(x) == Val("STRING", x, <<>>)
AttrValues ==
    {S("a"), Val("INT64", "1", <<>>), Val("FLOAT64", "1", <<>>), Val("BOOL", "t", <<>>),
     Val("INVALID", "", <<>>)}
    \cup {Val(t, "", Map(LAMBDA x : Val(sliceOf[t], x, <<>>), xs)) :
            t \in DOMAIN sliceOf, xs \in {<<>>, <<"a">>, <<"a", "b">>}}
Attrs(v) == <<[key |-> "k", val |-> v]>>

Resources == {[attrs |-> Attrs(S("r1")), schema |-> "s1"],
              [attrs |-> Attrs(S("r1")), schema |-> ""],
              [attrs |-> <<>>, schema |-> "s1"]}
Scopes == {NoScope, [name |-> "lib", version |-> "v", schema |-> "s", attrs |-> Attrs(S("a"))]}

Span(id, v, res, sc, end) ==
    [ctx |-> [Context("t", id) EXCEPT !.state = "st", !.sampled = TRUE],
     parent |-> IF id = "1" THEN NoContext ELSE [Context("t", "1") EXCEPT !.remote = TRUE],
     name |-> "n", kind |-> IF id = "1" THEN "server" ELSE "unspecified",
     start |-> 1, end |-> end, attrs |-> Attrs(v),
     links |-> <<[ctx |-> Context("u", id), attrs |-> Attrs(v), dropped |-> 2]>>,
     events |-> <<[name |-> "e", time |-> 2, attrs |-> Attrs(v), dropped |-> 1]>>,
     code |-> IF id = "1" THEN "error" ELSE "unset", message |-> "m",
     dropped |-> 3, children |-> 4, scope |-> sc, resource |-> res]
SpanBatches ==
    {<<Span("1", v, res, sc, end)>> :
       v \in AttrValues, res \in Resources, sc \in Scopes, end \in {ZeroTime, 3}}
    \cup {[i \in 1 .. 3 |-> Span(ToString(i), S("a"), f[i][1], f[i][2], IF i = 2 THEN ZeroTime ELSE 3)] :
            f \in [1 .. 3 -> Resources \X Scopes]}

\* Values only other clients send: elements of several types, of none, byte
\* strings, arrays in arrays and maps.
P(k) == Val(k, "a", <<>>)
PBArray(xs) == Val("array", "", xs)
ForeignValues ==
    {P("nil"), P("bytes"), Val("kvlist", "", <<Val("kv", "k", <<P("int")>>)>>)}
      \cup {PBArray(xs) : xs \in [1 .. 2 -> {P("nil"), P("bytes"), P("string"), P("int"), PBArray(<<>>)}]}
ForeignBatches ==
    {<<[resource |-> <<[key |-> "k", val |-> v]>>, schema |-> "",
        scopes |-> <<[scope |-> InstrumentationScopeToPB(NoScope), schema |-> "",
                      records |-> <<[spanToPB(Span("2", S("a"), [attrs |-> <<>>, schema |-> ""], NoScope, 3))
                                       EXCEPT !.attrs = <<[key |-> "k", val |-> v]>>]>>]>>]>> :
       v \in ForeignValues}

LogScalars == {Val(k, "a", <<>>) : k \in {"Bool", "Int64", "Float64", "String", "Bytes"}}
                \cup {Val("Empty", "", <<>>)}
KV(v) == Val("KeyValue", "k", <<v>>)
Nest(vs) == {Val("Slice", "", <<v>>) : v \in vs} \cup {Val("Map", "", <<KV(v)>>) : v \in vs}
LogValues == LogScalars \cup Nest(LogScalars) \cup Nest(Nest(LogScalars)) \cup {Val("Slice", "", <<>>)}
Log(v, a, res, sc, id) ==
    [time |-> 1, observed |-> 2, severity |-> "info", body |-> v,
     attrs |-> Val("Map", "", <<KV(a)>>), dropped |-> 3, flags |-> 1, event |-> "e",
     trace |-> "t", span |-> id, scope |-> sc, resource |-> res]
LogBatches ==
    {<<Log(v, v, res, sc, "1")>> : v \in LogValues, res \in Resources, sc \in Scopes}
    \cup {[i \in 1 .. 3 |-> LET s == Val("String", ToString(i), <<>>)
                            IN Log(s, s, f[i][1], f[i][2], ToString(i))] :
            f \in [1 .. 3 -> Resources \X Scopes]}

Point(num, v, start) ==
    [attrs |-> Attrs(v), start |-> start, time |-> 2, num |-> num, x |-> "1",
     exemplars |-> <<[attrs |-> Attrs(v), num |-> num, time |-> 1, x |-> "e"]>>]
Metric(agg, num, temporality, n) ==
    [agg |-> agg, num |-> num, temporality |-> temporality,
     points |-> [i \in 1 .. n |-> Point(num, S("a"), IF i = 1 THEN 1 ELSE ZeroTime)]]
Metrics ==
    {Metric("gauge", num, "none", n) : num \in {"int", "double"}, n \in 0 .. 2}
      \cup {Metric("sum", "int", t, 1) : t \in {"delta", "cumulative", "bad"}}
      \cup {Metric("summary", "double", "none", 1), Metric("unknown", "int", "none", 1)}
SimpleMetrics == {Metric("gauge", "int", "none", 1), Metric("sum", "int", "delta", 1)}
MetricBatches ==
    {<<[metrics |-> ms, scope |-> sc], [metrics |-> <<m>>, scope |-> NoScope]>> :
       ms \in UNION {[1 .. n -> Metrics] : n \in 0 .. 2}, m \in SimpleMetrics, sc \in Scopes}

AllBatches ==
    {[signal |-> "spans", records |-> b] : b \in SpanBatches}
      \cup {[signal |-> "logs", records |-> b] : b \in LogBatches}
      \cup {[signal |-> "metrics", records |-> b] : b \in MetricBatches}
-----------------------------------------------------------------------------
(* A program of a task and an acquisition, of two resources, and its       *)
(* completion; it was configured by its environment or by itself.          *)

WhereOf(s) == [resource |-> [attrs |-> Attrs(S(IF s = "b" THEN "r1" ELSE "r2")), schema |-> ""],
               scope |-> NoScope]
Signal(endpoint, protocol) == [endpoint |-> endpoint, protocol |-> protocol]
Env(general, protocol, traces, logs) ==
    [endpoint |-> general, protocol |-> protocol, traces |-> traces, logs |-> logs]
Unset == Signal("", "")
Setup(embedded, live, env, tui, spans) ==
    [embedded |-> embedded, detect |-> ~embedded, live |-> live, env |-> env, tui |-> tui,
     spans |-> spans]
SomeSetups ==
    {Setup(TRUE, FALSE, Env("e", "", Unset, Unset), "none", {"a", "b"}),
     Setup(FALSE, FALSE, Env("e", "grpc", Unset, Unset), "live", {"a", "c"}),
     Setup(FALSE, TRUE, Env("", "", Signal("t", "http"), Signal("l", "grpc")), "batch", {"a"}),
     Setup(FALSE, FALSE, Env("", "", Unset, Unset), "live", {"a", "b", "c"}),
     Setup(FALSE, FALSE, Env("e", "grpc", Unset, Unset), "none", {"a", "b", "c"})}

NoRelay == /\ signal = "none" /\ sent = <<>> /\ sdk = <<>> /\ wire = <<>>
           /\ onWire = FALSE /\ hops = 0 /\ failed = FALSE
MCInit == \/ Init /\ NoRelay
          \/ Init /\ RelayInit
MCNext == \/ signal = "none" /\ Next /\ UNCHANGED relayVars
          \/ signal # "none" /\ RelayNext /\ UNCHANGED vars
\* The engine's batch processors export what is queued when their timer fires.
Fairness == \A e \in Engine : WF_vars(\E n \in 1 .. BatchSize : Deliver(e, n))
Spec == MCInit /\ [][MCNext]_<<vars, relayVars>> /\ Fairness
=============================================================================
