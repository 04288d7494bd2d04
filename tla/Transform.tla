---------------------------- MODULE Transform ----------------------------
(***************************************************************************)
(* transform.go: what the SDK's spans, log records and metrics become on   *)
(* the wire (OTLP), and what is made of them on the other side.            *)
(*                                                                         *)
(* A value is a record of its kind, a token for what it holds, and its     *)
(* elements; strings, numbers and bytes are tokens.                        *)
(***************************************************************************)
EXTENDS Wire
-----------------------------------------------------------------------------
(* Attribute values                                                        *)

scalarFromPB(c) == CHOOSE t \in DOMAIN scalarToPB : scalarToPB[t] = c

\* A slice's elements are read as its type; the others have none of it (so
\* does a byte string read as a string).
arrayOf(type, elems) ==
    Val(CHOOSE t \in DOMAIN sliceOf : sliceOf[t] = type, "",
        Map(LAMBDA e : Val(type, IF e.k = scalarToPB[type] THEN e.x ELSE "", <<>>), elems))

\* "text" stands for the printed form of what no attribute can hold.
RECURSIVE attrValue(_)
anyArrayToAttrValue(elems) ==
    LET types == {attrValue(elems[i]).k : i \in DOMAIN elems}
    IN IF types = {} THEN Val("STRINGSLICE", "", <<>>)
       ELSE IF Cardinality(types) > 1 \/ ~types \subseteq DOMAIN scalarToPB
       THEN Val("STRING", "text", <<>>)
       ELSE arrayOf(CHOOSE t \in types : TRUE, elems)
attrValue(p) ==
    CASE p.k \in {"bool", "int", "double", "string"} -> Val(scalarFromPB(p.k), p.x, <<>>)
      [] p.k = "bytes" -> Val("STRING", p.x, <<>>)
      [] p.k = "nil"   -> Val("STRING", "", <<>>)
      [] p.k = "array" -> anyArrayToAttrValue(p.items)
      [] OTHER         -> Val("STRING", "text", <<>>)

AttributesFromProto(kvs) == Map(LAMBDA a : [key |-> a.key, val |-> attrValue(a.val)], kvs)

-----------------------------------------------------------------------------
(* Log values                                                              *)

logKinds == [Bool |-> "bool", Int64 |-> "int", Float64 |-> "double", String |-> "string",
             Bytes |-> "bytes", Slice |-> "array", Map |-> "kvlist", KeyValue |-> "kv"]

RECURSIVE LogValueToPB(_), LogValueFromPB(_)
LogValueToPB(v) ==
    IF v.k \in DOMAIN logKinds THEN Val(logKinds[v.k], v.x, Map(LogValueToPB, v.items))
    ELSE Val("string", "INVALID", <<>>)
LogValueFromPB(p) ==
    IF p.k = "nil" THEN Val("String", "", <<>>)
    ELSE Val(CHOOSE k \in DOMAIN logKinds : logKinds[k] = p.k, p.x, Map(LogValueFromPB, p.items))

-----------------------------------------------------------------------------
(* Spans                                                                   *)

spanKinds == {"internal", "client", "server", "producer", "consumer"}
spanKindToPB(k) == IF k \in spanKinds THEN k ELSE "unspecified"
spanKindFromPB(k) == IF k \in spanKinds THEN k ELSE "unspecified"
status(code) == IF code \in {"ok", "error"} THEN code ELSE "unset"
StatusCodeFromPB(code) == IF code \in {"ok", "error"} THEN code ELSE "unset"

NoContext == [trace |-> "", span |-> "", state |-> "", sampled |-> FALSE, remote |-> FALSE]
Context(t, s) == [NoContext EXCEPT !.trace = t, !.span = s]
NoScope == [name |-> "", version |-> "", schema |-> "", attrs |-> <<>>]

SpanLinksToPB(ls) ==
    Map(LAMBDA l : [trace |-> l.ctx.trace, span |-> l.ctx.span, remote |-> l.ctx.remote,
                    attrs |-> KeyValues(l.attrs), dropped |-> l.dropped], ls)
SpanLinksFromPB(ls) ==
    Map(LAMBDA l : [ctx |-> Context(l.trace, l.span),
                    attrs |-> AttributesFromProto(l.attrs), dropped |-> 0], ls)
SpanEventsToPB(es) ==
    Map(LAMBDA e : [name |-> e.name, time |-> toUnsigned(e.time),
                    attrs |-> KeyValues(e.attrs), dropped |-> e.dropped], es)
SpanEventsFromPB(es) ==
    Map(LAMBDA e : [name |-> e.name, time |-> fromUnsigned(e.time),
                    attrs |-> AttributesFromProto(e.attrs), dropped |-> e.dropped], es)

spanToPB(s) ==
    [trace |-> s.ctx.trace, span |-> s.ctx.span, state |-> s.ctx.state,
     parent |-> s.parent.span, remote |-> s.parent.remote,
     name |-> s.name, kind |-> spanKindToPB(s.kind),
     start |-> toUnsigned(s.start), end |-> toUnsigned(s.end),
     attrs |-> KeyValues(s.attrs), links |-> SpanLinksToPB(s.links),
     events |-> SpanEventsToPB(s.events),
     code |-> status(s.code), message |-> s.message, dropped |-> s.dropped]
     \* and not s.children, how many spans were started under it

InstrumentationScopeFromPB(sc) == [NoScope EXCEPT !.name = sc.name, !.version = sc.version]
ResourceFromPB(schema, attrs) == [attrs |-> AttributesFromProto(attrs), schema |-> schema]

\* What the accessors of a received span return.
readOnlySpan(p, scope, resource, schema) ==
    [ctx |-> [Context(p.trace, p.span) EXCEPT !.state = p.state, !.sampled = TRUE],
     parent |-> IF p.parent = "" THEN NoContext ELSE Context(p.trace, p.parent),
     name |-> p.name, kind |-> spanKindFromPB(p.kind),
     start |-> fromUnsigned(p.start), end |-> fromUnsigned(p.end),
     attrs |-> AttributesFromProto(p.attrs), links |-> SpanLinksFromPB(p.links),
     events |-> SpanEventsFromPB(p.events),
     code |-> StatusCodeFromPB(p.code), message |-> p.message, dropped |-> p.dropped, children |-> 0,
     scope |-> InstrumentationScopeFromPB(scope), resource |-> ResourceFromPB(schema, resource)]

SpansToPB(batch) == AnyOrder(GroupByResource(batch, spanToPB))

SpansFromPB(groups) ==
    FlatMap(LAMBDA g : FlatMap(LAMBDA sc : Map(LAMBDA p : readOnlySpan(p, sc.scope, g.resource, g.schema),
                                               sc.records), g.scopes), groups)

-----------------------------------------------------------------------------
(* Log records                                                             *)

\* The time a record was observed, how many of its attributes were dropped, its
\* trace flags and its event name are not written.
logRecord(l) ==
    [time |-> toUnsigned(l.time), observed |-> 0, severity |-> l.severity,
     body |-> LogValueToPB(l.body), attrs |-> LogValueToPB(l.attrs),
     dropped |-> 0, flags |-> 0, event |-> "", trace |-> l.trace, span |-> l.span]

LogsToPB(batch) == AnyOrder(GroupByResource(batch, logRecord))

\* Every record is emitted with a provider of its group's resource and a logger
\* of its scope, and collected in that order; a record's flags, event name and
\* dropped attributes are not read.
ReexportLogsFromPB(groups) ==
    FlatMap(LAMBDA g : FlatMap(LAMBDA sc : Map(LAMBDA p :
        [time |-> fromUnsigned(p.time), observed |-> fromUnsigned(p.observed),
         severity |-> p.severity, body |-> LogValueFromPB(p.body),
         attrs |-> LogValueFromPB(p.attrs), dropped |-> 0, flags |-> 0, event |-> "",
         trace |-> p.trace, span |-> p.span,
         scope |-> [InstrumentationScopeFromPB(sc.scope)
                      EXCEPT !.schema = sc.schema, !.attrs = AttributesFromProto(sc.scope.attrs)],
         resource |-> ResourceFromPB(g.schema, g.resource)], sc.records), g.scopes), groups)

-----------------------------------------------------------------------------
(* Metrics: an aggregation is its kind, its numbers, its temporality and   *)
(* its points. A conversion returns what it kept and whether it reported   *)
(* an error.                                                               *)

Result(out, err) == [out |-> out, err |-> err]
\* What is kept of s when those for which Bad are left out and reported.
Kept(s, Bad(_), Op(_)) ==
    Result(Map(Op, SelectSeq(s, LAMBDA x : ~Bad(x))), \E i \in DOMAIN s : Bad(s[i]))

withTemporality == {"sum", "histogram", "exphistogram"}
invalidToPB(m) == \/ m.agg \notin withTemporality \cup {"gauge", "summary"}
                  \/ m.agg \in withTemporality /\ m.temporality \notin {"delta", "cumulative"}
ExemplarsToPB(es) == Map(LAMBDA e : [e EXCEPT !.attrs = KeyValues(@), !.time = timeUnixNano(@)], es)
exemplarsFromPB(num, es) ==
    Map(LAMBDA e : [e EXCEPT !.attrs = AttributesFromProto(@)], SelectSeq(es, LAMBDA e : e.num = num))
DataPointsToPB(ps) ==
    Map(LAMBDA p : [p EXCEPT !.attrs = KeyValues(@), !.start = timeUnixNano(@),
                             !.time = timeUnixNano(@), !.exemplars = ExemplarsToPB(@)], ps)
metricToPB(m) == [m EXCEPT !.points = DataPointsToPB(@)]
MetricsToPB(ms) == Kept(ms, invalidToPB, metricToPB)

\* Only gauges are read; one whose points have both kinds of number keeps the
\* integers, one without points has no data (and reports nothing).
invalidFromPB(m) == m.agg # "gauge"
dataPointsFromPB(ps, num) ==
    Map(LAMBDA p : [p EXCEPT !.attrs = AttributesFromProto(@),
                             !.exemplars = exemplarsFromPB(num, @)],
        SelectSeq(ps, LAMBDA p : p.num = num))
gaugeFromPB(m) ==
    LET ints == dataPointsFromPB(m.points, "int")
        doubles == dataPointsFromPB(m.points, "double")
    IN IF ints # <<>> THEN ints ELSE doubles
metricFromPB(m) ==
    LET ps == gaugeFromPB(m) IN [m EXCEPT !.points = ps, !.agg = IF ps = <<>> THEN "none" ELSE @]
MetricsFromPB(ms) == Kept(ms, invalidFromPB, metricFromPB)

\* A scope with a metric that cannot be converted is left out as a whole.
badScopeToPB(sm) == MetricsToPB(sm.metrics).err
badScopeFromPB(sm) == MetricsFromPB(sm.metrics).err
ScopeMetricsToPB(sms) ==
    Kept(sms, badScopeToPB,
         LAMBDA sm : [metrics |-> MetricsToPB(sm.metrics).out, schema |-> sm.scope.schema,
                      scope |-> InstrumentationScopeToPB(sm.scope)])
ScopeMetricsFromPB(sms) ==
    Kept(sms, badScopeFromPB,
         LAMBDA sm : [metrics |-> MetricsFromPB(sm.metrics).out,
                      scope |-> InstrumentationScopeFromPB(sm.scope)])
\* Partial data with an error one way, none the other.
ResourceMetricsToPB(sms) == ScopeMetricsToPB(sms)
ResourceMetricsFromPB(sms) ==
    LET r == ScopeMetricsFromPB(sms) IN IF r.err THEN Result(<<>>, TRUE) ELSE r
=============================================================================
