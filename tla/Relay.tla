------------------------------ MODULE Relay ------------------------------
(***************************************************************************)
(* Telemetry that crosses processes: exported to the wire, imported on the *)
(* other side, and exported again, as by an engine between a program and a *)
(* collector. The records pass through transform.go at every crossing.     *)
(***************************************************************************)
EXTENDS Transform

CONSTANTS Batches, \* what may be exported: the signal and its SDK records
          Foreign, \* batches of spans another OTLP client may put on the wire
          MaxHops  \* how many processes import it

VARIABLES signal, \* "spans", "logs" or "metrics"
          sent,   \* the SDK records exported first, or made of the foreign batch
          sdk,    \* the SDK records where the batch is now
          wire,   \* the batch on the wire
          onWire, \* whether it is on the wire
          hops,   \* how many times it was imported
          failed  \* a conversion has reported an error

relayVars == <<signal, sent, sdk, wire, onWire, hops, failed>>

RelayInit ==
    /\ \/ \E b \in Batches : /\ signal = b.signal /\ sent = b.records
                             /\ wire = <<>> /\ onWire = FALSE
       \/ \E w \in Foreign : /\ signal = "spans" /\ sent = SpansFromPB(w)
                             /\ wire = w /\ onWire = TRUE
    /\ sdk = sent /\ hops = 0 /\ failed = FALSE

ExportSpans == signal = "spans" /\ wire' \in SpansToPB(sdk) /\ failed' = failed
ExportLogs == signal = "logs" /\ wire' \in LogsToPB(sdk) /\ failed' = failed
ExportMetrics ==
    /\ signal = "metrics"
    /\ LET r == ResourceMetricsToPB(sdk) IN wire' = r.out /\ failed' = (failed \/ r.err)
Export ==
    /\ ~onWire /\ hops < MaxHops
    /\ ExportSpans \/ ExportLogs \/ ExportMetrics
    /\ onWire' = TRUE
    /\ UNCHANGED <<signal, sent, sdk, hops>>

ImportSpans == signal = "spans" /\ sdk' = SpansFromPB(wire) /\ failed' = failed
ImportLogs == signal = "logs" /\ sdk' = ReexportLogsFromPB(wire) /\ failed' = failed
ImportMetrics ==
    /\ signal = "metrics"
    /\ LET r == ResourceMetricsFromPB(wire) IN sdk' = r.out /\ failed' = (failed \/ r.err)
Import ==
    /\ onWire
    /\ ImportSpans \/ ImportLogs \/ ImportMetrics
    /\ onWire' = FALSE /\ hops' = hops + 1
    /\ UNCHANGED <<signal, sent, wire>>

RelayNext == Export \/ Import

-----------------------------------------------------------------------------
(* What arrives, whatever the number of crossings.                         *)

Arrived(s) == signal = s /\ ~onWire /\ hops > 0

\* An attribute arrives as it is, but that a slice without elements has lost
\* their type and an invalid value is a string.
SameValue(v) ==
    IF v.k = "INVALID" THEN Val("STRING", "INVALID", <<>>)
    ELSE IF v.k \in DOMAIN sliceOf /\ v.items = <<>> THEN Val("STRINGSLICE", "", <<>>)
    ELSE v
SameAttrs(as) == Map(LAMBDA a : [a EXCEPT !.val = SameValue(@)], as)

Group(batch, name, attrs) ==
    SelectSeq(batch, LAMBDA x : x.scope.name = name /\ SameAttrs(x.resource.attrs) = SameAttrs(attrs))

\* A received batch has the records sent, those of one resource and scope in
\* the order they were sent, each as Same makes it.
Arrives(Same(_)) ==
    /\ Len(sdk) = Len(sent)
    /\ \A i \in DOMAIN sent :
         LET n == sent[i].scope.name  r == sent[i].resource.attrs
         IN Map(LAMBDA s : [s EXCEPT !.resource = @.attrs], Group(sdk, n, r))
              = Map(Same, Group(sent, n, r))

\* A span arrives whole at any number of processes: its times in order (so that
\* a live span is live and an ended one ended), its attributes, links, events and
\* status, its place under its parent; what is lost is named here: the schema
\* and attributes of its scope, what its parent's and links' contexts have beside their
\* identity, the attributes dropped from a link, the count of its children. What the first
\* process made of a foreign batch no later process changes.
SpansArrive == Arrived("spans") =>
    Arrives(LAMBDA s :
        [s EXCEPT !.attrs = SameAttrs(@), !.resource = SameAttrs(@.attrs), !.scope.schema = "",
                  !.scope.attrs = <<>>, !.children = 0,
                  !.ctx.sampled = TRUE, !.ctx.remote = FALSE,
                  !.parent = IF @.span = "" THEN @ ELSE Context(s.ctx.trace, @.span),
                  !.links = Map(LAMBDA l : [l EXCEPT !.attrs = SameAttrs(@), !.dropped = 0,
                                                     !.ctx = Context(@.trace, @.span)], @),
                  !.events = Map(LAMBDA e : [e EXCEPT !.attrs = SameAttrs(@)], @)])

\* A log record arrives with its time, severity, body and attributes to any
\* depth, its span and the name, version and schema of its scope. The time it was
\* observed, the count of the attributes dropped from it, its trace flags, its event
\* name and the attributes of its scope are lost.
RECURSIVE SameLogValue(_)
SameLogValue(v) ==
    IF v.k = "Empty" THEN Val("String", "INVALID", <<>>)
    ELSE [v EXCEPT !.items = Map(SameLogValue, @)]
LogsArrive == Arrived("logs") =>
    Arrives(LAMBDA l : [l EXCEPT !.body = SameLogValue(@), !.attrs = SameLogValue(@),
                                 !.observed = 0, !.dropped = 0, !.flags = 0, !.event = "",
                                 !.scope.attrs = <<>>, !.resource = SameAttrs(@.attrs)])

\* Metrics arrive with their points and exemplars, or a conversion has reported
\* an error: no metric of a batch is missing without one. A time before 1970 (a
\* gauge's start time that was not set) arrives as 1970, a gauge without points as
\* a metric without data, a scope without its schema and attributes.
SameExemplars(es) ==
    Map(LAMBDA e : [e EXCEPT !.attrs = SameAttrs(@), !.time = timeUnixNano(@)], es)
SamePoints(ps) ==
    Map(LAMBDA p : [p EXCEPT !.attrs = SameAttrs(@), !.start = timeUnixNano(@),
                             !.time = timeUnixNano(@), !.exemplars = SameExemplars(@)], ps)
SameMetric(m) ==
    [m EXCEPT !.points = SamePoints(@), !.agg = IF m.points = <<>> THEN "none" ELSE @]
MetricsArriveOrFail == Arrived("metrics") /\ ~failed =>
    sdk = Map(LAMBDA sm : [metrics |-> Map(SameMetric, sm.metrics),
                           scope |-> [sm.scope EXCEPT !.schema = "", !.attrs = <<>>]], sent)
\* What a process is sent by another is what that exported, whatever the signal
\* and however many processes it went through.
SignalsArrive == SpansArrive /\ LogsArrive /\ MetricsArriveOrFail
=============================================================================
