------------------------ MODULE SpanContextRegistry ------------------------
(***************************************************************************)
(* gotest/registry.go: the table through which Run hands the span context  *)
(* of every test it starts to the goroutines that serve the test binary's  *)
(* requests. Each method's critical section (r.mu held) is one action; the *)
(* select at the end of WaitFor runs without the lock, so each of its      *)
(* branches is an action of its own, and when several are ready any may be *)
(* taken. That a critical section is one step relies on its channel sends  *)
(* never blocking, which is what SendNeverBlocks says.                     *)
(***************************************************************************)
CONSTANTS Keys,         \* package-qualified test names
          Callers,      \* calls of WaitFor, each with a channel of its own
          SpanContexts, \* the contexts Run registers
          NoContext     \* the zero SpanContext; "no entry" in r.spans

ASSUME ContextsAssumption == NoContext \notin SpanContexts

VARIABLES spans,   \* r.spans; NoContext where the map has no entry
          waiters, \* r.waiters: the calls parked under each key
          closed,  \* r.closed
          buf,     \* the one buffer slot of each call's channel
          shut,    \* the calls whose channel is closed
          pc,      \* where each call of WaitFor stands
          want,    \* the key it was called with
          res,     \* what it returned; NoContext goes with ok = false
          expired  \* the calls whose ctx is done

rvars == <<spans, waiters, closed, buf, shut, pc, want, res, expired>>
----------------------------------------------------------------------------
MaybeContext == SpanContexts \cup {NoContext}

\* A send finds room, and does not panic.
CanSend(c) == buf[c] = NoContext /\ c \notin shut

RegInit ==
    /\ spans = [k \in Keys |-> NoContext]
    /\ waiters = [k \in Keys |-> {}]
    /\ closed = FALSE
    /\ buf = [c \in Callers |-> NoContext]
    /\ shut = {}
    /\ pc = [c \in Callers |-> "idle"]
    /\ want \in [Callers -> Keys]
    /\ res = [c \in Callers |-> NoContext]
    /\ expired = {}

\* Mutant: Register does not delete the key's waiters once it answered them.
UnparkedNever(k) == waiters

\* The table once Register(k, _) has answered the waiters of k.
Unparked(k) == [waiters EXCEPT ![k] = {}]

\* Mutant: the waiters of k are removed without an answer.
RegisterSilently(k, sc) ==
    /\ spans' = [spans EXCEPT ![k] = sc]
    /\ waiters' = Unparked(k)
    /\ UNCHANGED <<buf, closed, shut, pc, want, res, expired>>

Register(k, sc) ==
    /\ spans' = [spans EXCEPT ![k] = sc]
    /\ buf' = [c \in Callers |-> IF c \in waiters[k] THEN sc ELSE buf[c]]
    /\ waiters' = Unparked(k)
    /\ UNCHANGED <<closed, shut, pc, want, res, expired>>

\* Mutant: Close closes no channel.
ParkedNobody == {}

Parked == UNION {waiters[k] : k \in Keys}

Close ==
    /\ closed' = TRUE
    /\ shut' = shut \cup Parked
    /\ waiters' = [k \in Keys |-> {}]
    /\ UNCHANGED <<spans, buf, pc, want, res, expired>>

Return(c, sc) ==
    /\ pc' = [pc EXCEPT ![c] = "returned"]
    /\ res' = [res EXCEPT ![c] = sc]

\* WaitFor up to its unlock: the context is known, the registry is closed, or
\* the call parks its channel.
WaitForKnown(c) ==
    /\ pc[c] = "idle"
    /\ spans[want[c]] # NoContext
    /\ Return(c, spans[want[c]])
    /\ UNCHANGED <<spans, waiters, closed, buf, shut, want, expired>>

WaitForClosed(c) ==
    /\ pc[c] = "idle"
    /\ spans[want[c]] = NoContext
    /\ closed
    /\ Return(c, NoContext)
    /\ UNCHANGED <<spans, waiters, closed, buf, shut, want, expired>>

\* Mutant: WaitFor does not look at r.closed.
MayParkWhenClosed(k) == spans[k] = NoContext

MayPark(k) == spans[k] = NoContext /\ ~closed

Park(c) ==
    /\ pc[c] = "idle"
    /\ MayPark(want[c])
    /\ waiters' = [waiters EXCEPT ![want[c]] = @ \cup {c}]
    /\ pc' = [pc EXCEPT ![c] = "select"]
    /\ UNCHANGED <<spans, closed, buf, shut, want, res, expired>>

WaitFor(c) == WaitForKnown(c) \/ WaitForClosed(c) \/ Park(c)

\* The branches of the select, any of the ready ones: the buffered context,
\* the closed channel's zero context, ctx.Done(). A call that leaves by
\* ctx.Done() does not take its channel out of r.waiters.
Receive(c) ==
    /\ pc[c] = "select"
    /\ buf[c] # NoContext
    /\ Return(c, buf[c])
    /\ buf' = [buf EXCEPT ![c] = NoContext]
    /\ UNCHANGED <<spans, waiters, closed, shut, want, expired>>

ReceiveClosed(c) ==
    /\ pc[c] = "select"
    /\ buf[c] = NoContext
    /\ c \in shut
    /\ Return(c, NoContext)
    /\ UNCHANGED <<spans, waiters, closed, buf, shut, want, expired>>

CtxDone(c) ==
    /\ pc[c] = "select"
    /\ c \in expired
    /\ Return(c, NoContext)
    /\ UNCHANGED <<spans, waiters, closed, buf, shut, want, expired>>

Select(c) == Receive(c) \/ ReceiveClosed(c) \/ CtxDone(c)

\* The deadline of the ctx given to WaitFor (30 s in handleSpanContextConn).
Expire(c) ==
    /\ pc[c] # "returned"
    /\ expired' = expired \cup {c}
    /\ UNCHANGED <<spans, waiters, closed, buf, shut, pc, want, res>>

RegNext ==
    \/ Close
    \/ \E k \in Keys, sc \in SpanContexts : Register(k, sc)
    \/ \E c \in Callers : WaitFor(c) \/ Select(c) \/ Expire(c)

RegSpec == RegInit /\ [][RegNext]_rvars

\* A goroutine whose select has a ready branch runs on; nothing forces a
\* deadline, a registration or a close to happen.
RegFairSpec == RegSpec /\ \A c \in Callers : WF_rvars(Select(c))
----------------------------------------------------------------------------
RegTypeOK ==
    /\ spans \in [Keys -> MaybeContext]
    /\ waiters \in [Keys -> SUBSET Callers]
    /\ closed \in BOOLEAN
    /\ buf \in [Callers -> MaybeContext]
    /\ shut \subseteq Callers
    /\ pc \in [Callers -> {"idle", "select", "returned"}]
    /\ want \in [Callers -> Keys]
    /\ res \in [Callers -> MaybeContext]
    /\ expired \subseteq Callers

\* Every send of Register and every close of Close finds an open channel with
\* an empty slot: registry.go:38 and :76 run with r.mu held, where a full
\* channel would hang Run and a closed one would panic. A second registration
\* of the same key (a parallel test's continuation) and one after Close are
\* the cases that could break it.
SendNeverBlocks == \A k \in Keys : \A c \in waiters[k] : CanSend(c)

\* A call in its select is never left behind: either its channel holds the
\* context or is closed, or it is parked under its key with nothing known and
\* the registry open (registry.go:48-59 check and park under one lock).
NoLostWakeup ==
    \A c \in Callers :
      pc[c] = "select" /\ CanSend(c) =>
        /\ c \in waiters[want[c]]
        /\ spans[want[c]] = NoContext
        /\ ~closed

\* A call is parked under its own key only, and only once it has left its
\* critical section; one that left by its deadline stays in the table until
\* its key is registered or the registry closed.
ParkedUnderOwnKey ==
    \A k \in Keys : \A c \in waiters[k] : want[c] = k /\ pc[c] # "idle"

\* The registry keeps the promise: each call is settled by the first context
\* registered for its key (or the one known when it asked), or by Close, and
\* a settled call is answered without help from its deadline.
Promise == INSTANCE SpanContextPromise WITH
    known <- spans,
    off   <- closed,
    state <- [c \in Callers |->
                CASE pc[c] = "idle" -> "none"
                  [] pc[c] = "returned" -> "over"
                  [] pc[c] = "select" /\ CanSend(c) -> "open"
                  [] OTHER -> "settled"],
    value <- [c \in Callers |-> IF pc[c] = "returned" THEN res[c] ELSE buf[c]]

KeepsPromise == Promise!Spec
============================================================================
