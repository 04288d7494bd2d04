------------------------ MODULE SpanContextPromise ------------------------
(***************************************************************************)
(* What gotest/registry.go promises its users, with no channels and no     *)
(* table of waiters: publishing a span context under a key settles every   *)
(* request that is open for that key, shutting down settles every open     *)
(* request with no context, and a settled request is eventually answered   *)
(* with what it was settled with, unless its own deadline passes first.    *)
(***************************************************************************)
CONSTANTS Keys,         \* package-qualified test names
          Callers,      \* calls of WaitFor; each is made at most once
          SpanContexts, \* the contexts that can be published
          NoContext     \* the zero SpanContext, returned with ok = false

VARIABLES known,   \* known[k]: the context last published for k
          off,     \* Close has been called
          want,    \* the key each request is for
          state,   \* where each request stands
          value,   \* what it was settled with, or answered
          expired  \* the requests whose ctx is done

pvars == <<known, off, want, state, value, expired>>

Init ==
    /\ known = [k \in Keys |-> NoContext]
    /\ off = FALSE
    /\ want \in [Callers -> Keys]
    /\ state = [c \in Callers |-> "none"]
    /\ value = [c \in Callers |-> NoContext]
    /\ expired = {}

\* The requests in S are settled with sc.
Settle(S, sc) ==
    /\ state' = [c \in Callers |-> IF c \in S THEN "settled" ELSE state[c]]
    /\ value' = [c \in Callers |-> IF c \in S THEN sc ELSE value[c]]

Publish(k, sc) ==
    /\ known' = [known EXCEPT ![k] = sc]
    /\ Settle({c \in Callers : state[c] = "open" /\ want[c] = k}, sc)
    /\ UNCHANGED <<off, want, expired>>

Shut ==
    /\ off' = TRUE
    /\ Settle({c \in Callers : state[c] = "open"}, NoContext)
    /\ UNCHANGED <<known, want, expired>>

Finish(c, sc) ==
    /\ state' = [state EXCEPT ![c] = "over"]
    /\ value' = [value EXCEPT ![c] = sc]

\* A context already known answers at once, even after Close.
Ask(c) ==
    /\ state[c] = "none"
    /\ IF known[want[c]] # NoContext THEN Finish(c, known[want[c]])
       ELSE IF off THEN Finish(c, NoContext)
       ELSE state' = [state EXCEPT ![c] = "open"] /\ UNCHANGED value
    /\ UNCHANGED <<known, off, want, expired>>

Expire(c) ==
    /\ state[c] # "over"
    /\ expired' = expired \cup {c}
    /\ UNCHANGED <<known, off, want, state, value>>

Answer(c) ==
    /\ state[c] = "settled"
    /\ Finish(c, value[c])
    /\ UNCHANGED <<known, off, want, expired>>

GiveUp(c) ==
    /\ c \in expired
    /\ state[c] \in {"open", "settled"}
    /\ Finish(c, NoContext)
    /\ UNCHANGED <<known, off, want, expired>>

Next ==
    \/ Shut
    \/ \E k \in Keys, sc \in SpanContexts : Publish(k, sc)
    \/ \E c \in Callers : Ask(c) \/ Answer(c) \/ GiveUp(c) \/ Expire(c)

Spec == /\ Init
        /\ [][Next]_pvars
        /\ \A c \in Callers : WF_pvars(Answer(c) \/ GiveUp(c))
===========================================================================
