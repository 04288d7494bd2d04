--------------------- MODULE SpanContextRegistryProofs ---------------------
(***************************************************************************)
(* The safety of the registry for every set of keys, callers and contexts: *)
(* typing, sends that never block, no lost wakeup, and every step a step   *)
(* of SpanContextPromise. RegInv is the inductive invariant; it adds to    *)
(* the checked ones that a call has an untouched channel until it parks    *)
(* and that nobody is parked in a closed registry.                         *)
(***************************************************************************)
EXTENDS SpanContextRegistry, TLAPS

FreshChannels ==
    \A c \in Callers : pc[c] = "idle" => CanSend(c) /\ res[c] = NoContext

NobodyParkedWhenClosed == closed => \A k \in Keys : waiters[k] = {}

RegInv == /\ RegTypeOK
          /\ SendNeverBlocks
          /\ NoLostWakeup
          /\ ParkedUnderOwnKey
          /\ FreshChannels
          /\ NobodyParkedWhenClosed

LEMMA InitInv == RegInit => RegInv
BY DEF RegInit, RegInv, RegTypeOK, SendNeverBlocks, NoLostWakeup, ParkedUnderOwnKey,
       FreshChannels, NobodyParkedWhenClosed, MaybeContext, CanSend

\* Register answers exactly the calls parked under k, and unparks them.
LEMMA RegisterInv ==
    ASSUME RegInv, NEW k \in Keys, NEW sc \in SpanContexts, Register(k, sc)
    PROVE  RegInv'
<1> USE ContextsAssumption DEF RegInv, RegTypeOK, Register, Unparked, CanSend, MaybeContext
<1>1. RegTypeOK'
  OBVIOUS
<1>2. SendNeverBlocks'
  BY DEF SendNeverBlocks, ParkedUnderOwnKey
<1>3. NoLostWakeup'
  BY DEF NoLostWakeup, ParkedUnderOwnKey
<1>4. ParkedUnderOwnKey'
  BY DEF ParkedUnderOwnKey
<1>5. FreshChannels'
  BY DEF FreshChannels, ParkedUnderOwnKey
<1>6. NobodyParkedWhenClosed'
  BY DEF NobodyParkedWhenClosed
<1> QED BY <1>1, <1>2, <1>3, <1>4, <1>5, <1>6

\* Close closes the channel of every parked call and parks nobody.
LEMMA CloseInv == ASSUME RegInv, Close PROVE RegInv'
<1> USE DEF RegInv, RegTypeOK, Close, Parked, CanSend, MaybeContext
<1>1. RegTypeOK'
  OBVIOUS
<1>2. SendNeverBlocks' /\ ParkedUnderOwnKey' /\ NobodyParkedWhenClosed'
  BY DEF SendNeverBlocks, ParkedUnderOwnKey, NobodyParkedWhenClosed
<1>3. NoLostWakeup'
  BY DEF NoLostWakeup
<1>4. FreshChannels'
  BY DEF FreshChannels, ParkedUnderOwnKey
<1> QED BY <1>1, <1>2, <1>3, <1>4

\* A call that returns from its critical section touches no other call.
LEMMA WaitForAnsweredInv ==
    ASSUME RegInv, NEW c \in Callers, WaitForKnown(c) \/ WaitForClosed(c)
    PROVE  RegInv'
BY DEF RegInv, RegTypeOK, WaitForKnown, WaitForClosed, Return, CanSend, MaybeContext,
       SendNeverBlocks, NoLostWakeup, ParkedUnderOwnKey, FreshChannels,
       NobodyParkedWhenClosed

\* A call parks an untouched channel, under a key not known, before Close.
LEMMA ParkInv == ASSUME RegInv, NEW c \in Callers, Park(c) PROVE RegInv'
<1> USE DEF RegInv, RegTypeOK, Park, MayPark, CanSend, MaybeContext
<1>1. RegTypeOK'
  OBVIOUS
<1>2. SendNeverBlocks'
  BY DEF SendNeverBlocks, FreshChannels
<1>3. NoLostWakeup'
  BY DEF NoLostWakeup
<1>4. ParkedUnderOwnKey'
  BY DEF ParkedUnderOwnKey
<1>5. FreshChannels' /\ NobodyParkedWhenClosed'
  BY DEF FreshChannels, NobodyParkedWhenClosed
<1> QED BY <1>1, <1>2, <1>3, <1>4, <1>5

LEMMA SelectInv == ASSUME RegInv, NEW c \in Callers, Select(c) PROVE RegInv'
<1> USE DEF RegInv, RegTypeOK, Return, CanSend, MaybeContext
<1>1. CASE Receive(c)
  BY <1>1 DEF Receive, SendNeverBlocks, NoLostWakeup, ParkedUnderOwnKey, FreshChannels,
       NobodyParkedWhenClosed
<1>2. CASE ReceiveClosed(c)
  BY <1>2 DEF ReceiveClosed, SendNeverBlocks, NoLostWakeup, ParkedUnderOwnKey,
       FreshChannels, NobodyParkedWhenClosed
<1>3. CASE CtxDone(c)
  BY <1>3 DEF CtxDone, SendNeverBlocks, NoLostWakeup, ParkedUnderOwnKey, FreshChannels,
       NobodyParkedWhenClosed
<1> QED BY <1>1, <1>2, <1>3 DEF Select

LEMMA ExpireInv == ASSUME RegInv, NEW c \in Callers, Expire(c) PROVE RegInv'
BY DEF RegInv, RegTypeOK, Expire, SendNeverBlocks, NoLostWakeup, ParkedUnderOwnKey,
       FreshChannels, NobodyParkedWhenClosed, CanSend, MaybeContext

LEMMA StepInv == RegInv /\ [RegNext]_rvars => RegInv'
<1> SUFFICES ASSUME RegInv, [RegNext]_rvars PROVE RegInv'
  OBVIOUS
<1>1. CASE UNCHANGED rvars
  BY <1>1 DEF rvars, RegInv, RegTypeOK, SendNeverBlocks, NoLostWakeup, ParkedUnderOwnKey,
       FreshChannels, NobodyParkedWhenClosed, CanSend
<1>2. CASE RegNext
  BY <1>2, RegisterInv, CloseInv, WaitForAnsweredInv, ParkInv, SelectInv, ExpireInv
     DEF RegNext, WaitFor
<1> QED BY <1>1, <1>2

\* The registry's state is well formed, whatever the keys and the callers.
THEOREM RegistryTyping == RegSpec => []RegTypeOK
<1>1. RegInv => RegTypeOK
  BY DEF RegInv
<1> QED BY <1>1, InitInv, StepInv, PTL DEF RegSpec

\* No send of Register blocks or panics, and no close of Close panics, while
\* the mutex is held (registry.go:38 and :76).
THEOREM RegistrySends == RegSpec => []SendNeverBlocks
<1>1. RegInv => SendNeverBlocks
  BY DEF RegInv
<1> QED BY <1>1, InitInv, StepInv, PTL DEF RegSpec

\* No call of WaitFor stays parked once its key is registered or the registry
\* closed (registry.go:48-66).
THEOREM RegistryWakeups == RegSpec => []NoLostWakeup
<1>1. RegInv => NoLostWakeup
  BY DEF RegInv
<1> QED BY <1>1, InitInv, StepInv, PTL DEF RegSpec

----------------------------------------------------------------------------
(* The refinement: RegInv is what makes the two views of a call agree. *)

LEMMA InitRefines == RegInit => Promise!Init
BY DEF RegInit, Promise!Init, CanSend

LEMMA RegisterRefines ==
    ASSUME RegInv, NEW k \in Keys, NEW sc \in SpanContexts, Register(k, sc)
    PROVE  Promise!Publish(k, sc)
BY ContextsAssumption DEF RegInv, RegTypeOK, Register, Unparked, CanSend, MaybeContext,
   NoLostWakeup, ParkedUnderOwnKey, SendNeverBlocks, Promise!Publish, Promise!Settle

LEMMA CloseRefines == ASSUME RegInv, Close PROVE Promise!Shut
BY DEF RegInv, RegTypeOK, Close, Parked, CanSend, MaybeContext,
   NoLostWakeup, ParkedUnderOwnKey, SendNeverBlocks, Promise!Shut, Promise!Settle

LEMMA WaitForRefines ==
    ASSUME RegInv, NEW c \in Callers, WaitFor(c) PROVE Promise!Ask(c)
<1> USE DEF RegInv, RegTypeOK, CanSend, MaybeContext, FreshChannels, Promise!Ask,
            Promise!Finish
<1>1. CASE WaitForKnown(c)
  BY <1>1 DEF WaitForKnown, Return
<1>2. CASE WaitForClosed(c)
  BY <1>2 DEF WaitForClosed, Return
<1>3. CASE Park(c)
  BY <1>3 DEF Park, MayPark
<1> QED BY <1>1, <1>2, <1>3 DEF WaitFor

LEMMA SelectRefines ==
    ASSUME RegInv, NEW c \in Callers, Select(c)
    PROVE  Promise!Answer(c) \/ Promise!GiveUp(c)
<1> USE DEF RegInv, RegTypeOK, CanSend, MaybeContext, Return, Promise!Finish
<1>1. CASE Receive(c)
  BY <1>1 DEF Receive, Promise!Answer
<1>2. CASE ReceiveClosed(c)
  BY <1>2 DEF ReceiveClosed, Promise!Answer
<1>3. CASE CtxDone(c)
  BY <1>3 DEF CtxDone, Promise!GiveUp
<1> QED BY <1>1, <1>2, <1>3 DEF Select

LEMMA ExpireRefines ==
    ASSUME RegInv, NEW c \in Callers, Expire(c) PROVE Promise!Expire(c)
BY DEF RegInv, RegTypeOK, Expire, CanSend, Promise!Expire

LEMMA StepRefines == RegInv /\ [RegNext]_rvars => [Promise!Next]_(Promise!pvars)
<1> SUFFICES ASSUME RegInv, [RegNext]_rvars PROVE [Promise!Next]_(Promise!pvars)
  OBVIOUS
<1>1. CASE UNCHANGED rvars
  BY <1>1 DEF rvars, Promise!pvars, CanSend
<1>2. CASE RegNext
  BY <1>2, RegisterRefines, CloseRefines, WaitForRefines, SelectRefines, ExpireRefines
     DEF RegNext, Promise!Next
<1> QED BY <1>1, <1>2

\* Every behaviour of the registry, its channels and waiter table hidden, is
\* one the promise allows: a request is answered with the context known when
\* it asked or the first published after, and with none only once the registry
\* is closed or its deadline has passed.
THEOREM RegistryKeepsPromise ==
    RegSpec => Promise!Init /\ [][Promise!Next]_(Promise!pvars)
<1> QED BY InitRefines, InitInv, StepInv, StepRefines, PTL DEF RegSpec
============================================================================
