--------------------------- MODULE SessionProofs ---------------------------
(***************************************************************************)
(* A session is a run of its parts: every event in the pipe is one that    *)
(* GoTestRunProofs takes, and every step either is one of the registry or  *)
(* leaves it alone. So what is proved of Run for any events, and of the    *)
(* registry for any calls, holds of the two composed, for every suite of   *)
(* tests, pipe and number of rounds. What Run has seen and heard differs   *)
(* from what go test has said by the events in the pipe, and once it has   *)
(* handled a package's result it does not differ.                          *)
(***************************************************************************)
EXTENDS GoTestRunProofs

Registry == INSTANCE SpanContextRegistryProofs WITH
    spans <- registered, Callers <- Calls, SpanContexts <- Nat \ {0}, NoContext <- 0

\* What go test has sent, and what its next events are made of.
PipeOK == /\ stream \in Seq(Event)
          /\ speaker \in [Pkgs -> Names \cup {NoTest}]
          /\ verdict \in [Keys -> {"pass", "fail", "skip"}]

SessionInv == RunInv /\ PipeOK

LEMMA EmitOK ==
    ASSUME PipeOK, NEW action \in Actions, NEW p \in Pkgs, NEW t \in Names \cup {NoTest},
           NEW text \in Seq(STRING), Go!Emit(action, p, t, text)
    PROVE  stream' \in Seq(Event)
<1>1. [action |-> action, pkg |-> p, test |-> t, text |-> text] \in Event
  BY DEF Event
<1> QED BY <1>1 DEF Go!Emit, PipeOK

\* The steps of one package.
LEMMA PackagePipe ==
    ASSUME PipeOK, NEW p \in Pkgs,
           \/ Go!StartPackage(p) \/ Go!RootReturn(p) \/ Go!NextRound(p)
           \/ Go!PackageResult(p) \/ Go!Die(p) \/ Go!PrintPanic(p) \/ Go!PackageDied(p)
           \/ \E t \in Names, text \in Texts : Go!Say(p, t, text)
    PROVE  PipeOK'
<1>1. <<>> \in Seq(STRING) /\ NoTest \in Names \cup {NoTest}
  OBVIOUS
<1>2. CASE Go!StartPackage(p) \/ Go!PackageResult(p) \/ Go!PackageDied(p)
  <2>1. UNCHANGED <<speaker, verdict>>
    BY <1>2 DEF Go!StartPackage, Go!PackageResult, Go!PackageDied
  <2>2. PICK action \in Actions : Go!Emit(action, p, NoTest, <<>>)
    <3>1. CASE Go!StartPackage(p)
      BY <3>1 DEF Go!StartPackage, Actions
    <3>2. CASE Go!PackageResult(p)
      BY <3>2 DEF Go!PackageResult, Actions
    <3>3. CASE Go!PackageDied(p)
      BY <3>3 DEF Go!PackageDied, Actions
    <3> QED BY <1>2, <3>1, <3>2, <3>3
  <2>3. stream' \in Seq(Event)
    BY <1>1, <2>2, EmitOK
  <2> QED BY <2>1, <2>3 DEF PipeOK
<1>3. CASE Go!RootReturn(p) \/ Go!NextRound(p) \/ Go!Die(p)
  BY <1>3 DEF PipeOK, Go!RootReturn, Go!NextRound, Go!Die
<1>4. CASE Go!PrintPanic(p)
  <2> DEFINE rest == [i \in DOMAIN Panic |->
                        [action |-> "output", pkg |-> p, test |-> speaker[p], text |-> Panic[i]]]
  <2>1. UNCHANGED <<speaker, verdict>> /\ stream' = stream \o rest
    BY <1>4 DEF Go!PrintPanic
  <2>2. rest \in Seq(Event)
    <3>1. Panic \in Seq(Seq(STRING))
      BY SessionAssumption
    <3>2. ASSUME NEW i \in DOMAIN Panic PROVE rest[i] \in Event
      <4>1. Panic[i] \in Seq(STRING)
        BY <3>1
      <4>2. speaker[p] \in Names \cup {NoTest} /\ "output" \in Actions
        BY DEF PipeOK, Actions
      <4>3. rest[i] = [action |-> "output", pkg |-> p, test |-> speaker[p], text |-> Panic[i]]
        OBVIOUS
      <4> HIDE DEF rest
      <4> QED BY <4>1, <4>2, <4>3 DEF Event
    <3>3. DOMAIN Panic = 1..Len(Panic) /\ Len(Panic) \in Nat
      BY <3>1
    <3> QED BY <3>2, <3>3
  <2> QED BY <2>1, <2>2 DEF PipeOK
<1>5. ASSUME NEW t \in Names, NEW text \in Texts, Go!Say(p, t, text) PROVE PipeOK'
  <2>1. text \in Seq(STRING) /\ "output" \in Actions /\ t \in Names \cup {NoTest}
    BY SessionAssumption DEF Actions
  <2>2. /\ Go!Emit("output", p, t, text) /\ UNCHANGED verdict
        /\ speaker' = [speaker EXCEPT ![p] = t]
    BY <1>5 DEF Go!Say
  <2>3. stream' \in Seq(Event)
    BY <2>1, <2>2, EmitOK
  <2> QED BY <2>2, <2>3 DEF PipeOK
<1> QED BY <1>2, <1>3, <1>4, <1>5

\* The steps of one test.
LEMMA TestPipe ==
    ASSUME PipeOK, NEW k \in Keys,
           \/ Go!Pause(k) \/ Go!Cont(k) \/ Go!BodyReturn(k) \/ Go!Report(k)
           \/ \E c \in Names \cup {NoTest} : Go!Begin(k, c)
           \/ \E v \in {"pass", "fail", "skip"} : Go!Finish(k, v)
    PROVE  PipeOK'
<1>1. k[1] \in Pkgs /\ k[2] \in Names \cup {NoTest} /\ <<>> \in Seq(STRING)
  BY DEF Keys
<1>a. verdict[k] \in Actions
  BY DEF PipeOK, Actions
<1>2. CASE Go!Pause(k) \/ Go!Cont(k) \/ \E c \in Names \cup {NoTest} : Go!Begin(k, c)
  <2>1. /\ UNCHANGED verdict /\ speaker' = [speaker EXCEPT ![k[1]] = k[2]]
    BY <1>2 DEF Go!Pause, Go!Cont, Go!Begin
  <2>2. PICK action \in Actions : Go!Emit(action, k[1], k[2], <<>>)
    <3>1. CASE Go!Pause(k)
      BY <3>1 DEF Go!Pause, Actions
    <3>2. CASE Go!Cont(k)
      BY <3>2 DEF Go!Cont, Actions
    <3>3. CASE \E c \in Names \cup {NoTest} : Go!Begin(k, c)
      BY <3>3 DEF Go!Begin, Actions
    <3> QED BY <1>2, <3>1, <3>2, <3>3
  <2>3. stream' \in Seq(Event)
    BY <1>1, <2>2, EmitOK
  <2> QED BY <1>1, <2>1, <2>3 DEF PipeOK
<1>3. CASE Go!Report(k)
  <2>1. /\ UNCHANGED verdict /\ speaker' = [speaker EXCEPT ![k[1]] = NoTest]
        /\ Go!Emit(verdict[k], k[1], k[2], <<>>)
    BY <1>3 DEF Go!Report
  <2>2. stream' \in Seq(Event)
    BY <1>1, <1>a, <2>1, EmitOK
  <2> QED BY <1>1, <2>1, <2>2 DEF PipeOK
<1>4. CASE Go!BodyReturn(k)
  BY <1>4 DEF PipeOK, Go!BodyReturn
<1>5. ASSUME NEW v \in {"pass", "fail", "skip"}, Go!Finish(k, v) PROVE PipeOK'
  <2>1. /\ UNCHANGED stream /\ speaker' = [speaker EXCEPT ![k[1]] = k[2]]
        /\ verdict' = [verdict EXCEPT ![k] = v]
    BY <1>5 DEF Go!Finish
  <2> QED BY <1>1, <2>1 DEF PipeOK
<1> QED BY <1>2, <1>3, <1>4, <1>5

LEMMA GoPipe == ASSUME PipeOK, Go!GoNext PROVE PipeOK'
<1>1. CASE Go!EndOfStream
  BY <1>1 DEF PipeOK, Go!EndOfStream
<1> QED BY <1>1, PackagePipe, TestPipe DEF Go!GoNext, Go!Keys, Keys

LEMMA ReadPipe ==
    ASSUME PipeOK, Read
    PROVE  /\ stream' \in Seq(Event)
           /\ Head(stream).pkg \in Pkgs /\ Head(stream).test \in Names \cup {NoTest}
<1>1. stream \in Seq(Event) /\ stream # <<>> /\ stream' = Tail(stream)
  BY DEF PipeOK, Read
<1>2. Head(stream) \in Event
  BY <1>1
<1> QED BY <1>1, <1>2 DEF Event

----------------------------------------------------------------------------
(* Every step, as Run sees it.                                             *)

LEMMA SessionInit == Init => SessionInv
<1> SUFFICES ASSUME Init PROVE SessionInv
  OBVIOUS
<1>1. RunInv
  BY InitInv DEF Init
<1>2. PipeOK
  BY DEF Init, Go!GoInit, Go!Keys, Keys, PipeOK
<1> QED BY <1>1, <1>2 DEF SessionInv

\* The steps of the registry and its callers do not touch Run or the pipe.
LEMMA AsideSteps ==
    ASSUME CloseRegistry \/ (\E k \in Keys : Ask(k) \/ Answered(k) \/ ClientTimeout(k))
             \/ (\E c \in Calls : Serve(c) \/ ServerTimeout(c))
    PROVE  UNCHANGED <<runVars, stream, speaker, verdict>>
BY DEF CloseRegistry, Ask, Answered, ClientTimeout, Serve, ServerTimeout, goVars

LEMMA RunKept == ASSUME RunInv, UNCHANGED runVars PROVE RunInv'
<1>1. [RunNext]_runVars
  OBVIOUS
<1> QED BY <1>1, StepInv

LEMMA SessionStep == SessionInv /\ [Next]_vars => SessionInv'
<1> SUFFICES ASSUME SessionInv, [Next]_vars PROVE SessionInv'
  OBVIOUS
<1>0. RunInv /\ PipeOK
  BY DEF SessionInv
<1>1. CASE UNCHANGED <<runVars, stream, speaker, verdict>>
  BY <1>0, <1>1, RunKept DEF SessionInv, PipeOK
<1>2. CASE GoStep
  BY <1>0, <1>2, RunKept, GoPipe DEF SessionInv, GoStep
<1>3. CASE Consume
  <2>1. RunInv'
    BY <1>0, <1>3, ReadPipe, HandleInv DEF Consume
  <2>2. PipeOK'
    BY <1>0, <1>3, ReadPipe DEF Consume, PipeOK
  <2> QED BY <2>1, <2>2 DEF SessionInv
<1>4. CASE RunEnds
  BY <1>0, <1>4, ReturnInv DEF RunEnds, goVars, SessionInv, PipeOK
<1> QED BY <1>1, <1>2, <1>3, <1>4, AsideSteps DEF Next, vars, goVars

LEMMA SessionInvariant == Spec => []SessionInv
BY SessionInit, SessionStep, PTL DEF Spec

\* In every session, whatever its tests, its interleavings and the size of the
\* pipe, Run's entry of a test agrees with what the SDK recorded
\* (gotest.go:36-57, 540-584).
THEOREM SessionEntries == Spec => []EntriesSound
BY SessionInvariant, PTL DEF SessionInv, RunInv

\* In every session the trace has the right shape: each span is under one it
\* belongs under (gotest.go:477-498).
THEOREM SessionParents == Spec => []ParentsSound
BY SessionInvariant, PTL DEF SessionInv, RunInv

\* In every session nothing is logged to a span after its EOF record, which is
\* sent once (logging.go:37-46), also when go test is killed.
THEOREM SessionEOFLast == Spec => NothingAfterEOF
<1>1. SessionInv /\ [Next]_vars =>
        [\A i \in 1..lastSpan : spanTab[i].eofs > 0 =>
           spanTab'[i].eofs = spanTab[i].eofs /\ logged'[i] = logged[i]]_runVars
  <2> SUFFICES ASSUME SessionInv, [Next]_vars, runVars' # runVars,
                      NEW i \in 1..lastSpan, spanTab[i].eofs > 0
               PROVE  spanTab'[i].eofs = spanTab[i].eofs /\ logged'[i] = logged[i]
    OBVIOUS
  <2>0. RunInv /\ PipeOK
    BY DEF SessionInv
  <2>1. CASE Consume
    BY <2>0, <2>1, ReadPipe, HandleEofs DEF Consume
  <2>2. CASE RunEnds
    <3>1. [RunNext]_runVars
      BY <2>2 DEF RunEnds, RunNext
    <3> QED BY <2>0, <3>1, StepEofs
  <2> QED BY <2>1, <2>2, AsideSteps DEF Next, vars, GoStep
<1> QED BY <1>1, SessionInvariant, PTL DEF Spec, NothingAfterEOF

----------------------------------------------------------------------------
(* Every step, as the registry sees it.                                    *)

\* Run registers spans it has started, one key in an event.
LEMMA HandleRegisters ==
    ASSUME RunInv, NEW ev, Handle(ev), ev.pkg \in Pkgs, ev.test \in Names \cup {NoTest},
           NEW k \in Keys, registered'[k] # registered[k]
    PROVE  registered'[k] \in Nat \ {0}
<1>1. registered \in [Keys -> 0..lastSpan] /\ lastSpan \in Nat
  BY DEF RunInv, RunTypeOK
<1>2. \/ UNCHANGED registered
      \/ registered' = [registered EXCEPT ![<<ev.pkg, ev.test>>] = NewSpan]
  BY Zenon DEF Handle, PackageStart, PackagePass, PackageSkip, PackageFail, ForgetPackage, Run,
         Pause, Cont, TestResult, Output, OutputPlain, OutputDump, PassThrough, Register
<1> QED BY <1>1, <1>2 DEF NewSpan

LEMMA RegistryStep ==
    SessionInv /\ [Next]_vars => [Reg!RegNext]_(Reg!rvars)
<1> SUFFICES ASSUME SessionInv, [Next]_vars PROVE [Reg!RegNext]_(Reg!rvars)
  OBVIOUS
<1>0. RunInv /\ PipeOK
  BY DEF SessionInv
<1>1. CASE UNCHANGED <<registered, regVars>>
  BY <1>1 DEF regVars, Reg!rvars
<1>2. CASE Consume
  <2>1. CASE UNCHANGED registered /\ UNCHANGED regVars
    BY <1>1, <2>1
  <2>2. ASSUME NEW k \in Keys, registered'[k] # registered[k],
               Reg!Register(k, registered'[k])
        PROVE  Reg!RegNext
    <3>1. registered'[k] \in Nat \ {0}
      BY <1>0, <1>2, <2>2, ReadPipe, HandleRegisters DEF Consume
    <3> QED BY <2>2, <3>1 DEF Reg!RegNext
  <2> QED BY <1>2, <2>1, <2>2 DEF Consume
<1>3. CASE GoStep
  BY <1>1, <1>3 DEF GoStep, runVars
<1>4. CASE RunEnds
  BY <1>1, <1>4 DEF RunEnds, Return
<1>5. CASE CloseRegistry
  BY <1>5 DEF CloseRegistry, Reg!RegNext
<1>6. ASSUME NEW k \in Keys, Ask(k) \/ Answered(k) \/ ClientTimeout(k)
      PROVE  UNCHANGED <<registered, regVars>>
  BY <1>6 DEF Ask, Answered, ClientTimeout, runVars
<1>7. ASSUME NEW c \in Calls, Serve(c) \/ ServerTimeout(c) PROVE Reg!RegNext
  BY <1>7 DEF Serve, ServerTimeout, Reg!RegNext
<1>8. CASE UNCHANGED vars
  BY <1>1, <1>8 DEF vars, runVars
<1> QED BY <1>1, <1>2, <1>3, <1>4, <1>5, <1>6, <1>7, <1>8 DEF Next

\* Every session drives the registry as its specification allows: the steps of
\* Run, the handlers and the clients, go test's hidden, are its steps
\* (main.go:79-80, 226-250).
THEOREM SessionImplementsRegistry == Spec => Reg!RegSpec
<1>1. Init => Reg!RegInit
  BY DEF Init
<1> QED BY <1>1, SessionInvariant, RegistryStep, PTL DEF Spec, Reg!RegSpec

LEMMA RegistryInvariant == Spec => []Registry!RegInv
<1>1. Init => Registry!RegInv
  <2>1. Registry!RegInit => Registry!RegInv
    BY Registry!InitInv
  <2> QED BY <2>1 DEF Init, Reg!RegInit, Registry!RegInit
<1>2. Registry!RegInv /\ [Reg!RegNext]_(Reg!rvars) => Registry!RegInv'
  <2>1. Registry!RegInv /\ [Registry!RegNext]_(Registry!rvars) => Registry!RegInv'
    BY Registry!StepInv
  <2>2. [Reg!RegNext]_(Reg!rvars) = [Registry!RegNext]_(Registry!rvars)
    BY DEF Reg!RegNext, Registry!RegNext, Reg!rvars, Registry!rvars, Reg!Close, Registry!Close,
           Reg!Parked, Registry!Parked, Reg!Register, Registry!Register, Reg!Unparked,
           Registry!Unparked, Reg!CanSend, Registry!CanSend, Reg!WaitFor,
           Registry!WaitFor, Reg!WaitForKnown, Registry!WaitForKnown, Reg!WaitForClosed,
           Registry!WaitForClosed, Reg!Park, Registry!Park, Reg!MayPark,
           Registry!MayPark, Reg!Select, Registry!Select, Reg!Receive, Registry!Receive,
           Reg!ReceiveClosed, Registry!ReceiveClosed, Reg!CtxDone, Registry!CtxDone,
           Reg!Expire, Registry!Expire, Reg!Return, Registry!Return
  <2> QED BY <2>1, <2>2
<1> QED BY <1>1, <1>2, SessionInvariant, RegistryStep, PTL DEF Spec

\* In every session, Run never blocks or panics with the registry locked
\* (registry.go:38, 76), however late a test asks and Run reads.
THEOREM SessionSends == Spec => []Reg!SendNeverBlocks
<1>1. Registry!RegInv => Reg!SendNeverBlocks
  BY DEF Registry!RegInv, Registry!SendNeverBlocks, Reg!SendNeverBlocks,
         Registry!CanSend, Reg!CanSend
<1> QED BY <1>1, RegistryInvariant, PTL

----------------------------------------------------------------------------
(* What go test's events say of the tests.                                 *)

Phases == {"new", "running", "paused", "returned", "finished", "done"}
Roots == {"new", "running", "returned", "panicking", "dead", "over"}

GoTyped == /\ phase \in [Keys -> Phases]
           /\ begun \in [Keys -> Seq(Call)]
           /\ root \in [Pkgs -> Roots]

Caller(k) == Last(begun[k])[1]

\* A test has a caller that its name extends, or is a top-level one; a parallel
\* test that runs on has a caller whose body has returned.
CallersSound ==
    \A k \in Keys :
      /\ phase[k] # "new" => /\ begun[k] # <<>>
                             /\ \/ Caller(k) = NoTest /\ Len(k[2]) = 1
                                \/ Caller(k) \in Names /\ IsStrictPrefix(Caller(k), k[2])
      /\ k \in parallel => phase[k] # "new"
      /\ k \in parallel /\ phase[k] \in {"running", "returned"} /\ Caller(k) # NoTest =>
           phase[<<k[1], Caller(k)>>] = "returned"

\* A package that has failed ran something, and one that is over owes nothing.
ResultsSound ==
    \A p \in Pkgs : /\ p \in failed => \E k \in Tests(p) : begun[k] # <<>>
                    /\ root[p] = "over" => Go!Due(p) = {}

GoSound == GoTyped /\ CallersSound /\ ResultsSound

LEMMA DueKept ==
    ASSUME NEW p, \A k \in Tests(p) : phase'[k] = phase[k] /\ begun'[k] = begun[k]
    PROVE  Go!Due(p)' = Go!Due(p)
<1>1. Go!Of(p) = Tests(p)
  BY DEF Go!Of, Go!Keys, Keys, Tests
<1>2. Go!Started(p)' = Go!Started(p) /\ Go!Started(p) \subseteq Tests(p)
  BY <1>1 DEF Go!Started
<1>3. Go!TopLevel(p)' = Go!TopLevel(p) /\ Go!TopLevel(p) \subseteq Tests(p)
  BY <1>2 DEF Go!TopLevel, Go!CallerOf
<1>4. ASSUME NEW k \in Tests(p)
      PROVE  /\ Go!TopOf(k)' = Go!TopOf(k) /\ Go!TopOf(k) \subseteq Tests(p)
  <2>1. k[1] = p
    BY DEF Tests
  <2> QED BY <1>3, <2>1 DEF Go!TopOf
<1>5. ASSUME NEW k \in Tests(p)
      PROVE  (\A j \in Go!TopOf(k)' : Go!Ended(j)') <=> \A j \in Go!TopOf(k) : Go!Ended(j)
  BY <1>4 DEF Go!Ended
<1> QED BY <1>1, <1>5 DEF Go!Due

LEMMA NotItself == ASSUME NEW k \in Keys, IsStrictPrefix(k[2], k[2]) PROVE FALSE
BY DEF IsStrictPrefix

\* A test that has begun goes from one phase to the next.
LEMMA PhaseSound ==
    ASSUME GoSound, NEW k \in Keys, NEW to \in Phases, to # "new", phase[k] # "new",
           phase' = [phase EXCEPT ![k] = to], UNCHANGED <<begun, root>>,
           root[k[1]] # "over", parallel' \subseteq parallel \cup {k},
           \A p \in failed' : p \in failed \/ p = k[1],
           phase[k] = "returned" =>
             \A j \in parallel : j \in Keys /\ j[1] = k[1] /\ Caller(j) = k[2] =>
               phase[j] \notin {"running", "returned"},
           k \in parallel' /\ to \in {"running", "returned"} /\ Caller(k) # NoTest =>
             phase[<<k[1], Caller(k)>>] = "returned"
    PROVE  GoSound'
<1>1. /\ phase \in [Keys -> Phases] /\ phase'[k] = to
      /\ \A j \in Keys : j # k => phase'[j] = phase[j]
      /\ \A j : Caller(j)' = Caller(j)
      /\ begun' = begun /\ root' = root
  BY DEF GoSound, GoTyped, Caller
<1>2. GoTyped'
  BY <1>1 DEF GoSound, GoTyped
<1>3. CallersSound'
  <2>1. ASSUME NEW j \in Keys, phase'[j] # "new"
        PROVE  /\ begun'[j] # <<>>
               /\ \/ Caller(j)' = NoTest /\ Len(j[2]) = 1
                  \/ Caller(j)' \in Names /\ IsStrictPrefix(Caller(j)', j[2])
    <3>1. phase[j] # "new"
      BY <1>1, <2>1
    <3> QED BY <1>1, <3>1 DEF GoSound, CallersSound
  <2>2. ASSUME NEW j \in Keys, j \in parallel' PROVE phase'[j] # "new"
    BY <1>1, <2>2 DEF GoSound, CallersSound
  <2>3. ASSUME NEW j \in Keys, j \in parallel', phase'[j] \in {"running", "returned"},
               Caller(j) # NoTest
        PROVE  phase'[<<j[1], Caller(j)>>] = "returned"
    <3> DEFINE c == <<j[1], Caller(j)>>
    <3>1. phase[j] # "new"
      BY <1>1, <2>3 DEF GoSound, CallersSound
    <3>2. Caller(j) \in Names /\ IsStrictPrefix(Caller(j), j[2])
      BY <2>3, <3>1 DEF GoSound, CallersSound
    <3>3. c \in Keys /\ c # j
      BY <3>2, NotItself DEF Keys
    <3>4. phase[c] = "returned"
      <4>1. CASE j = k
        BY <1>1, <2>3, <4>1
      <4>2. CASE j # k
        BY <1>1, <2>3, <4>2 DEF GoSound, CallersSound
      <4> QED BY <4>1, <4>2
    <3>5. c # k
      <4> SUFFICES ASSUME c = k PROVE FALSE
        OBVIOUS
      <4>1. j[1] = k[1] /\ Caller(j) = k[2] /\ j # k
        BY <3>3
      <4>2. j \in parallel /\ phase[j] \in {"running", "returned"}
        BY <1>1, <2>3, <4>1
      <4> QED BY <3>4, <4>1, <4>2
    <3> QED BY <1>1, <3>3, <3>4, <3>5
  <2> QED BY <1>1, <2>1, <2>2, <2>3 DEF CallersSound
<1>4. ResultsSound'
  <2>1. ASSUME NEW p \in Pkgs, p \in failed' PROVE \E j \in Tests(p) : begun'[j] # <<>>
    <3>1. CASE p = k[1]
      BY <3>1 DEF Tests, GoSound, CallersSound
    <3>2. CASE p # k[1]
      BY <2>1, <3>2 DEF GoSound, ResultsSound
    <3> QED BY <3>1, <3>2
  <2>2. ASSUME NEW p \in Pkgs, root'[p] = "over" PROVE Go!Due(p)' = {}
    <3>1. p # k[1] /\ Go!Due(p) = {}
      BY <2>2 DEF GoSound, ResultsSound
    <3>2. \A j \in Tests(p) : phase'[j] = phase[j] /\ begun'[j] = begun[j]
      BY <1>1, <3>1 DEF Tests
    <3> QED BY <3>1, <3>2, DueKept
  <2> QED BY <2>1, <2>2 DEF ResultsSound
<1> QED BY <1>2, <1>3, <1>4 DEF GoSound

\* Steps that change nothing of the tests.
LEMMA RootSound ==
    ASSUME GoSound, UNCHANGED <<phase, begun, parallel, failed>>, root' \in [Pkgs -> Roots],
           \A p \in Pkgs : root'[p] = "over" => root[p] = "over" \/ Go!Due(p) = {}
    PROVE  GoSound'
<1>1. GoTyped'
  BY DEF GoSound, GoTyped
<1>2. CallersSound'
  BY DEF GoSound, CallersSound, Caller
<1>3. ASSUME NEW p \in Pkgs, root'[p] = "over" PROVE Go!Due(p)' = {}
  <2>1. Go!Due(p) = {}
    BY <1>3 DEF GoSound, ResultsSound
  <2>2. \A k \in Tests(p) : phase'[k] = phase[k] /\ begun'[k] = begun[k]
    OBVIOUS
  <2> QED BY <2>1, <2>2, DueKept
<1>4. ResultsSound'
  BY <1>3 DEF GoSound, ResultsSound
<1> QED BY <1>1, <1>2, <1>4 DEF GoSound

LEMMA AppendLast ==
    ASSUME NEW S, NEW s \in Seq(S), NEW e \in S
    PROVE  /\ Append(s, e) \in Seq(S) /\ Append(s, e) # <<>>
           /\ Last(Append(s, e)) = e /\ Len(Append(s, e)) = Len(s) + 1
           /\ Append(s, e)[Len(s) + 1] = e
           /\ \A i \in 1..Len(s) : Append(s, e)[i] = s[i]
BY DEF Last

\* The run of the caller that calls t.Run.
CallFrom(k, c) == <<c, IF c = NoTest THEN 0 ELSE Len(begun[<<k[1], c>>])>>

LEMMA BeginTells ==
    ASSUME GoSound, NEW k \in Keys, NEW c \in Names \cup {NoTest}, Go!Begin(k, c)
    PROVE  /\ phase[k] = "new" /\ phase' = [phase EXCEPT ![k] = "running"]
           /\ CallFrom(k, c) \in Call
           /\ begun' = [begun EXCEPT ![k] = Append(@, CallFrom(k, c))]
           /\ begun' \in [Keys -> Seq(Call)] /\ begun'[k] # <<>>
           /\ Last(begun'[k]) = CallFrom(k, c)
           /\ \A j \in Keys : j # k => begun'[j] = begun[j]
           /\ root[k[1]] \in {"running", "returned"} /\ Go!Due(k[1]) = {}
           /\ IF c = NoTest THEN Len(k[2]) = 1
              ELSE IsStrictPrefix(c, k[2]) /\ Go!Free(<<k[1], c>>)
           /\ UNCHANGED <<parallel, verdict, failed, root>>
<1>1. begun \in [Keys -> Seq(Call)]
  BY DEF GoSound, GoTyped
<1>2. CallFrom(k, c) \in Call
  <2>1. CASE c = NoTest
    BY <2>1 DEF CallFrom, Call
  <2>2. CASE c # NoTest
    <3>1. <<k[1], c>> \in Keys
      BY <2>2 DEF Keys
    <3>2. begun[<<k[1], c>>] \in Seq(Call)
      BY <1>1, <3>1
    <3>3. Len(begun[<<k[1], c>>]) \in Nat
      BY <3>2, LenProperties
    <3> QED BY <2>2, <3>3 DEF CallFrom, Call
  <2> QED BY <2>1, <2>2
<1>3. /\ phase[k] = "new" /\ phase' = [phase EXCEPT ![k] = "running"]
      /\ begun' = [begun EXCEPT ![k] = Append(@, CallFrom(k, c))]
      /\ Go!MayName(k[1])
      /\ UNCHANGED <<parallel, verdict, failed, root>>
  BY DEF Go!Begin, CallFrom
<1>a. IF c = NoTest THEN Len(k[2]) = 1
      ELSE Go!IsStrictPrefix(c, k[2]) /\ Go!Free(<<k[1], c>>)
  BY DEF Go!Begin
<1>b. IF c = NoTest THEN Len(k[2]) = 1
      ELSE IsStrictPrefix(c, k[2]) /\ Go!Free(<<k[1], c>>)
  BY <1>a DEF IsStrictPrefix, Go!IsStrictPrefix, IsPrefix, Go!IsPrefix
<1>4. PICK call \in Call : call = CallFrom(k, c)
  BY <1>2
<1>5. PICK s \in Seq(Call) : s = begun[k]
  BY <1>1
<1>6. Append(s, call) \in Seq(Call) /\ Append(s, call) # <<>> /\ Last(Append(s, call)) = call
  BY AppendLast
<1> QED BY <1>1, <1>3, <1>b, <1>4, <1>5, <1>6 DEF Go!MayName

LEMMA BeginSound ==
    ASSUME GoSound, NEW k \in Keys, NEW c \in Names \cup {NoTest}, Go!Begin(k, c)
    PROVE  GoSound'
<1>1. /\ phase[k] = "new" /\ phase' = [phase EXCEPT ![k] = "running"]
      /\ begun' \in [Keys -> Seq(Call)] /\ begun'[k] # <<>>
      /\ Last(begun'[k]) = CallFrom(k, c)
      /\ \A j \in Keys : j # k => begun'[j] = begun[j]
      /\ root[k[1]] \in {"running", "returned"}
      /\ IF c = NoTest THEN Len(k[2]) = 1 ELSE IsStrictPrefix(c, k[2])
      /\ UNCHANGED <<parallel, failed, root>>
  BY ZenonT(60), BeginTells
<1>2. /\ phase \in [Keys -> Phases] /\ "running" \in Phases /\ phase'[k] = "running"
      /\ \A j \in Keys : j # k => phase'[j] = phase[j]
      /\ Caller(k)' = c
      /\ \A j \in Keys : j # k => Caller(j)' = Caller(j)
  BY <1>1 DEF GoSound, GoTyped, Phases, Caller, CallFrom
<1>3. GoTyped'
  BY <1>1, <1>2 DEF GoSound, GoTyped
<1>4. CallersSound'
  <2>1. k \notin parallel
    BY <1>1 DEF GoSound, CallersSound
  <2>2. ASSUME NEW j \in Keys, phase'[j] # "new"
        PROVE  /\ begun'[j] # <<>>
               /\ \/ Caller(j)' = NoTest /\ Len(j[2]) = 1
                  \/ Caller(j)' \in Names /\ IsStrictPrefix(Caller(j)', j[2])
    <3>1. CASE j = k
      BY <1>1, <1>2, <3>1
    <3>2. CASE j # k
      BY <1>1, <1>2, <2>2, <3>2 DEF GoSound, CallersSound
    <3> QED BY <3>1, <3>2
  <2>3. ASSUME NEW j \in Keys, j \in parallel', phase'[j] \in {"running", "returned"},
               Caller(j)' # NoTest
        PROVE  phase'[<<j[1], Caller(j)'>>] = "returned"
    <3>1. j # k /\ Caller(j)' = Caller(j) /\ phase[j] = phase'[j] /\ j \in parallel
      BY <1>1, <1>2, <2>1, <2>3
    <3>2. phase[<<j[1], Caller(j)>>] = "returned" /\ Caller(j) \in Names
      BY <2>3, <3>1 DEF GoSound, CallersSound
    <3>3. <<j[1], Caller(j)>> \in Keys /\ <<j[1], Caller(j)>> # k
      BY <1>1, <3>2 DEF Keys
    <3> QED BY <1>2, <3>1, <3>2, <3>3
  <2>4. ASSUME NEW j \in Keys, j \in parallel' PROVE phase'[j] # "new"
    BY <1>1, <1>2, <2>4 DEF GoSound, CallersSound
  <2> QED BY <2>2, <2>3, <2>4 DEF CallersSound
<1>5. ResultsSound'
  <2>1. ASSUME NEW p \in Pkgs, p \in failed' PROVE \E j \in Tests(p) : begun'[j] # <<>>
    <3>1. PICK j \in Tests(p) : begun[j] # <<>>
      BY <1>1, <2>1 DEF GoSound, ResultsSound
    <3> QED BY <1>1, <3>1 DEF Tests
  <2>2. ASSUME NEW p \in Pkgs, root'[p] = "over" PROVE Go!Due(p)' = {}
    <3>1. p # k[1] /\ Go!Due(p) = {}
      BY <1>1, <2>2 DEF GoSound, ResultsSound
    <3>2. \A j \in Tests(p) : phase'[j] = phase[j] /\ begun'[j] = begun[j]
      BY <1>1, <1>2, <3>1 DEF Tests
    <3> QED BY <3>1, <3>2, DueKept
  <2> QED BY <2>1, <2>2 DEF ResultsSound
<1> QED BY <1>3, <1>4, <1>5 DEF GoSound

LEMMA NextRoundSound ==
    ASSUME GoSound, NEW p \in Pkgs, Go!NextRound(p)
    PROVE  GoSound'
<1>1. /\ root[p] = "returned" /\ root' = [root EXCEPT ![p] = "running"]
      /\ phase' = [k \in Keys |-> IF k[1] = p THEN "new" ELSE phase[k]]
      /\ parallel' = parallel \ Tests(p)
      /\ UNCHANGED <<begun, failed>>
  BY DEF Go!NextRound, Go!RoundOver, Go!Of, Go!Keys, Keys, Tests
<1>2. GoTyped'
  <2>1. "new" \in Phases /\ "running" \in Roots
    BY DEF Phases, Roots
  <2> QED BY <1>1, <2>1 DEF GoSound, GoTyped
<1>3. CallersSound'
  <2>1. ASSUME NEW k \in Keys, k[1] = p
        PROVE  phase'[k] = "new" /\ k \notin parallel'
    BY <1>1, <2>1 DEF Tests
  <2>2. ASSUME NEW k \in Keys, k[1] # p
        PROVE  /\ phase'[k] = phase[k] /\ (k \in parallel' <=> k \in parallel)
               /\ phase'[<<k[1], Caller(k)>>] = phase[<<k[1], Caller(k)>>]
                    \/ Caller(k) \notin Names
    BY <1>1, <2>2 DEF Tests, Keys
  <2>3. \A k : Caller(k)' = Caller(k) /\ begun'[k] = begun[k]
    BY <1>1 DEF Caller
  <2>4. ASSUME NEW k \in Keys
        PROVE  /\ phase'[k] # "new" => /\ begun'[k] # <<>>
                                       /\ \/ Caller(k)' = NoTest /\ Len(k[2]) = 1
                                          \/ /\ Caller(k)' \in Names
                                             /\ IsStrictPrefix(Caller(k)', k[2])
               /\ k \in parallel' => phase'[k] # "new"
               /\ k \in parallel' /\ phase'[k] \in {"running", "returned"}
                    /\ Caller(k)' # NoTest => phase'[<<k[1], Caller(k)'>>] = "returned"
    <3>1. CASE k[1] = p
      BY <2>1, <3>1
    <3>2. CASE k[1] # p
      <4>1. /\ phase[k] # "new" => /\ begun[k] # <<>>
                                   /\ \/ Caller(k) = NoTest /\ Len(k[2]) = 1
                                      \/ /\ Caller(k) \in Names
                                         /\ IsStrictPrefix(Caller(k), k[2])
            /\ k \in parallel => phase[k] # "new"
            /\ k \in parallel /\ phase[k] \in {"running", "returned"}
                 /\ Caller(k) # NoTest => phase[<<k[1], Caller(k)>>] = "returned"
        BY DEF GoSound, CallersSound
      <4>2. Caller(k) \notin Names => phase[k] = "new" \/ Caller(k) = NoTest
        BY <4>1
      <4> QED BY <2>2, <2>3, <3>2, <4>1, <4>2
    <3> QED BY <3>1, <3>2
  <2> QED BY <2>4 DEF CallersSound
<1>4. ResultsSound'
  <2>1. ASSUME NEW q \in Pkgs, root'[q] = "over" PROVE Go!Due(q)' = {}
    <3>1. q # p /\ root[q] = "over"
      BY <1>1, <2>1 DEF GoSound, GoTyped
    <3>2. Go!Due(q) = {}
      BY <3>1 DEF GoSound, ResultsSound
    <3>3. \A k \in Tests(q) : phase'[k] = phase[k] /\ begun'[k] = begun[k]
      BY <1>1, <3>1 DEF Tests
    <3> QED BY <3>2, <3>3, DueKept
  <2> QED BY <1>1, <2>1 DEF GoSound, ResultsSound
<1> QED BY <1>2, <1>3, <1>4 DEF GoSound

LEMMA RoundOverDue ==
    ASSUME NEW p, Go!RoundOver(p)
    PROVE  Go!Due(p) = {}
BY DEF Go!RoundOver, Go!Due

LEMMA PackageSound ==
    ASSUME GoSound, NEW p \in Pkgs,
           \/ Go!StartPackage(p) \/ Go!RootReturn(p) \/ Go!NextRound(p)
           \/ Go!PackageResult(p) \/ Go!Die(p) \/ Go!PrintPanic(p) \/ Go!PackageDied(p)
           \/ \E t \in Names, text \in Texts : Go!Say(p, t, text)
    PROVE  GoSound'
<1>0. root \in [Pkgs -> Roots]
  BY DEF GoSound, GoTyped
<1>1. CASE Go!StartPackage(p) \/ Go!RootReturn(p) \/ Go!Die(p) \/ Go!PrintPanic(p)
  <2>1. PICK to \in Roots : to # "over" /\ root' = [root EXCEPT ![p] = to]
    <3>1. CASE Go!StartPackage(p)
      BY <3>1 DEF Go!StartPackage, Roots
    <3>2. CASE Go!RootReturn(p)
      BY <3>2 DEF Go!RootReturn, Roots
    <3>3. CASE Go!Die(p)
      BY <3>3 DEF Go!Die, Roots
    <3>4. CASE Go!PrintPanic(p)
      BY <3>4 DEF Go!PrintPanic, Roots
    <3> QED BY <1>1, <3>1, <3>2, <3>3, <3>4
  <2>2. UNCHANGED <<phase, begun, parallel, failed>>
    BY <1>1 DEF Go!StartPackage, Go!RootReturn, Go!Die, Go!PrintPanic
  <2> QED BY <1>0, <2>1, <2>2, RootSound
<1>2. CASE Go!PackageResult(p) \/ Go!PackageDied(p)
  <2>1. Go!Due(p) = {}
    BY <1>2, RoundOverDue DEF Go!PackageResult, Go!PackageDied
  <2>2. "over" \in Roots
    BY DEF Roots
  <2>3. root' = [root EXCEPT ![p] = "over"] /\ UNCHANGED <<phase, begun, parallel, failed>>
    BY <1>2 DEF Go!PackageResult, Go!PackageDied
  <2> QED BY <1>0, <2>1, <2>2, <2>3, RootSound
<1>3. CASE \E t \in Names, text \in Texts : Go!Say(p, t, text)
  <2>1. UNCHANGED <<phase, begun, parallel, failed, root>>
    BY <1>3 DEF Go!Say
  <2> QED BY <1>0, <2>1, RootSound
<1>4. CASE Go!NextRound(p)
  BY <1>4, NextRoundSound
<1> QED BY <1>1, <1>2, <1>3, <1>4

LEMMA CallersAgree == \A k : Go!CallerOf(k) = Caller(k)
BY DEF Go!CallerOf, Caller, Go!Last, Last

LEMMA TestSound ==
    ASSUME GoSound, NEW k \in Keys,
           \/ Go!Pause(k) \/ Go!Cont(k) \/ Go!BodyReturn(k) \/ Go!Report(k)
           \/ \E c \in Names \cup {NoTest} : Go!Begin(k, c)
           \/ \E v \in {"pass", "fail", "skip"} : Go!Finish(k, v)
    PROVE  GoSound'
<1>0. k[1] \in Pkgs
  BY DEF Keys
<1>1. CASE Go!Pause(k)
  <2>1. /\ phase[k] = "running" /\ phase' = [phase EXCEPT ![k] = "paused"]
        /\ parallel' = parallel \cup {k} /\ root[k[1]] # "over"
        /\ UNCHANGED <<begun, root, failed>>
    BY <1>1 DEF Go!Pause, Go!Free, Go!MayName
  <2>2. PICK to \in Phases : to = "paused"
    BY DEF Phases
  <2> QED BY <2>1, <2>2, PhaseSound
<1>2. CASE Go!Cont(k)
  <2>1. /\ phase[k] = "paused" /\ phase' = [phase EXCEPT ![k] = "running"]
        /\ root[k[1]] # "over"
        /\ UNCHANGED <<begun, root, failed, parallel>>
    BY <1>2 DEF Go!Cont, Go!MayName
  <2>2. PICK to \in Phases : to = "running"
    BY DEF Phases
  <2>3. Caller(k) # NoTest => phase[<<k[1], Caller(k)>>] = "returned"
    BY <1>2, CallersAgree DEF Go!Cont
  <2> QED BY <2>1, <2>2, <2>3, PhaseSound
<1>3. CASE Go!BodyReturn(k)
  <2>1. /\ phase[k] = "running" /\ phase' = [phase EXCEPT ![k] = "returned"]
        /\ root[k[1]] # "over"
        /\ UNCHANGED <<begun, root, failed, parallel>>
    BY <1>3 DEF Go!BodyReturn, Go!Free
  <2>2. PICK to \in Phases : to = "returned"
    BY DEF Phases
  <2>3. k \in parallel' /\ Caller(k) # NoTest => phase[<<k[1], Caller(k)>>] = "returned"
    BY <2>1 DEF GoSound, CallersSound
  <2> QED BY <2>1, <2>2, <2>3, PhaseSound
<1>4. ASSUME NEW v \in {"pass", "fail", "skip"}, Go!Finish(k, v) PROVE GoSound'
  <2>1. /\ phase[k] = "returned" /\ phase' = [phase EXCEPT ![k] = "finished"]
        /\ root[k[1]] # "over"
        /\ \A j \in Go!Children(k) : Go!Ended(j)
        /\ failed' = failed \cup {k[1]} \/ failed' = failed
        /\ UNCHANGED <<begun, root, parallel>>
    BY <1>4 DEF Go!Finish, Go!MayName
  <2>2. PICK to \in Phases : to = "finished"
    BY DEF Phases
  <2>3. ASSUME NEW j \in parallel, j \in Keys, j[1] = k[1], Caller(j) = k[2]
        PROVE  phase[j] \notin {"running", "returned"}
    <3>1. phase[j] # "new"
      BY <2>3 DEF GoSound, CallersSound
    <3>2. j \in Go!Children(k)
      BY <2>3, <3>1, CallersAgree DEF Go!Children, Go!Started, Go!Of, Go!Keys, Keys
    <3> QED BY <2>1, <3>2 DEF Go!Ended
  <2>4. \A p \in failed' : p \in failed \/ p = k[1]
    BY <2>1
  <2> QED BY <2>1, <2>2, <2>3, <2>4, PhaseSound
<1>5. CASE Go!Report(k)
  <2>1. /\ phase[k] = "finished" /\ phase' = [phase EXCEPT ![k] = "done"]
        /\ UNCHANGED <<begun, root, failed, parallel>>
        /\ Go!Due(k[1]) # {}
    BY <1>5 DEF Go!Report, Go!Due
  <2>2. PICK to \in Phases : to = "done"
    BY DEF Phases
  <2>3. root[k[1]] # "over"
    BY <1>0, <2>1 DEF GoSound, ResultsSound
  <2> QED BY <2>1, <2>2, <2>3, PhaseSound
<1> QED BY <1>1, <1>2, <1>3, <1>4, <1>5, BeginSound

LEMMA GoStepSound == ASSUME GoSound, Go!GoNext PROVE GoSound'
<1>1. CASE Go!EndOfStream
  <2>1. UNCHANGED <<phase, begun, parallel, failed, root>>
    BY <1>1 DEF Go!EndOfStream
  <2> QED BY <2>1, RootSound DEF GoSound, GoTyped
<1> QED BY <1>1, PackageSound, TestSound DEF Go!GoNext, Go!Keys, Keys

LEMMA GoInitSound == Go!GoInit => GoSound
<1> SUFFICES ASSUME Go!GoInit PROVE GoSound
  OBVIOUS
<1>1. /\ phase = [k \in Keys |-> "new"] /\ begun = [k \in Keys |-> <<>>]
      /\ root = [p \in Pkgs |-> "new"] /\ failed = {} /\ parallel = {}
  BY DEF Go!GoInit, Go!Keys, Keys
<1>2. "new" \in Phases /\ "new" \in Roots /\ <<>> \in Seq(Call)
  BY DEF Phases, Roots
<1> QED BY <1>1, <1>2 DEF GoSound, GoTyped, CallersSound, ResultsSound
----------------------------------------------------------------------------
(* The view of a stream that has been read to its end.                     *)

StOf(ph) == IF ph \in {"new", "done"} THEN "off" ELSE IF ph = "paused" THEN "paused" ELSE "on"

\* go test has sent what it takes to reach view v.
Sent(v) ==
    /\ \A k \in Keys :
         /\ v.begun[k] = begun[k]
         /\ v.st[k] = StOf(phase[k])
         /\ phase[k] \in {"new", "done"} /\ begun[k] # <<>> => v.last[k] = verdict[k]
    /\ \A p \in Pkgs :
         /\ v.pkg[p] = "new" <=> root[p] = "new"
         /\ v.pkg[p] \in Verdicts <=> root[p] = "over"
         /\ v.pkg[p] \in {"pass", "skip"} => p \notin failed
         /\ v.pkg[p] \in {"new", "pass", "skip"} => \A k \in Tests(p) : v.st[k] = "off"
         /\ v.pkg[p] \in {"new", "skip"} => \A k \in Tests(p) : begun[k] = <<>>

LEMMA SentOpen ==
    ASSUME NEW v \in View, Sent(v), NEW p \in Pkgs, root[p] \notin {"new", "over"}
    PROVE  v.pkg[p] = "open"
BY DEF View, Sent

\* A step of one test of a package that is open.
LEMMA TestSent ==
    ASSUME NEW v \in View, Sent(v), NEW w \in View, NEW k \in Keys,
           root[k[1]] \notin {"new", "over"}, UNCHANGED root,
           \A p \in failed' : p \in failed \/ p = k[1],
           w.pkg = v.pkg,
           \A j \in Keys : j # k =>
             /\ phase'[j] = phase[j] /\ begun'[j] = begun[j] /\ verdict'[j] = verdict[j]
             /\ w.st[j] = v.st[j] /\ w.begun[j] = v.begun[j] /\ w.last[j] = v.last[j],
           w.begun[k] = begun'[k], w.st[k] = StOf(phase'[k]),
           phase'[k] \in {"new", "done"} /\ begun'[k] # <<>> => w.last[k] = verdict'[k]
    PROVE  Sent(w)'
<1>0. k[1] \in Pkgs
  BY DEF Keys
<1>1. v.pkg[k[1]] = "open"
  BY <1>0, SentOpen
<1>2. ASSUME NEW j \in Keys
      PROVE  /\ w.begun[j] = begun'[j] /\ w.st[j] = StOf(phase'[j])
             /\ phase'[j] \in {"new", "done"} /\ begun'[j] # <<>> => w.last[j] = verdict'[j]
  <2>1. CASE j = k
    BY <2>1
  <2>2. CASE j # k
    BY <2>2 DEF Sent
  <2> QED BY <2>1, <2>2
<1>3. ASSUME NEW p \in Pkgs
      PROVE  /\ w.pkg[p] = "new" <=> root'[p] = "new"
             /\ w.pkg[p] \in Verdicts <=> root'[p] = "over"
  BY DEF Sent
<1>4. ASSUME NEW p \in Pkgs
      PROVE  /\ w.pkg[p] \in {"pass", "skip"} => p \notin failed'
             /\ w.pkg[p] \in {"new", "pass", "skip"} => \A j \in Tests(p) : w.st[j] = "off"
             /\ w.pkg[p] \in {"new", "skip"} => \A j \in Tests(p) : begun'[j] = <<>>
  <2>1. CASE p = k[1]
    BY <1>1, <2>1
  <2>2. CASE p # k[1]
    <3>1. \A j \in Tests(p) : j \in Keys /\ j # k
      BY <2>2 DEF Tests
    <3>2. /\ v.pkg[p] \in {"pass", "skip"} => p \notin failed
          /\ v.pkg[p] \in {"new", "pass", "skip"} => \A j \in Tests(p) : v.st[j] = "off"
          /\ v.pkg[p] \in {"new", "skip"} => \A j \in Tests(p) : begun[j] = <<>>
      BY DEF Sent
    <3> QED BY <2>2, <3>1, <3>2
  <2> QED BY <2>1, <2>2
<1> QED BY <1>2, <1>3, <1>4 DEF Sent

\* What a step of go test sends: output, or nothing, or one event that leads
\* from one view to the next.
Chatter == \E rest \in Seq(Event) : /\ stream' = stream \o rest
                                    /\ \A i \in 1..Len(rest) : rest[i].action = "output"

\* Every test's caller prints what it does as it does it, and at most three
\* names lie on one path.
Plain == /\ Streaming
         /\ ~ \E b, c, a, t \in Names : /\ IsStrictPrefix(b, c) /\ IsStrictPrefix(c, a)
                                        /\ IsStrictPrefix(a, t)

Sends(v, ev, w) == /\ stream' = Append(stream, ev)
                   /\ Advance(v, ev, w) /\ (Plain => Called(v, ev, w))

LEMMA Comparable ==
    ASSUME NEW a \in Names, NEW c \in Names, NEW t \in Names,
           IsStrictPrefix(a, t), IsStrictPrefix(c, t)
    PROVE  a = c \/ IsStrictPrefix(a, c) \/ IsStrictPrefix(c, a)
<1>1. a \in Seq(STRING) /\ c \in Seq(STRING) /\ t \in Seq(STRING)
  BY RunAssumption
<1>2. /\ Len(a) \in Nat /\ Len(c) \in Nat
      /\ \A i \in 1..Len(a) : a[i] = t[i]
      /\ \A i \in 1..Len(c) : c[i] = t[i]
  BY <1>1, PrefixIs DEF IsStrictPrefix
<1>3. CASE Len(a) <= Len(c)
  <2>1. \A i \in 1..Len(a) : a[i] = c[i]
    BY <1>2, <1>3
  <2>2. IsPrefix(a, c)
    BY <1>1, <1>3, <2>1, PrefixIs
  <2> QED BY <2>2 DEF IsStrictPrefix
<1>4. CASE Len(c) <= Len(a)
  <2>1. \A i \in 1..Len(c) : c[i] = a[i]
    BY <1>2, <1>4
  <2>2. IsPrefix(c, a)
    BY <1>1, <1>4, <2>1, PrefixIs
  <2> QED BY <2>2 DEF IsStrictPrefix
<1> QED BY <1>2, <1>3, <1>4

LEMMA NothingAboveTop ==
    ASSUME NEW a \in Names, NEW t \in Names, IsStrictPrefix(a, t), Len(t) = 1
    PROVE  FALSE
<1>1. a \in Seq(STRING) /\ t \in Seq(STRING) /\ a # <<>> /\ a # t
  BY RunAssumption DEF IsStrictPrefix, NoTest
<1>2. /\ Len(a) \in Nat /\ Len(a) <= 1
      /\ \A i \in 1..Len(a) : a[i] = t[i]
  BY <1>1, PrefixIs DEF IsStrictPrefix
<1>3. Len(a) = 1
  BY <1>1, <1>2, EmptySeq
<1>4. a = t
  BY <1>1, <1>2, <1>3, SeqEqual
<1> QED BY <1>1, <1>4

LEMMA AgreeFree ==
    ASSUME NEW k \in Keys, Go!Free(k), NEW j \in Keys, j[1] = k[1], Caller(j) = k[2],
           phase[j] \in {"running", "returned"}
    PROVE  phase[k] = "running" /\ j \in parallel
<1>1. j \in Go!Children(k)
  BY CallersAgree DEF Go!Children, Go!Started, Go!Of, Go!Keys, Keys
<1> QED BY <1>1 DEF Go!Free, Go!Blocking

\* A test that begins has as its caller the last test before it that is on.
LEMMA BeginCalled ==
    ASSUME GoSound, NEW v \in View, Sent(v), NEW k \in Keys, NEW c \in Names \cup {NoTest},
           Go!Begin(k, c), Plain
    PROVE  CallerIsOn(v, k, CallFrom(k, c))
<1> DEFINE p == k[1]
           t == k[2]
<1>0. p \in Pkgs /\ t \in Names /\ CallFrom(k, c)[1] = c
  BY DEF Keys, CallFrom
<1>1. /\ Go!Due(p) = {}
      /\ c = NoTest => Len(t) = 1
      /\ c # NoTest => IsStrictPrefix(c, t) /\ Go!Free(<<p, c>>)
  BY BeginTells
<1>2. c # NoTest => /\ IsStrictPrefix(c, t) /\ v.st[<<p, c>>] = "on"
                    /\ CallFrom(k, c)[2] = Len(v.begun[<<p, c>>])
  <2> SUFFICES ASSUME c # NoTest PROVE /\ v.st[<<p, c>>] = "on"
                                       /\ CallFrom(k, c)[2] = Len(v.begun[<<p, c>>])
    BY <1>1
  <2>1. <<p, c>> \in Keys /\ phase[<<p, c>>] = "running"
    BY <1>0, <1>1 DEF Keys, Go!Free
  <2>2. /\ v.begun[<<p, c>>] = begun[<<p, c>>] /\ v.st[<<p, c>>] = StOf(phase[<<p, c>>])
    BY <2>1 DEF Sent
  <2> QED BY <2>1, <2>2 DEF StOf, CallFrom
<1>3. ASSUME NEW a \in Names, v.st[<<p, a>>] = "on", IsStrictPrefix(a, t),
             c = NoTest \/ IsStrictPrefix(c, a)
      PROVE  FALSE
  <2> DEFINE j == <<p, a>>
             d == Caller(j)
  <2>1. j \in Keys /\ j[1] = p /\ j[2] = a
    BY <1>0 DEF Keys
  <2>2. phase[j] \in {"running", "returned"}
    <3>1. StOf(phase[j]) = "on" /\ phase[j] \in Phases
      BY <1>3, <2>1 DEF Sent, GoSound, GoTyped
    <3>2. phase[j] # "finished"
      BY <1>1, <2>1 DEF Plain, Go!Due, Go!Of, Go!Keys, Keys
    <3> QED BY <3>1, <3>2 DEF StOf, Phases
  <2>3. c # NoTest /\ c \in Names /\ IsStrictPrefix(c, a) /\ IsStrictPrefix(c, t)
    BY <1>0, <1>1, <1>3, NothingAboveTop
  <2>4. \/ d = NoTest /\ Len(a) = 1
        \/ d \in Names /\ IsStrictPrefix(d, a)
    BY <2>1, <2>2 DEF GoSound, CallersSound
  <2> HIDE DEF d
  <2>5. d \in Names /\ IsStrictPrefix(d, a)
    BY <2>3, <2>4, NothingAboveTop
  <2>6. CASE d = c
    <3>1. Go!Free(<<p, c>>) /\ <<p, c>> \in Keys
      BY <1>0, <1>1, <2>3 DEF Keys
    <3>2. PICK f \in Keys : f = <<p, c>>
      BY <3>1
    <3>3. Caller(j) = f[2] /\ f[1] = p
      BY <2>6, <3>2 DEF d
    <3>4. phase[f] = "running" /\ j \in parallel
      BY <2>1, <2>2, <3>1, <3>2, <3>3, AgreeFree
    <3>a. Caller(j) # NoTest
      BY <2>5, RunAssumption DEF d
    <3> HIDE DEF j
    <3>5. phase[<<j[1], Caller(j)>>] = "returned"
      BY <2>1, <2>2, <3>4, <3>a DEF GoSound, CallersSound
    <3> QED BY <2>1, <3>2, <3>3, <3>4, <3>5
  <2>7. CASE IsStrictPrefix(c, d) \/ IsStrictPrefix(d, c)
    BY <1>0, <1>3, <2>3, <2>5, <2>7 DEF Plain
  <2> QED BY <2>3, <2>5, <2>6, <2>7, Comparable
<1> QED BY <1>0, <1>2, <1>3 DEF CallerIsOn

LEMMA EmitIs ==
    ASSUME NEW action \in Actions, NEW p \in Pkgs, NEW t \in Names \cup {NoTest},
           Go!Emit(action, p, t, <<>>)
    PROVE  \E ev \in Event : /\ stream' = Append(stream, ev)
                             /\ ev.action = action /\ ev.pkg = p /\ ev.test = t
<1>1. [action |-> action, pkg |-> p, test |-> t, text |-> <<>>] \in Event
  BY DEF Event
<1> QED BY <1>1 DEF Go!Emit

LEMMA BeginSends ==
    ASSUME GoSound, NEW v \in View, Sent(v), NEW k \in Keys, NEW c \in Names \cup {NoTest},
           Go!Begin(k, c)
    PROVE  \E ev \in Event, w \in View : Sends(v, ev, w) /\ Sent(w)'
<1> DEFINE call == CallFrom(k, c)
           next == [st |-> [v.st EXCEPT ![k] = "on"], pkg |-> v.pkg,
                    begun |-> [v.begun EXCEPT ![k] = Append(@, call)], last |-> v.last]
<1>1. /\ phase[k] = "new" /\ phase' = [phase EXCEPT ![k] = "running"]
      /\ call \in Call
      /\ begun' = [begun EXCEPT ![k] = Append(@, call)]
      /\ begun' \in [Keys -> Seq(Call)]
      /\ Last(begun'[k]) = call
      /\ root[k[1]] \in {"running", "returned"}
      /\ UNCHANGED <<verdict, failed, root>>
  BY ZenonT(60), BeginTells
<1> HIDE DEF call
<1>2. /\ phase \in [Keys -> Phases] /\ begun \in [Keys -> Seq(Call)]
      /\ v.st \in [Keys -> {"off", "on", "paused"}]
      /\ v.pkg \in [Pkgs -> {"new", "open"} \cup Verdicts]
      /\ v.begun \in [Keys -> Seq(Call)] /\ v.last \in [Keys -> Verdicts]
      /\ k[1] \in Pkgs /\ k[2] \in Names
  BY DEF GoSound, GoTyped, View, Keys
<1>3. v.pkg[k[1]] = "open"
  BY <1>1, <1>2, SentOpen
<1>4. v.begun[k] = begun[k] /\ v.st[k] = "off"
  BY <1>1 DEF Sent, StOf
<1>5. begun'[k] = Append(begun[k], call) /\ \A j \in Keys : j # k => begun'[j] = begun[j]
  BY <1>1, <1>2
<1>7. PICK w \in View : w = next
  <2>1. next.begun = [v.begun EXCEPT ![k] = begun'[k]] /\ begun'[k] \in Seq(Call)
    BY <1>1, <1>4, <1>5
  <2>2. next.begun \in [Keys -> Seq(Call)] /\ next.st \in [Keys -> {"off", "on", "paused"}]
    BY <1>2, <2>1
  <2>3. next \in View
    BY <1>2, <2>2 DEF View
  <2> QED BY <2>3
<1>6. /\ w.begun = [v.begun EXCEPT ![k] = Append(@, call)]
      /\ w.begun = [v.begun EXCEPT ![k] = begun'[k]] /\ w.st = [v.st EXCEPT ![k] = "on"]
      /\ w.pkg = v.pkg /\ w.last = v.last
  BY <1>4, <1>5, <1>7
<1> HIDE DEF next
<1>8. PICK ev \in Event : /\ stream' = Append(stream, ev) /\ ev.action = "run"
                          /\ ev.pkg = k[1] /\ ev.test = k[2]
  <2>1. Go!Emit("run", k[1], k[2], <<>>)
    BY DEF Go!Begin
  <2>2. PICK action \in Actions : action = "run"
    BY DEF Actions
  <2> QED BY <1>2, <2>1, <2>2, EmitIs
<1>9. ev.test # NoTest /\ <<ev.pkg, ev.test>> = k
  BY <1>2, <1>8, RunAssumption DEF Keys
<1>10. \E cl \in Call : w.begun = [v.begun EXCEPT ![k] = Append(@, cl)]
  BY <1>1, <1>6
<1>11. w.begun[k] = begun'[k]
  BY <1>2, <1>6
<1>12. TestAdvance(v, ev.action, <<ev.pkg, ev.test>>, w)
  BY <1>3, <1>4, <1>6, <1>8, <1>9, <1>10 DEF TestAdvance
<1>13. Plain => Called(v, ev, w)
  <2>1. Plain => CallerIsOn(v, k, call)
    BY BeginCalled DEF call
  <2> QED BY <1>1, <1>9, <1>11, <2>1 DEF Called
<1>14. Sent(w)'
  <2>1. \A j \in Keys : j # k =>
          /\ phase'[j] = phase[j] /\ begun'[j] = begun[j] /\ verdict'[j] = verdict[j]
          /\ w.st[j] = v.st[j] /\ w.begun[j] = v.begun[j] /\ w.last[j] = v.last[j]
    BY <1>1, <1>2, <1>5, <1>6
  <2>2. w.st[k] = StOf(phase'[k]) /\ phase'[k] \notin {"new", "done"}
    BY <1>1, <1>2, <1>6 DEF StOf
  <2>3. phase'[k] \in {"new", "done"} /\ begun'[k] # <<>> => w.last[k] = verdict'[k]
    BY <2>2
  <2>4. \A p \in failed' : p \in failed \/ p = k[1]
    BY <1>1
  <2>5. root[k[1]] \notin {"new", "over"} /\ UNCHANGED root /\ w.pkg = v.pkg
    BY <1>1, <1>6
  <2> QED BY <1>11, <2>1, <2>2, <2>3, <2>4, <2>5, TestSent
<1> QED BY <1>7, <1>8, <1>9, <1>12, <1>13, <1>14 DEF Sends, Advance

LEMMA MoveSends ==
    ASSUME PipeOK, GoSound, NEW v \in View, Sent(v), NEW k \in Keys, NEW to \in Phases,
           NEW action \in Actions, root[k[1]] \notin {"new", "over"},
           phase' = [phase EXCEPT ![k] = to], UNCHANGED <<begun, verdict, root, failed>>,
           Go!Emit(action, k[1], k[2], <<>>),
           \/ action = "pause" /\ v.st[k] = "on" /\ to = "paused"
           \/ action = "cont" /\ v.st[k] = "paused" /\ to = "running"
           \/ action = verdict[k] /\ v.st[k] = "on" /\ to = "done"
    PROVE  \E ev \in Event, w \in View : Sends(v, ev, w) /\ Sent(w)'
<1> DEFINE next == [st |-> [v.st EXCEPT ![k] = StOf(to)], pkg |-> v.pkg, begun |-> v.begun,
                    last |-> IF to = "done" THEN [v.last EXCEPT ![k] = verdict[k]] ELSE v.last]
<1>1. /\ phase \in [Keys -> Phases] /\ verdict \in [Keys -> Verdicts]
      /\ v.st \in [Keys -> {"off", "on", "paused"}]
      /\ v.pkg \in [Pkgs -> {"new", "open"} \cup Verdicts]
      /\ v.begun \in [Keys -> Seq(Call)] /\ v.last \in [Keys -> Verdicts]
      /\ k[1] \in Pkgs /\ k[2] \in Names
  BY DEF GoSound, GoTyped, View, Keys, PipeOK, Verdicts
<1>2. v.pkg[k[1]] = "open"
  BY <1>1, SentOpen
<1>3. StOf(to) \in {"off", "on", "paused"}
  BY DEF StOf
<1>4. PICK w \in View : w = next
  <2>1. next \in View
    BY <1>1, <1>3 DEF View
  <2> QED BY <2>1
<1>5. /\ w.st = [v.st EXCEPT ![k] = StOf(to)] /\ w.pkg = v.pkg /\ w.begun = v.begun
      /\ to = "done" => w.last = [v.last EXCEPT ![k] = verdict[k]]
      /\ to # "done" => w.last = v.last
  BY <1>4
<1> HIDE DEF next
<1>6. PICK ev \in Event : /\ stream' = Append(stream, ev) /\ ev.action = action
                          /\ ev.pkg = k[1] /\ ev.test = k[2]
  <2>1. k[2] \in Names \cup {NoTest}
    BY <1>1
  <2> QED BY <1>1, <2>1, EmitIs
<1>7. ev.test # NoTest /\ <<ev.pkg, ev.test>> = k
  BY <1>1, <1>6, RunAssumption DEF Keys
<1>8. action = verdict[k] => action \in Verdicts
  BY <1>1
<1>9. TestAdvance(v, action, k, w)
  <2>1. CASE action = "pause" /\ v.st[k] = "on" /\ to = "paused"
    BY <1>2, <1>5, <2>1 DEF TestAdvance, StOf
  <2>2. CASE action = "cont" /\ v.st[k] = "paused" /\ to = "running"
    BY <1>2, <1>5, <2>2 DEF TestAdvance, StOf
  <2>3. CASE action = verdict[k] /\ v.st[k] = "on" /\ to = "done"
    BY <1>2, <1>5, <1>8, <2>3 DEF TestAdvance, StOf
  <2> QED BY <2>1, <2>2, <2>3
<1>10. Advance(v, ev, w) /\ Called(v, ev, w)
  <2>1. action # "run"
    BY <1>8 DEF Verdicts
  <2> QED BY <1>6, <1>7, <1>9, <2>1 DEF Advance, Called
<1>11. Sent(w)'
  <2>1. \A j \in Keys : j # k =>
          /\ phase'[j] = phase[j] /\ begun'[j] = begun[j] /\ verdict'[j] = verdict[j]
          /\ w.st[j] = v.st[j] /\ w.begun[j] = v.begun[j] /\ w.last[j] = v.last[j]
    BY <1>1, <1>5
  <2>2. w.st[k] = StOf(phase'[k]) /\ phase'[k] = to
    BY <1>1, <1>5
  <2>3. phase'[k] \in {"new", "done"} /\ begun'[k] # <<>> => w.last[k] = verdict'[k]
    BY <1>1, <1>5, <2>2
  <2>4. \A p \in failed' : p \in failed \/ p = k[1]
    OBVIOUS
  <2>5. root[k[1]] \notin {"new", "over"} /\ UNCHANGED root /\ w.pkg = v.pkg
    BY <1>5
  <2>6. w.begun[k] = begun'[k]
    BY <1>5 DEF Sent
  <2> QED BY <2>1, <2>2, <2>3, <2>4, <2>5, <2>6, TestSent
<1> QED BY <1>6, <1>10, <1>11 DEF Sends

LEMMA QuietSent ==
    ASSUME GoSound, NEW v \in View, Sent(v), NEW k \in Keys, NEW to \in Phases,
           root[k[1]] \notin {"new", "over"}, phase' = [phase EXCEPT ![k] = to],
           UNCHANGED <<begun, root>>, to \notin {"new", "done"}, StOf(phase[k]) = StOf(to),
           \A j \in Keys : j # k => verdict'[j] = verdict[j],
           \A p \in failed' : p \in failed \/ p = k[1]
    PROVE  Sent(v)'
<1>1. phase \in [Keys -> Phases]
  BY DEF GoSound, GoTyped
<1>2. \A j \in Keys : j # k =>
        /\ phase'[j] = phase[j] /\ begun'[j] = begun[j] /\ verdict'[j] = verdict[j]
        /\ v.st[j] = v.st[j] /\ v.begun[j] = v.begun[j] /\ v.last[j] = v.last[j]
  BY <1>1
<1>3. v.begun[k] = begun'[k] /\ v.st[k] = StOf(phase'[k])
  BY <1>1 DEF Sent
<1>4. phase'[k] \in {"new", "done"} /\ begun'[k] # <<>> => v.last[k] = verdict'[k]
  BY <1>1
<1>5. v.pkg = v.pkg /\ UNCHANGED root
  OBVIOUS
<1> QED BY <1>2, <1>3, <1>4, <1>5, TestSent

\* What go test sends in a step: output, if anything, or an event that takes
\* the view to the next one.
Progress(v) == \/ Chatter /\ Sent(v)'
               \/ \E ev \in Event, w \in View : Sends(v, ev, w) /\ Sent(w)'

LEMMA Silent ==
    ASSUME PipeOK, UNCHANGED stream
    PROVE  Chatter
<1>1. <<>> \in Seq(Event) /\ Len(<<>>) = 0 /\ stream \o <<>> = stream
  BY DEF PipeOK
<1>2. \A i \in 1..Len(<<>>) : <<>>[i].action = "output"
  BY <1>1
<1> QED BY <1>1, <1>2 DEF Chatter

LEMMA TestSends ==
    ASSUME PipeOK, GoSound, NEW v \in View, Sent(v), NEW k \in Keys,
           \/ Go!Pause(k) \/ Go!Cont(k) \/ Go!BodyReturn(k) \/ Go!Report(k)
           \/ \E c \in Names \cup {NoTest} : Go!Begin(k, c)
           \/ \E u \in {"pass", "fail", "skip"} : Go!Finish(k, u)
    PROVE  Progress(v)
<1>0. k[1] \in Pkgs /\ v.st[k] = StOf(phase[k])
  BY DEF Keys, Sent
<1>1. CASE Go!Pause(k)
  <2>1. /\ phase[k] = "running" /\ phase' = [phase EXCEPT ![k] = "paused"]
        /\ root[k[1]] \notin {"new", "over"}
        /\ UNCHANGED <<begun, verdict, root, failed>>
        /\ Go!Emit("pause", k[1], k[2], <<>>)
    BY <1>1 DEF Go!Pause, Go!Free, Go!MayName
  <2>2. PICK to \in Phases, action \in Actions : to = "paused" /\ action = "pause"
    BY DEF Phases, Actions
  <2>3. v.st[k] = "on"
    BY <1>0, <2>1 DEF StOf
  <2> QED BY <2>1, <2>2, <2>3, MoveSends DEF Progress
<1>2. CASE Go!Cont(k)
  <2>1. /\ phase[k] = "paused" /\ phase' = [phase EXCEPT ![k] = "running"]
        /\ root[k[1]] \notin {"new", "over"}
        /\ UNCHANGED <<begun, verdict, root, failed>>
        /\ Go!Emit("cont", k[1], k[2], <<>>)
    BY <1>2 DEF Go!Cont, Go!MayName
  <2>2. PICK to \in Phases, action \in Actions : to = "running" /\ action = "cont"
    BY DEF Phases, Actions
  <2>3. v.st[k] = "paused"
    BY <1>0, <2>1 DEF StOf
  <2> QED BY <2>1, <2>2, <2>3, MoveSends DEF Progress
<1>3. CASE Go!Report(k)
  <2>1. /\ phase[k] = "finished" /\ phase' = [phase EXCEPT ![k] = "done"]
        /\ Go!Due(k[1]) # {}
        /\ UNCHANGED <<begun, verdict, root, failed>>
        /\ Go!Emit(verdict[k], k[1], k[2], <<>>)
    BY <1>3 DEF Go!Report, Go!Due
  <2>2. PICK to \in Phases, action \in Actions : to = "done" /\ action = verdict[k]
    BY DEF Phases, Actions, PipeOK
  <2>3. v.st[k] = "on"
    BY <1>0, <2>1 DEF StOf
  <2>4. root[k[1]] # "over"
    BY <1>0, <2>1 DEF GoSound, ResultsSound
  <2>5. root[k[1]] # "new"
    <3>1. v.pkg[k[1]] = "new" => \A j \in Tests(k[1]) : v.st[j] = "off"
      BY <1>0 DEF Sent
    <3>2. k \in Tests(k[1])
      BY DEF Tests
    <3> QED BY <1>0, <2>3, <3>1, <3>2 DEF Sent
  <2> QED BY <2>1, <2>2, <2>3, <2>4, <2>5, MoveSends DEF Progress
<1>4. CASE Go!BodyReturn(k)
  <2>1. /\ phase[k] = "running" /\ phase' = [phase EXCEPT ![k] = "returned"]
        /\ root[k[1]] \notin {"new", "over"}
        /\ UNCHANGED <<begun, verdict, root, failed, stream>>
    BY <1>4 DEF Go!BodyReturn, Go!Free
  <2>2. PICK to \in Phases : to = "returned"
    BY DEF Phases
  <2>3. /\ to \notin {"new", "done"} /\ StOf(phase[k]) = StOf(to)
        /\ phase' = [phase EXCEPT ![k] = to]
    BY <2>1, <2>2 DEF StOf
  <2>4. /\ \A j \in Keys : j # k => verdict'[j] = verdict[j]
        /\ \A p \in failed' : p \in failed \/ p = k[1]
    BY <2>1
  <2>5. Sent(v)'
    BY <2>1, <2>3, <2>4, QuietSent
  <2> QED BY <2>1, <2>5, Silent DEF Progress
<1>5. ASSUME NEW u \in {"pass", "fail", "skip"}, Go!Finish(k, u) PROVE Progress(v)
  <2>1. /\ phase[k] = "returned" /\ phase' = [phase EXCEPT ![k] = "finished"]
        /\ root[k[1]] \notin {"new", "over"}
        /\ verdict' = [verdict EXCEPT ![k] = u]
        /\ failed' = failed \cup {k[1]} \/ failed' = failed
        /\ UNCHANGED <<begun, root, stream>>
    BY <1>5 DEF Go!Finish, Go!MayName
  <2>2. PICK to \in Phases : to = "finished"
    BY DEF Phases
  <2>3. /\ to \notin {"new", "done"} /\ StOf(phase[k]) = StOf(to)
        /\ phase' = [phase EXCEPT ![k] = to]
    BY <2>1, <2>2 DEF StOf
  <2>4. /\ \A j \in Keys : j # k => verdict'[j] = verdict[j]
        /\ \A p \in failed' : p \in failed \/ p = k[1]
    BY <2>1 DEF PipeOK
  <2>5. Sent(v)'
    BY <2>1, <2>3, <2>4, QuietSent
  <2> QED BY <2>1, <2>5, Silent DEF Progress
<1> QED BY <1>1, <1>2, <1>3, <1>4, <1>5, BeginSends DEF Progress

\* A step of a package.
LEMMA RootSent ==
    ASSUME GoSound, NEW v \in View, Sent(v), NEW w \in View, NEW p \in Pkgs, NEW to \in Roots,
           UNCHANGED <<phase, begun, verdict, failed>>, root' = [root EXCEPT ![p] = to],
           w.st = v.st, w.begun = v.begun, w.last = v.last,
           \A q \in Pkgs : q # p => w.pkg[q] = v.pkg[q],
           to # "new", w.pkg[p] # "new", w.pkg[p] \in Verdicts <=> to = "over",
           w.pkg[p] \in {"pass", "skip"} => p \notin failed,
           w.pkg[p] \in {"pass", "skip"} => \A j \in Tests(p) : w.st[j] = "off",
           w.pkg[p] = "skip" => \A j \in Tests(p) : begun[j] = <<>>
    PROVE  Sent(w)'
<1>1. root \in [Pkgs -> Roots]
  BY DEF GoSound, GoTyped
<1>2. ASSUME NEW j \in Keys
      PROVE  /\ w.begun[j] = begun'[j] /\ w.st[j] = StOf(phase'[j])
             /\ phase'[j] \in {"new", "done"} /\ begun'[j] # <<>> => w.last[j] = verdict'[j]
  BY DEF Sent
<1>3. ASSUME NEW q \in Pkgs
      PROVE  /\ w.pkg[q] = "new" <=> root'[q] = "new"
             /\ w.pkg[q] \in Verdicts <=> root'[q] = "over"
             /\ w.pkg[q] \in {"pass", "skip"} => q \notin failed'
             /\ w.pkg[q] \in {"new", "pass", "skip"} => \A j \in Tests(q) : w.st[j] = "off"
             /\ w.pkg[q] \in {"new", "skip"} => \A j \in Tests(q) : begun'[j] = <<>>
  <2>1. CASE q = p
    BY <1>1, <2>1
  <2>2. CASE q # p
    <3>1. w.pkg[q] = v.pkg[q] /\ root'[q] = root[q]
      BY <1>1, <2>2
    <3>2. /\ v.pkg[q] = "new" <=> root[q] = "new"
          /\ v.pkg[q] \in Verdicts <=> root[q] = "over"
          /\ v.pkg[q] \in {"pass", "skip"} => q \notin failed
          /\ v.pkg[q] \in {"new", "pass", "skip"} => \A j \in Tests(q) : v.st[j] = "off"
          /\ v.pkg[q] \in {"new", "skip"} => \A j \in Tests(q) : begun[j] = <<>>
      BY DEF Sent
    <3> QED BY <3>1, <3>2
  <2> QED BY <2>1, <2>2
<1> QED BY <1>2, <1>3 DEF Sent

LEMMA PackageEmits ==
    ASSUME GoSound, NEW v \in View, Sent(v), NEW p \in Pkgs, NEW to \in Roots,
           NEW action \in Actions, NEW status \in {"open"} \cup Verdicts,
           UNCHANGED <<phase, begun, verdict, failed>>, root' = [root EXCEPT ![p] = to],
           Go!Emit(action, p, NoTest, <<>>),
           \/ /\ action = "start" /\ status = "open" /\ v.pkg[p] = "new" /\ to = "running"
           \/ /\ action \in Verdicts /\ status = action /\ v.pkg[p] = "open" /\ to = "over"
              /\ action \in {"pass", "skip"} => p \notin failed
              /\ action \in {"pass", "skip"} => \A j \in Tests(p) : v.st[j] = "off"
              /\ action = "skip" => \A j \in Tests(p) : begun[j] = <<>>
    PROVE  \E ev \in Event, w \in View : Sends(v, ev, w) /\ Sent(w)'
<1> DEFINE next == [st |-> v.st, pkg |-> [v.pkg EXCEPT ![p] = status], begun |-> v.begun,
                    last |-> v.last]
<1>1. /\ v.st \in [Keys -> {"off", "on", "paused"}]
      /\ v.pkg \in [Pkgs -> {"new", "open"} \cup Verdicts]
      /\ v.begun \in [Keys -> Seq(Call)] /\ v.last \in [Keys -> Verdicts]
  BY DEF View
<1>2. PICK w \in View : w = next
  <2>1. next \in View
    BY <1>1 DEF View
  <2> QED BY <2>1
<1>3. /\ w.st = v.st /\ w.pkg = [v.pkg EXCEPT ![p] = status] /\ w.begun = v.begun
      /\ w.last = v.last
  BY <1>2
<1> HIDE DEF next
<1>4. PICK ev \in Event : /\ stream' = Append(stream, ev) /\ ev.action = action
                          /\ ev.pkg = p /\ ev.test = NoTest
  <2>1. NoTest \in Names \cup {NoTest}
    OBVIOUS
  <2> QED BY <2>1, EmitIs
<1>5. w.pkg[p] = status /\ \A q \in Pkgs : q # p => w.pkg[q] = v.pkg[q]
  BY <1>1, <1>3
<1>6. \A j \in Tests(p) : v.begun[j] = begun[j]
  BY DEF Sent, Tests
<1>7. PackageAdvance(v, action, p, w)
  <2>1. CASE action = "start"
    BY <1>3, <2>1 DEF PackageAdvance, Verdicts
  <2>2. CASE action # "start"
    <3>1. action \in Verdicts /\ status = action /\ v.pkg[p] = "open"
      BY <2>2
    <3>2. action # "fail" => \A j \in Tests(p) : v.st[j] = "off"
      BY <2>2 DEF Verdicts
    <3>3. action = "skip" => \A j \in Tests(p) : v.begun[j] = <<>>
      BY <1>6, <2>2
    <3> QED BY <1>3, <3>1, <3>2, <3>3 DEF PackageAdvance
  <2> QED BY <2>1, <2>2
<1>8. Advance(v, ev, w) /\ Called(v, ev, w)
  BY <1>4, <1>7 DEF Advance, Called
<1>9. Sent(w)'
  <2>1. to # "new" /\ w.pkg[p] # "new"
    BY <1>5 DEF Verdicts
  <2>2. w.pkg[p] \in Verdicts <=> to = "over"
    BY <1>5 DEF Verdicts
  <2>3. w.pkg[p] \in {"pass", "skip"} => p \notin failed
    BY <1>5
  <2>4. w.pkg[p] \in {"pass", "skip"} => \A j \in Tests(p) : w.st[j] = "off"
    BY <1>3, <1>5
  <2>5. w.pkg[p] = "skip" => \A j \in Tests(p) : begun[j] = <<>>
    BY <1>5
  <2> QED BY <1>3, <1>5, <2>1, <2>2, <2>3, <2>4, <2>5, RootSent
<1> QED BY <1>4, <1>8, <1>9 DEF Sends

LEMMA RootQuiet ==
    ASSUME GoSound, NEW v \in View, Sent(v), NEW p \in Pkgs, NEW to \in Roots,
           UNCHANGED <<phase, begun, verdict, failed>>, root' = [root EXCEPT ![p] = to],
           root[p] \notin {"new", "over"}, to \notin {"new", "over"}
    PROVE  Sent(v)'
<1>1. v.pkg[p] = "open" /\ "open" \notin Verdicts
  BY SentOpen DEF Verdicts
<1>2. /\ v.st = v.st /\ v.begun = v.begun /\ v.last = v.last
      /\ \A q \in Pkgs : q # p => v.pkg[q] = v.pkg[q]
      /\ to # "new" /\ v.pkg[p] # "new"
  BY <1>1
<1>3. v.pkg[p] \in Verdicts <=> to = "over"
  BY <1>1
<1>4. v.pkg[p] \in {"pass", "skip"} => p \notin failed
  BY <1>1
<1>5. v.pkg[p] \in {"pass", "skip"} => \A j \in Tests(p) : v.st[j] = "off"
  BY <1>1
<1>6. v.pkg[p] = "skip" => \A j \in Tests(p) : begun[j] = <<>>
  BY <1>1
<1> QED BY <1>2, <1>3, <1>4, <1>5, <1>6, RootSent

LEMMA RoundSent ==
    ASSUME GoSound, NEW v \in View, Sent(v), NEW p \in Pkgs, Go!NextRound(p)
    PROVE  Sent(v)' /\ UNCHANGED stream
<1>1. /\ root[p] = "returned" /\ root' = [root EXCEPT ![p] = "running"]
      /\ phase' = [k \in Keys |-> IF k[1] = p THEN "new" ELSE phase[k]]
      /\ \A k \in Tests(p) : phase[k] \in {"new", "done"}
      /\ UNCHANGED <<begun, failed, verdict, stream>>
  BY DEF Go!NextRound, Go!RoundOver, Go!Of, Go!Keys, Keys, Tests
<1>2. root \in [Pkgs -> Roots]
  BY DEF GoSound, GoTyped
<1>3. ASSUME NEW k \in Keys
      PROVE  /\ v.begun[k] = begun'[k] /\ v.st[k] = StOf(phase'[k])
             /\ phase'[k] \in {"new", "done"} /\ begun'[k] # <<>> => v.last[k] = verdict'[k]
  <2>1. /\ v.begun[k] = begun[k] /\ v.st[k] = StOf(phase[k])
        /\ phase[k] \in {"new", "done"} /\ begun[k] # <<>> => v.last[k] = verdict[k]
    BY DEF Sent
  <2>2. CASE k[1] = p
    <3>1. phase[k] \in {"new", "done"} /\ phase'[k] = "new"
      BY <1>1, <2>2 DEF Tests
    <3> QED BY <1>1, <2>1, <3>1 DEF StOf
  <2>3. CASE k[1] # p
    BY <1>1, <2>1, <2>3
  <2> QED BY <2>2, <2>3
<1>4. ASSUME NEW q \in Pkgs
      PROVE  /\ v.pkg[q] = "new" <=> root'[q] = "new"
             /\ v.pkg[q] \in Verdicts <=> root'[q] = "over"
  BY <1>1, <1>2 DEF Sent
<1> QED BY <1>1, <1>3, <1>4 DEF Sent

\* What is said, and a panic, does not change the view.
LEMMA PanicChatter ==
    ASSUME PipeOK, NEW p \in Pkgs, Go!PrintPanic(p)
    PROVE  Chatter
<1> DEFINE rest == [i \in DOMAIN Panic |->
                      [action |-> "output", pkg |-> p, test |-> speaker[p], text |-> Panic[i]]]
<1>1. stream' = stream \o rest
  BY DEF Go!PrintPanic
<1>2. /\ Panic \in Seq(Seq(STRING)) /\ DOMAIN Panic = 1..Len(Panic) /\ Len(Panic) \in Nat
  BY SessionAssumption, LenProperties
<1>3. ASSUME NEW i \in DOMAIN Panic
      PROVE  rest[i] \in Event /\ rest[i].action = "output"
  <2>1. Panic[i] \in Seq(STRING)
    BY <1>2
  <2>2. speaker[p] \in Names \cup {NoTest} /\ "output" \in Actions
    BY DEF PipeOK, Actions
  <2>3. rest[i] = [action |-> "output", pkg |-> p, test |-> speaker[p], text |-> Panic[i]]
    OBVIOUS
  <2> HIDE DEF rest
  <2> QED BY <2>1, <2>2, <2>3 DEF Event
<1>4. rest \in [1..Len(Panic) -> Event]
  BY <1>2, <1>3
<1> HIDE DEF rest
<1>5. rest \in Seq(Event) /\ Len(rest) = Len(Panic)
  <2>1. PICK n \in Nat : n = Len(Panic) /\ rest \in [1..n -> Event]
    BY <1>2, <1>4, Zenon
  <2>2. rest \in Seq(Event)
    BY <2>1
  <2>3. DOMAIN rest = 1..n
    BY <2>1
  <2>4. DOMAIN rest = 1..Len(rest) /\ Len(rest) \in Nat
    BY <2>2, LenProperties
  <2> QED BY <2>1, <2>2, <2>3, <2>4
<1>6. \A i \in 1..Len(rest) : rest[i].action = "output"
  BY <1>2, <1>3, <1>5
<1> QED BY <1>1, <1>5, <1>6 DEF Chatter

LEMMA SayChatter ==
    ASSUME PipeOK, NEW p \in Pkgs, NEW t \in Names, NEW text \in Texts, Go!Say(p, t, text)
    PROVE  Chatter
<1>1. PICK ev \in Event : stream' = Append(stream, ev) /\ ev.action = "output"
  <2>1. [action |-> "output", pkg |-> p, test |-> t, text |-> text] \in Event
    BY SessionAssumption DEF Event, Actions
  <2> QED BY <2>1 DEF Go!Say, Go!Emit
<1>2. PICK rest \in Seq(Event) : rest = <<ev>>
  BY Single
<1>3. Len(rest) = 1 /\ rest[1] = ev
  BY <1>2, Single
<1>4. stream' = stream \o rest
  BY <1>1, <1>2, AppendIsConcat DEF PipeOK
<1>5. \A i \in 1..Len(rest) : rest[i].action = "output"
  BY <1>1, <1>3
<1> QED BY <1>4, <1>5 DEF Chatter

LEMMA PackageSends ==
    ASSUME PipeOK, GoSound, NEW v \in View, Sent(v), NEW p \in Pkgs,
           \/ Go!StartPackage(p) \/ Go!RootReturn(p) \/ Go!NextRound(p)
           \/ Go!PackageResult(p) \/ Go!Die(p) \/ Go!PrintPanic(p) \/ Go!PackageDied(p)
           \/ \E t \in Names, text \in Texts : Go!Say(p, t, text)
    PROVE  Progress(v)
<1>1. CASE Go!StartPackage(p)
  <2>1. /\ UNCHANGED <<phase, begun, verdict, failed>>
        /\ root[p] = "new" /\ root' = [root EXCEPT ![p] = "running"]
        /\ Go!Emit("start", p, NoTest, <<>>)
    BY <1>1 DEF Go!StartPackage
  <2>2. v.pkg[p] = "new"
    BY <2>1 DEF Sent
  <2>3. PICK to \in Roots, action \in Actions, status \in {"open"} \cup Verdicts :
          to = "running" /\ action = "start" /\ status = "open"
    BY DEF Roots, Actions
  <2> QED BY <2>1, <2>2, <2>3, PackageEmits DEF Progress
<1>2. CASE Go!RootReturn(p) \/ Go!Die(p) \/ Go!PrintPanic(p)
  <2>1. PICK to \in Roots : /\ to \notin {"new", "over"} /\ root' = [root EXCEPT ![p] = to]
                            /\ root[p] \notin {"new", "over"}
    <3>1. CASE Go!RootReturn(p)
      BY <3>1 DEF Go!RootReturn, Go!RootFree, Roots
    <3>2. CASE Go!Die(p)
      BY <3>2 DEF Go!Die, Roots
    <3>3. CASE Go!PrintPanic(p)
      BY <3>3 DEF Go!PrintPanic, Roots
    <3> QED BY <1>2, <3>1, <3>2, <3>3
  <2>2. UNCHANGED <<phase, begun, verdict, failed>>
    BY <1>2 DEF Go!RootReturn, Go!Die, Go!PrintPanic
  <2>3. Sent(v)'
    BY <2>1, <2>2, RootQuiet
  <2>4. Chatter
    <3>1. Go!RootReturn(p) \/ Go!Die(p) => UNCHANGED stream
      BY DEF Go!RootReturn, Go!Die
    <3> QED BY <1>2, <3>1, Silent, PanicChatter
  <2> QED BY <2>3, <2>4 DEF Progress
<1>3. CASE Go!NextRound(p)
  BY <1>3, RoundSent, Silent DEF Progress
<1>4. CASE Go!PackageResult(p)
  <2>1. /\ UNCHANGED <<phase, begun, verdict, failed>>
        /\ root[p] = "returned" /\ root' = [root EXCEPT ![p] = "over"]
        /\ \A k \in Tests(p) : phase[k] \in {"new", "done"}
    BY <1>4 DEF Go!PackageResult, Go!RoundOver, Go!Of, Go!Keys, Keys, Tests
  <2>2. \/ p \notin failed /\ Go!Emit("pass", p, NoTest, <<>>)
        \/ p \in failed /\ Go!Emit("fail", p, NoTest, <<>>)
        \/ (\A k \in Tests(p) : begun[k] = <<>>) /\ Go!Emit("skip", p, NoTest, <<>>)
    BY <1>4 DEF Go!PackageResult, Go!Of, Go!Keys, Keys, Tests
  <2>3. (\A k \in Tests(p) : begun[k] = <<>>) => p \notin failed
    BY DEF GoSound, ResultsSound
  <2>4. PICK action \in Actions, status \in {"open"} \cup Verdicts :
          /\ action = status /\ action \in Verdicts
          /\ action \in {"pass", "skip"} => p \notin failed
          /\ action = "skip" => \A k \in Tests(p) : begun[k] = <<>>
          /\ Go!Emit(action, p, NoTest, <<>>)
    <3>1. /\ "pass" \in Actions /\ "fail" \in Actions /\ "skip" \in Actions
          /\ "pass" \in Verdicts /\ "fail" \in Verdicts /\ "skip" \in Verdicts
          /\ "pass" # "skip" /\ "fail" # "skip" /\ "fail" # "pass"
      BY DEF Actions, Verdicts
    <3>2. CASE p \notin failed /\ Go!Emit("pass", p, NoTest, <<>>)
      BY <3>1, <3>2
    <3>3. CASE p \in failed /\ Go!Emit("fail", p, NoTest, <<>>)
      BY <3>1, <3>3
    <3>4. CASE (\A k \in Tests(p) : begun[k] = <<>>) /\ Go!Emit("skip", p, NoTest, <<>>)
      BY <2>3, <3>1, <3>4
    <3> QED BY <2>2, <3>2, <3>3, <3>4
  <2>5. v.pkg[p] = "open" /\ \A j \in Tests(p) : v.st[j] = "off"
    BY <2>1, SentOpen DEF Sent, StOf, Tests
  <2>6. PICK to \in Roots : to = "over"
    BY DEF Roots
  <2> QED BY <2>1, <2>4, <2>5, <2>6, PackageEmits DEF Progress
<1>5. CASE Go!PackageDied(p)
  <2>1. /\ UNCHANGED <<phase, begun, verdict, failed>>
        /\ root[p] = "dead" /\ root' = [root EXCEPT ![p] = "over"]
        /\ Go!Emit("fail", p, NoTest, <<>>)
    BY <1>5 DEF Go!PackageDied
  <2>2. v.pkg[p] = "open"
    BY <2>1, SentOpen
  <2>3. PICK to \in Roots, action \in Actions, status \in {"open"} \cup Verdicts :
          to = "over" /\ action = "fail" /\ status = "fail"
    BY DEF Roots, Actions, Verdicts
  <2>4. action \in Verdicts /\ action \notin {"pass", "skip"}
    BY <2>3 DEF Verdicts
  <2> QED BY <2>1, <2>2, <2>3, <2>4, PackageEmits DEF Progress
<1>6. CASE \E t \in Names, text \in Texts : Go!Say(p, t, text)
  <2>1. UNCHANGED <<phase, begun, verdict, failed, root>>
    BY <1>6 DEF Go!Say
  <2>2. Sent(v)'
    BY <2>1 DEF Sent
  <2> QED BY <1>6, <2>2, SayChatter DEF Progress
<1> QED BY <1>1, <1>2, <1>3, <1>4, <1>5, <1>6

LEMMA GoSends ==
    ASSUME PipeOK, GoSound, NEW v \in View, Sent(v), Go!GoNext
    PROVE  Progress(v)
<1>1. CASE Go!EndOfStream
  <2>1. UNCHANGED <<phase, begun, verdict, failed, root, stream>>
    BY <1>1 DEF Go!EndOfStream
  <2>2. Sent(v)'
    BY <2>1 DEF Sent
  <2> QED BY <2>1, <2>2, Silent DEF Progress
<1> QED BY <1>1, PackageSends, TestSends DEF Go!GoNext, Go!Keys, Keys
----------------------------------------------------------------------------
(* Between what Run has read and what go test has sent is the pipe.        *)

\* The events of s lead from view v to view w.
Path(h, v, s, w) ==
    /\ h \in [0..Len(s) -> View] /\ h[0] = v /\ h[Len(s)] = w
    /\ \A n \in 1..Len(s) : /\ Advance(h[n - 1], s[n], h[n])
                            /\ Plain => Called(h[n - 1], s[n], h[n])

Leads(v, s, w) == \E h : Path(h, v, s, w)

LEMMA LeadsNone == ASSUME NEW v \in View PROVE Leads(v, <<>>, v)
<1> DEFINE h == [n \in {0} |-> v]
<1>1. Len(<<>>) = 0 /\ 0..Len(<<>>) = {0} /\ 1..Len(<<>>) = {}
  OBVIOUS
<1>2. Path(h, v, <<>>, v)
  BY <1>1 DEF Path
<1> QED BY <1>2 DEF Leads

LEMMA LeadsAppend ==
    ASSUME NEW v \in View, NEW w \in View, NEW s \in Seq(Event), Leads(v, s, w),
           NEW ev \in Event, NEW x \in View, Advance(w, ev, x), Plain => Called(w, ev, x)
    PROVE  Leads(v, Append(s, ev), x)
<1> DEFINE t == Append(s, ev)
<1>1. PICK h : Path(h, v, s, w)
  BY DEF Leads
<1>2. /\ t \in Seq(Event) /\ Len(s) \in Nat /\ Len(t) = Len(s) + 1 /\ t[Len(s) + 1] = ev
      /\ \A i \in 1..Len(s) : t[i] = s[i]
  BY AppendLast, LenProperties
<1> HIDE DEF t
<1> DEFINE g == [n \in 0..Len(t) |-> IF n = Len(t) THEN x ELSE h[n]]
<1>3. /\ h \in [0..Len(s) -> View] /\ h[0] = v /\ h[Len(s)] = w
      /\ \A n \in 1..Len(s) : /\ Advance(h[n - 1], s[n], h[n])
                              /\ Plain => Called(h[n - 1], s[n], h[n])
  BY <1>1 DEF Path
<1>4. g \in [0..Len(t) -> View] /\ g[0] = v /\ g[Len(t)] = x
  BY <1>2, <1>3
<1>5. ASSUME NEW n \in 1..Len(t)
      PROVE  Advance(g[n - 1], t[n], g[n]) /\ (Plain => Called(g[n - 1], t[n], g[n]))
  <2>1. CASE n = Len(t)
    <3>1. g[n] = x /\ g[n - 1] = w /\ t[n] = ev
      BY <1>2, <1>3, <2>1
    <3> HIDE DEF g
    <3> QED BY <3>1
  <2>2. CASE n # Len(t)
    <3>1. n \in 1..Len(s) /\ n - 1 \in 0..Len(s) /\ n - 1 # Len(t)
      BY <1>2, <2>2
    <3>2. g[n] = h[n] /\ g[n - 1] = h[n - 1] /\ t[n] = s[n]
      BY <1>2, <2>2, <3>1
    <3> HIDE DEF g
    <3> QED BY <1>3, <3>1, <3>2
  <2> QED BY <2>1, <2>2
<1> HIDE DEF g
<1>6. Path(g, v, t, x)
  BY <1>4, <1>5 DEF Path
<1> QED BY <1>6 DEF Leads, t

LEMMA LeadsChatter ==
    ASSUME NEW v \in View, NEW w \in View, NEW s \in Seq(Event), Leads(v, s, w),
           NEW rest \in Seq(Event), \A i \in 1..Len(rest) : rest[i].action = "output"
    PROVE  Leads(v, s \o rest, w)
<1> DEFINE t == s \o rest
<1>1. PICK h : Path(h, v, s, w)
  BY DEF Leads
<1>2. /\ Len(s) \in Nat /\ Len(rest) \in Nat /\ Len(t) = Len(s) + Len(rest)
      /\ \A i \in 1..Len(t) : t[i] = IF i <= Len(s) THEN s[i] ELSE rest[i - Len(s)]
  BY ConcatProperties, LenProperties
<1> HIDE DEF t
<1> DEFINE g == [n \in 0..Len(t) |-> IF n <= Len(s) THEN h[n] ELSE w]
<1>3. /\ h \in [0..Len(s) -> View] /\ h[0] = v /\ h[Len(s)] = w
      /\ \A n \in 1..Len(s) : /\ Advance(h[n - 1], s[n], h[n])
                              /\ Plain => Called(h[n - 1], s[n], h[n])
  BY <1>1 DEF Path
<1>4. g \in [0..Len(t) -> View] /\ g[0] = v /\ g[Len(t)] = w
  BY <1>2, <1>3
<1>5. ASSUME NEW n \in 1..Len(t)
      PROVE  Advance(g[n - 1], t[n], g[n]) /\ (Plain => Called(g[n - 1], t[n], g[n]))
  <2>1. CASE n <= Len(s)
    <3>1. n \in 1..Len(s) /\ g[n] = h[n] /\ g[n - 1] = h[n - 1] /\ t[n] = s[n]
      BY <1>2, <2>1
    <3> HIDE DEF g
    <3> QED BY <1>3, <3>1
  <2>2. CASE ~(n <= Len(s))
    <3>1. g[n] = w /\ g[n - 1] = w
      BY <1>2, <1>3, <2>2
    <3>2. n - Len(s) \in 1..Len(rest) /\ t[n] = rest[n - Len(s)]
      BY <1>2, <2>2
    <3>3. t[n].action = "output"
      BY <3>2
    <3> HIDE DEF g
    <3> QED BY <3>1, <3>3 DEF Advance, Called
  <2> QED BY <2>1, <2>2
<1> HIDE DEF g
<1>6. Path(g, v, t, w)
  BY <1>4, <1>5 DEF Path
<1> QED BY <1>6 DEF Leads, t

LEMMA LeadsTail ==
    ASSUME NEW v \in View, NEW w \in View, NEW s \in Seq(Event), s # <<>>, Leads(v, s, w)
    PROVE  \E x \in View : /\ Advance(v, Head(s), x) /\ (Plain => Called(v, Head(s), x))
                           /\ Leads(x, Tail(s), w)
<1> DEFINE t == Tail(s)
<1>1. PICK h : Path(h, v, s, w)
  BY DEF Leads
<1>2. /\ t \in Seq(Event) /\ Len(s) \in Nat /\ Len(s) > 0 /\ Len(t) = Len(s) - 1
      /\ Head(s) = s[1]
      /\ \A i \in 1..Len(t) : t[i] = s[i + 1]
  BY HeadTailProperties, LenProperties, EmptySeq
<1> HIDE DEF t
<1> DEFINE g == [n \in 0..Len(t) |-> h[n + 1]]
<1>3. /\ h \in [0..Len(s) -> View] /\ h[0] = v /\ h[Len(s)] = w
      /\ \A n \in 1..Len(s) : /\ Advance(h[n - 1], s[n], h[n])
                              /\ Plain => Called(h[n - 1], s[n], h[n])
  BY <1>1 DEF Path
<1>4. g \in [0..Len(t) -> View] /\ g[0] = h[1] /\ g[Len(t)] = w
  BY <1>2, <1>3
<1>5. ASSUME NEW n \in 1..Len(t)
      PROVE  Advance(g[n - 1], t[n], g[n]) /\ (Plain => Called(g[n - 1], t[n], g[n]))
  <2>1. n + 1 \in 1..Len(s) /\ g[n] = h[n + 1] /\ g[n - 1] = h[n] /\ t[n] = s[n + 1]
        /\ (n + 1) - 1 = n
    BY <1>2
  <2> HIDE DEF g
  <2> QED BY <1>3, <2>1
<1>6. PICK x \in View : x = h[1]
  BY <1>2, <1>3
<1>7. Advance(v, Head(s), x) /\ (Plain => Called(v, Head(s), x))
  <2>1. 1 \in 1..Len(s) /\ 1 - 1 = 0
    BY <1>2
  <2> QED BY <1>2, <1>3, <1>6, <2>1
<1> HIDE DEF g
<1>8. Path(g, x, t, w)
  BY <1>4, <1>5, <1>6 DEF Path
<1> QED BY <1>7, <1>8 DEF Leads, t

\* Run's state is that of a view, and the pipe leads from it to the tests'.
RunAt(v) == Seen(v) /\ (Plain => CallersSeen(v))
InFlight(v, w) == RunAt(v) /\ Leads(v, stream, w) /\ Sent(w)

TraceInv == SessionInv /\ GoSound /\ \E v, w \in View : InFlight(v, w)

LEMMA TraceInit == Init => TraceInv
<1> SUFFICES ASSUME Init PROVE TraceInv
  OBVIOUS
<1>1. SessionInv /\ GoSound
  BY SessionInit, GoInitSound DEF Init
<1> DEFINE first == [st |-> [k \in Keys |-> "off"], pkg |-> [p \in Pkgs |-> "new"],
                     begun |-> [k \in Keys |-> <<>>], last |-> [k \in Keys |-> "pass"]]
<1>2. PICK v \in View : v = first
  <2>1. first \in View
    BY DEF View, Verdicts
  <2> QED BY <2>1
<1>3. /\ \A k \in Keys : v.st[k] = "off" /\ v.begun[k] = <<>> /\ v.last[k] = "pass"
      /\ \A p \in Pkgs : v.pkg[p] = "new"
  BY <1>2
<1> HIDE DEF first
<1>4. /\ phase = [k \in Keys |-> "new"] /\ begun = [k \in Keys |-> <<>>]
      /\ root = [p \in Pkgs |-> "new"] /\ failed = {} /\ stream = <<>>
  BY DEF Init, Go!GoInit, Go!Keys, Keys
<1>5. Sent(v)
  BY <1>3, <1>4 DEF Sent, StOf, Verdicts, Tests
<1>6. /\ DOMAIN spans = {} /\ DOMAIN pkgSpans = {} /\ lastSpan = 0
      /\ \A p \in Pkgs : pkgRuns[p] = 0
  BY DEF Init, RunInit, EmptyMap
<1>7. Seen(v)
  <2>1. Tables(v)
    BY <1>3, <1>6 DEF Tables, Tests
  <2>2. 1..lastSpan = {}
    BY <1>6
  <2>3. RunsSeen(v)
    <3>1. \A k : TestSpans(k, lastSpan) = {}
      BY <2>2 DEF TestSpans
    <3>2. \A k : Nth(k, lastSpan) = 0
      BY <3>1, FS_EmptySet DEF Nth
    <3> QED BY <1>3, <1>6, <3>2 DEF RunsSeen
  <2> QED BY <2>1, <2>2, <2>3 DEF Seen, Accounted, PackagesSeen, VerdictsSeen, VerdictsOf
<1>8. CallersSeen(v)
  BY <1>6 DEF CallersSeen
<1>9. Leads(v, stream, v)
  BY <1>4, LeadsNone
<1> QED BY <1>1, <1>5, <1>7, <1>8, <1>9 DEF TraceInv, InFlight, RunAt

LEMMA AsideTests ==
    ASSUME CloseRegistry \/ (\E k \in Keys : Ask(k) \/ Answered(k) \/ ClientTimeout(k))
             \/ (\E c \in Calls : Serve(c) \/ ServerTimeout(c))
    PROVE  UNCHANGED <<runVars, stream, phase, begun, verdict, failed, root, parallel>>
BY DEF CloseRegistry, Ask, Answered, ClientTimeout, Serve, ServerTimeout, goVars

\* A step that Run takes no part in.
LEMMA RunAtKept ==
    ASSUME RunInv, NEW v \in View, RunAt(v), UNCHANGED runVars
    PROVE  RunAt(v)'
<1>1. UNCHANGED <<spans, activeTests, pkgSpans, pkgRuns, lastSpan, spanTab>>
  BY DEF runVars
<1>2. Seen(v)' /\ (CallersSeen(v) => CallersSeen(v)')
  BY <1>1, QuietSeen DEF RunAt
<1> QED BY <1>2 DEF RunAt

LEMMA TraceStep == TraceInv /\ [Next]_vars => TraceInv'
<1> SUFFICES ASSUME TraceInv, [Next]_vars PROVE TraceInv'
  OBVIOUS
<1>0. /\ SessionInv /\ SessionInv' /\ GoSound /\ RunInv /\ RunInv' /\ PipeOK
  BY SessionStep DEF TraceInv, SessionInv
<1>1. PICK v \in View, w \in View : InFlight(v, w)
  BY DEF TraceInv
<1>2. RunAt(v) /\ Leads(v, stream, w) /\ Sent(w) /\ stream \in Seq(Event)
  BY <1>0, <1>1 DEF InFlight, PipeOK
<1>3. CASE UNCHANGED <<runVars, stream, phase, begun, verdict, failed, root, parallel>>
  <2>1. GoSound'
    BY <1>0, <1>3, RootSound DEF GoSound, GoTyped
  <2>2. RunAt(v)'
    BY <1>0, <1>2, <1>3, RunAtKept
  <2>3. Sent(w)' /\ Leads(v, stream', w)
    BY <1>2, <1>3 DEF Sent
  <2> QED BY <1>0, <2>1, <2>2, <2>3 DEF TraceInv, InFlight
<1>4. CASE GoStep
  <2>1. GoSound' /\ Progress(w)
    BY <1>0, <1>2, <1>4, GoStepSound, GoSends DEF GoStep
  <2>2. RunAt(v)'
    BY <1>0, <1>2, <1>4, RunAtKept DEF GoStep
  <2>3. CASE Chatter /\ Sent(w)'
    <3>1. Leads(v, stream', w)
      BY <1>2, <2>3, LeadsChatter DEF Chatter
    <3> QED BY <1>0, <2>1, <2>2, <2>3, <3>1 DEF TraceInv, InFlight
  <2>4. CASE \E ev \in Event, x \in View : Sends(w, ev, x) /\ Sent(x)'
    <3>1. PICK ev \in Event, x \in View : Sends(w, ev, x) /\ Sent(x)'
      BY <2>4
    <3>2. stream' = Append(stream, ev) /\ Advance(w, ev, x) /\ (Plain => Called(w, ev, x))
      BY <3>1 DEF Sends
    <3>3. Leads(v, stream', x)
      BY <1>2, <3>2, LeadsAppend
    <3> QED BY <1>0, <2>1, <2>2, <3>1, <3>3 DEF TraceInv, InFlight
  <2> QED BY <2>1, <2>3, <2>4 DEF Progress
<1>5. CASE Consume
  <2>1. /\ stream # <<>> /\ stream' = Tail(stream)
        /\ Handle(Head(stream))
        /\ UNCHANGED <<phase, begun, verdict, failed, root, parallel>>
    BY <1>5 DEF Consume, Read
  <2>2. PICK x \in View : /\ Advance(v, Head(stream), x)
                          /\ Plain => Called(v, Head(stream), x)
                          /\ Leads(x, Tail(stream), w)
    BY <1>2, <2>1, LeadsTail
  <2>3. PICK ev \in Event : ev = Head(stream)
    BY <1>2, <2>1, HeadTailProperties
  <2>4. ev.pkg \in Pkgs /\ ev.test \in Names \cup {NoTest}
    BY DEF Event
  <2>5. Seen(x)' /\ (CallersSeen(v) /\ Called(v, ev, x) => CallersSeen(x)')
    BY <1>0, <1>2, <2>1, <2>2, <2>3, <2>4, HandleSeen DEF RunAt
  <2>6. RunAt(x)'
    BY <1>2, <2>2, <2>3, <2>5 DEF RunAt
  <2>7. GoSound'
    BY <1>0, <2>1, RootSound DEF GoSound, GoTyped
  <2>8. Sent(w)' /\ Leads(x, stream', w)
    BY <1>2, <2>1, <2>2 DEF Sent
  <2> QED BY <1>0, <2>6, <2>7, <2>8 DEF TraceInv, InFlight
<1>6. CASE RunEnds
  <2>1. /\ Return
        /\ UNCHANGED <<stream, phase, begun, verdict, failed, root, parallel>>
    BY <1>6 DEF RunEnds, goVars
  <2>2. RunAt(v)'
    <3>1. Seen(v)' /\ (CallersSeen(v) => CallersSeen(v)')
      BY <1>0, <1>2, <2>1, ReturnSeen DEF RunAt
    <3> QED BY <1>2, <3>1 DEF RunAt
  <2>3. GoSound'
    BY <1>0, <2>1, RootSound DEF GoSound, GoTyped
  <2>4. Sent(w)' /\ Leads(v, stream', w)
    BY <1>2, <2>1 DEF Sent
  <2> QED BY <1>0, <2>2, <2>3, <2>4 DEF TraceInv, InFlight
<1>7. CASE UNCHANGED vars
  BY <1>3, <1>7 DEF vars, goVars
<1> QED BY <1>3, <1>4, <1>5, <1>6, <1>7, AsideTests DEF Next

LEMMA TraceInvariant == Spec => []TraceInv
BY TraceInit, TraceStep, PTL DEF Spec
----------------------------------------------------------------------------
(* What events to come cannot change.                                      *)

\* The runs of v stay the first ones, and a package with a result is as it was.
After(v, w) ==
    /\ \A k \in Keys : /\ Len(v.begun[k]) <= Len(w.begun[k])
                       /\ \A i \in 1..Len(v.begun[k]) : w.begun[k][i] = v.begun[k][i]
    /\ \A p \in Pkgs : v.pkg[p] \in Verdicts =>
         /\ w.pkg[p] = v.pkg[p]
         /\ \A k \in Tests(p) : /\ w.st[k] = v.st[k] /\ w.begun[k] = v.begun[k]
                                /\ w.last[k] = v.last[k]

LEMMA TestAdvanceAfter ==
    ASSUME NEW v \in View, NEW w \in View, NEW x \in View, After(v, w), NEW action,
           NEW k \in Keys, TestAdvance(w, action, k, x)
    PROVE  After(v, x)
<1>1. /\ w.pkg[k[1]] = "open" /\ x.pkg = w.pkg /\ "open" \notin Verdicts
      /\ \A j \in Keys : j # k => /\ x.st[j] = w.st[j] /\ x.begun[j] = w.begun[j]
                                  /\ x.last[j] = w.last[j]
  BY DEF TestAdvance, View, Verdicts
<1>2. \/ x.begun[k] = w.begun[k]
      \/ \E call \in Call : x.begun[k] = Append(w.begun[k], call)
  BY DEF TestAdvance, View
<1>3. ASSUME NEW j \in Keys
      PROVE  /\ Len(v.begun[j]) <= Len(x.begun[j])
             /\ \A i \in 1..Len(v.begun[j]) : x.begun[j][i] = v.begun[j][i]
  <2>1. /\ Len(v.begun[j]) <= Len(w.begun[j])
        /\ \A i \in 1..Len(v.begun[j]) : w.begun[j][i] = v.begun[j][i]
    BY DEF After
  <2>2. v.begun[j] \in Seq(Call) /\ w.begun[j] \in Seq(Call)
    BY DEF View
  <2>3. CASE x.begun[j] = w.begun[j]
    BY <2>1, <2>3
  <2>4. ASSUME NEW call \in Call, x.begun[j] = Append(w.begun[j], call)
        PROVE  /\ Len(v.begun[j]) <= Len(x.begun[j])
               /\ \A i \in 1..Len(v.begun[j]) : x.begun[j][i] = v.begun[j][i]
    <3>1. PICK s \in Seq(Call), t \in Seq(Call) : s = v.begun[j] /\ t = w.begun[j]
      BY <2>2
    <3>2. /\ Len(Append(t, call)) = Len(t) + 1
          /\ \A i \in 1..Len(t) : Append(t, call)[i] = t[i]
          /\ Len(s) \in Nat /\ Len(t) \in Nat
      BY AppendLast, LenProperties
    <3> QED BY <2>1, <2>4, <3>1, <3>2
  <2> QED BY <1>1, <1>2, <2>3, <2>4
<1>4. ASSUME NEW p \in Pkgs, v.pkg[p] \in Verdicts
      PROVE  /\ x.pkg[p] = v.pkg[p]
             /\ \A j \in Tests(p) : /\ x.st[j] = v.st[j] /\ x.begun[j] = v.begun[j]
                                    /\ x.last[j] = v.last[j]
  <2>1. /\ w.pkg[p] = v.pkg[p]
        /\ \A j \in Tests(p) : /\ w.st[j] = v.st[j] /\ w.begun[j] = v.begun[j]
                               /\ w.last[j] = v.last[j]
    BY <1>4 DEF After
  <2>2. \A j \in Tests(p) : j \in Keys /\ j # k
    BY <1>1, <1>4, <2>1 DEF Tests
  <2> QED BY <1>1, <2>1, <2>2
<1> QED BY <1>3, <1>4 DEF After

LEMMA AdvanceAfter ==
    ASSUME NEW v \in View, NEW w \in View, NEW x \in View, After(v, w), NEW ev \in Event,
           Advance(w, ev, x)
    PROVE  After(v, x)
<1>1. CASE x = w
  BY <1>1
<1>2. CASE PackageAdvance(w, ev.action, ev.pkg, x)
  <2>1. /\ x.st = w.st /\ x.begun = w.begun /\ x.last = w.last
        /\ w.pkg[ev.pkg] \notin Verdicts
        /\ \A p \in Pkgs : p # ev.pkg => x.pkg[p] = w.pkg[p]
    BY <1>2 DEF PackageAdvance, View, Verdicts
  <2>2. ASSUME NEW p \in Pkgs, v.pkg[p] \in Verdicts PROVE x.pkg[p] = w.pkg[p]
    BY <2>1, <2>2 DEF After
  <2> QED BY <2>1, <2>2 DEF After
<1>3. CASE ev.test # NoTest /\ TestAdvance(w, ev.action, <<ev.pkg, ev.test>>, x)
  <2>1. PICK k \in Keys : k = <<ev.pkg, ev.test>>
    BY <1>3 DEF Event, Keys
  <2> QED BY <1>3, <2>1, TestAdvanceAfter
<1> QED BY <1>1, <1>2, <1>3 DEF Advance

LEMMA LeadsAfter ==
    ASSUME NEW v \in View, NEW w \in View, NEW s \in Seq(Event), Leads(v, s, w)
    PROVE  After(v, w)
<1>1. PICK h : Path(h, v, s, w)
  BY DEF Leads
<1>2. /\ h \in [0..Len(s) -> View] /\ h[0] = v /\ h[Len(s)] = w /\ Len(s) \in Nat
      /\ \A n \in 1..Len(s) : Advance(h[n - 1], s[n], h[n])
  BY <1>1, LenProperties DEF Path
<1> DEFINE N == {n \in Nat : n <= Len(s) => After(v, h[n])}
<1>3. 0 \in N
  <2>1. After(v, v)
    <3>1. \A k \in Keys : Len(v.begun[k]) <= Len(v.begun[k])
      <4>1. \A k \in Keys : v.begun[k] \in Seq(Call)
        BY DEF View
      <4> QED BY <4>1, LenProperties
    <3> QED BY <3>1 DEF After
  <2> QED BY <1>2, <2>1
<1>4. ASSUME NEW n \in N PROVE n + 1 \in N
  <2> SUFFICES ASSUME n + 1 <= Len(s) PROVE After(v, h[n + 1])
    OBVIOUS
  <2>1. /\ n \in 0..Len(s) /\ n + 1 \in 0..Len(s) /\ n + 1 \in 1..Len(s) /\ (n + 1) - 1 = n
        /\ n <= Len(s)
    BY <1>2
  <2>2. PICK a \in View, b \in View, ev \in Event : a = h[n] /\ b = h[n + 1] /\ ev = s[n + 1]
    <3>1. s[n + 1] \in Event
      BY <2>1, ElementOfSeq
    <3> QED BY <1>2, <2>1, <3>1
  <2>3. Advance(a, ev, b) /\ After(v, a)
    BY <1>2, <2>1, <2>2
  <2> QED BY <2>2, <2>3, AdvanceAfter
<1>5. N = Nat
  <2> HIDE DEF N
  <2>1. N \in SUBSET Nat
    BY DEF N
  <2> QED BY <1>3, <1>4, <2>1, Induct
<1> QED BY <1>2, <1>5
----------------------------------------------------------------------------
(* What the trace of a session says.                                       *)

LEMMA SpanTyped ==
    ASSUME RunInv, NEW i \in 1..lastSpan
    PROVE  /\ spanTab[i] \in Span /\ spanTab[i].pkg \in Pkgs
           /\ spanTab[i].test \in Names \cup {NoTest}
           /\ spanTab[i].ends \in Nat /\ spanTab[i].eofs \in Nat
           /\ spanTab[i].kind \in Kinds /\ i \in Nat /\ lastSpan \in Nat
<1>1. spanTab[i] \in Span /\ lastSpan \in Nat
  BY DEF RunInv, RunTypeOK
<1> QED BY <1>1 DEF Span

\* No span of any session is ended twice, nor its streams closed twice
\* (gotest.go:279-288, 540-550).
THEOREM SessionEndedOnce == Spec => []EndedOnce
<1>1. TraceInv => EndedOnce
  BY DEF TraceInv, InFlight, RunAt, Seen, Accounted, EndedOnce
<1> QED BY <1>1, TraceInvariant, PTL

\* A package that Run has settled has a result in Run's view.
LEMMA SettledOver ==
    ASSUME RunInv, NEW v \in View, Seen(v), NEW i \in 1..lastSpan,
           spanTab[i].kind = "package", spanTab[i].ends > 0
    PROVE  v.pkg[spanTab[i].pkg] \in Verdicts
<1> DEFINE p == spanTab[i].pkg
<1>1. p \in Pkgs
  BY SpanTyped
<1>2. v.pkg[p] # "new" /\ (v.pkg[p] = "open" => pkgSpans[p] = i /\ p \in DOMAIN pkgSpans)
  BY <1>1 DEF Seen, PackagesSeen, Tables
<1>3. p \in DOMAIN pkgSpans => spanTab[pkgSpans[p]].ends = 0
  BY DEF RunInv, PackagesSound
<1>4. v.pkg[p] \in {"new", "open"} \cup Verdicts
  BY <1>1 DEF View
<1> QED BY <1>2, <1>3, <1>4

\* In every session, once a package has its result every span of it has ended
\* and every log stream of it is closed (gotest.go:254-291, 431-469), whatever
\* tests a crash or a timeout cut off.
THEOREM SessionNothingLeftOpen == Spec => []NothingLeftOpen
<1>1. TraceInv => NothingLeftOpen
  <2> SUFFICES ASSUME TraceInv, NEW i \in 1..lastSpan, Settled(spanTab[i].pkg)
               PROVE  /\ spanTab[i].ends = 1
                      /\ WithLogs /\ spanTab[i].kind # "continue" => spanTab[i].eofs = 1
    BY DEF NothingLeftOpen
  <2>0. RunInv
    BY DEF TraceInv, SessionInv
  <2>1. PICK v \in View : Seen(v)
    BY DEF TraceInv, InFlight, RunAt
  <2>2. PICK p \in Pkgs : p = spanTab[i].pkg
    BY <2>0, SpanTyped
  <2>3. v.pkg[p] \in Verdicts
    <3>1. PICK j \in 1..lastSpan : /\ spanTab[j].kind = "package" /\ spanTab[j].pkg = p
                                   /\ spanTab[j].ends > 0
      BY <2>2 DEF Settled
    <3> QED BY <2>0, <2>1, <3>1, SettledOver
  <2>4. v.pkg[p] # "open" /\ p \notin DOMAIN pkgSpans
    BY <2>1, <2>3 DEF Verdicts, Seen, Tables
  <2>5. <<spanTab[i].pkg, spanTab[i].test>> \notin DOMAIN spans
    <3> SUFFICES ASSUME NEW k \in DOMAIN spans, k[1] = p PROVE FALSE
      BY <2>2
    <3>1. k \in Keys
      BY <2>0 DEF RunInv, RunTypeOK
    <3> QED BY <2>1, <2>4, <3>1 DEF Seen, Tables
  <2>6. spanTab[i].ends # 0 /\ spanTab[i].ends <= 1 /\ spanTab[i].eofs <= 1
    BY <2>1, <2>2, <2>4, <2>5 DEF Seen, Accounted
  <2>7. WithLogs /\ spanTab[i].kind # "continue" => spanTab[i].eofs # 0
    <3>1. spanTab[i].kind \in {"package", "test", "continue"}
      BY <2>0, SpanTyped DEF Kinds
    <3> QED BY <2>1, <2>2, <2>4, <2>5, <3>1 DEF Seen, Accounted
  <2> QED BY <2>0, <2>6, <2>7, SpanTyped
<1> QED BY <1>1, TraceInvariant, PTL

\* The spans of a test count from its first run.
LEMMA SpanOfTest ==
    ASSUME RunInv, NEW v \in View, Seen(v), NEW i \in 1..lastSpan, spanTab[i].kind # "package"
    PROVE  \E k \in Keys : /\ k = <<spanTab[i].pkg, spanTab[i].test>> /\ Of(spanTab, i, k)
                           /\ RunOf(i) = Nth(k, i) /\ Nth(k, i) \in Nat /\ Nth(k, i) > 0
                           /\ Nth(k, i) <= Len(v.begun[k])
<1> DEFINE key == <<spanTab[i].pkg, spanTab[i].test>>
<1>0. RunTypeOK /\ i \in 0..lastSpan
  BY SpanTyped DEF RunInv
<1>1. spanTab[i].test # NoTest
  BY DEF Seen, PackagesSeen
<1>2. PICK k \in Keys : k = key
  BY <1>1, SpanTyped DEF Keys
<1>3. Of(spanTab, i, k) /\ RunOf(i) = Nth(k, i)
  BY <1>2 DEF Of, RunOf, Nth, TestSpans
<1>4. Nth(k, i) \in Nat /\ Nth(k, i) <= Len(v.begun[k])
  BY NthInRuns DEF Seen
<1>5. Nth(k, i) > 0
  <2>1. CASE spanTab[i].kind = "test"
    BY <1>0, <1>3, <2>1, NthBasics
  <2>2. CASE spanTab[i].kind # "test"
    <3>1. spanTab[i].kind = "continue"
      BY <2>2, SpanTyped DEF Kinds
    <3> DEFINE o == spanTab[i].parent
    <3>2. o \in 1..(i - 1) /\ spanTab[o].kind = "test" /\ Of(spanTab, o, k)
      BY <1>2, <3>1 DEF RunInv, ParentsSound, UnderRightSpan
    <3> HIDE DEF o
    <3>3. o \in 1..lastSpan /\ o \in 0..lastSpan /\ o <= i
      BY <3>2, SpanTyped
    <3>4. Nth(k, o) > 0 /\ Nth(k, o) <= Nth(k, i) /\ Nth(k, o) \in Nat
      BY <1>0, <3>2, <3>3, NthBasics
    <3> QED BY <1>4, <3>4
  <2> QED BY <2>1, <2>2
<1> QED BY <1>2, <1>3, <1>4, <1>5

\* In every session the result of a run of a test is on the span that was
\* running when it came, and tests that were cut off are told from those that
\* were paused (gotest.go:282-287, 608-654).
THEOREM SessionVerdicts == Spec => []VerdictsRecorded
<1>1. TraceInv => VerdictsRecorded
  <2> SUFFICES ASSUME TraceInv, NEW i \in 1..lastSpan, spanTab[i].kind # "package",
                      Settled(spanTab[i].pkg)
               PROVE  spanTab[i].status \in Expected(i)
    BY DEF VerdictsRecorded
  <2>0. RunInv /\ GoSound /\ stream \in Seq(Event)
    BY DEF TraceInv, SessionInv, PipeOK
  <2>1. PICK v \in View, w \in View : Seen(v) /\ Sent(w) /\ Leads(v, stream, w)
    BY DEF TraceInv, InFlight, RunAt
  <2>2. PICK k \in Keys : /\ k = <<spanTab[i].pkg, spanTab[i].test>> /\ Of(spanTab, i, k)
                          /\ RunOf(i) = Nth(k, i) /\ Nth(k, i) \in Nat /\ Nth(k, i) > 0
                          /\ Nth(k, i) <= Len(v.begun[k])
    BY <2>0, <2>1, SpanOfTest
  <2>3. v.pkg[k[1]] \in Verdicts /\ k[1] \in Pkgs
    <3>1. PICK j \in 1..lastSpan : /\ spanTab[j].kind = "package" /\ spanTab[j].pkg = k[1]
                                   /\ spanTab[j].ends > 0
      BY <2>2 DEF Settled
    <3> QED BY <2>0, <2>1, <3>1, SettledOver DEF Keys
  <2>4. v.begun[k] = begun[k] /\ v.st[k] = StOf(phase[k])
        /\ (phase[k] \in {"new", "done"} /\ begun[k] # <<>> => v.last[k] = verdict[k])
    <3>1. w.begun[k] = v.begun[k] /\ w.st[k] = v.st[k] /\ w.last[k] = v.last[k]
      <4>1. After(v, w) /\ k \in Tests(k[1])
        BY <2>0, <2>1, LeadsAfter DEF Tests
      <4> QED BY <2>3, <4>1 DEF After
    <3> QED BY <2>1, <3>1 DEF Sent
  <2>5. /\ Continues(k, i) => spanTab[i].status = "unset"
        /\ ~Continues(k, i) /\ Nth(k, i) < Len(v.begun[k]) => spanTab[i].status \in Verdicts
        /\ ~Continues(k, i) /\ Nth(k, i) = Len(v.begun[k]) =>
             /\ v.st[k] = "off" => spanTab[i].status = v.last[k]
             /\ v.st[k] = "paused" => spanTab[i].status = "unset"
             /\ v.st[k] = "on" => spanTab[i].status =
                  IF v.pkg[k[1]] = "open" THEN "unset" ELSE "unfinished"
    BY <2>1, <2>2 DEF Seen, VerdictsSeen, VerdictsOf
  <2> DEFINE continued == \E j \in (i + 1)..lastSpan :
                            /\ Of(spanTab, j, <<spanTab[i].pkg, spanTab[i].test>>)
                            /\ RunOf(j) = RunOf(i)
  <2>6. continued <=> Continues(k, i)
    <3>1. ASSUME NEW j \in 1..lastSpan, Of(spanTab, j, k) PROVE RunOf(j) = Nth(k, j)
      <4>1. k = <<spanTab[j].pkg, spanTab[j].test>>
        BY <2>2, <3>1 DEF Of
      <4> QED BY <4>1 DEF RunOf, Nth, TestSpans
    <3>2. lastSpan \in Nat /\ i \in Nat
      BY <2>0, SpanTyped
    <3> QED BY <2>2, <3>1, <3>2 DEF Continues
  <2>7. Expected(i) = IF continued THEN {"unset"}
                      ELSE IF Nth(k, i) < Len(begun[k]) THEN {"pass", "fail", "skip"}
                      ELSE IF phase[k] \in {"new", "done"} THEN {verdict[k]}
                      ELSE IF phase[k] = "paused" THEN {"unset"}
                      ELSE {"unfinished"}
    BY <2>2 DEF Expected
  <2> HIDE DEF continued
  <2>8. Len(begun[k]) \in Nat /\ begun[k] # <<>>
    <3>1. PICK s \in Seq(Call) : s = begun[k]
      BY <2>0 DEF GoSound, GoTyped
    <3>2. Len(s) \in Nat /\ (s = <<>> => Len(s) = 0)
      BY LenProperties
    <3> QED BY <2>2, <2>4, <3>1, <3>2
  <2>9. CASE continued
    BY <2>5, <2>6, <2>7, <2>9
  <2>10. CASE ~continued /\ Nth(k, i) < Len(begun[k])
    BY <2>4, <2>5, <2>6, <2>7, <2>10 DEF Verdicts
  <2>11. CASE ~continued /\ ~(Nth(k, i) < Len(begun[k]))
    <3>1. Nth(k, i) = Len(v.begun[k])
      BY <2>2, <2>4, <2>8, <2>11
    <3>2. /\ v.st[k] = "off" => spanTab[i].status = v.last[k]
          /\ v.st[k] = "paused" => spanTab[i].status = "unset"
          /\ v.st[k] = "on" => spanTab[i].status = "unfinished"
      BY <2>3, <2>5, <2>6, <2>11, <3>1 DEF Verdicts
    <3>3. CASE phase[k] \in {"new", "done"}
      BY <2>4, <2>7, <2>8, <2>11, <3>2, <3>3 DEF StOf
    <3>4. CASE phase[k] = "paused"
      BY <2>4, <2>7, <2>11, <3>2, <3>4 DEF StOf
    <3>5. CASE phase[k] \notin {"new", "done", "paused"}
      BY <2>4, <2>7, <2>11, <3>2, <3>5 DEF StOf
    <3> QED BY <3>3, <3>4, <3>5
  <2> QED BY <2>9, <2>10, <2>11
<1> QED BY <1>1, TraceInvariant, PTL

\* In every session a package's span says "pass" only of a package in which
\* every test that began has its result and none failed, and "no tests to run"
\* of one that ran nothing (gotest.go:431-470).
THEOREM SessionPackages == Spec => []PackageVerdicts
<1>1. TraceInv => PackageVerdicts
  <2> SUFFICES ASSUME TraceInv, NEW i \in 1..lastSpan, spanTab[i].kind = "package",
                      spanTab[i].ends > 0, spanTab[i].status # "fail"
               PROVE  /\ spanTab[i].pkg \notin failed
                      /\ \A k \in Go!Of(spanTab[i].pkg) : phase[k] \in {"new", "done"}
                      /\ spanTab[i].status = "pass" <=>
                           \E k \in Go!Of(spanTab[i].pkg) : begun[k] # <<>>
    BY DEF PackageVerdicts
  <2>0. RunInv /\ GoSound /\ stream \in Seq(Event)
    BY DEF TraceInv, SessionInv, PipeOK
  <2>1. PICK v \in View, w \in View : Seen(v) /\ Sent(w) /\ Leads(v, stream, w)
    BY DEF TraceInv, InFlight, RunAt
  <2>2. PICK p \in Pkgs : p = spanTab[i].pkg /\ Go!Of(p) = Tests(p)
    BY <2>0, SpanTyped DEF Go!Of, Go!Keys, Keys, Tests
  <2>3. v.pkg[p] \in Verdicts
    BY <2>0, <2>1, <2>2, SettledOver
  <2>4. /\ w.pkg[p] = v.pkg[p]
        /\ \A k \in Tests(p) : v.begun[k] = begun[k] /\ w.st[k] = StOf(phase[k])
    <3>1. After(v, w)
      BY <2>0, <2>1, LeadsAfter
    <3> QED BY <2>1, <2>3, <3>1 DEF After, Sent, Tests
  <2>5. /\ v.pkg[p] = "fail" => spanTab[i].status = "fail"
        /\ v.pkg[p] = "skip" => spanTab[i].status = "skip"
        /\ v.pkg[p] = "pass" =>
             spanTab[i].status = IF \A k \in Tests(p) : v.begun[k] = <<>>
                                 THEN "no tests to run" ELSE "pass"
    BY <2>1, <2>2 DEF Seen, PackagesSeen
  <2>6. w.pkg[p] \in {"pass", "skip"}
    BY <2>3, <2>4, <2>5 DEF Verdicts
  <2>7. /\ p \notin failed /\ \A k \in Tests(p) : w.st[k] = "off"
        /\ w.pkg[p] = "skip" => \A k \in Tests(p) : begun[k] = <<>>
    BY <2>1, <2>6 DEF Sent
  <2>8. \A k \in Tests(p) : phase[k] \in {"new", "done"}
    BY <2>4, <2>7 DEF StOf
  <2>9. spanTab[i].status = "pass" <=> \E k \in Tests(p) : begun[k] # <<>>
    BY <2>4, <2>5, <2>6, <2>7
  <2> QED BY <2>2, <2>7, <2>8, <2>9
<1> QED BY <1>1, TraceInvariant, PTL

\* With at most three names on a path, and results printed as tests end, a
\* test's span is under the span of the run of the test that called t.Run for
\* it, or under its package's, in every session (gotest.go:305-309, 477-498).
THEOREM SessionCallers == ASSUME Plain PROVE Spec => []ParentIsCaller
<1>1. TraceInv => ParentIsCaller
  <2> SUFFICES ASSUME TraceInv, NEW i \in {j \in 1..lastSpan : spanTab[j].kind = "test"}
               PROVE  LET s == spanTab[i]
                          call == begun[<<s.pkg, s.test>>][RunOf(i)]
                          above == spanTab[s.parent]
                      IN  /\ s.parent # 0 /\ above.pkg = s.pkg
                          /\ IF call[1] = NoTest THEN above.kind = "package"
                             ELSE /\ above.kind = "test" /\ above.test = call[1]
                                  /\ RunOf(s.parent) = call[2]
    BY DEF ParentIsCaller
  <2>0. RunInv /\ GoSound /\ stream \in Seq(Event) /\ i \in 1..lastSpan
        /\ spanTab[i].kind = "test"
    BY DEF TraceInv, SessionInv, PipeOK
  <2>1. PICK v \in View, w \in View : /\ Seen(v) /\ CallersSeen(v) /\ Sent(w)
                                      /\ Leads(v, stream, w)
    BY DEF TraceInv, InFlight, RunAt
  <2>2. PICK k \in Keys : /\ k = <<spanTab[i].pkg, spanTab[i].test>> /\ Of(spanTab, i, k)
                          /\ RunOf(i) = Nth(k, i) /\ Nth(k, i) \in Nat /\ Nth(k, i) > 0
                          /\ Nth(k, i) <= Len(v.begun[k])
    BY <2>0, <2>1, SpanOfTest
  <2>3. begun[k][Nth(k, i)] = v.begun[k][Nth(k, i)]
    <3>1. After(v, w) /\ w.begun[k] = begun[k]
      BY <2>0, <2>1, LeadsAfter DEF Sent
    <3>2. Len(v.begun[k]) \in Nat
      BY <2>1, LenProperties DEF View
    <3>3. Nth(k, i) \in 1..Len(v.begun[k])
      BY <2>2, <3>2, SMTT(30)
    <3> QED BY <3>1, <3>3 DEF After
  <2> DEFINE call == v.begun[k][Nth(k, i)]
             o == spanTab[i].parent
  <2>4. /\ o # 0 /\ spanTab[o].pkg = k[1]
        /\ call[1] = NoTest => spanTab[o].kind = "package"
        /\ call[1] # NoTest => /\ spanTab[o].kind = "test" /\ spanTab[o].test = call[1]
                               /\ Nth(<<k[1], call[1]>>, o) = call[2]
    BY <2>0, <2>1, <2>2 DEF CallersSeen
  <2>5. call[1] # NoTest => RunOf(o) = Nth(<<k[1], call[1]>>, o)
    BY <2>4 DEF RunOf, Nth, TestSpans
  <2>6. spanTab[i].pkg = k[1] /\ begun[<<spanTab[i].pkg, spanTab[i].test>>][RunOf(i)] = call
    BY <2>2, <2>3
  <2> HIDE DEF call, o
  <2>7. /\ o # 0 /\ spanTab[o].pkg = spanTab[i].pkg
        /\ IF call[1] = NoTest THEN spanTab[o].kind = "package"
           ELSE /\ spanTab[o].kind = "test" /\ spanTab[o].test = call[1]
                /\ RunOf(o) = call[2]
    BY <2>4, <2>5, <2>6
  <2> QED BY <2>6, <2>7 DEF o
<1> QED BY <1>1, TraceInvariant, PTL

----------------------------------------------------------------------------
(* What a test is told.                                                    *)

Own(i, k) == i > 0 => i \in 1..lastSpan /\ Of(spanTab, i, k)

\* What is registered under a test's name, on its way to it or told to it is a
\* span of that test; and what a run was told, of that run or an earlier one.
Told ==
    /\ DOMAIN got = Calls
    /\ \A k \in Keys : Own(registered[k], k)
    /\ \A c \in Calls : /\ want[c] = c[1]
                        /\ Own(buf[c], c[1]) /\ Own(res[c], c[1]) /\ Own(got[c], c[1])
                        /\ got[c] > 0 => Nth(c[1], got[c]) <= c[2]

LEMMA OwnKept ==
    ASSUME ShapesKept, lastSpan \in Nat, lastSpan' \in Nat, lastSpan <= lastSpan',
           NEW i, NEW k, Own(i, k)
    PROVE  Own(i, k)'
BY DEF Own, ShapesKept, SameShape, Of

\* A step that registers and answers nothing.
LEMMA ToldKept ==
    ASSUME RunInv, Told, ShapesKept, lastSpan' \in Nat, lastSpan <= lastSpan',
           UNCHANGED <<want, res, got>>, \A k \in Keys : Own(registered[k], k)',
           \A c \in Calls : Own(buf[c], c[1])'
    PROVE  Told'
<1>0. RunTypeOK /\ lastSpan \in Nat
  BY DEF RunInv, RunTypeOK
<1>1. ASSUME NEW c \in Calls
      PROVE  /\ want'[c] = c[1] /\ Own(res[c], c[1])' /\ Own(got[c], c[1])'
             /\ (got[c] > 0 => Nth(c[1], got[c]) <= c[2])'
  <2>1. PICK i, j : i = res[c] /\ j = got[c]
    OBVIOUS
  <2>2. Own(i, c[1]) /\ Own(j, c[1]) /\ (j > 0 => Nth(c[1], j) <= c[2])
    BY <2>1 DEF Told
  <2>3. Own(i, c[1])' /\ Own(j, c[1])'
    BY <1>0, <2>2, OwnKept
  <2>4. j > 0 => Nth(c[1], j)' = Nth(c[1], j)
    <3> SUFFICES ASSUME j > 0 PROVE Nth(c[1], j)' = Nth(c[1], j)
      OBVIOUS
    <3>1. j \in 0..lastSpan
      BY <1>0, <2>2 DEF Own
    <3> QED BY <1>0, <3>1, NthKept DEF ShapesKept
  <2>5. res'[c] = i /\ got'[c] = j /\ want'[c] = c[1]
    BY <2>1 DEF Told
  <2>6. Own(res[c], c[1])' /\ Own(got[c], c[1])'
    BY <2>3, <2>5 DEF Own
  <2>7. Nth(c[1], got[c])' = Nth(c[1], j)'
    BY <2>5 DEF Nth, TestSpans
  <2> QED BY <2>2, <2>4, <2>5, <2>6, <2>7
<1>2. DOMAIN got' = Calls
  BY DEF Told
<1> QED BY <1>1, <1>2 DEF Told

LEMMA ConsumeTold ==
    ASSUME SessionInv, Registry!RegInv, Told, Consume
    PROVE  Told'
<1>0. RunInv /\ PipeOK
  BY DEF SessionInv
<1>a. PICK ev : ev = Head(stream)
  OBVIOUS
<1>1. Handle(ev) /\ ev.pkg \in Pkgs /\ ev.test \in Names \cup {NoTest}
  BY <1>0, <1>a, ReadPipe DEF Consume
<1>2. /\ ShapesKept /\ lastSpan \in Nat /\ lastSpan' \in Nat /\ lastSpan <= lastSpan'
      /\ \A k \in Keys : registered'[k] # registered[k] =>
           registered'[k] = lastSpan' /\ lastSpan' > 0 /\ Of(spanTab', lastSpan', k)
  BY <1>0, <1>1, HandleShapes DEF RunInv, RunTypeOK
<1>3. ASSUME NEW k \in Keys PROVE Own(registered[k], k)'
  <2>1. CASE registered'[k] # registered[k]
    <3>1. /\ registered'[k] = lastSpan' /\ lastSpan' > 0 /\ lastSpan' \in Nat
          /\ Of(spanTab', lastSpan', k)
      BY <1>2, <2>1
    <3>2. lastSpan' \in 1..lastSpan'
      BY <3>1
    <3> QED BY <3>1, <3>2 DEF Own
  <2>2. CASE registered'[k] = registered[k]
    <3>1. PICK i : i = registered[k]
      OBVIOUS
    <3>2. Own(i, k)
      BY <3>1 DEF Told
    <3>3. Own(i, k)'
      BY <1>2, <3>2, OwnKept
    <3> QED BY <2>2, <3>1, <3>3 DEF Own
  <2> QED BY <2>1, <2>2
<1>4. UNCHANGED <<want, res, got>>
  BY DEF Consume, Reg!Register, regVars
<1>5. ASSUME NEW c \in Calls PROVE Own(buf[c], c[1])'
  <2>1. buf'[c] = buf[c] \/ (c[1] \in Keys /\ buf'[c] = registered'[c[1]])
    <3>1. CASE UNCHANGED buf
      BY <3>1
    <3>2. ASSUME NEW k \in Keys, Reg!Register(k, registered'[k])
          PROVE  buf'[c] = buf[c] \/ (c[1] \in Keys /\ buf'[c] = registered'[c[1]])
      <4>1. buf'[c] = IF c \in waiters[k] THEN registered'[k] ELSE buf[c]
        BY <3>2 DEF Reg!Register
      <4>2. c \in waiters[k] => want[c] = k
        BY DEF Registry!RegInv, Registry!ParkedUnderOwnKey
      <4>3. want[c] = c[1]
        BY DEF Told
      <4> QED BY <4>1, <4>2, <4>3
    <3> QED BY <3>1, <3>2 DEF Consume, regVars
  <2>2. CASE buf'[c] = buf[c]
    <3>1. PICK i : i = buf[c]
      OBVIOUS
    <3>2. Own(i, c[1])
      BY <3>1 DEF Told
    <3>3. Own(i, c[1])'
      BY <1>2, <3>2, OwnKept
    <3> QED BY <2>2, <3>1, <3>3 DEF Own
  <2>3. CASE c[1] \in Keys /\ buf'[c] = registered'[c[1]]
    <3>1. PICK k \in Keys : k = c[1]
      BY <2>3
    <3>2. Own(registered[k], k)'
      BY <1>3
    <3> QED BY <2>3, <3>1, <3>2 DEF Own
  <2> QED BY <2>1, <2>2, <2>3
<1> QED BY <1>0, <1>2, <1>3, <1>4, <1>5, ToldKept

\* A run of a test has begun before Run starts a span for it.
LEMMA RunsBegun ==
    ASSUME TraceInv, NEW k \in Keys, NEW i \in 1..lastSpan
    PROVE  Nth(k, i) \in Nat /\ Nth(k, i) <= Len(begun[k]) /\ Len(begun[k]) \in Nat
<1>1. RunInv /\ stream \in Seq(Event) /\ begun[k] \in Seq(Call)
  BY DEF TraceInv, SessionInv, PipeOK, GoSound, GoTyped
<1>2. PICK v \in View, w \in View : Seen(v) /\ Sent(w) /\ Leads(v, stream, w)
  BY DEF TraceInv, InFlight, RunAt
<1>3. Nth(k, i) \in Nat /\ Nth(k, i) <= Len(v.begun[k])
  BY <1>1, <1>2, NthInRuns DEF Seen
<1>4. Len(v.begun[k]) <= Len(begun[k])
  <2>1. After(v, w) /\ w.begun[k] = begun[k]
    BY <1>1, <1>2, LeadsAfter DEF Sent
  <2> QED BY <2>1 DEF After
<1>5. Len(v.begun[k]) \in Nat /\ Len(begun[k]) \in Nat
  <2>1. v.begun[k] \in Seq(Call)
    BY DEF View
  <2> QED BY <1>1, <2>1, LenProperties
<1> QED BY <1>3, <1>4, <1>5

\* The steps of a test's request leave Run alone.
LEMMA AsideTold ==
    ASSUME RunInv, Told, UNCHANGED <<registered, lastSpan, spanTab, want>>, DOMAIN got' = Calls,
           \A c \in Calls : /\ Own(buf[c], c[1])' /\ Own(res[c], c[1])'
                            /\ \/ got'[c] = got[c] \/ got'[c] = 0
                               \/ Own(got'[c], c[1]) /\ (got'[c] > 0 => Nth(c[1], got'[c]) <= c[2])
    PROVE  Told'
<1>1. ASSUME NEW c \in Calls
      PROVE  Own(got[c], c[1])' /\ (got[c] > 0 => Nth(c[1], got[c]) <= c[2])'
  <2>1. Own(got'[c], c[1]) /\ (got'[c] > 0 => Nth(c[1], got'[c]) <= c[2])
    <3>1. CASE got'[c] = got[c]
      BY <3>1 DEF Told
    <3>2. CASE got'[c] = 0
      BY <3>2 DEF Own
    <3> QED BY <3>1, <3>2
  <2>2. PICK i : i = got'[c]
    OBVIOUS
  <2>3. Own(i, c[1])'
    BY <2>1, <2>2 DEF Own
  <2>4. Nth(c[1], i)' = Nth(c[1], i) /\ Nth(c[1], got[c])' = Nth(c[1], i)'
    BY <2>2 DEF Nth, TestSpans
  <2>5. i > 0 => Nth(c[1], i) <= c[2]
    BY <2>1, <2>2
  <2> QED BY <2>2, <2>3, <2>4, <2>5 DEF Own
<1>2. \A k \in Keys : Own(registered[k], k)'
  BY DEF Told, Own
<1>3. \A c \in Calls : want'[c] = c[1]
  BY DEF Told
<1> QED BY <1>1, <1>2, <1>3 DEF Told

\* The handler takes from the registry what is under its key or in its channel.
LEMMA ServeTold ==
    ASSUME RunInv, Registry!RegInv, Told, NEW c \in Calls, Serve(c) \/ ServerTimeout(c)
    PROVE  Told'
<1>1. UNCHANGED <<runVars, got, want>>
  BY DEF Serve, ServerTimeout, Reg!WaitFor, Reg!WaitForKnown, Reg!WaitForClosed, Reg!Park,
         Reg!Select, Reg!Receive, Reg!ReceiveClosed, Reg!CtxDone, Reg!Expire
<1>2. /\ res \in [Calls -> (Nat \ {0}) \cup {0}] /\ buf \in [Calls -> (Nat \ {0}) \cup {0}]
      /\ want[c] = c[1] /\ want[c] \in Keys
  BY DEF Registry!RegInv, Registry!RegTypeOK, Registry!MaybeContext, Told
<1>3. /\ \A j \in Calls : j # c => res'[j] = res[j] /\ buf'[j] = buf[j]
      /\ res'[c] \in {res[c], buf[c], registered[c[1]], 0} /\ buf'[c] \in {buf[c], 0}
  BY <1>2 DEF Serve, ServerTimeout, Reg!WaitFor, Reg!WaitForKnown, Reg!WaitForClosed, Reg!Park,
         Reg!Select, Reg!Receive, Reg!ReceiveClosed, Reg!CtxDone, Reg!Expire, Reg!Return
<1>4. ASSUME NEW j \in Calls PROVE Own(buf[j], j[1])' /\ Own(res[j], j[1])'
  <2>1. Own(buf'[j], j[1]) /\ Own(res'[j], j[1])
    <3>1. CASE j # c
      BY <1>3, <3>1 DEF Told
    <3>2. CASE j = c
      <4>1. Own(0, c[1])
        BY DEF Own
      <4>2. Own(res[c], c[1]) /\ Own(buf[c], c[1]) /\ Own(registered[c[1]], c[1])
        BY <1>2 DEF Told
      <4> QED BY <1>3, <3>2, <4>1, <4>2
    <3> QED BY <3>1, <3>2
  <2>2. lastSpan' = lastSpan /\ spanTab' = spanTab
    BY <1>1 DEF runVars
  <2> QED BY <2>1, <2>2 DEF Own
<1>5. UNCHANGED <<registered, lastSpan, spanTab>> /\ DOMAIN got' = Calls
  BY <1>1 DEF runVars, Told
<1> QED BY <1>1, <1>4, <1>5, AsideTold

LEMMA ClientTold ==
    ASSUME TraceInv, Registry!RegInv, Told, NEW k \in Keys,
           Ask(k) \/ Answered(k) \/ ClientTimeout(k)
    PROVE  Told'
<1>0. RunInv
  BY DEF TraceInv, SessionInv
<1>1. UNCHANGED <<runVars, want, buf, res>>
  BY DEF Ask, Answered, ClientTimeout, regVars
<1>2. UNCHANGED <<registered, lastSpan, spanTab>>
  BY <1>1 DEF runVars
<1>3. \/ got' = got \/ got' = [got EXCEPT ![LastRun(k)] = 0]
      \/ got' = [got EXCEPT ![LastRun(k)] = res[LastRun(k)]]
  BY DEF Ask, Answered, ClientTimeout
<1>4. DOMAIN got' = Calls
  BY <1>3 DEF Told
<1>5. ASSUME NEW c \in Calls PROVE Own(buf[c], c[1])' /\ Own(res[c], c[1])'
  BY <1>1, <1>2 DEF Told, Own
<1>6. ASSUME NEW c \in Calls, got'[c] # got[c], got'[c] # 0
      PROVE  Own(got'[c], c[1]) /\ (got'[c] > 0 => Nth(c[1], got'[c]) <= c[2])
  <2>1. c = LastRun(k) /\ got'[c] = res[c]
    BY <1>3, <1>6 DEF Told
  <2>2. PICK i : i = res[c]
    OBVIOUS
  <2>3. c[1] = k /\ c[2] = Len(begun[k]) /\ Own(i, k)
    BY <2>1, <2>2 DEF LastRun, Told
  <2>4. i > 0 => Nth(k, i) <= Len(begun[k])
    BY <2>3, RunsBegun DEF Own
  <2> QED BY <2>1, <2>2, <2>3, <2>4
<1> QED BY <1>0, <1>1, <1>2, <1>4, <1>5, <1>6, AsideTold

LEMMA ToldStep == TraceInv /\ Registry!RegInv /\ Told /\ [Next]_vars => Told'
<1> SUFFICES ASSUME TraceInv, Registry!RegInv, Told, [Next]_vars PROVE Told'
  OBVIOUS
<1>0. SessionInv /\ RunInv /\ lastSpan \in Nat /\ spanTab \in [1..lastSpan -> Span]
  BY DEF TraceInv, SessionInv, RunInv, RunTypeOK
<1>1. ASSUME UNCHANGED <<registered, lastSpan, want, res, buf, got>>, ShapesKept PROVE Told'
  <2>1. \A k \in Keys : Own(registered[k], k)'
    <3> TAKE k \in Keys
    <3>1. PICK i : i = registered[k]
      OBVIOUS
    <3>2. Own(i, k)
      BY <3>1 DEF Told
    <3>3. Own(i, k)'
      BY <1>0, <1>1, <3>2, OwnKept
    <3> QED BY <1>1, <3>1, <3>3 DEF Own
  <2>2. \A c \in Calls : Own(buf[c], c[1])'
    <3> TAKE c \in Calls
    <3>1. PICK i : i = buf[c]
      OBVIOUS
    <3>2. Own(i, c[1])
      BY <3>1 DEF Told
    <3>3. Own(i, c[1])'
      BY <1>0, <1>1, <3>2, OwnKept
    <3> QED BY <1>1, <3>1, <3>3 DEF Own
  <2>3. lastSpan' \in Nat /\ lastSpan <= lastSpan'
    BY <1>0, <1>1
  <2> QED BY <1>0, <1>1, <2>1, <2>2, <2>3, ToldKept
<1>2. ASSUME UNCHANGED <<runVars, want, res, buf, got>> PROVE Told'
  BY <1>1, <1>2 DEF runVars, ShapesKept, SameShape
<1>3. CASE GoStep
  BY <1>2, <1>3 DEF GoStep, regVars
<1>4. CASE Consume
  BY <1>0, <1>4, ConsumeTold
<1>5. CASE RunEnds
  <2>1. PICK S : spanTab' = CloseStreams(spanTab, S)
    BY <1>5 DEF RunEnds, Return
  <2>2. \A i \in 1..lastSpan : LET s == CloseStreams(spanTab, S)[i] IN
          /\ s.kind = spanTab[i].kind /\ s.pkg = spanTab[i].pkg /\ s.test = spanTab[i].test
          /\ s.parent = spanTab[i].parent
    BY <1>0, CloseKeeps
  <2>3. ShapesKept
    BY <2>1, <2>2 DEF ShapesKept, SameShape
  <2>4. UNCHANGED <<registered, lastSpan, want, res, buf, got>>
    BY <1>5 DEF RunEnds, Return, regVars
  <2> QED BY <1>1, <2>3, <2>4
<1>6. CASE CloseRegistry
  BY <1>2, <1>6 DEF CloseRegistry, Reg!Close
<1>7. CASE UNCHANGED vars
  BY <1>2, <1>7 DEF vars, regVars
<1> QED BY <1>0, <1>3, <1>4, <1>5, <1>6, <1>7, ServeTold, ClientTold DEF Next

LEMMA ToldInvariant == Spec => []Told
<1>1. Init => Told
  <2> SUFFICES ASSUME Init PROVE Told
    OBVIOUS
  <2>1. /\ \A k \in Keys : registered[k] = 0
        /\ \A c \in Calls : want[c] = c[1] /\ buf[c] = 0 /\ res[c] = 0 /\ got[c] = -1
        /\ DOMAIN got = Calls
    BY DEF Init, RunInit, Reg!RegInit, NotAsked
  <2> QED BY <2>1 DEF Told, Own
<1> QED BY <1>1, ToldStep, TraceInvariant, RegistryInvariant, PTL DEF Spec

\* In every session a test that is told a span is told one of its own test, of
\* the run that asks or, with -count, of one before it, however the requests, the
\* deadlines and Run interleave (registry.go:25-59, main.go:226-250).
THEOREM SessionOwnTest == Spec => []AdoptsOwnTest
<1>1. TraceInv /\ Told => AdoptsOwnTest
  <2> SUFFICES ASSUME TraceInv, Told, NEW c \in Calls, NEW i, i = got[c], i > 0
               PROVE  /\ Of(spanTab, i, c[1])
                      /\ RunOf(IF spanTab[i].kind = "test" THEN i ELSE spanTab[i].parent)
                           \in 1..c[2]
    BY DEF AdoptsOwnTest
  <2>0. RunInv /\ RunTypeOK /\ c[2] \in Nat
    BY DEF TraceInv, SessionInv, RunInv, Calls
  <2>1. i \in 1..lastSpan /\ Of(spanTab, i, c[1]) /\ Nth(c[1], i) <= c[2]
    BY DEF Told, Own
  <2>2. PICK k \in Keys : k = c[1]
    BY DEF Calls
  <2>3. ASSUME NEW j \in 1..lastSpan, j <= i, Of(spanTab, j, k), spanTab[j].kind = "test"
        PROVE  RunOf(j) \in 1..c[2]
    <3>1. RunOf(j) = Nth(k, j)
      <4>1. <<spanTab[j].pkg, spanTab[j].test>> = k
        BY <2>3 DEF Of, Keys
      <4> QED BY <4>1 DEF RunOf, Nth, TestSpans
    <3>2. i \in 0..lastSpan /\ j \in 0..lastSpan
      BY <2>0, <2>1 DEF RunTypeOK
    <3>3. Nth(k, j) \in Nat /\ Nth(k, i) \in Nat /\ Nth(k, j) > 0 /\ Nth(k, j) <= Nth(k, i)
      BY <2>0, <2>3, <3>2, NthBasics
    <3> QED BY <2>0, <2>1, <2>2, <3>1, <3>3
  <2>4. CASE spanTab[i].kind = "test"
    BY <2>0, <2>1, <2>2, <2>3, <2>4 DEF RunTypeOK
  <2>5. CASE spanTab[i].kind # "test"
    <3>1. spanTab[i].kind = "continue"
      <4>1. k[2] # NoTest
        BY RunAssumption DEF Keys
      <4>2. spanTab[i].test # NoTest
        BY <2>1, <2>2, <4>1 DEF Of
      <4>3. PICK v \in View : Seen(v)
        BY DEF TraceInv, InFlight, RunAt
      <4> QED BY <2>0, <2>1, <2>5, <4>2, <4>3, SpanTyped DEF Seen, PackagesSeen, Kinds
    <3> DEFINE o == spanTab[i].parent
    <3>2. o \in 1..(i - 1) /\ spanTab[o].kind = "test" /\ Of(spanTab, o, k)
      BY <2>0, <2>1, <2>2, <3>1 DEF RunInv, ParentsSound, UnderRightSpan, Of
    <3>3. i \in Nat /\ lastSpan \in Nat /\ i <= lastSpan
      BY <2>0, <2>1 DEF RunTypeOK
    <3> HIDE DEF o
    <3>4. o \in 1..lastSpan /\ o <= i
      BY <3>2, <3>3
    <3>5. RunOf(o) \in 1..c[2]
      BY <2>3, <3>2, <3>4
    <3> QED BY <2>1, <2>5, <3>5 DEF o
  <2> QED BY <2>4, <2>5
<1> QED BY <1>1, TraceInvariant, ToldInvariant, PTL

----------------------------------------------------------------------------
(* Between what Run has heard of a test and what go test has said is the   *)
(* pipe.                                                                   *)

Listens(k, h, v, s, w) == /\ h \in [0..Len(s) -> Voice] /\ h[0] = v /\ h[Len(s)] = w
                          /\ \A n \in 1..Len(s) : Hear(k, h[n - 1], s[n], h[n])

\* The events of s lead from voice v of k to w.
Tells(k, v, s, w) == \E h : Listens(k, h, v, s, w)

LEMMA TellsNone == ASSUME NEW k, NEW v \in Voice PROVE Tells(k, v, <<>>, v)
<1> DEFINE h == [n \in {0} |-> v]
<1>1. Len(<<>>) = 0 /\ 0..Len(<<>>) = {0} /\ 1..Len(<<>>) = {}
  OBVIOUS
<1>2. Listens(k, h, v, <<>>, v)
  BY <1>1 DEF Listens
<1> QED BY <1>2 DEF Tells

LEMMA TellsAppend ==
    ASSUME NEW k, NEW v \in Voice, NEW w \in Voice, NEW s \in Seq(Event), Tells(k, v, s, w),
           NEW ev \in Event, NEW x \in Voice, Hear(k, w, ev, x)
    PROVE  Tells(k, v, Append(s, ev), x)
<1> DEFINE t == Append(s, ev)
<1>1. PICK h : Listens(k, h, v, s, w)
  BY DEF Tells
<1>2. /\ t \in Seq(Event) /\ Len(s) \in Nat /\ Len(t) = Len(s) + 1 /\ t[Len(s) + 1] = ev
      /\ \A i \in 1..Len(s) : t[i] = s[i]
  BY AppendLast, LenProperties
<1> HIDE DEF t
<1> DEFINE g == [n \in 0..Len(t) |-> IF n = Len(t) THEN x ELSE h[n]]
<1>3. /\ h \in [0..Len(s) -> Voice] /\ h[0] = v /\ h[Len(s)] = w
      /\ \A n \in 1..Len(s) : Hear(k, h[n - 1], s[n], h[n])
  BY <1>1 DEF Listens
<1>4. g \in [0..Len(t) -> Voice] /\ g[0] = v /\ g[Len(t)] = x
  BY <1>2, <1>3
<1>5. ASSUME NEW n \in 1..Len(t) PROVE Hear(k, g[n - 1], t[n], g[n])
  <2>1. CASE n = Len(t)
    <3>1. g[n] = x /\ g[n - 1] = w /\ t[n] = ev
      BY <1>2, <1>3, <2>1
    <3> HIDE DEF g
    <3> QED BY <3>1
  <2>2. CASE n # Len(t)
    <3>1. n \in 1..Len(s) /\ n - 1 \in 0..Len(s) /\ n - 1 # Len(t)
      BY <1>2, <2>2
    <3>2. g[n] = h[n] /\ g[n - 1] = h[n - 1] /\ t[n] = s[n]
      BY <1>2, <2>2, <3>1
    <3> HIDE DEF g
    <3> QED BY <1>3, <3>1, <3>2
  <2> QED BY <2>1, <2>2
<1> HIDE DEF g
<1>6. Listens(k, g, v, t, x)
  BY <1>4, <1>5 DEF Listens
<1> QED BY <1>6 DEF Tells, t

LEMMA TellsTail ==
    ASSUME NEW k, NEW v \in Voice, NEW w \in Voice, NEW s \in Seq(Event), s # <<>>,
           Tells(k, v, s, w)
    PROVE  \E x \in Voice : Hear(k, v, Head(s), x) /\ Tells(k, x, Tail(s), w)
<1> DEFINE t == Tail(s)
<1>1. PICK h : Listens(k, h, v, s, w)
  BY DEF Tells
<1>2. /\ t \in Seq(Event) /\ Len(s) \in Nat /\ Len(s) > 0 /\ Len(t) = Len(s) - 1
      /\ Head(s) = s[1]
      /\ \A i \in 1..Len(t) : t[i] = s[i + 1]
  BY HeadTailProperties, LenProperties, EmptySeq
<1> HIDE DEF t
<1> DEFINE g == [n \in 0..Len(t) |-> h[n + 1]]
<1>3. /\ h \in [0..Len(s) -> Voice] /\ h[0] = v /\ h[Len(s)] = w
      /\ \A n \in 1..Len(s) : Hear(k, h[n - 1], s[n], h[n])
  BY <1>1 DEF Listens
<1>4. g \in [0..Len(t) -> Voice] /\ g[0] = h[1] /\ g[Len(t)] = w
  BY <1>2, <1>3
<1>5. ASSUME NEW n \in 1..Len(t) PROVE Hear(k, g[n - 1], t[n], g[n])
  <2>1. n + 1 \in 1..Len(s) /\ g[n] = h[n + 1] /\ g[n - 1] = h[n] /\ t[n] = s[n + 1]
        /\ (n + 1) - 1 = n
    BY <1>2
  <2> HIDE DEF g
  <2> QED BY <1>3, <2>1
<1>6. PICK x \in Voice : x = h[1]
  BY <1>2, <1>3
<1>7. Hear(k, v, Head(s), x)
  <2>1. 1 \in 1..Len(s) /\ 1 - 1 = 0
    BY <1>2
  <2> QED BY <1>2, <1>3, <1>6, <2>1
<1> HIDE DEF g
<1>8. Listens(k, g, x, t, w)
  BY <1>4, <1>5, <1>6 DEF Listens
<1> QED BY <1>7, <1>8 DEF Tells, t

\* After its package's result nothing is said of a test.
LEMMA TellsOver ==
    ASSUME NEW k, NEW v \in Voice, v.over, NEW s \in Seq(Event), NEW w, Tells(k, v, s, w)
    PROVE  w = v
<1>1. PICK h : Listens(k, h, v, s, w)
  BY DEF Tells
<1>2. /\ h \in [0..Len(s) -> Voice] /\ h[0] = v /\ h[Len(s)] = w /\ Len(s) \in Nat
      /\ \A n \in 1..Len(s) : Hear(k, h[n - 1], s[n], h[n])
  BY <1>1, LenProperties DEF Listens
<1> DEFINE N == {n \in Nat : n <= Len(s) => h[n] = v}
<1>3. 0 \in N
  BY <1>2
<1>4. ASSUME NEW n \in N PROVE n + 1 \in N
  <2> DEFINE m == n + 1
  <2> SUFFICES ASSUME m <= Len(s) PROVE h[m] = v
    OBVIOUS
  <2>1. m \in 1..Len(s) /\ m - 1 = n /\ n <= Len(s)
    BY <1>2
  <2>2. Hear(k, h[m - 1], s[m], h[m])
    BY <1>2, <2>1
  <2>3. h[m - 1] = v
    BY <2>1
  <2> HIDE DEF N, m
  <2> QED BY <2>2, <2>3 DEF Hear
<1>5. N = Nat
  <2> HIDE DEF N
  <2>1. N \in SUBSET Nat
    BY DEF N
  <2> QED BY <1>3, <1>4, <2>1, Induct
<1> QED BY <1>2, <1>5
----------------------------------------------------------------------------
(* What go test has said of a test.                                        *)

IsOn(k) == phase[k] \notin {"new", "done"} /\ root[k[1]] # "over"

Spoken(k, w) == /\ w.on <=> IsOn(k)
                /\ w.over <=> root[k[1]] = "over"
                /\ w.said = said[k] /\ w.owed = owed[k]
                /\ Calm(w) /\ (root[k[1]] \notin {"dead", "over"} => w.pan = 0)

\* Output is attributed to a test that has begun and has no result.
GoSays == /\ said \in [Keys -> Text] /\ owed \in [Keys -> Text]
          /\ \A k \in Keys : speaker[k[1]] = k[2] => phase[k] \notin {"new", "done"}

\* The step sends what leads to what is now said of k.
Speaks(k, w) ==
    \E x \in Voice : /\ Spoken(k, x)'
                     /\ \A v \in Voice : Tells(k, v, stream, w) => Tells(k, v, stream', x)

\* Nothing is said of k.
Same(k) == /\ phase'[k] \in {"new", "done"} <=> phase[k] \in {"new", "done"}
           /\ root'[k[1]] = "over" <=> root[k[1]] = "over"
           /\ root'[k[1]] \notin {"dead", "over"} => root[k[1]] \notin {"dead", "over"}
           /\ said'[k] = said[k] /\ owed'[k] = owed[k]

LEMMA SameSpoken == ASSUME NEW k, NEW w, Spoken(k, w), Same(k) PROVE Spoken(k, w)'
BY DEF Spoken, Same, IsOn

LEMMA SpeaksQuiet ==
    ASSUME NEW k, NEW w \in Voice, Spoken(k, w), Same(k), UNCHANGED stream
    PROVE  Speaks(k, w)
<1>1. Spoken(k, w)'
  BY SameSpoken
<1> QED BY <1>1 DEF Speaks

LEMMA SpeaksOne ==
    ASSUME PipeOK, NEW k, NEW w \in Voice, NEW ev \in Event, stream' = Append(stream, ev),
           NEW x \in Voice, Hear(k, w, ev, x), Spoken(k, x)'
    PROVE  Speaks(k, w)
<1>1. PICK s \in Seq(Event) : s = stream
  BY DEF PipeOK
<1>2. ASSUME NEW v \in Voice, Tells(k, v, s, w) PROVE Tells(k, v, Append(s, ev), x)
  BY <1>2, TellsAppend
<1> QED BY <1>1, <1>2 DEF Speaks

LEMMA SpeaksAside ==
    ASSUME PipeOK, NEW k, NEW w \in Voice, Spoken(k, w), Same(k), NEW ev \in Event,
           stream' = Append(stream, ev), Hear(k, w, ev, w)
    PROVE  Speaks(k, w)
BY SameSpoken, SpeaksOne

LEMMA VoiceIs ==
    ASSUME NEW w \in Voice
    PROVE  /\ w.on \in BOOLEAN /\ w.over \in BOOLEAN /\ w.said \in Text /\ w.owed \in Text
           /\ w.pan \in 0..Len(Panic) /\ w.who \in Names \cup {NoTest} /\ w.kept \in Text
           /\ Len(Panic) \in Nat
BY SessionAssumption, LenProperties DEF Voice

LEMMA VoiceLike ==
    ASSUME NEW w \in Voice, NEW on \in BOOLEAN, NEW over \in BOOLEAN, NEW a \in Text,
           NEW b \in Text
    PROVE  \E x \in Voice : /\ x.on = on /\ x.over = over /\ x.said = a /\ x.owed = b
                            /\ x.pan = w.pan /\ x.who = w.who /\ x.kept = w.kept
<1> DEFINE x == [on |-> on, over |-> over, said |-> a, owed |-> b, pan |-> w.pan,
                 who |-> w.who, kept |-> w.kept]
<1>1. x \in Voice
  BY VoiceIs DEF Voice
<1> QED BY <1>1

\* The steps of the tests.
LEMMA MoveSpeaks ==
    ASSUME PipeOK, GoSound, NEW k \in Keys, NEW w \in Voice, Spoken(k, w), NEW j \in Keys,
           Go!Pause(j) \/ Go!Cont(j) \/ Go!BodyReturn(j)
             \/ \E v \in {"pass", "fail", "skip"} : Go!Finish(j, v)
    PROVE  Speaks(k, w)
<1>1. \E to \in {"paused", "running", "returned", "finished"} : phase' = [phase EXCEPT ![j] = to]
  BY DEF Go!Pause, Go!Cont, Go!BodyReturn, Go!Finish
<1>2. /\ phase[j] \notin {"new", "done"} /\ UNCHANGED <<root, said, owed>>
  BY DEF Go!Pause, Go!Cont, Go!BodyReturn, Go!Finish, Go!Free
<1>3. Same(k)
  BY <1>1, <1>2 DEF Same, GoSound, GoTyped
<1>4. CASE Go!BodyReturn(j) \/ \E v \in {"pass", "fail", "skip"} : Go!Finish(j, v)
  <2>1. UNCHANGED stream
    BY <1>4 DEF Go!BodyReturn, Go!Finish
  <2> QED BY <1>3, <2>1, SpeaksQuiet
<1>5. CASE Go!Pause(j) \/ Go!Cont(j)
  <2>1. PICK action \in {"pause", "cont"} : Go!Emit(action, j[1], j[2], <<>>)
    BY <1>5 DEF Go!Pause, Go!Cont
  <2>2. /\ action \in Actions /\ j[1] \in Pkgs /\ j[2] \in Names \cup {NoTest} /\ j[2] # NoTest
        /\ root[j[1]] # "over"
    BY <1>5, RunAssumption DEF Actions, Keys, Go!Pause, Go!Cont, Go!MayName
  <2>3. PICK ev \in Event : /\ stream' = Append(stream, ev)
                            /\ ev.action = action /\ ev.pkg = j[1] /\ ev.test = j[2]
    <3>1. PICK p \in Pkgs, t \in Names \cup {NoTest}, a \in Actions :
            p = j[1] /\ t = j[2] /\ a = action
      BY <2>2
    <3> QED BY <2>1, <3>1, EmitIs
  <2>4. Hear(k, w, ev, w)
    BY <2>1, <2>2, <2>3 DEF Hear, HearAside, Spoken
  <2> QED BY <1>3, <2>3, <2>4, SpeaksAside
<1> QED BY <1>4, <1>5
----------------------------------------------------------------------------
\* An event of another test.
LEMMA OthersSpeak ==
    ASSUME PipeOK, NEW k \in Keys, NEW w \in Voice, Spoken(k, w), Same(k), NEW j \in Keys,
           j # k, root[j[1]] # "over", NEW ev \in Event, stream' = Append(stream, ev),
           ev.pkg = j[1], ev.test = j[2], ev.action \in {"run", "pass", "fail", "skip"}
    PROVE  Speaks(k, w)
<1>1. j = <<j[1], j[2]>> /\ k = <<k[1], k[2]>> /\ j[2] # NoTest
  BY RunAssumption DEF Keys
<1>2. Hear(k, w, ev, w)
  <2>1. CASE j[1] # k[1]
    BY <2>1 DEF Hear
  <2>2. CASE j[1] = k[1]
    <3>1. j[2] # k[2]
      BY <1>1, <2>2
    <3> QED BY <1>1, <2>2, <3>1 DEF Hear, HearAside, Spoken
  <2> QED BY <2>1, <2>2
<1> QED BY <1>2, SpeaksAside

LEMMA BeginSpeaks ==
    ASSUME PipeOK, GoSound, GoSays, NEW k \in Keys, NEW w \in Voice, Spoken(k, w),
           NEW j \in Keys, NEW c, Go!Begin(j, c)
    PROVE  Speaks(k, w)
<1>1. /\ phase' = [phase EXCEPT ![j] = "running"] /\ said' = [said EXCEPT ![j] = <<>>]
      /\ UNCHANGED <<root, owed>> /\ Go!Emit("run", j[1], j[2], <<>>)
      /\ root[j[1]] \in {"running", "returned"}
  BY DEF Go!Begin, Go!MayName
<1>2. "run" \in Actions /\ j[1] \in Pkgs /\ j[2] \in Names \cup {NoTest}
  BY DEF Actions, Keys
<1>3. PICK ev \in Event : /\ stream' = Append(stream, ev)
                          /\ ev.action = "run" /\ ev.pkg = j[1] /\ ev.test = j[2]
  <2>1. PICK p \in Pkgs, t \in Names \cup {NoTest} : p = j[1] /\ t = j[2]
    BY <1>2
  <2> QED BY <1>1, <1>2, <2>1, EmitIs
<1>4. CASE j # k
  <2>1. Same(k)
    BY <1>1, <1>4 DEF Same, GoSound, GoTyped, GoSays
  <2> QED BY <1>1, <1>3, <1>4, <2>1, OthersSpeak
<1>5. CASE j = k
  <2>0. PICK on \in BOOLEAN, over \in BOOLEAN, e \in Text, owes \in Text :
          on = TRUE /\ over = w.over /\ e = <<>> /\ owes = w.owed
    BY VoiceIs, Texted1
  <2>1. PICK x \in Voice : /\ x.on = on /\ x.over = over /\ x.said = e /\ x.owed = owes
                           /\ x.pan = w.pan /\ x.who = w.who /\ x.kept = w.kept
    BY VoiceLike
  <2>2. root[k[1]] \notin {"dead", "over"} /\ root' = root /\ phase'[k] = "running"
        /\ said'[k] = <<>> /\ owed' = owed
    BY <1>1, <1>5 DEF GoSound, GoTyped, GoSays
  <2>3. Spoken(k, x)'
    BY <2>0, <2>1, <2>2 DEF Spoken, IsOn, Calm
  <2>4. Hear(k, w, ev, x)
    <3>1. ~w.over /\ w.pan = 0
      BY <2>2 DEF Spoken
    <3>2. HearRun(k, ev, w, x)
      BY <1>3, <1>5, <2>0, <2>1, <3>1 DEF HearRun
    <3> QED BY <1>3, <1>5, <3>1, <3>2 DEF Hear
  <2> QED BY <1>3, <2>3, <2>4, SpeaksOne
<1> QED BY <1>4, <1>5

LEMMA ReportSpeaks ==
    ASSUME PipeOK, GoSound, GoSays, NEW k \in Keys, NEW w \in Voice, Spoken(k, w),
           NEW j \in Keys, Go!Report(j)
    PROVE  Speaks(k, w)
<1>0. j[1] \in Pkgs /\ j[2] \in Names \cup {NoTest} /\ j[2] # NoTest
      /\ verdict[j] \in Verdicts /\ verdict[j] \in Actions
  <2>1. verdict[j] \in {"pass", "fail", "skip"}
    BY DEF PipeOK
  <2> QED BY <2>1, RunAssumption DEF Keys, Verdicts, Actions
<1>1. /\ phase' = [phase EXCEPT ![j] = "done"] /\ UNCHANGED <<root, said>>
      /\ owed' = IF verdict[j] = "fail" THEN [owed EXCEPT ![j] = @ \o said[j]] ELSE owed
      /\ Go!Emit(verdict[j], j[1], j[2], <<>>)
      /\ j \in Go!Due(j[1])
  BY DEF Go!Report
<1>2. root[j[1]] # "over" /\ phase[j] = "finished"
  <2>1. root[j[1]] = "over" => Go!Due(j[1]) = {}
    BY <1>0 DEF GoSound, ResultsSound
  <2> QED BY <1>1, <2>1 DEF Go!Due
<1>3. PICK ev \in Event : /\ stream' = Append(stream, ev)
                          /\ ev.action = verdict[j] /\ ev.pkg = j[1] /\ ev.test = j[2]
  <2>1. PICK p \in Pkgs, t \in Names \cup {NoTest}, a \in Actions :
          p = j[1] /\ t = j[2] /\ a = verdict[j]
    BY <1>0
  <2> QED BY <1>1, <2>1, EmitIs
<1>4. CASE j # k
  <2>1. Same(k)
    <3>1. owed'[k] = owed[k]
      BY <1>1, <1>4 DEF GoSays
    <3> QED BY <1>1, <1>4, <3>1 DEF Same, GoSound, GoTyped
  <2> QED BY <1>0, <1>2, <1>3, <1>4, <2>1, OthersSpeak DEF Verdicts
<1>5. CASE j = k
  <2> DEFINE o == IF ev.action = "fail" THEN w.owed \o w.said ELSE w.owed
  <2>1. o \in Text
    BY VoiceIs, ConcatProperties DEF Text
  <2>2. owed'[k] = o
    <3>1. w.owed = owed[k] /\ w.said = said[k]
      BY DEF Spoken
    <3> QED BY <1>1, <1>3, <1>5, <3>1 DEF GoSays
  <2> HIDE DEF o
  <2>3. PICK x \in Voice : /\ x.on = FALSE /\ x.over = w.over /\ x.said = w.said /\ x.owed = o
                           /\ x.pan = w.pan /\ x.who = w.who /\ x.kept = w.kept
    <3>1. PICK on \in BOOLEAN, over \in BOOLEAN, says \in Text :
            on = FALSE /\ over = w.over /\ says = w.said
      BY VoiceIs
    <3> QED BY <2>1, <3>1, VoiceLike
  <2>4. phase'[k] = "done"
    BY <1>1, <1>5 DEF GoSound, GoTyped
  <2>5. Spoken(k, x)'
    BY <1>1, <2>2, <2>3, <2>4 DEF Spoken, IsOn, Calm
  <2>6. Hear(k, w, ev, x)
    <3>1. ~w.over /\ w.on /\ Calm(w)
      BY <1>2, <1>5 DEF Spoken, IsOn
    <3>2. HearResult(k, ev, w, x)
      BY <1>0, <1>3, <1>5, <2>3, <3>1 DEF HearResult, o
    <3> QED BY <1>3, <1>5, <3>1, <3>2 DEF Hear
  <2> QED BY <1>3, <2>5, <2>6, SpeaksOne
<1> QED BY <1>4, <1>5

LEMMA SaySpeaks ==
    ASSUME PipeOK, GoSound, GoSays, NEW k \in Keys, NEW w \in Voice, Spoken(k, w),
           NEW p \in Pkgs, NEW t \in Names, NEW text \in Texts, Go!Say(p, t, text)
    PROVE  Speaks(k, w)
<1> DEFINE j == <<p, t>>
<1>1. /\ root[p] \in {"running", "returned"}
      /\ t = speaker[p] \/ phase[j] = "running"
      /\ said' = [said EXCEPT ![j] = @ \o text] /\ Go!Emit("output", p, t, text)
      /\ UNCHANGED <<phase, root, owed>>
  BY DEF Go!Say
<1>0. j \in Keys /\ k = <<k[1], k[2]>> /\ t # NoTest
  BY RunAssumption DEF Keys
<1>2. phase[j] \notin {"new", "done"}
  BY <1>0, <1>1 DEF GoSays
<1>3. PICK ev \in Event : /\ stream' = Append(stream, ev) /\ ev.action = "output"
                          /\ ev.pkg = p /\ ev.test = t /\ ev.text = text
  <2>1. [action |-> "output", pkg |-> p, test |-> t, text |-> text] \in Event
    BY SessionAssumption DEF Event, Actions
  <2> QED BY <1>1, <2>1 DEF Go!Emit
<1> DEFINE s == IF ev.test = k[2] THEN w.said \o text ELSE w.said
<1>4. CASE p # k[1]
  <2>1. Same(k)
    BY <1>0, <1>1, <1>4 DEF Same, GoSays
  <2>2. Hear(k, w, ev, w)
    BY <1>3, <1>4 DEF Hear
  <2> QED BY <1>3, <2>1, <2>2, SpeaksAside
<1>5. CASE p = k[1]
  <2>1. s \in Text
    <3>1. text \in Text
      BY Texted1
    <3> QED BY <3>1, VoiceIs, ConcatProperties DEF Text
  <2>2. said'[k] = s
    <3>1. w.said = said[k]
      BY DEF Spoken
    <3>2. j = k <=> t = k[2]
      BY <1>0, <1>5
    <3>3. said'[k] = IF j = k THEN said[k] \o text ELSE said[k]
      BY <1>1 DEF GoSays
    <3> QED BY <1>3, <3>1, <3>2, <3>3
  <2>3. t = k[2] => IsOn(k)
    BY <1>0, <1>1, <1>2, <1>5 DEF IsOn
  <2> HIDE DEF s, j
  <2>4. PICK x \in Voice : /\ x.on = w.on /\ x.over = w.over /\ x.said = s /\ x.owed = w.owed
                           /\ x.pan = w.pan /\ x.who = w.who /\ x.kept = w.kept
    <3>1. PICK on \in BOOLEAN, over \in BOOLEAN, owes \in Text :
            on = w.on /\ over = w.over /\ owes = w.owed
      BY VoiceIs
    <3> QED BY <2>1, <3>1, VoiceLike
  <2>5. Spoken(k, x)'
    BY <1>1, <2>2, <2>4 DEF Spoken, IsOn, Calm
  <2>6. Hear(k, w, ev, x)
    <3>1. ~w.over /\ w.pan = 0 /\ (t = k[2] => w.on)
      BY <1>1, <1>5, <2>3 DEF Spoken
    <3>2. HearSpeech(k, ev, w, x)
      BY <1>0, <1>3, <2>4, <3>1 DEF HearSpeech, s
    <3> QED BY <1>3, <1>5, <3>1, <3>2 DEF Hear
  <2> QED BY <1>3, <2>5, <2>6, SpeaksOne
<1> QED BY <1>4, <1>5
----------------------------------------------------------------------------
LEMMA TellsConcat ==
    ASSUME NEW k, NEW v \in Voice, NEW w \in Voice, NEW x \in Voice, NEW s \in Seq(Event),
           NEW rest \in Seq(Event), Tells(k, v, s, w), Tells(k, w, rest, x)
    PROVE  Tells(k, v, s \o rest, x)
<1> DEFINE t == s \o rest
<1>1. PICK h, f : Listens(k, h, v, s, w) /\ Listens(k, f, w, rest, x)
  BY DEF Tells
<1>2. /\ Len(s) \in Nat /\ Len(rest) \in Nat /\ Len(t) = Len(s) + Len(rest)
      /\ \A i \in 1..Len(t) : t[i] = IF i <= Len(s) THEN s[i] ELSE rest[i - Len(s)]
  BY ConcatProperties, LenProperties
<1> HIDE DEF t
<1> DEFINE g == [n \in 0..Len(t) |-> IF n <= Len(s) THEN h[n] ELSE f[n - Len(s)]]
<1>3. /\ h \in [0..Len(s) -> Voice] /\ h[0] = v /\ h[Len(s)] = w
      /\ \A n \in 1..Len(s) : Hear(k, h[n - 1], s[n], h[n])
      /\ f \in [0..Len(rest) -> Voice] /\ f[0] = w /\ f[Len(rest)] = x
      /\ \A n \in 1..Len(rest) : Hear(k, f[n - 1], rest[n], f[n])
  BY <1>1 DEF Listens
<1>4. ASSUME NEW n \in 0..Len(t), n >= Len(s) PROVE n - Len(s) \in 0..Len(rest) /\ g[n] = f[n - Len(s)]
  <2>1. n - Len(s) \in 0..Len(rest)
    BY <1>2, <1>4
  <2>2. CASE n = Len(s)
    <3>1. n - Len(s) = 0 /\ n <= Len(s)
      BY <1>2, <2>2
    <3> QED BY <1>3, <2>1, <2>2, <3>1
  <2>3. CASE n # Len(s)
    BY <1>2, <1>4, <2>1, <2>3
  <2> QED BY <2>2, <2>3
<1>5. g \in [0..Len(t) -> Voice] /\ g[0] = v /\ g[Len(t)] = x
  <2>1. ASSUME NEW n \in 0..Len(t) PROVE g[n] \in Voice
    <3>1. CASE n <= Len(s)
      <4>1. n \in 0..Len(s) /\ g[n] = h[n]
        BY <1>2, <3>1
      <4> QED BY <1>3, <4>1
    <3>2. CASE ~(n <= Len(s))
      <4>1. n >= Len(s)
        BY <1>2, <3>2
      <4>2. n - Len(s) \in 0..Len(rest) /\ g[n] = f[n - Len(s)]
        BY <1>4, <4>1
      <4> HIDE DEF g
      <4> QED BY <1>3, <4>2
    <3> QED BY <3>1, <3>2
  <2>2. g[0] = v
    BY <1>2, <1>3
  <2>3. g[Len(t)] = x
    <3>1. Len(t) \in 0..Len(t) /\ Len(t) >= Len(s) /\ Len(t) - Len(s) = Len(rest)
      BY <1>2
    <3>2. g[Len(t)] = f[Len(rest)]
      BY <1>4, <3>1
    <3> QED BY <1>3, <3>2
  <2> QED BY <2>1, <2>2, <2>3
<1>6. ASSUME NEW n \in 1..Len(t) PROVE Hear(k, g[n - 1], t[n], g[n])
  <2>1. CASE n <= Len(s)
    <3>1. n \in 1..Len(s) /\ g[n] = h[n] /\ g[n - 1] = h[n - 1] /\ t[n] = s[n]
      BY <1>2, <2>1
    <3> HIDE DEF g
    <3> QED BY <1>3, <3>1
  <2>2. CASE ~(n <= Len(s))
    <3> DEFINE a == n - 1
               m == n - Len(s)
    <3>1. /\ n \in 0..Len(t) /\ n >= Len(s) /\ a \in 0..Len(t) /\ a >= Len(s)
          /\ m \in 1..Len(rest) /\ a - Len(s) = m - 1 /\ t[n] = rest[m]
      BY <1>2, <2>2
    <3> HIDE DEF a
    <3>2. g[n] = f[m] /\ g[a] = f[m - 1]
      <4>1. g[a] = f[a - Len(s)]
        BY <1>4, <3>1
      <4>2. g[n] = f[n - Len(s)]
        BY <1>4, <3>1
      <4> HIDE DEF g
      <4> QED BY <3>1, <4>1, <4>2
    <3>3. Hear(k, f[m - 1], rest[m], f[m])
      BY <1>3, <3>1
    <3> HIDE DEF g, m
    <3> QED BY <3>1, <3>2, <3>3 DEF a
  <2> QED BY <2>1, <2>2
<1> HIDE DEF g
<1>7. Listens(k, g, v, t, x)
  BY <1>5, <1>6 DEF Listens
<1> QED BY <1>7 DEF Tells, t

\* The first n events of s lead from voice w of k to x.
TellsUpTo(k, w, s, n, x) ==
    \E h \in [0..n -> Voice] : /\ h[0] = w /\ h[n] = x
                               /\ \A m \in 1..n : Hear(k, h[m - 1], s[m], h[m])

LEMMA UpToNone == ASSUME NEW k, NEW w \in Voice, NEW s PROVE TellsUpTo(k, w, s, 0, w)
<1> DEFINE h == [n \in 0..0 |-> w]
<1>1. /\ h \in [0..0 -> Voice] /\ h[0] = w
      /\ \A m \in 1..0 : Hear(k, h[m - 1], s[m], h[m])
  OBVIOUS
<1> HIDE DEF h
<1> QED BY <1>1 DEF TellsUpTo

LEMMA UpToNext ==
    ASSUME NEW k, NEW w \in Voice, NEW s, NEW n \in Nat, NEW x \in Voice, NEW y \in Voice,
           TellsUpTo(k, w, s, n, x), NEW l, l = n + 1, Hear(k, x, s[l], y)
    PROVE  TellsUpTo(k, w, s, l, y)
<1>1. PICK h \in [0..n -> Voice] : /\ h[0] = w /\ h[n] = x
                                   /\ \A m \in 1..n : Hear(k, h[m - 1], s[m], h[m])
  BY DEF TellsUpTo
<1> DEFINE g == [m \in 0..l |-> IF m = l THEN y ELSE h[m]]
<1>2. /\ g \in [0..l -> Voice] /\ g[0] = w /\ g[l] = y /\ g[n] = x
      /\ \A m \in 0..n : g[m] = h[m]
  BY <1>1
<1> HIDE DEF g
<1>3. ASSUME NEW m \in 1..l PROVE Hear(k, g[m - 1], s[m], g[m])
  <2>1. CASE m = l
    <3>1. m - 1 = n
      BY <2>1
    <3> QED BY <1>2, <2>1, <3>1
  <2>2. CASE m # l
    <3>1. m \in 1..n /\ m \in 0..n /\ m - 1 \in 0..n
      BY <2>2
    <3> QED BY <1>1, <1>2, <3>1
  <2> QED BY <2>1, <2>2
<1> QED BY <1>2, <1>3 DEF TellsUpTo

LEMMA PanicSpeaks ==
    ASSUME PipeOK, GoSound, GoSays, NEW k \in Keys, NEW w \in Voice, Spoken(k, w),
           NEW p \in Pkgs, Go!PrintPanic(p)
    PROVE  Speaks(k, w)
<1> DEFINE rest == [i \in DOMAIN Panic |->
                      [action |-> "output", pkg |-> p, test |-> speaker[p], text |-> Panic[i]]]
<1>1. /\ stream' = stream \o rest /\ root[p] = "panicking" /\ root' = [root EXCEPT ![p] = "dead"]
      /\ UNCHANGED <<phase, said, owed>>
  BY DEF Go!PrintPanic
<1>2. /\ Panic \in Seq(Seq(STRING)) /\ DOMAIN Panic = 1..Len(Panic) /\ Len(Panic) \in Nat
  BY SessionAssumption, LenProperties
<1>3. ASSUME NEW i \in DOMAIN Panic
      PROVE  /\ rest[i] \in Event /\ rest[i].action = "output" /\ rest[i].pkg = p
             /\ rest[i].test = speaker[p] /\ rest[i].text = Panic[i]
  <2>1. Panic[i] \in Seq(STRING)
    BY <1>2
  <2>2. speaker[p] \in Names \cup {NoTest} /\ "output" \in Actions
    BY DEF PipeOK, Actions
  <2>3. rest[i] = [action |-> "output", pkg |-> p, test |-> speaker[p], text |-> Panic[i]]
    OBVIOUS
  <2> HIDE DEF rest
  <2> QED BY <2>1, <2>2, <2>3 DEF Event
<1>4. rest \in [1..Len(Panic) -> Event]
  BY <1>2, <1>3
<1> HIDE DEF rest
<1>5. rest \in Seq(Event) /\ Len(rest) = Len(Panic)
  <2>1. PICK n \in Nat : n = Len(Panic) /\ rest \in [1..n -> Event]
    BY <1>2, <1>4, Zenon
  <2>2. rest \in Seq(Event)
    BY <2>1
  <2>3. DOMAIN rest = 1..n
    BY <2>1
  <2>4. DOMAIN rest = 1..Len(rest) /\ Len(rest) \in Nat
    BY <2>2, LenProperties
  <2> QED BY <2>1, <2>2, <2>3, <2>4
<1> DEFINE Still(n, x) ==
             /\ x.on = w.on /\ x.over = w.over /\ x.said = w.said /\ x.owed = w.owed
             /\ IF p = k[1] THEN x.pan = n /\ (n # 0 => x.who = speaker[p]) ELSE x = w
           N == {n \in Nat : n <= Len(Panic) =>
                   \E x \in Voice : Still(n, x) /\ TellsUpTo(k, w, rest, n, x)}
<1>6. 0 \in N
  <2>1. p = k[1] => w.pan = 0
    BY <1>1 DEF Spoken
  <2> QED BY <2>1, UpToNone
<1>7. ASSUME NEW n \in N PROVE n + 1 \in N
  <2> DEFINE l == n + 1
  <2> SUFFICES ASSUME l <= Len(Panic)
               PROVE  \E x \in Voice : Still(l, x) /\ TellsUpTo(k, w, rest, l, x)
    OBVIOUS
  <2>1. PICK x \in Voice : Still(n, x) /\ TellsUpTo(k, w, rest, n, x)
    BY <1>2
  <2>2. /\ l \in DOMAIN Panic /\ l \in 0..Len(Panic) /\ n \in Nat /\ l = n + 1 /\ l # 0
    BY <1>2
  <2> HIDE DEF N, l
  <2>3. \E y \in Voice : Still(l, y) /\ Hear(k, x, rest[l], y)
    <3>1. CASE p # k[1]
      <4>1. Hear(k, x, rest[l], x)
        BY <1>3, <2>2, <3>1 DEF Hear
      <4> QED BY <2>1, <3>1, <4>1
    <3>2. CASE p = k[1]
      <4> DEFINE keeps == IF Complete(l) THEN x.kept ELSE Joined(l)
                 y == [on |-> x.on, over |-> x.over, said |-> x.said, owed |-> x.owed,
                       pan |-> l, who |-> speaker[p], kept |-> keeps]
      <4>1. keeps \in Text
        BY <2>2, VoiceIs, JoinedTyped
      <4>2. speaker[p] \in Names \cup {NoTest}
        BY DEF PipeOK
      <4>3. y \in Voice
        BY <2>2, <4>1, <4>2, VoiceIs DEF Voice
      <4>4. /\ y.on = x.on /\ y.over = x.over /\ y.said = x.said /\ y.owed = x.owed
            /\ y.pan = l /\ y.who = speaker[p]
            /\ y.kept = IF Complete(l) THEN x.kept ELSE Joined(l)
        OBVIOUS
      <4> HIDE DEF y, keeps
      <4>5. Still(l, y)
        BY <2>1, <3>2, <4>4
      <4>6. ~x.over /\ (speaker[p] = k[2] => x.on)
        BY <1>1, <2>1, <3>2 DEF Spoken, IsOn, GoSays
      <4>7. HearPanic(k, rest[l], x, y)
        BY <1>3, <2>1, <2>2, <3>2, <4>4, <4>6 DEF HearPanic
      <4>8. Hear(k, x, rest[l], y)
        BY <1>3, <2>2, <3>2, <4>6, <4>7 DEF Hear
      <4> QED BY <4>3, <4>5, <4>8
    <3> QED BY <3>1, <3>2
  <2> HIDE DEF Still
  <2> QED BY <2>1, <2>2, <2>3, UpToNext
<1>8. N = Nat
  <2> HIDE DEF N
  <2>1. N \in SUBSET Nat
    BY DEF N
  <2> QED BY <1>6, <1>7, <2>1, Induct
<1>9. PICK x \in Voice : Still(Len(Panic), x) /\ TellsUpTo(k, w, rest, Len(Panic), x)
  BY <1>2, <1>8
<1>10. Tells(k, w, rest, x)
  BY <1>5, <1>9 DEF TellsUpTo, Tells, Listens
<1>11. Spoken(k, x)'
  <2>1. IsOn(k)' <=> IsOn(k)
    BY <1>1 DEF IsOn, GoSound, GoTyped
  <2>2. root'[k[1]] = "over" <=> root[k[1]] = "over"
    BY <1>1 DEF GoSound, GoTyped
  <2>3. CASE p = k[1]
    <3>1. root'[k[1]] = "dead" /\ x.pan = Len(Panic)
      BY <1>1, <1>9, <2>3 DEF GoSound, GoTyped
    <3> QED BY <1>1, <1>9, <2>1, <2>2, <3>1 DEF Spoken, Calm
  <2>4. CASE p # k[1]
    <3>1. root'[k[1]] = root[k[1]] /\ x = w
      BY <1>1, <1>9, <2>4 DEF GoSound, GoTyped
    <3> QED BY <1>1, <2>1, <2>2, <3>1 DEF Spoken
  <2> QED BY <2>3, <2>4
<1>12. PICK s \in Seq(Event) : s = stream
  BY DEF PipeOK
<1>13. ASSUME NEW v \in Voice, Tells(k, v, s, w) PROVE Tells(k, v, s \o rest, x)
  BY <1>5, <1>10, <1>13, TellsConcat
<1> QED BY <1>1, <1>11, <1>12, <1>13 DEF Speaks
----------------------------------------------------------------------------
LEMMA RootSpeaks ==
    ASSUME PipeOK, GoSound, NEW k \in Keys, NEW w \in Voice, Spoken(k, w), NEW p \in Pkgs,
           Go!StartPackage(p) \/ Go!RootReturn(p) \/ Go!NextRound(p) \/ Go!Die(p)
    PROVE  Speaks(k, w)
<1>0. k[1] \in Pkgs
  BY DEF Keys
<1>1. CASE Go!StartPackage(p)
  <2>1. /\ root[p] = "new" /\ root' = [root EXCEPT ![p] = "running"]
        /\ UNCHANGED <<phase, said, owed>> /\ Go!Emit("start", p, NoTest, <<>>)
    BY <1>1 DEF Go!StartPackage
  <2>2. "start" \in Actions /\ NoTest \in Names \cup {NoTest}
    BY DEF Actions
  <2>3. PICK ev \in Event : /\ stream' = Append(stream, ev)
                            /\ ev.action = "start" /\ ev.pkg = p /\ ev.test = NoTest
    BY <2>1, <2>2, EmitIs
  <2>4. Same(k)
    BY <1>0, <2>1 DEF Same, GoSound, GoTyped
  <2>5. Hear(k, w, ev, w)
    BY <2>1, <2>3 DEF Hear, HearAside, Spoken
  <2> QED BY <2>3, <2>4, <2>5, SpeaksAside
<1>2. CASE Go!RootReturn(p)
  <2>1. /\ root[p] = "running" /\ root' = [root EXCEPT ![p] = "returned"]
        /\ UNCHANGED <<phase, said, owed, stream>>
    BY <1>2 DEF Go!RootReturn, Go!RootFree
  <2>2. Same(k)
    BY <1>0, <2>1 DEF Same, GoSound, GoTyped
  <2> QED BY <2>1, <2>2, SpeaksQuiet
<1>3. CASE Go!NextRound(p)
  <2>1. /\ root[p] = "returned" /\ root' = [root EXCEPT ![p] = "running"]
        /\ \A j \in Go!Of(p) : phase[j] \in {"new", "done"}
        /\ phase' = [j \in Keys |-> IF j[1] = p THEN "new" ELSE phase[j]]
        /\ UNCHANGED <<said, owed, stream>>
    BY <1>3 DEF Go!NextRound, Go!RoundOver, Go!Keys, Keys
  <2>2. k[1] = p => phase[k] \in {"new", "done"}
    BY <2>1 DEF Go!Of, Go!Keys, Keys
  <2>3. Same(k)
    BY <1>0, <2>1, <2>2 DEF Same, GoSound, GoTyped
  <2> QED BY <2>1, <2>3, SpeaksQuiet
<1>4. CASE Go!Die(p)
  <2>1. /\ root[p] \in {"running", "returned"}
        /\ root' \in {[root EXCEPT ![p] = "panicking"], [root EXCEPT ![p] = "dead"]}
        /\ UNCHANGED <<phase, said, owed, stream>>
    BY <1>4 DEF Go!Die
  <2>2. Same(k)
    BY <1>0, <2>1 DEF Same, GoSound, GoTyped
  <2> QED BY <2>1, <2>2, SpeaksQuiet
<1> QED BY <1>1, <1>2, <1>3, <1>4

\* The result of a package.
LEMMA OverSpeaks ==
    ASSUME PipeOK, GoSound, GoSays, NEW k \in Keys, NEW w \in Voice, Spoken(k, w),
           NEW p \in Pkgs, root[p] # "over", root' = [root EXCEPT ![p] = "over"],
           UNCHANGED <<phase, said>>, NEW action \in Verdicts, Go!Emit(action, p, NoTest, <<>>),
           action # "fail" => ~IsOn(k) \/ k[1] # p,
           owed'[k] = IF k[1] = p /\ IsOn(k) THEN owed[k] \o said[k] ELSE owed[k]
    PROVE  Speaks(k, w)
<1>0. k[1] \in Pkgs
  BY DEF Keys
<1>1. PICK ev \in Event : /\ stream' = Append(stream, ev)
                          /\ ev.action = action /\ ev.pkg = p /\ ev.test = NoTest
  <2>1. action \in Actions /\ NoTest \in Names \cup {NoTest}
    BY DEF Actions, Verdicts
  <2> QED BY <2>1, EmitIs
<1>2. CASE p # k[1]
  <2>1. Same(k)
    BY <1>0, <1>2 DEF Same, GoSound, GoTyped
  <2>2. Hear(k, w, ev, w)
    BY <1>1, <1>2 DEF Hear
  <2> QED BY <1>1, <2>1, <2>2, SpeaksAside
<1>3. CASE p = k[1]
  <2> DEFINE o == IF w.on THEN w.owed \o w.said ELSE w.owed
  <2>1. o \in Text
    BY VoiceIs, ConcatProperties DEF Text
  <2>2. owed'[k] = o
    BY <1>3 DEF Spoken
  <2> HIDE DEF o
  <2>3. PICK on \in BOOLEAN, over \in BOOLEAN, says \in Text :
          on = FALSE /\ over = TRUE /\ says = w.said
    BY VoiceIs
  <2>4. PICK x \in Voice : /\ x.on = on /\ x.over = over /\ x.said = says /\ x.owed = o
                           /\ x.pan = w.pan /\ x.who = w.who /\ x.kept = w.kept
    BY <2>1, VoiceLike
  <2>5. root'[k[1]] = "over"
    BY <1>3 DEF GoSound, GoTyped
  <2>6. Spoken(k, x)'
    BY <2>2, <2>3, <2>4, <2>5 DEF Spoken, IsOn, Calm
  <2>7. Hear(k, w, ev, x)
    <3>1. ~w.over /\ Calm(w) /\ (action # "fail" => ~w.on)
      BY <1>3 DEF Spoken
    <3>2. HearOver(k, ev, w, x)
      BY <1>1, <2>3, <2>4, <3>1 DEF HearOver, o
    <3> QED BY <1>1, <1>3, <3>1, <3>2 DEF Hear
  <2> QED BY <1>1, <2>6, <2>7, SpeaksOne
<1> QED BY <1>2, <1>3

LEMMA ResultSpeaks ==
    ASSUME PipeOK, GoSound, GoSays, NEW k \in Keys, NEW w \in Voice, Spoken(k, w),
           NEW p \in Pkgs, Go!PackageResult(p) \/ Go!PackageDied(p)
    PROVE  Speaks(k, w)
<1>0. k[1] \in Pkgs
  BY DEF Keys
<1>1. CASE Go!PackageResult(p)
  <2>1. /\ root[p] = "returned" /\ root' = [root EXCEPT ![p] = "over"]
        /\ \A j \in Go!Of(p) : phase[j] \in {"new", "done"}
        /\ UNCHANGED <<phase, said, owed>>
    BY <1>1 DEF Go!PackageResult, Go!RoundOver
  <2>2. k[1] = p => ~IsOn(k)
    BY <2>1 DEF Go!Of, Go!Keys, Keys, IsOn
  <2>3. PICK action \in Verdicts : Go!Emit(action, p, NoTest, <<>>)
    <3>1. "pass" \in Verdicts /\ "fail" \in Verdicts /\ "skip" \in Verdicts
      BY DEF Verdicts
    <3> QED BY <1>1, <3>1 DEF Go!PackageResult
  <2> QED BY <2>1, <2>2, <2>3, OverSpeaks
<1>2. CASE Go!PackageDied(p)
  <2>1. /\ root[p] = "dead" /\ root' = [root EXCEPT ![p] = "over"]
        /\ owed' = [j \in Keys |-> IF j \in Go!Started(p) /\ phase[j] # "done"
                                   THEN owed[j] \o said[j] ELSE owed[j]]
        /\ Go!Emit("fail", p, NoTest, <<>>)
        /\ UNCHANGED <<phase, said>>
    BY <1>2 DEF Go!PackageDied, Go!Keys, Keys
  <2>2. k \in Go!Started(p) /\ phase[k] # "done" <=> k[1] = p /\ IsOn(k)
    BY <2>1 DEF Go!Started, Go!Of, Go!Keys, Keys, IsOn
  <2>3. owed'[k] = IF k[1] = p /\ IsOn(k) THEN owed[k] \o said[k] ELSE owed[k]
    BY <2>1, <2>2
  <2>4. "fail" \in Verdicts
    BY DEF Verdicts
  <2>5. PICK action \in Verdicts : action = "fail"
    BY <2>4
  <2> QED BY <2>1, <2>3, <2>5, OverSpeaks
<1> QED BY <1>1, <1>2

LEMMA GoSpeaks ==
    ASSUME PipeOK, GoSound, GoSays, NEW k \in Keys, NEW w \in Voice, Spoken(k, w), Go!GoNext
    PROVE  Speaks(k, w)
<1>1. CASE Go!EndOfStream
  <2>1. UNCHANGED <<phase, root, said, owed, stream>>
    BY <1>1 DEF Go!EndOfStream
  <2>2. Same(k)
    BY <2>1 DEF Same
  <2> QED BY <2>1, <2>2, SpeaksQuiet
<1>2. ASSUME NEW p \in Pkgs,
             \/ Go!StartPackage(p) \/ Go!RootReturn(p) \/ Go!NextRound(p)
             \/ Go!PackageResult(p) \/ Go!Die(p) \/ Go!PrintPanic(p) \/ Go!PackageDied(p)
             \/ \E t \in Names, text \in Texts : Go!Say(p, t, text)
      PROVE  Speaks(k, w)
  BY <1>2, RootSpeaks, ResultSpeaks, PanicSpeaks, SaySpeaks
<1>3. ASSUME NEW j \in Keys,
             \/ Go!Pause(j) \/ Go!Cont(j) \/ Go!BodyReturn(j) \/ Go!Report(j)
             \/ \E c \in Names \cup {NoTest} : Go!Begin(j, c)
             \/ \E v \in {"pass", "fail", "skip"} : Go!Finish(j, v)
      PROVE  Speaks(k, w)
  BY <1>3, MoveSpeaks, ReportSpeaks, BeginSpeaks
<1> QED BY <1>1, <1>2, <1>3 DEF Go!GoNext, Go!Keys, Keys
----------------------------------------------------------------------------
LEMMA TestSays ==
    ASSUME PipeOK, GoSound, GoSays, NEW j \in Keys,
           \/ Go!Pause(j) \/ Go!Cont(j) \/ Go!BodyReturn(j) \/ Go!Report(j)
           \/ \E c \in Names \cup {NoTest} : Go!Begin(j, c)
           \/ \E v \in {"pass", "fail", "skip"} : Go!Finish(j, v)
    PROVE  GoSays'
<1>0. /\ phase \in [Keys -> Phases] /\ speaker \in [Pkgs -> Names \cup {NoTest}]
      /\ \A k \in Keys : k[1] \in Pkgs /\ k[2] \in Names /\ k[2] # NoTest /\ k = <<k[1], k[2]>>
      /\ said \in [Keys -> Text] /\ owed \in [Keys -> Text]
      /\ \A k \in Keys : speaker[k[1]] = k[2] => phase[k] \notin {"new", "done"}
  BY RunAssumption DEF Keys, GoSound, GoTyped, PipeOK, GoSays
<1>1. CASE \/ Go!Pause(j) \/ Go!Cont(j) \/ Go!BodyReturn(j)
           \/ \E v \in {"pass", "fail", "skip"} : Go!Finish(j, v)
  <2>1. \E to \in {"paused", "running", "returned", "finished"} :
          phase' = [phase EXCEPT ![j] = to]
    BY <1>1 DEF Go!Pause, Go!Cont, Go!BodyReturn, Go!Finish
  <2>2. /\ UNCHANGED <<said, owed>>
        /\ speaker' = speaker \/ speaker' = [speaker EXCEPT ![j[1]] = j[2]]
        /\ phase[j] \notin {"new", "done"}
    BY <1>1 DEF Go!Pause, Go!Cont, Go!BodyReturn, Go!Finish, Go!Free
  <2>3. ASSUME NEW k \in Keys, speaker'[k[1]] = k[2] PROVE phase'[k] \notin {"new", "done"}
    BY <1>0, <2>1, <2>2, <2>3
  <2> QED BY <1>0, <2>2, <2>3 DEF GoSays
<1>2. CASE \E c \in Names \cup {NoTest} : Go!Begin(j, c)
  <2>1. /\ phase' = [phase EXCEPT ![j] = "running"] /\ said' = [said EXCEPT ![j] = <<>>]
        /\ UNCHANGED owed /\ speaker' = [speaker EXCEPT ![j[1]] = j[2]]
    BY <1>2 DEF Go!Begin
  <2>2. ASSUME NEW k \in Keys, speaker'[k[1]] = k[2] PROVE phase'[k] \notin {"new", "done"}
    BY <1>0, <2>1, <2>2
  <2>3. said' \in [Keys -> Text]
    BY <1>0, <2>1, Texted1
  <2> QED BY <1>0, <2>1, <2>2, <2>3 DEF GoSays
<1>3. CASE Go!Report(j)
  <2>1. /\ phase' = [phase EXCEPT ![j] = "done"] /\ UNCHANGED said
        /\ owed' = IF verdict[j] = "fail" THEN [owed EXCEPT ![j] = @ \o said[j]] ELSE owed
        /\ speaker' = [speaker EXCEPT ![j[1]] = NoTest]
    BY <1>3 DEF Go!Report
  <2>2. ASSUME NEW k \in Keys, speaker'[k[1]] = k[2] PROVE phase'[k] \notin {"new", "done"}
    BY <1>0, <2>1, <2>2
  <2>3. owed[j] \o said[j] \in Text
    BY <1>0, ConcatProperties DEF Text
  <2>4. owed' \in [Keys -> Text]
    BY <1>0, <2>1, <2>3
  <2> QED BY <1>0, <2>1, <2>2, <2>4 DEF GoSays
<1> QED BY <1>1, <1>2, <1>3

LEMMA PackageSays ==
    ASSUME PipeOK, GoSound, GoSays, NEW p \in Pkgs,
           \/ Go!StartPackage(p) \/ Go!RootReturn(p) \/ Go!NextRound(p)
           \/ Go!PackageResult(p) \/ Go!Die(p) \/ Go!PrintPanic(p) \/ Go!PackageDied(p)
           \/ \E t \in Names, text \in Texts : Go!Say(p, t, text)
    PROVE  GoSays'
<1>0. /\ phase \in [Keys -> Phases] /\ speaker \in [Pkgs -> Names \cup {NoTest}]
      /\ \A k \in Keys : k[1] \in Pkgs /\ k[2] \in Names /\ k[2] # NoTest /\ k = <<k[1], k[2]>>
      /\ said \in [Keys -> Text] /\ owed \in [Keys -> Text]
      /\ \A k \in Keys : speaker[k[1]] = k[2] => phase[k] \notin {"new", "done"}
  BY RunAssumption DEF Keys, GoSound, GoTyped, PipeOK, GoSays
<1>1. CASE \/ Go!StartPackage(p) \/ Go!RootReturn(p) \/ Go!PackageResult(p)
           \/ Go!Die(p) \/ Go!PrintPanic(p)
  <2>1. UNCHANGED <<phase, said, owed, speaker>>
    BY <1>1 DEF Go!StartPackage, Go!RootReturn, Go!PackageResult, Go!Die, Go!PrintPanic
  <2> QED BY <2>1 DEF GoSays
<1>2. CASE Go!NextRound(p)
  <2>1. /\ \A j \in Keys : j[1] = p => phase[j] \in {"new", "done"}
        /\ phase' = [j \in Keys |-> IF j[1] = p THEN "new" ELSE phase[j]]
        /\ UNCHANGED <<said, owed, speaker>>
    BY <1>2 DEF Go!NextRound, Go!RoundOver, Go!Of, Go!Keys, Keys
  <2>2. ASSUME NEW k \in Keys, speaker'[k[1]] = k[2] PROVE phase'[k] \notin {"new", "done"}
    BY <1>0, <2>1, <2>2
  <2> QED BY <1>0, <2>1, <2>2 DEF GoSays
<1>3. CASE Go!PackageDied(p)
  <2>1. /\ UNCHANGED <<phase, said, speaker>>
        /\ owed' = [j \in Keys |-> IF j \in Go!Started(p) /\ phase[j] # "done"
                                   THEN owed[j] \o said[j] ELSE owed[j]]
    BY <1>3 DEF Go!PackageDied, Go!Keys, Keys
  <2>2. \A j \in Keys : owed[j] \o said[j] \in Text
    BY <1>0, ConcatProperties DEF Text
  <2>3. owed' \in [Keys -> Text]
    BY <1>0, <2>1, <2>2
  <2> QED BY <1>0, <2>1, <2>3 DEF GoSays
<1>4. ASSUME NEW t \in Names, NEW text \in Texts, Go!Say(p, t, text) PROVE GoSays'
  <2> DEFINE j == <<p, t>>
  <2>1. /\ t = speaker[p] \/ phase[j] = "running"
        /\ speaker' = [speaker EXCEPT ![p] = t]
        /\ said' = [said EXCEPT ![j] = @ \o text]
        /\ UNCHANGED <<phase, owed>>
    BY <1>4 DEF Go!Say
  <2>2. j \in Keys /\ j[1] = p /\ j[2] = t
    BY DEF Keys
  <2>3. phase[j] \notin {"new", "done"}
    BY <1>0, <2>1, <2>2
  <2>4. ASSUME NEW k \in Keys, speaker'[k[1]] = k[2] PROVE phase'[k] \notin {"new", "done"}
    <3>1. CASE k[1] = p
      <4>1. k[2] = t
        BY <1>0, <2>1, <2>4, <3>1
      <4>2. k = j
        BY <1>0, <3>1, <4>1
      <4> QED BY <2>1, <2>3, <4>2
    <3>2. CASE k[1] # p
      <4>1. speaker[k[1]] = k[2]
        BY <1>0, <2>1, <2>4, <3>2
      <4> QED BY <1>0, <2>1, <4>1
    <3> QED BY <3>1, <3>2
  <2>5. said[j] \o text \in Text
    BY <1>0, <2>2, ConcatProperties, Texted1 DEF Text
  <2>6. said' \in [Keys -> Text]
    BY <1>0, <2>1, <2>2, <2>5
  <2> QED BY <1>0, <2>1, <2>4, <2>6 DEF GoSays
<1> QED BY <1>1, <1>2, <1>3, <1>4

LEMMA GoStepSays == ASSUME PipeOK, GoSound, GoSays, Go!GoNext PROVE GoSays'
<1>1. CASE Go!EndOfStream
  BY <1>1 DEF Go!EndOfStream, GoSays
<1> QED BY <1>1, PackageSays, TestSays DEF Go!GoNext, Go!Keys, Keys

LEMMA FirstVoice ==
    ASSUME Go!GoInit, RunInit, NEW k \in Keys
    PROVE  /\ GoSays /\ DumpsTotal
           /\ \E v \in Voice : Heard(k, v) /\ Tells(k, v, stream, v) /\ Spoken(k, v)
<1>0. k[1] \in Pkgs /\ k[2] \in Names /\ k[2] # NoTest /\ Len(Panic) \in Nat
  BY RunAssumption, SessionAssumption, LenProperties DEF Keys
<1>1. /\ phase = [j \in Keys |-> "new"] /\ root = [p \in Pkgs |-> "new"]
      /\ speaker = [p \in Pkgs |-> NoTest]
      /\ said = [j \in Keys |-> <<>>] /\ owed = [j \in Keys |-> <<>>] /\ stream = <<>>
  BY DEF Go!GoInit, Go!Keys, Keys
<1>2. /\ DOMAIN spans = {} /\ lastSpan = 0 /\ dumps = [p \in Pkgs |-> NewDump] /\ out = <<>>
  BY DEF RunInit, EmptyMap
<1>3. PICK e \in Text : e = <<>>
  BY Texted1
<1> DEFINE v == [on |-> FALSE, over |-> FALSE, said |-> e, owed |-> e, pan |-> 0, who |-> NoTest,
                 kept |-> e]
<1>4. v \in Voice
  BY <1>0 DEF Voice
<1>5. v.on = FALSE /\ v.over = FALSE /\ v.said = e /\ v.owed = e /\ v.pan = 0 /\ v.kept = e
      /\ v.who = NoTest
  OBVIOUS
<1> HIDE DEF v
<1>6. GoSays
  <2>1. \A j \in Keys : speaker[j[1]] # j[2]
    BY <1>1, RunAssumption DEF Keys
  <2> QED BY <1>1, <2>1, Texted1 DEF GoSays
<1>7. DumpsTotal
  BY <1>2 DEF DumpsTotal
<1>8. ~Complete(0) /\ IsStrictPrefix(Joined(0), Signature) /\ Joined(0) = <<>>
  <2>1. IsPrefix(<<>>, Signature)
    <3>1. IsPrefix(e, Signature) <=> Len(e) <= Len(Signature) /\ \A i \in 1..Len(e) : e[i] = Signature[i]
      <4>1. e \in Seq(Lump) /\ Signature \in Seq(Lump)
        BY TheSignature DEF Text
      <4> QED BY <4>1, PrefixIs
    <3>2. Len(e) = 0
      BY <1>3
    <3>3. IsPrefix(e, Signature)
      BY <3>1, <3>2, TheSignature
    <3> QED BY <1>3, <3>3
  <2>2. <<>> # Signature
    <3>1. Len(<<>>) = 0
      OBVIOUS
    <3> QED BY <3>1, TheSignature
  <2>3. ~IsPrefix(Signature, e)
    <3>1. IsPrefix(Signature, e) => Len(Signature) <= Len(e)
      <4>1. e \in Seq(Lump) /\ Signature \in Seq(Lump)
        BY TheSignature DEF Text
      <4> QED BY <4>1, PrefixIs
    <3>2. Len(e) = 0
      BY <1>3
    <3> QED BY <3>1, <3>2, TheSignature
  <2>4. Joined(0) = <<>>
    BY JoinedStep
  <2> QED BY <1>3, <2>1, <2>2, <2>3, <2>4 DEF Complete, IsStrictPrefix
<1>9. Sound(v)
  BY <1>3, <1>4, <1>5, <1>8 DEF Sound
<1>10. HeardOn(k, v) /\ HeardBuffer(k, v)
  BY <1>2, <1>5 DEF HeardOn, HeardBuffer
<1>11. HeardOut(k, v)
  <2>1. Rows(out, k)
    <3>1. <<>> \in Seq({})
      OBVIOUS
    <3> QED BY <1>2, <3>1 DEF Rows
  <2>2. TextOf(out, k) = <<>>
    <3>1. [n \in DOMAIN out |-> Part(out[n], k)] = <<>>
      BY <1>2
    <3> QED BY <3>1, FlattenEmpty DEF TextOf
  <2> QED BY <1>3, <1>5, <2>1, <2>2 DEF HeardOut
<1>12. HeardDump(k, v)
  <2>1. Waits(NewDump, <<>>, NoTest)
    <3>1. NewDump.pending = <<>> /\ <<>> \in Text
      BY Texted1 DEF NewDump
    <3>2. Shaped(NewDump)
      BY <3>1 DEF Shaped, NewDump, Fields
    <3> QED BY <3>2 DEF Waits, NewDump
  <2> QED BY <1>0, <1>2, <1>3, <1>5, <1>8, <2>1 DEF HeardDump, Waiting
<1>13. HeardLog(k, v) /\ HeardStart(k, v)
  BY <1>2 DEF HeardLog, HeardStart
<1>14. Tells(k, v, stream, v)
  BY <1>1, <1>4, TellsNone
<1>15. Spoken(k, v)
  BY <1>0, <1>1, <1>3, <1>5 DEF Spoken, IsOn, Calm
<1> QED BY <1>4, <1>6, <1>7, <1>9, <1>10, <1>11, <1>12, <1>13, <1>14, <1>15 DEF Heard
----------------------------------------------------------------------------
\* Nothing is logged to a continuation.
ContinuesSilent == \A i \in 1..lastSpan : spanTab[i].kind = "continue" => logged[i] = <<>>

LEMMA SilentStep ==
    ASSUME RunInv, ContinuesSilent, NEW ev \in Event, Handle(ev)
    PROVE  ContinuesSilent'
<1>0. ev.pkg \in Pkgs /\ ev.test \in Names \cup {NoTest} /\ lastSpan \in Nat
  BY DEF Event, RunInv, RunTypeOK
<1>1. ShapesKept
  BY <1>0, HandleShapes
<1>2. CASE ev.action # "output"
  <2>1. CASE UNCHANGED lastSpan /\ UNCHANGED logged
    BY <1>1, <2>1 DEF ContinuesSilent, ShapesKept, SameShape
  <2>2. CASE Adding(ev)
    <3>1. /\ lastSpan' = lastSpan + 1 /\ logged'[lastSpan + 1] = <<>>
          /\ \A i \in 1..lastSpan : logged'[i] = logged[i]
      BY <2>2 DEF Adding
    <3>2. ASSUME NEW i \in 1..lastSpan', spanTab'[i].kind = "continue" PROVE logged'[i] = <<>>
      <4>1. CASE i = lastSpan + 1
        BY <3>1, <4>1
      <4>2. CASE i # lastSpan + 1
        <5>1. i \in 1..lastSpan
          BY <1>0, <3>1, <4>2
        <5> QED BY <1>1, <3>1, <3>2, <5>1 DEF ContinuesSilent, ShapesKept, SameShape
      <4> QED BY <4>1, <4>2
    <3> QED BY <3>2 DEF ContinuesSilent
  <2> QED BY <1>2, <2>1, <2>2, HandleAdds
<1>3. CASE ev.action = "output"
  <2> DEFINE p == ev.pkg
             t == ev.test
             x == ev.text
  <2>1. Output(p, t, x)
    BY <1>3 DEF Handle
  <2>2. UNCHANGED <<spanTab, lastSpan>>
    BY <2>1, Zenon DEF Output, OutputPlain, OutputDump
  <2>3. \/ logged' = LogTest(logged, p, t, x)
        \/ \E a, b : logged' = LogTest(LogPackage(logged, p, a), p, t, b)
    BY <2>1, OutputLogs
  <2>4. ASSUME NEW i \in 1..lastSpan, spanTab[i].kind = "continue" PROVE logged'[i] = logged[i]
    <3>1. PICK q, u : q = p /\ u = t
      OBVIOUS
    <3>2. \A l, j, txt : j # i => Log(l, j, txt)[i] = l[i]
      BY DEF Log
    <3>3. q \in DOMAIN pkgSpans => pkgSpans[q] # i
      BY <2>4 DEF RunInv, PackagesSound
    <3>4. <<q, u>> \in DOMAIN spans => spans[<<q, u>>].orig # i
      BY <2>4 DEF RunInv, EntriesSound
    <3>5. \A log, a, b : LogPackage(log, q, a)[i] = log[i] /\ LogTest(log, q, u, b)[i] = log[i]
      BY <3>2, <3>3, <3>4 DEF LogPackage, LogTest
    <3> QED BY <2>3, <3>1, <3>5
  <2> QED BY <2>2, <2>4 DEF ContinuesSilent
<1> QED BY <1>2, <1>3

LEMMA ReturnSilent == ASSUME RunInv, ContinuesSilent, Return PROVE ContinuesSilent'
<1>1. UNCHANGED <<lastSpan, logged>>
  BY DEF Return
<1>2. \A i \in 1..lastSpan : spanTab'[i].kind = spanTab[i].kind
  <2>1. PICK S : spanTab' = CloseStreams(spanTab, S)
    BY DEF Return
  <2>2. spanTab \in [1..lastSpan -> Span]
    BY DEF RunInv, RunTypeOK
  <2> QED BY <2>1, <2>2 DEF CloseStreams, Span
<1> QED BY <1>1, <1>2 DEF ContinuesSilent

----------------------------------------------------------------------------
(* A session.                                                              *)

\* What Run has heard of k, and what go test has said; between them, the pipe.
Between(k) == \E v, w \in Voice : Heard(k, v) /\ Tells(k, v, stream, w) /\ Spoken(k, w)

TalkInv == TraceInv /\ GoSays /\ DumpsTotal /\ ContinuesSilent /\ \A k \in Keys : Between(k)

LEMMA TalkInit == Init => TalkInv
<1> SUFFICES ASSUME Init PROVE TalkInv
  OBVIOUS
<1>1. TraceInv
  BY TraceInit
<1>2. Go!GoInit /\ RunInit
  BY DEF Init
<1>3. GoSays /\ DumpsTotal
  <2>1. Keys = {} => GoSays /\ DumpsTotal
    <3>1. dumps = [p \in Pkgs |-> NewDump]
      BY <1>2 DEF RunInit
    <3>2. said = [j \in Keys |-> <<>>] /\ owed = [j \in Keys |-> <<>>]
      BY <1>2 DEF Go!GoInit, Go!Keys, Keys
    <3>3. DumpsTotal
      BY <3>1 DEF DumpsTotal
    <3> QED BY <3>2, <3>3, Texted1 DEF GoSays
  <2>2. ASSUME NEW k \in Keys PROVE GoSays /\ DumpsTotal
    BY <1>2, FirstVoice
  <2> QED BY <2>1, <2>2
<1>4. ContinuesSilent
  BY <1>2 DEF ContinuesSilent, RunInit
<1>5. ASSUME NEW k \in Keys PROVE Between(k)
  BY <1>2, FirstVoice DEF Between
<1> QED BY <1>1, <1>3, <1>4, <1>5 DEF TalkInv

LEMMA AsideTalk ==
    ASSUME CloseRegistry \/ (\E k \in Keys : Ask(k) \/ Answered(k) \/ ClientTimeout(k))
             \/ (\E c \in Calls : Serve(c) \/ ServerTimeout(c))
    PROVE  UNCHANGED <<runVars, stream, phase, root, speaker, said, owed>>
BY DEF CloseRegistry, Ask, Answered, ClientTimeout, Serve, ServerTimeout, goVars

\* What Run leaves alone.
LEMMA RunTalkKept ==
    ASSUME DumpsTotal, ContinuesSilent, UNCHANGED runVars
    PROVE  DumpsTotal' /\ ContinuesSilent'
BY DEF runVars, DumpsTotal, ContinuesSilent

LEMMA GoTalkKept ==
    ASSUME GoSays, UNCHANGED <<phase, root, speaker, said, owed>>
    PROVE  GoSays' /\ \A k, w : Spoken(k, w) => Spoken(k, w)'
BY DEF GoSays, Spoken, IsOn

LEMMA TalkStep == ASSUME Orderly PROVE TalkInv /\ [Next]_vars => TalkInv'
<1> SUFFICES ASSUME TalkInv, [Next]_vars PROVE TalkInv'
  OBVIOUS
<1>0. /\ TraceInv /\ TraceInv' /\ GoSound /\ RunInv /\ PipeOK /\ GoSays /\ DumpsTotal
      /\ ContinuesSilent /\ stream \in Seq(Event)
  BY TraceStep DEF TalkInv, TraceInv, SessionInv, PipeOK
<1>1. ASSUME NEW k \in Keys PROVE \E v, w \in Voice : Heard(k, v) /\ Tells(k, v, stream, w) /\ Spoken(k, w)
  BY DEF TalkInv, Between
<1>2. EntriesLast
  <2>1. PICK v \in View : RunsSeen(v)
    BY <1>0 DEF TraceInv, InFlight, RunAt, Seen
  <2> QED BY <1>0, <2>1, EntriesAreLast
<1>3. CASE UNCHANGED <<runVars, stream, phase, root, speaker, said, owed>>
  <2>1. DumpsTotal' /\ ContinuesSilent' /\ GoSays' /\ \A k, w : Spoken(k, w) => Spoken(k, w)'
    BY <1>0, <1>3, RunTalkKept, GoTalkKept
  <2>2. ASSUME NEW k \in Keys PROVE Between(k)'
    <3>1. PICK v \in Voice, w \in Voice : Heard(k, v) /\ Tells(k, v, stream, w) /\ Spoken(k, w)
      BY <1>1
    <3>2. Heard(k, v)'
      BY <1>3, <3>1, HeardKept
    <3> QED BY <1>3, <2>1, <3>1, <3>2 DEF Between
  <2> QED BY <1>0, <2>1, <2>2 DEF TalkInv
<1>4. CASE GoStep
  <2>0. Go!GoNext /\ UNCHANGED runVars
    BY <1>4 DEF GoStep
  <2>1. DumpsTotal' /\ ContinuesSilent' /\ GoSays'
    BY <1>0, <2>0, RunTalkKept, GoStepSays
  <2>2. ASSUME NEW k \in Keys PROVE Between(k)'
    <3>1. PICK v \in Voice, w \in Voice : Heard(k, v) /\ Tells(k, v, stream, w) /\ Spoken(k, w)
      BY <1>1
    <3>2. Heard(k, v)'
      BY <2>0, <3>1, HeardKept
    <3>3. PICK x \in Voice : /\ Spoken(k, x)'
                             /\ \A u \in Voice : Tells(k, u, stream, w) => Tells(k, u, stream', x)
      BY <1>0, <2>0, <3>1, GoSpeaks DEF Speaks
    <3> QED BY <3>1, <3>2, <3>3 DEF Between
  <2> QED BY <1>0, <2>1, <2>2 DEF TalkInv
<1>5. CASE Consume
  <2>1. /\ stream # <<>> /\ stream' = Tail(stream)
        /\ Handle(Head(stream))
        /\ UNCHANGED <<phase, root, speaker, said, owed>>
    BY <1>5 DEF Consume, Read
  <2>2. PICK ev \in Event : ev = Head(stream)
    BY <1>0, <2>1, HeadTailProperties
  <2>3. Handle(ev)
    BY <2>1, <2>2
  <2>4. DumpsTotal' /\ ContinuesSilent' /\ GoSays' /\ \A k, w : Spoken(k, w) => Spoken(k, w)'
    BY <1>0, <2>1, <2>3, DumpsStep, SilentStep, GoTalkKept
  <2>5. ASSUME NEW k \in Keys PROVE Between(k)'
    <3>1. PICK v \in Voice, w \in Voice : Heard(k, v) /\ Tells(k, v, stream, w) /\ Spoken(k, w)
      BY <1>1
    <3>2. PICK s \in Seq(Event) : s = stream
      BY <1>0
    <3>3. PICK x \in Voice : Hear(k, v, Head(s), x) /\ Tells(k, x, Tail(s), w)
      BY <2>1, <3>1, <3>2, TellsTail
    <3>4. Heard(k, x)'
      BY <1>0, <1>2, <2>2, <2>3, <3>1, <3>2, <3>3, HandleHeard
    <3> QED BY <2>1, <2>4, <3>1, <3>2, <3>3, <3>4 DEF Between
  <2> QED BY <1>0, <2>4, <2>5 DEF TalkInv
<1>6. CASE RunEnds
  <2>1. Return /\ UNCHANGED <<stream, phase, root, speaker, said, owed>>
    BY <1>6 DEF RunEnds, goVars
  <2>2. DumpsTotal' /\ ContinuesSilent' /\ GoSays' /\ \A k, w : Spoken(k, w) => Spoken(k, w)'
    <3>1. DumpsTotal'
      BY <1>0, <2>1 DEF Return, DumpsTotal
    <3> QED BY <1>0, <2>1, <3>1, ReturnSilent, GoTalkKept
  <2>3. ASSUME NEW k \in Keys PROVE Between(k)'
    <3>1. PICK v \in Voice, w \in Voice : Heard(k, v) /\ Tells(k, v, stream, w) /\ Spoken(k, w)
      BY <1>1
    <3>2. Heard(k, v)'
      BY <1>0, <2>1, <3>1, ReturnHeard
    <3> QED BY <2>1, <2>2, <3>1, <3>2 DEF Between
  <2> QED BY <1>0, <2>2, <2>3 DEF TalkInv
<1>7. CASE UNCHANGED vars
  BY <1>3, <1>7 DEF vars, goVars
<1> QED BY <1>3, <1>4, <1>5, <1>6, <1>7, AsideTalk DEF Next

LEMMA TalkInvariant == ASSUME Orderly PROVE Spec => []TalkInv
BY TalkInit, TalkStep, PTL DEF Spec
----------------------------------------------------------------------------
LEMMA NthGrows ==
    ASSUME RunInv, NEW k, NEW i \in 1..lastSpan, NEW j \in 1..lastSpan, i < j,
           Of(spanTab, j, k), spanTab[j].kind = "test"
    PROVE  Nth(k, i) < Nth(k, j)
<1>0. lastSpan \in Nat
  BY DEF RunInv, RunTypeOK
<1>1. IsFiniteSet(TestSpans(k, j))
  <2>1. IsFiniteSet(1..j)
    BY <1>0, FS_Interval
  <2>2. TestSpans(k, j) \in SUBSET (1..j)
    BY DEF TestSpans
  <2> QED BY <2>1, <2>2, FS_Subset
<1>2. TestSpans(k, i) \in SUBSET TestSpans(k, j) /\ TestSpans(k, i) # TestSpans(k, j)
  <2>1. TestSpans(k, i) \subseteq TestSpans(k, j)
    BY <1>0 DEF TestSpans
  <2>2. j \in TestSpans(k, j) /\ j \notin TestSpans(k, i)
    BY <1>0 DEF TestSpans
  <2> QED BY <2>1, <2>2
<1> DEFINE a == TestSpans(k, i)
           b == TestSpans(k, j)
<1>3. a \in SUBSET b /\ a # b /\ IsFiniteSet(b)
  BY <1>1, <1>2
<1> HIDE DEF a, b
<1>4. Cardinality(a) \in Nat /\ Cardinality(b) \in Nat /\ Cardinality(a) < Cardinality(b)
  BY <1>3, FS_Subset, FS_CardinalityType
<1> QED BY <1>4 DEF Nth, a, b

\* A voice that the package's result has ended is the last one.
LEMMA SettledHeard ==
    ASSUME TalkInv, NEW k \in Keys, Settled(k[1])
    PROVE  \E v \in Voice : Heard(k, v) /\ v.over /\ v.said = said[k] /\ v.owed = owed[k]
<1>0. RunInv /\ TraceInv /\ stream \in Seq(Event)
  BY DEF TalkInv, TraceInv, SessionInv, PipeOK
<1>1. PICK u \in View : Seen(u)
  BY <1>0 DEF TraceInv, InFlight, RunAt
<1>2. PICK j \in 1..lastSpan : /\ spanTab[j].kind = "package" /\ spanTab[j].pkg = k[1]
                               /\ spanTab[j].ends > 0
  BY DEF Settled
<1>3. k[1] \notin DOMAIN pkgSpans
  <2>1. u.pkg[k[1]] \in Verdicts /\ k[1] \in Pkgs
    BY <1>0, <1>1, <1>2, SettledOver DEF Keys
  <2> QED BY <1>1, <2>1 DEF Seen, Tables, Verdicts
<1>4. PICK v \in Voice, w \in Voice : Heard(k, v) /\ Tells(k, v, stream, w) /\ Spoken(k, w)
  BY DEF TalkInv, Between
<1>5. v.over
  BY <1>2, <1>3, <1>4 DEF Heard, HeardStart
<1>6. w = v
  <2>1. PICK s \in Seq(Event) : s = stream
    BY <1>0
  <2> QED BY <1>4, <1>5, <2>1, TellsOver
<1> QED BY <1>4, <1>5, <1>6 DEF Spoken

\* In every session without -v, with any panic written in any fragments
\* between the lines of any tests, what is printed of a test are the outputs of
\* its runs that failed or were cut off, each once and in order (gotest.go:
\* 368-405, 616-639).
THEOREM SessionFailures == ASSUME Orderly, BufferOutput PROVE Spec => []FailuresPrinted
<1>1. TalkInv => FailuresPrinted
  <2> SUFFICES ASSUME TalkInv, NEW k \in Keys, Settled(k[1])
               PROVE  Texted({"buffered", "unfinished"}, k) = owed[k]
    BY DEF FailuresPrinted
  <2>1. PICK v \in Voice : Heard(k, v) /\ v.owed = owed[k]
    BY SettledHeard
  <2>2. TextOf(out, k) = v.owed
    BY <2>1 DEF Heard, HeardOut
  <2> QED BY <2>1, <2>2, TextOfIs
<1> QED BY <1>1, TalkInvariant, PTL

\* In every such session the span of a test's last run has all that the run
\* said in its log, and at most the start of a panic after it; a continuation
\* has nothing (gotest.go:368-390, 540-550).
THEOREM SessionLogs == ASSUME Orderly, WithLogs PROVE Spec => []LogsWhole
<1>1. TalkInv => LogsWhole
  <2> SUFFICES ASSUME TalkInv, NEW i \in 1..lastSpan
               PROVE  LET k == <<spanTab[i].pkg, spanTab[i].test>>
                          log == FlattenSeq(logged[i])
                          rest == SubSeq(log, Len(said[k]) + 1, Len(log))
                      IN  /\ spanTab[i].kind = "continue" => log = <<>>
                          /\ spanTab[i].kind = "test" /\ Settled(k[1])
                               /\ RunOf(i) = Len(begun[k]) =>
                               IsPrefix(said[k], log) /\ IsStrictPrefix(rest, Signature)
    BY DEF LogsWhole
  <2>0. RunInv /\ TraceInv /\ stream \in Seq(Event) /\ ContinuesSilent
    BY DEF TalkInv, TraceInv, SessionInv, PipeOK
  <2>1. spanTab[i].kind = "continue" => FlattenSeq(logged[i]) = <<>>
    BY <2>0, FlattenEmpty DEF ContinuesSilent
  <2>2. ASSUME NEW k, k = <<spanTab[i].pkg, spanTab[i].test>>, spanTab[i].kind = "test",
               Settled(k[1]), RunOf(i) = Len(begun[k]), NEW log, log = FlattenSeq(logged[i])
        PROVE  /\ IsPrefix(said[k], log)
               /\ IsStrictPrefix(SubSeq(log, Len(said[k]) + 1, Len(log)), Signature)
    <3>1. PICK v \in View, w \in View : Seen(v) /\ Sent(w) /\ Leads(v, stream, w)
      BY <2>0 DEF TraceInv, InFlight, RunAt
    <3>2. /\ k \in Keys /\ Of(spanTab, i, k) /\ RunOf(i) = Nth(k, i)
      BY <2>0, <2>2, <3>1, SpanOfTest
    <3>3. v.pkg[k[1]] \in Verdicts /\ k[1] \in Pkgs
      <4>1. PICK j \in 1..lastSpan : /\ spanTab[j].kind = "package" /\ spanTab[j].pkg = k[1]
                                     /\ spanTab[j].ends > 0
        BY <2>2 DEF Settled
      <4> QED BY <2>0, <3>1, <3>2, <4>1, SettledOver DEF Keys
    <3>4. v.begun[k] = begun[k]
      <4>1. After(v, w) /\ k \in Tests(k[1])
        BY <2>0, <3>1, <3>2, LeadsAfter DEF Tests
      <4>2. w.begun[k] = v.begun[k]
        BY <3>3, <4>1 DEF After
      <4> QED BY <3>1, <3>2, <4>2 DEF Sent
    <3>5. LastOf(k, i)
      <4> SUFFICES ASSUME NEW j \in 1..lastSpan, spanTab[j].kind = "test", Of(spanTab, j, k), ~(j <= i)
                   PROVE  FALSE
        BY <2>2, <3>2 DEF LastOf
      <4>1. i < j /\ i \in Nat /\ j \in Nat
        BY <2>0, SpanTyped
      <4>2. Nth(k, i) < Nth(k, j)
        BY <2>0, <4>1, NthGrows
      <4>3. Nth(k, i) \in Nat /\ Nth(k, j) \in Nat /\ Nth(k, j) <= Len(v.begun[k])
        BY <2>0, <3>1, <3>2, NthInRuns DEF Seen
      <4>4. PICK b : b = Len(begun[k])
        OBVIOUS
      <4>5. PICK c : c = Len(v.begun[k])
        OBVIOUS
      <4>6. b = c
        BY ONLY <3>4, <4>4, <4>5
      <4>7. Nth(k, i) = b
        BY ONLY <2>2, <3>2, <4>4
      <4>8. Nth(k, j) <= c
        BY ONLY <4>3, <4>5
      <4> QED BY ONLY <4>2, <4>3, <4>6, <4>7, <4>8
    <3>6. PICK u \in Voice : Heard(k, u) /\ u.said = said[k]
      BY <2>2, <3>2, SettledHeard
    <3>7. log = Logs(k, u) /\ Sound(u)
      BY <2>2, <3>5, <3>6 DEF Heard, HeardLog
    <3> DEFINE y == IF u.who # k[2] THEN <<>> ELSE u.kept
    <3>8. u.said \in Text /\ u.kept \in Text /\ IsStrictPrefix(u.kept, Signature) /\ y \in Text
      BY <3>7, VoiceIs, Texted1 DEF Sound
    <3>9. IsStrictPrefix(y, Signature)
      <4>1. IsStrictPrefix(<<>>, Signature)
        <5>1. Complete(0) => FALSE
          BY SessionAssumption, LenProperties, Fragments
        <5>2. ~Complete(0) => IsStrictPrefix(Joined(0), Signature)
          BY SessionAssumption, LenProperties, Fragments
        <5> QED BY <5>1, <5>2, JoinedStep
      <4> QED BY <3>8, <4>1
    <3>10. log = u.said \o y
      BY <3>7 DEF Logs
    <3> HIDE DEF y
    <3>11. IsPrefix(said[k], log)
      BY <3>6, <3>8, <3>10, PrefixFacts
    <3>12. SubSeq(log, Len(said[k]) + 1, Len(log)) = y
      <4>1. /\ log \in Seq(Lump) /\ Len(log) = Len(u.said) + Len(y)
            /\ \A m \in 1..Len(u.said) + Len(y) :
                 log[m] = IF m <= Len(u.said) THEN u.said[m] ELSE y[m - Len(u.said)]
            /\ y \in Seq(Lump) /\ Len(u.said) \in Nat /\ Len(y) \in Nat
        BY <3>8, <3>10, ConcatProperties, LenProperties DEF Text
      <4> DEFINE a == Len(u.said) + 1
                 z == SubSeq(log, a, Len(log))
      <4>2. a \in Int /\ Len(log) \in Int /\ \A m \in a..Len(log) : log[m] \in Lump
        BY <4>1, ElementOfSeq
      <4>a. a = Len(u.said) + 1
        OBVIOUS
      <4> HIDE DEF a
      <4>3. /\ z \in Seq(Lump) /\ Len(z) = (IF a <= Len(log) THEN Len(log) - a + 1 ELSE 0)
            /\ \A m \in 1..Len(log) - a + 1 : z[m] = log[a + m - 1]
        BY <4>2, SubSeqProperties
      <4> HIDE DEF z
      <4>4. Len(z) = Len(y)
        BY <4>1, <4>3, <4>a
      <4>5. ASSUME NEW m \in 1..Len(y) PROVE z[m] = y[m]
        <5> DEFINE n == a + m - 1
        <5>1. /\ m \in 1..Len(log) - a + 1 /\ n \in 1..Len(u.said) + Len(y)
              /\ ~(n <= Len(u.said)) /\ n - Len(u.said) = m
          BY <4>1, <4>a
        <5>2. z[m] = log[n]
          BY <4>3, <5>1
        <5> HIDE DEF n
        <5> QED BY <4>1, <5>1, <5>2
      <4>6. z = y
        BY <4>1, <4>3, <4>4, <4>5, SeqEqual
      <4> QED BY <3>6, <4>6, <4>a DEF z
    <3> QED BY <3>9, <3>11, <3>12
  <2> QED BY <2>1, <2>2
<1> QED BY <1>1, TalkInvariant, PTL
============================================================================
