------------------------ MODULE TestTracingProofs -------------------------
(***************************************************************************)
(* What the spans say of tests and functions, for every tree of tests,     *)
(* every program and every form of message. A verdict may change while a   *)
(* test lasts, and with it those of the tests that enclose it; TracingInv  *)
(* says that these last as long (Family), that what was remembered when a  *)
(* function returned is what was true then (ReturnsOnce), and that a       *)
(* function's span is open just while one test is in it (Stack).           *)
(***************************************************************************)
EXTENDS TestTracing, TLAPS

\* A sequence of whatever it holds, a frame and a span with all their fields.
IsSeq(s) == s \in Seq({s[i] : i \in DOMAIN s})
IsFrame(r) == r = [fn |-> r.fn, errs |-> r.errs]
IsSpan(s) ==
    /\ s = [parent |-> s.parent, links |-> s.links, status |-> s.status, desc |-> s.desc,
            end |-> s.end, ends |-> s.ends]
    /\ s.ends \in Nat

Phases == {"new", "body", "parked", "returned", "describing", "ended", "done"}

Typed ==
    /\ closed \in BOOLEAN /\ phase \in [Tests -> Phases] /\ adopted \subseteq Tests
    /\ span = [s \in Tests \cup Functions |-> span[s]]
    /\ \A s \in Tests \cup Functions : IsSpan(span[s])
    /\ snapshot = [t \in Tests |-> snapshot[t]]
    /\ IsSeq(returns)
    /\ frames = [t \in Tests |-> frames[t]]
    /\ \A t \in Tests : IsSeq(frames[t]) /\ \A i \in DOMAIN frames[t] : IsFrame(frames[t][i])

\* A test starts and ends while its parent test has not ended.
Family ==
    \A t \in Tests : ParentTest[t] # Main =>
        /\ phase[t] # "new" => phase[ParentTest[t]] # "new"
        /\ Unfinished(t) => phase[ParentTest[t]] \in {"body", "parked", "returned"}

\* What is over stays so: nothing starts when Main has called Close.
Closed == closed => \A t \in Tests : phase[t] \in {"new", "done"}

SpanOver(t) == phase[t] \in {"ended", "done"}
OwnSpans ==
    \A t \in Tests :
        /\ t \in adopted => phase[t] # "new"
        /\ Started(t) <=> phase[t] # "new" /\ t \notin adopted
        /\ Started(t) => /\ span[t].ends = IF SpanOver(t) THEN 1 ELSE 0
                         /\ span[t].parent = Inherited(t)

\* A function returns once, and what is remembered of it is what it was then.
Over(t) == phase[t] \in {"returned", "describing", "ended", "done"}
ReturnsOnce ==
    /\ \A i, j \in DOMAIN returns : returns[i].test = returns[j].test => i = j
    /\ \A i \in DOMAIN returns : returns[i].test \in Tests /\ Over(returns[i].test)
    /\ \A t \in Tests \ adopted : \A i \in DOMAIN returns :
         returns[i].test = t => snapshot[t].end = i /\ snapshot[t].err = returns[i].err
    /\ \A t \in Tests : Over(t) => \E i \in DOMAIN returns : returns[i].test = t

Blamed(t) == (t \in failed /\ t \notin late) \/ snapshot[t].err # ""
Blames(t, status) == (status = "error") <=> Blamed(t)
VerdictOf(t) ==
    /\ phase[t] = "describing" => t \in failed /\ t \notin adopted /\ snapshot[t].err = ""
    /\ phase[t] = "ended" => t \notin adopted
    /\ t \in late => SpanOver(t) /\ t \in failed
    /\ SpanOver(t) /\ t \notin adopted => span[t].end = snapshot[t].end /\ Blames(t, span[t].status)
Verdict == \A t \in Tests : VerdictOf(t)

\* The spans of functions are open while a test is in them, and one test is.
InCall(t) == 2..Len(frames[t])
Stack ==
    /\ \A t \in Tests :
         /\ Len(frames[t]) >= 1 /\ frames[t][1].fn = t
         /\ Len(frames[t]) > 1 => phase[t] \in {"body", "parked"}
         /\ \A i \in InCall(t) : /\ frames[t][i].fn \in Functions
                                 /\ Started(frames[t][i].fn) /\ span[frames[t][i].fn].ends = 0
    /\ \A t, u \in Tests : \A i \in InCall(t), j \in InCall(u) :
         frames[t][i].fn = frames[u][j].fn => t = u /\ i = j
    /\ \A f \in Functions : Started(f) /\ span[f].ends # 1 =>
         \E t \in Tests : \E i \in InCall(t) : frames[t][i].fn = f

TracingInv == Typed /\ Family /\ Closed /\ OwnSpans /\ ReturnsOnce /\ Verdict /\ Stack

-----------------------------------------------------------------------------
(* Records, sequences and enclosing tests.                                 *)

\* A span that was started is recognised by its parent.
LEMMA HasParent ==
    /\ \A a, b : <<a, b>> # <<>>
    /\ \A r : r.parent # <<>> => r # NoSpan
<1>1. \A a, b : <<a, b>> # <<>>
  OBVIOUS
<1>2. NoSpan.parent = <<>>
  BY DEF NoSpan
<1> QED BY <1>1, <1>2

LEMMA InheritedSome == \A t \in Tests : Inherited(t) # <<>>
BY HasParent DEF Inherited, InContext

LEMMA OneSeq ==
    \A e : IsSeq(<<e>>) /\ Len(<<e>>) = 1 /\ DOMAIN <<e>> = 1..1 /\ <<e>>[1] = e
<1> TAKE e
<1>1. PICK s : s = <<e>>
  OBVIOUS
<1>2. s \in Seq({e}) /\ Len(s) = 1 /\ DOMAIN s = 1..1 /\ s[1] = e
  BY <1>1
<1>3. {s[i] : i \in DOMAIN s} = {e}
  BY <1>2
<1> QED BY <1>1, <1>2, <1>3 DEF IsSeq

LEMMA AppendedSeq ==
    ASSUME NEW s, IsSeq(s), NEW e
    PROVE  /\ IsSeq(Append(s, e)) /\ Len(s) \in Nat
           /\ DOMAIN s = 1..Len(s) /\ DOMAIN Append(s, e) = 1..(Len(s) + 1)
           /\ Len(Append(s, e)) = Len(s) + 1
           /\ Append(s, e)[Len(s) + 1] = e
           /\ \A i \in 1..Len(s) : Append(s, e)[i] = s[i]
<1> DEFINE S == {s[i] : i \in DOMAIN s} \cup {e}
           new == Append(s, e)
<1>1. s \in Seq(S)
  BY DEF IsSeq
<1>2. new \in Seq(S) /\ Len(new) = Len(s) + 1 /\ new[Len(s) + 1] = e
      /\ \A i \in 1..Len(s) : new[i] = s[i]
  BY <1>1
<1>3. DOMAIN s = 1..Len(s) /\ DOMAIN new = 1..(Len(s) + 1) /\ Len(s) \in Nat
  BY <1>1, <1>2
<1>4. S = {new[i] : i \in DOMAIN new}
  BY <1>2, <1>3
<1> QED BY <1>2, <1>3, <1>4 DEF IsSeq

LEMMA FrontSeq ==
    ASSUME NEW s, IsSeq(s), Len(s) > 1
    PROVE  /\ IsSeq(Front(s)) /\ Len(Front(s)) = Len(s) - 1 /\ Len(s) \in Nat
           /\ DOMAIN s = 1..Len(s) /\ DOMAIN Front(s) = 1..(Len(s) - 1)
           /\ \A i \in 1..(Len(s) - 1) : Front(s)[i] = s[i]
<1> DEFINE new == Front(s)
<1>1. s \in Seq({s[i] : i \in DOMAIN s})
  BY DEF IsSeq
<1>2. DOMAIN s = 1..Len(s) /\ Len(s) \in Nat
  BY <1>1
<1>8. PICK l \in Nat : l = Len(s)
  BY <1>2
<1>9. l - 1 \in Nat
  BY <1>8
<1>3. PICK n \in Nat : n = Len(s) - 1
  BY <1>8, <1>9
<1>4. new = SubSeq(s, 1, n)
  BY <1>3 DEF Front
<1>5. /\ Len(new) = n /\ DOMAIN new = 1..n
      /\ \A i \in 1..n : new[i] = s[i]
  BY <1>1, <1>2, <1>3, <1>4
<1>6. new = [i \in 1..n |-> new[i]]
  BY <1>1, <1>2, <1>3, <1>4
<1>7. new \in Seq({new[i] : i \in DOMAIN new})
  BY <1>5, <1>6, <1>3
<1> QED BY <1>2, <1>3, <1>5, <1>7 DEF IsSeq

\* Whoever a failure reaches lasts, too.
LEMMA AncestorsAmong ==
    ASSUME NEW t \in Tests, NEW S \in SUBSET Tests, t \in S, UpClosed(S)
    PROVE  WithAncestors(t) \subseteq S
BY DEF WithAncestors

LEMMA AncestorsUnfinished ==
    ASSUME TreeAssumption, Typed, Family, NEW t \in Tests, Unfinished(t)
    PROVE  \A a \in WithAncestors(t) : a \in Tests /\ Unfinished(a) /\ (a = t \/ ~SpanOver(a))
<1> DEFINE S == {a \in Tests : Unfinished(a) /\ (a = t \/ ~SpanOver(a))}
<1>1. UpClosed(S)
  BY DEF UpClosed, TreeAssumption, Family, Unfinished, SpanOver
<1> QED BY <1>1, AncestorsAmong

-----------------------------------------------------------------------------
(* The invariant, one action at a time.                                    *)

LEMMA TracingInit == TreeAssumption /\ Init => TracingInv
<1> SUFFICES ASSUME TreeAssumption, Init PROVE TracingInv
  OBVIOUS
<1>1. PICK n : n = NoSpan
  OBVIOUS
<1>2. IsSpan(n)
  BY <1>1 DEF IsSpan, NoSpan
<1>3. \A s \in Tests \cup Functions : span[s] = n
  BY <1>1 DEF Init
<1>4. \A t \in Tests : /\ Len(frames[t]) = 1 /\ DOMAIN frames[t] = 1..1
                       /\ frames[t][1] = Frame(t) /\ IsSeq(frames[t])
  <2> TAKE t \in Tests
  <2>1. PICK e : e = Frame(t)
    OBVIOUS
  <2>2. frames[t] = <<e>>
    BY <2>1 DEF Init
  <2>3. IsSeq(<<e>>) /\ Len(<<e>>) = 1 /\ DOMAIN <<e>> = 1..1 /\ <<e>>[1] = e
    BY OneSeq
  <2> QED BY <2>1, <2>2, <2>3
<1>5. \A t : IsFrame(Frame(t)) /\ Frame(t).fn = t
  BY DEF Frame, IsFrame
<1>6. Typed
  <2>1. span = [s \in Tests \cup Functions |-> span[s]] /\ \A s \in Tests \cup Functions : IsSpan(span[s])
    BY <1>2, <1>3 DEF Init
  <2>2. snapshot = [t \in Tests |-> snapshot[t]] /\ frames = [t \in Tests |-> frames[t]]
    BY DEF Init
  <2>3. IsSeq(returns)
    <3>3. returns = <<>>
      BY DEF Init
    <3>1. ASSUME NEW S PROVE returns \in Seq(S)
      BY <3>3
    <3>2. returns \in Seq({returns[i] : i \in DOMAIN returns})
      BY <3>1
    <3> QED BY <3>2 DEF IsSeq
  <2>4. \A t \in Tests : \A i \in DOMAIN frames[t] : IsFrame(frames[t][i])
    BY <1>4, <1>5
  <2>5. closed \in BOOLEAN /\ phase \in [Tests -> Phases] /\ adopted \subseteq Tests
    BY DEF Init, Phases
  <2> QED BY <2>1, <2>2, <2>3, <2>4, <2>5, <1>4 DEF Typed
<1>7. Family /\ Closed /\ Verdict
  BY DEF Init, Family, Closed, Verdict, VerdictOf, Blames, Unfinished, SpanOver, TreeAssumption
<1>8. OwnSpans
  BY <1>1, <1>3 DEF OwnSpans, SpanOver, Started, Init
<1>9. ReturnsOnce
  <2>1. returns = <<>> /\ \A t \in Tests : ~Over(t)
    BY DEF Init, Over
  <2>2. DOMAIN returns = {}
    BY <2>1
  <2> QED BY <2>1, <2>2 DEF ReturnsOnce
<1>10. Stack
  <2>1. \A t \in Tests : InCall(t) = {}
    <3>1. 2..1 = {}
      OBVIOUS
    <3> QED BY <1>4, <3>1 DEF InCall
  <2>2. \A s \in Tests \cup Functions : ~Started(s)
    BY <1>1, <1>3 DEF Started
  <2>3. \A t \in Tests : Len(frames[t]) = 1 /\ frames[t][1].fn = t
    BY <1>4, <1>5
  <2>4. 1 >= 1 /\ ~(1 > 1)
    OBVIOUS
  <2> QED BY <2>1, <2>2, <2>3, <2>4 DEF Stack
<1> QED BY <1>6, <1>7, <1>8, <1>9, <1>10 DEF TracingInv

\* The verdicts on a test change while it lasts, its parent tests' too; only a
\* helper fails it when its span has ended.
Failing(t) ==
    /\ Unfinished(t) /\ failed' = FailedBy(t)
    /\ late' = IF phase[t] = "ended" /\ t \notin failed THEN late \cup {t} ELSE late

LEMMA OnlyFails ==
    ASSUME TreeAssumption, TracingInv,
           UNCHANGED <<closed, phase, adopted, span, snapshot, returns, frames>>,
           \/ UNCHANGED <<failed, late>>
           \/ \E t \in Tests : Failing(t)
    PROVE  TracingInv'
<1>1. Typed' /\ Family' /\ Closed' /\ OwnSpans' /\ ReturnsOnce' /\ Stack'
  <2>1. Typed'
    BY DEF TracingInv, Typed
  <2>2. Family' /\ Closed'
    BY DEF TracingInv, Family, Closed, Unfinished
  <2>3. OwnSpans'
    BY DEF TracingInv, OwnSpans, SpanOver, Started, Inherited, InContext
  <2>4. ReturnsOnce'
    BY DEF TracingInv, ReturnsOnce, Over
  <2>5. Stack'
    BY DEF TracingInv, Stack, InCall, Started
  <2> QED BY <2>1, <2>2, <2>3, <2>4, <2>5
<1>2. Verdict'
  <2>1. CASE UNCHANGED <<failed, late>>
    BY <2>1 DEF TracingInv, Verdict, VerdictOf, Blames, SpanOver, Blamed
  <2>2. CASE \E t \in Tests : Failing(t)
    <3>1. PICK t \in Tests : Failing(t)
      BY <2>2
    <3>2. \A u \in Tests :
            /\ (u \in failed => u \in failed')
            /\ (u # t /\ SpanOver(u) => (u \in failed' <=> u \in failed))
            /\ (u # t => (u \in late' <=> u \in late))
      BY <3>1, AncestorsUnfinished DEF TracingInv, Failing, FailedBy, Unfinished, SpanOver
    <3>3. t \in failed' /\ (t \in late' => t \in late \/ (t \notin failed /\ SpanOver(t)))
      BY <3>1 DEF Failing, FailedBy, WithAncestors, SpanOver
    <3>4. SpanOver(t) => (t \in failed' /\ t \notin late' <=> t \in failed /\ t \notin late)
      BY <3>1, <3>3 DEF Failing, SpanOver, Unfinished, TracingInv, Verdict, VerdictOf, Blames
    <3> QED BY <3>2, <3>3, <3>4 DEF TracingInv, Verdict, VerdictOf, Blames, SpanOver, Blamed
  <2> QED BY <2>1, <2>2
<1> QED BY <1>1, <1>2 DEF TracingInv

LEMMA VerdictKept ==
    ASSUME NEW t, VerdictOf(t), UNCHANGED <<phase[t], span[t], snapshot[t], adopted, failed, late>>
    PROVE  VerdictOf(t)'
<1>1. (Blamed(t)' <=> Blamed(t)) /\ (SpanOver(t)' <=> SpanOver(t))
  BY DEF Blamed, SpanOver
<1> QED BY <1>1 DEF VerdictOf, Blames

LEMMA StackKept ==
    ASSUME Stack, frames' = frames, \A f \in Functions : span'[f] = span[f],
           \A t \in Tests : Len(frames[t]) > 1 => phase'[t] \in {"body", "parked"}
    PROVE  Stack'
<1>1. \A t : InCall(t)' = InCall(t)
  BY DEF InCall
<1>2. \A f \in Functions : Started(f)' <=> Started(f)
  BY DEF Started
<1> QED BY <1>1, <1>2 DEF Stack

LEMMA AdoptStep ==
    ASSUME TreeAssumption, TracingInv, NEW t \in Tests, Adopt(t)
    PROVE  TracingInv'
<1> USE DEF TracingInv
<1>1. /\ phase[t] = "new" /\ ~closed
      /\ phase' = [phase EXCEPT ![t] = "body"] /\ adopted' = adopted \cup {t}
      /\ UNCHANGED <<closed, span, snapshot, returns, frames, failed, late>>
  BY DEF Adopt, MayRun, verdicts
<1>2. ParentTest[t] # Main => phase[ParentTest[t]] = "body"
  BY DEF Adopt, MayRun, Free
<1>3. ~Started(t)
  BY <1>1 DEF OwnSpans
<1>4. Typed'
  BY <1>1 DEF Typed, Phases
<1>5. phase'[t] = "body" /\ \A u \in Tests : u # t => phase'[u] = phase[u]
  BY <1>1 DEF Typed
<1>6. Family'
  BY <1>1, <1>2, <1>5 DEF Family, Unfinished, TreeAssumption
<1>7. Closed'
  BY <1>1 DEF Closed
<1>8. OwnSpans'
  <2>1. \A u \in Tests : phase[u] # "new" => Inherited(u)' = Inherited(u)
    BY <1>1 DEF Inherited, InContext, Family
  <2> QED BY <1>1, <1>3, <1>5, <2>1 DEF OwnSpans, SpanOver, Started
<1>9. ReturnsOnce'
  BY <1>1, <1>5 DEF ReturnsOnce, Over
<1>10. Verdict'
  BY <1>1, <1>5 DEF Verdict, VerdictOf, Blames, SpanOver, Blamed
<1>11. Stack'
  <2>1. \A u \in Tests : Len(frames[u]) > 1 => phase'[u] \in {"body", "parked"}
    BY <1>1, <1>5 DEF Stack
  <2>2. frames' = frames /\ span' = span
    BY <1>1, <1>5
  <2> QED BY <2>1, <2>2, StackKept
<1> QED BY <1>4, <1>6, <1>7, <1>8, <1>9, <1>10, <1>11

LEMMA StartOwnStep ==
    ASSUME TreeAssumption, TracingInv, NEW t \in Tests, StartOwn(t)
    PROVE  TracingInv'
<1> USE DEF TracingInv
<1>1. PICK l : span' = [span EXCEPT ![t] = [NoSpan EXCEPT !.parent = Inherited(t), !.links = l]]
  BY DEF StartOwn
<1>2. PICK r : r = [NoSpan EXCEPT !.parent = Inherited(t), !.links = l]
  OBVIOUS
<1>3. IsSpan(r) /\ r.parent = Inherited(t) /\ r.ends = 0 /\ r # NoSpan
  <2>1. PICK p : p = Inherited(t)
    OBVIOUS
  <2>2. r = [NoSpan EXCEPT !.parent = p, !.links = l]
    BY <1>2, <2>1
  <2>4. PICK n : n = NoSpan
    OBVIOUS
  <2>5. PICK u : u = [n EXCEPT !.parent = p]
    OBVIOUS
  <2>6. r = [u EXCEPT !.links = l]
    BY <2>2, <2>4, <2>5
  <2>7. IsSpan(n) /\ n.ends = 0
    BY <2>4 DEF IsSpan, NoSpan
  <2>8. IsSpan(u) /\ u.parent = p /\ u.ends = 0
    BY <2>5, <2>7 DEF IsSpan
  <2>3. IsSpan(r) /\ r.parent = p /\ r.ends = 0
    BY <2>6, <2>8 DEF IsSpan
  <2> QED BY <2>1, <2>3, InheritedSome, HasParent
<1>4. /\ phase[t] = "new" /\ ~closed
      /\ phase' = [phase EXCEPT ![t] = "body"]
      /\ UNCHANGED <<closed, adopted, snapshot, returns, frames, failed, late>>
  BY DEF StartOwn, MayRun, verdicts
<1>5. ParentTest[t] # Main => phase[ParentTest[t]] = "body"
  BY DEF StartOwn, MayRun, Free
<1>6. phase'[t] = "body" /\ \A u \in Tests : u # t => phase'[u] = phase[u]
  BY <1>4 DEF Typed
<1>7. span'[t] = r /\ \A s \in Tests \cup Functions : s # t => span'[s] = span[s]
  BY <1>1, <1>2 DEF Typed
<1>8. Typed'
  <2>1. /\ span' = [s \in Tests \cup Functions |-> span'[s]]
        /\ \A s \in Tests \cup Functions : IsSpan(span'[s])
    BY <1>1, <1>3, <1>7 DEF Typed
  <2> QED BY <1>4, <2>1 DEF Typed, Phases
<1>9. Family'
  BY <1>5, <1>6 DEF Family, Unfinished, TreeAssumption
<1>10. Closed'
  BY <1>4 DEF Closed
<1>11. OwnSpans'
  <2>1. \A u \in Tests : Inherited(u)' = Inherited(u)
    BY <1>4 DEF Inherited, InContext
  <2>2. t \notin adopted
    BY <1>4 DEF OwnSpans
  <2> QED BY <1>3, <1>4, <1>6, <1>7, <2>1, <2>2 DEF OwnSpans, SpanOver, Started
<1>12. ReturnsOnce'
  BY <1>4, <1>6 DEF ReturnsOnce, Over
<1>13. Verdict'
  <2>1. VerdictOf(t)'
    BY <1>4, <1>6 DEF Verdict, VerdictOf, SpanOver
  <2>2. ASSUME NEW u \in Tests, u # t PROVE VerdictOf(u)'
    BY <1>4, <1>6, <1>7, <2>2, VerdictKept DEF Verdict
  <2> QED BY <2>1, <2>2 DEF Verdict
<1>14. Stack'
  <2>1. \A f \in Functions : span'[f] = span[f]
    BY <1>7 DEF TreeAssumption
  <2>2. \A u \in Tests : Len(frames[u]) > 1 => phase'[u] \in {"body", "parked"}
    BY <1>4, <1>6 DEF Stack
  <2>3. frames' = frames
    BY <1>4
  <2> QED BY <2>1, <2>2, <2>3, StackKept
<1> QED BY <1>8, <1>9, <1>10, <1>11, <1>12, <1>13, <1>14

\* A step between two phases in which a test lasts.
LEMMA LastsStep ==
    ASSUME TreeAssumption, TracingInv, NEW t \in Tests, NEW next \in {"body", "parked"},
           phase[t] \in {"body", "parked"}, phase' = [phase EXCEPT ![t] = next],
           UNCHANGED <<closed, adopted, span, snapshot, returns, frames, failed, late>>
    PROVE  TracingInv'
<1> USE DEF TracingInv
<1>1. phase'[t] = next /\ \A u \in Tests : u # t => phase'[u] = phase[u]
  BY DEF Typed
<1>2. Typed'
  BY DEF Typed, Phases
<1>3. Family'
  BY <1>1 DEF Family, Unfinished, TreeAssumption
<1>4. Closed'
  BY DEF Closed
<1>5. OwnSpans'
  BY <1>1 DEF OwnSpans, SpanOver, Started, Inherited, InContext
<1>6. ReturnsOnce'
  BY <1>1 DEF ReturnsOnce, Over
<1>7. Verdict'
  BY <1>1 DEF Verdict, VerdictOf, Blames, SpanOver, Blamed
<1>8. Stack'
  <2>1. \A u \in Tests : Len(frames[u]) > 1 => phase'[u] \in {"body", "parked"}
    BY <1>1 DEF Stack
  <2>2. frames' = frames /\ span' = span
    BY <1>1
  <2> QED BY <2>1, <2>2, StackKept
<1> QED BY <1>2, <1>3, <1>4, <1>5, <1>6, <1>7, <1>8

LEMMA ReturnTestStep ==
    ASSUME TreeAssumption, TracingInv, NEW t \in Tests, NEW skips \in BOOLEAN,
           ReturnTest(t, skips)
    PROVE  TracingInv'
<1> USE DEF TracingInv
<1>1. PICK r : r = [test |-> t, err |-> ctxErr[t]]
  OBVIOUS
<1>2. r.test = t /\ r.err = ctxErr[t]
  BY <1>1
<1>3. PICK n : n = [end |-> Len(returns) + 1, err |-> r.err]
  OBVIOUS
<1>16. n.end = Len(returns) + 1 /\ n.err = r.err
  BY <1>3
<1>4. /\ phase[t] = "body" /\ Len(frames[t]) = 1
      /\ returns' = Append(returns, r)
      /\ snapshot' = IF t \in adopted THEN snapshot ELSE [snapshot EXCEPT ![t] = n]
      /\ phase' = [phase EXCEPT ![t] = "returned"]
      /\ UNCHANGED <<closed, adopted, span, frames, failed, late>>
  BY <1>1, <1>2, <1>3 DEF ReturnTest, Free, Snapshot, contexts
<1>5. phase'[t] = "returned" /\ \A u \in Tests : u # t => phase'[u] = phase[u]
  BY <1>4 DEF Typed
<1>6. /\ t \notin adopted => snapshot'[t] = n
      /\ \A u \in Tests : u # t => snapshot'[u] = snapshot[u]
  BY <1>4 DEF Typed
<1>7. PICK l \in Nat : l = Len(returns)
  BY AppendedSeq DEF Typed
<1>8. /\ IsSeq(returns') /\ DOMAIN returns = 1..l /\ DOMAIN returns' = 1..(l + 1)
      /\ returns'[l + 1] = r /\ \A i \in 1..l : returns'[i] = returns[i]
  BY <1>4, <1>7, AppendedSeq DEF Typed
<1>9. Typed'
  BY <1>4, <1>8 DEF Typed, Phases
<1>10. Family'
  BY <1>4, <1>5 DEF Family, Unfinished, TreeAssumption
<1>11. Closed'
  BY <1>4 DEF Closed
<1>12. OwnSpans'
  BY <1>4, <1>5 DEF OwnSpans, SpanOver, Started, Inherited, InContext
<1>13. ReturnsOnce'
  <2> DEFINE OverPhases == {"returned", "describing", "ended", "done"}
  <2>1. \A i \in 1..l : returns'[i].test \in Tests /\ returns'[i].test # t
    BY <1>4, <1>8 DEF ReturnsOnce, Over
  <2>2. \A i \in 1..(l + 1) : i \in 1..l \/ i = l + 1
    BY <1>7
  <2>3. ASSUME NEW i \in 1..(l + 1), NEW j \in 1..(l + 1), returns'[i].test = returns'[j].test
        PROVE  i = j
    <3>1. CASE i \in 1..l /\ j \in 1..l
      BY <2>3, <3>1, <1>8 DEF ReturnsOnce
    <3>2. CASE i = l + 1 /\ j \in 1..l
      BY <2>1, <2>3, <3>2, <1>2, <1>8
    <3>3. CASE i \in 1..l /\ j = l + 1
      BY <2>1, <2>3, <3>3, <1>2, <1>8
    <3>4. CASE i = l + 1 /\ j = l + 1
      BY <3>4
    <3> QED BY <2>2, <3>1, <3>2, <3>3, <3>4
  <2>4. ASSUME NEW i \in 1..(l + 1)
        PROVE  /\ returns'[i].test \in Tests /\ phase'[returns'[i].test] \in OverPhases
               /\ \A u \in Tests \ adopted : returns'[i].test = u =>
                    snapshot'[u].end = i /\ snapshot'[u].err = returns'[i].err
    <3>1. CASE i \in 1..l
      <4>1. PICK u \in Tests : returns[i].test = u /\ returns'[i].test = u /\ u # t
        BY <3>1, <1>8, <2>1
      <4>2. Over(u) /\ (u \notin adopted => snapshot[u].end = i /\ snapshot[u].err = returns[i].err)
        BY <3>1, <4>1, <1>8 DEF ReturnsOnce
      <4>3. phase'[u] = phase[u] /\ snapshot'[u] = snapshot[u] /\ returns'[i] = returns[i]
        BY <3>1, <4>1, <1>5, <1>6, <1>8
      <4>4. phase'[u] \in OverPhases
        BY <4>2, <4>3 DEF Over
      <4> QED BY <4>1, <4>2, <4>3, <4>4
    <3>2. CASE i = l + 1
      <4>1. returns'[i].test = t /\ returns'[i].err = n.err
        BY <3>2, <1>2, <1>8, <1>16
      <4>2. t \notin adopted => snapshot'[t].end = i /\ snapshot'[t].err = n.err
        BY <3>2, <1>6, <1>7, <1>16
      <4>3. phase'[t] \in OverPhases
        BY <1>5
      <4> QED BY <4>1, <4>2, <4>3
    <3> QED BY <3>1, <3>2, <2>2
  <2>5. ASSUME NEW u \in Tests, Over(u)' PROVE \E i \in 1..(l + 1) : returns'[i].test = u
    <3>1. CASE u = t
      <4>1. l + 1 \in 1..(l + 1)
        BY <1>7
      <4> QED BY <3>1, <1>2, <1>8, <4>1
    <3>2. CASE u # t
      <4>1. PICK i \in 1..l : returns[i].test = u
        BY <2>5, <3>2, <1>5, <1>8 DEF ReturnsOnce, Over
      <4>2. i \in 1..(l + 1)
        BY <1>7
      <4> QED BY <4>1, <4>2, <1>8
    <3> QED BY <3>1, <3>2
  <2>6. adopted' = adopted /\ DOMAIN returns' = 1..(l + 1)
    BY <1>4, <1>8
  <2> QED BY <2>3, <2>4, <2>5, <2>6 DEF ReturnsOnce, Over
<1>14. Verdict'
  <2>1. adopted' = adopted /\ failed' = failed /\ late' = late /\ span' = span
    BY <1>4
  <2>2. VerdictOf(t)'
    BY <2>1, <1>4, <1>5 DEF Verdict, VerdictOf, SpanOver
  <2>3. ASSUME NEW u \in Tests, u # t PROVE VerdictOf(u)'
    BY <2>1, <2>3, <1>5, <1>6, VerdictKept DEF Verdict
  <2> QED BY <2>2, <2>3 DEF Verdict
<1>15. Stack'
  <2>1. ~(Len(frames[t]) > 1)
    BY <1>4
  <2>2. \A u \in Tests : Len(frames[u]) > 1 => phase'[u] \in {"body", "parked"}
    BY <1>5, <2>1 DEF Stack
  <2>3. frames' = frames /\ span' = span
    BY <1>4
  <2> QED BY <2>2, <2>3, StackKept
<1> QED BY <1>9, <1>10, <1>11, <1>12, <1>13, <1>14, <1>15

\* A test none of whose subtests is running ends, or is about to.
LEMMA EndingStep ==
    ASSUME TreeAssumption, TracingInv, NEW t \in Tests, NEW next \in {"describing", "ended", "done"},
           phase[t] \in {"returned", "describing", "ended"}, phase' = [phase EXCEPT ![t] = next],
           \A c \in Children(t) : phase[c] \in {"new", "done"},
           UNCHANGED <<closed, adopted, snapshot, returns, frames, failed, late>>
    PROVE  Family' /\ Closed' /\ ReturnsOnce'
<1> USE DEF TracingInv
<1>1. phase'[t] = next /\ \A u \in Tests : u # t => phase'[u] = phase[u]
  BY DEF Typed
<1>2. Family'
  BY <1>1 DEF Family, Unfinished, Children, TreeAssumption
<1>3. Closed'
  BY DEF Closed
<1>4. ReturnsOnce'
  BY <1>1 DEF ReturnsOnce, Over
<1> QED BY <1>2, <1>3, <1>4

LEMMA CleanupFailedStep ==
    ASSUME TreeAssumption, TracingInv, NEW t \in Tests, CleanupFailed(t)
    PROVE  TracingInv'
<1> USE DEF TracingInv
<1>1. /\ phase[t] = "returned" /\ phase' = [phase EXCEPT ![t] = "describing"]
      /\ \A c \in Children(t) : phase[c] \in {"new", "done"}
      /\ t \in failed /\ t \notin adopted /\ snapshot[t].err = ""
      /\ UNCHANGED <<closed, adopted, span, snapshot, returns, frames, failed, late>>
  BY DEF CleanupFailed, Cleaning, contexts, verdicts
<1>2. phase'[t] = "describing" /\ \A u \in Tests : u # t => phase'[u] = phase[u]
  BY <1>1 DEF Typed
<1>3. Typed'
  BY <1>1 DEF Typed, Phases
<1>4. Family' /\ Closed' /\ ReturnsOnce'
  BY <1>1, EndingStep
<1>5. OwnSpans'
  BY <1>1, <1>2 DEF OwnSpans, SpanOver, Started, Inherited, InContext
<1>6. Verdict'
  BY <1>1, <1>2 DEF Verdict, VerdictOf, Blames, SpanOver, Blamed
<1>7. Stack'
  <2>1. \A u \in Tests : Len(frames[u]) > 1 => phase'[u] \in {"body", "parked"}
    BY <1>1, <1>2 DEF Stack
  <2> QED BY <1>1, <2>1, StackKept
<1> QED BY <1>3, <1>4, <1>5, <1>6, <1>7

LEMMA TestDoneStep ==
    ASSUME TreeAssumption, TracingInv, NEW t \in Tests, TestDone(t)
    PROVE  TracingInv'
<1> USE DEF TracingInv
<1>1. /\ phase[t] \in {"returned", "ended"} /\ phase' = [phase EXCEPT ![t] = "done"]
      /\ phase[t] = "ended" \/ t \in adopted
      /\ UNCHANGED <<closed, adopted, span, snapshot, returns, frames, failed, late>>
  BY DEF TestDone, Cleaning, contexts, verdicts
<1>2. phase'[t] = "done" /\ \A u \in Tests : u # t => phase'[u] = phase[u]
  BY <1>1 DEF Typed
<1>3. Typed'
  BY <1>1 DEF Typed, Phases
<1>4. Family' /\ Closed' /\ ReturnsOnce'
  <2>1. \A c \in Children(t) : phase[c] \in {"new", "done"}
    <3>1. CASE phase[t] = "ended"
      BY <3>1 DEF Typed, Phases, Family, Unfinished, Children, TreeAssumption
    <3>2. CASE phase[t] # "ended"
      BY <3>2 DEF TestDone, Cleaning
    <3> QED BY <3>1, <3>2
  <2> QED BY <1>1, <2>1, EndingStep
<1>5. OwnSpans'
  BY <1>1, <1>2 DEF OwnSpans, SpanOver, Started, Inherited, InContext
<1>6. Verdict'
  BY <1>1, <1>2 DEF Verdict, VerdictOf, Blames, SpanOver, Blamed
<1>7. Stack'
  <2>1. \A u \in Tests : Len(frames[u]) > 1 => phase'[u] \in {"body", "parked"}
    BY <1>1, <1>2 DEF Stack
  <2> QED BY <1>1, <2>1, StackKept
<1> QED BY <1>3, <1>4, <1>5, <1>6, <1>7

PhaseNow(t, next) == phase' = [phase EXCEPT ![t] = next]
SpanNow(s, r) == span' = [span EXCEPT ![s] = r]

\* Its span ends with a status that says what became of it.
Says(t, r) ==
    /\ IsSpan(r) /\ r.ends = span[t].ends + 1 /\ r.parent = span[t].parent
    /\ r.end = snapshot[t].end /\ Blames(t, r.status)

LEMMA EndSpanStep ==
    ASSUME TreeAssumption, TracingInv, NEW t \in Tests, NEW r,
           phase[t] \in {"returned", "describing"}, t \notin adopted,
           \A c \in Children(t) : phase[c] \in {"new", "done"},
           SpanNow(t, r), Says(t, r), PhaseNow(t, "ended"),
           UNCHANGED <<closed, adopted, snapshot, returns, frames, failed, late>>
    PROVE  TracingInv'
<1> USE DEF TracingInv
<1>1. span' = [span EXCEPT ![t] = r] /\ phase' = [phase EXCEPT ![t] = "ended"]
  BY DEF SpanNow, PhaseNow
<1>5. span[t].ends = 0 /\ span[t].parent = Inherited(t)
  <2>1. Started(t)
    BY DEF OwnSpans
  <2> QED BY <2>1 DEF OwnSpans, SpanOver
<1>7. IsSpan(r) /\ r.ends = 1 /\ r # NoSpan /\ r.parent = Inherited(t)
  <2>1. PICK p : p = Inherited(t)
    OBVIOUS
  <2>2. p # <<>>
    BY <2>1, InheritedSome
  <2>3. IsSpan(r) /\ r.ends = 0 + 1 /\ r.parent = p
    BY <1>5, <2>1 DEF Says
  <2>4. r # NoSpan
    BY <2>2, <2>3, HasParent
  <2> QED BY <2>1, <2>3, <2>4
<1>8. phase'[t] = "ended" /\ \A u \in Tests : u # t => phase'[u] = phase[u]
  BY <1>1 DEF Typed
<1>9. span'[t] = r /\ \A u \in Tests \cup Functions : u # t => span'[u] = span[u]
  BY <1>1 DEF Typed
<1>10. Typed'
  <2>1. /\ span' = [u \in Tests \cup Functions |-> span'[u]]
        /\ \A u \in Tests \cup Functions : IsSpan(span'[u])
    BY <1>1, <1>7, <1>9 DEF Typed
  <2> QED BY <1>1, <2>1 DEF Typed, Phases
<1>11. Family' /\ Closed' /\ ReturnsOnce'
  BY <1>1, EndingStep
<1>12. OwnSpans'
  <2>1. \A u \in Tests : Inherited(u)' = Inherited(u)
    BY DEF Inherited, InContext
  <2>2. Started(t)' /\ \A u \in Tests : u # t => (Started(u)' <=> Started(u))
    BY <1>7, <1>9 DEF Started
  <2> QED BY <1>7, <1>8, <1>9, <2>1, <2>2 DEF OwnSpans, SpanOver
<1>13. Verdict'
  <2>1. snapshot' = snapshot /\ failed' = failed /\ late' = late /\ adopted' = adopted
    OBVIOUS
  <2>2. r.end = snapshot[t].end /\ Blames(t, r.status)
    BY DEF Says
  <2>3. ASSUME NEW u \in Tests
        PROVE  /\ phase'[u] = "describing" => u \in failed /\ u \notin adopted /\ snapshot[u].err = ""
               /\ phase'[u] = "ended" => u \notin adopted
               /\ u \in late => phase'[u] \in {"ended", "done"} /\ u \in failed
    BY <1>8, <2>3 DEF Verdict, VerdictOf, Blames, SpanOver
  <2>4. ASSUME NEW u \in Tests, phase'[u] \in {"ended", "done"}, u \notin adopted
        PROVE  span'[u].end = snapshot[u].end /\ Blames(u, span'[u].status)
    <3>1. CASE u = t
      BY <1>9, <2>2, <3>1
    <3>2. CASE u # t
      <4>1. phase[u] \in {"ended", "done"} /\ span'[u] = span[u]
        BY <1>8, <1>9, <2>4, <3>2
      <4> QED BY <2>4, <4>1 DEF Verdict, VerdictOf, Blames, SpanOver
    <3> QED BY <3>1, <3>2
  <2>5. \A u \in Tests : (Blamed(u)' <=> Blamed(u)) /\ (SpanOver(u)' <=> phase'[u] \in {"ended", "done"})
    BY <2>1 DEF Blamed, SpanOver
  <2> QED BY <2>1, <2>3, <2>4, <2>5 DEF Verdict, VerdictOf, Blames
<1>14. Stack'
  <2>1. \A f \in Functions : span'[f] = span[f]
    BY <1>9 DEF TreeAssumption
  <2>2. \A u \in Tests : Len(frames[u]) > 1 => phase'[u] \in {"body", "parked"}
    BY <1>8 DEF Stack
  <2> QED BY <2>1, <2>2, StackKept
<1> QED BY <1>10, <1>11, <1>12, <1>13, <1>14

LEMMA EndedSays ==
    ASSUME Typed, NEW t \in Tests, NEW links, NEW status, NEW desc,
           Blames(t, status)
    PROVE  Says(t, Ended(span[t], links, status, desc, snapshot[t].end))
<1>1. PICK s, end : s = span[t] /\ end = snapshot[t].end
  OBVIOUS
<1>2. PICK r : r = Ended(s, links, status, desc, end)
  OBVIOUS
<1>3. IsSpan(s)
  BY <1>1 DEF Typed
<1>4. IsSpan(r) /\ r.status = status /\ r.end = end /\ r.ends = s.ends + 1 /\ r.parent = s.parent
  BY <1>2, <1>3 DEF Ended, IsSpan
<1>5. Says(t, r)
  BY <1>1, <1>4 DEF Says
<1> QED BY <1>1, <1>2, <1>5

LEMMA CleanupUnfailedStep ==
    ASSUME TreeAssumption, TracingInv, NEW t \in Tests, CleanupUnfailed(t)
    PROVE  TracingInv'
<1>1. /\ phase[t] \in {"returned", "describing"} /\ t \notin adopted
      /\ \A c \in Children(t) : phase[c] \in {"new", "done"}
      /\ PhaseNow(t, "ended")
      /\ UNCHANGED <<closed, adopted, snapshot, returns, frames, failed, late>>
  BY DEF CleanupUnfailed, Cleaning, contexts, verdicts, PhaseNow
<1>2. Typed
  BY DEF TracingInv
<1>3. PICK links, status, desc :
        /\ SpanNow(t, Ended(span[t], links, status, desc, snapshot[t].end))
        /\ Blames(t, status)
  <2>1. PICK links : links = span[t].links
    OBVIOUS
  <2>2. CASE snapshot[t].err # ""
    <3>1. PICK status, desc :
            /\ status = "error"
            /\ desc = <<PlainLine(<<Word("test interrupted"), Word(snapshot[t].err)>>)>>
      OBVIOUS
    <3>2. SpanNow(t, Ended(span[t], links, status, desc, snapshot[t].end))
      BY <2>1, <2>2, <3>1 DEF CleanupUnfailed, EndSpan, SpanNow
    <3>3. Blames(t, status)
      BY <2>2, <3>1 DEF Blames, Blamed
    <3> QED BY <3>2, <3>3
  <2>3. CASE snapshot[t].err = ""
    <3>1. PICK status, desc : status = "ok" /\ desc = <<PlainLine(<<Word(Quiet(t))>>)>>
      OBVIOUS
    <3>2. t \notin failed /\ SpanNow(t, Ended(span[t], links, status, desc, snapshot[t].end))
      BY <2>1, <2>3, <3>1 DEF CleanupUnfailed, EndSpan, SpanNow
    <3>3. Blames(t, status)
      BY <2>3, <3>1, <3>2 DEF Blames, Blamed
    <3> QED BY <3>2, <3>3
  <2> QED BY <2>2, <2>3
<1>4. PICK r : r = Ended(span[t], links, status, desc, snapshot[t].end)
  OBVIOUS
<1>5. SpanNow(t, r) /\ Says(t, r)
  BY <1>2, <1>3, <1>4, EndedSays
<1> QED BY <1>1, <1>5, EndSpanStep

LEMMA DescribeStep ==
    ASSUME TreeAssumption, TracingInv, NEW t \in Tests, Describe(t)
    PROVE  TracingInv'
<1>1. PICK links, desc, status :
        links = span[t].links /\ desc = Description(t) /\ status = "error"
  OBVIOUS
<1>2. PICK r : r = Ended(span[t], links, status, desc, snapshot[t].end)
  OBVIOUS
<1>3. /\ phase[t] = "describing" /\ SpanNow(t, r)
      /\ PhaseNow(t, "ended")
      /\ UNCHANGED <<closed, adopted, snapshot, returns, frames, failed, late>>
  BY <1>1, <1>2 DEF Describe, EndSpan, SpanNow, PhaseNow, contexts, verdicts
<1>4. t \in failed /\ t \notin adopted /\ t \notin late
  BY <1>3 DEF TracingInv, Verdict, VerdictOf, Blames, SpanOver
<1>5. \A c \in Children(t) : phase[c] \in {"new", "done"}
  BY <1>3 DEF TracingInv, Typed, Phases, Family, Unfinished, Children, TreeAssumption
<1>6. Says(t, r)
  <2>1. Typed /\ Blames(t, status)
    BY <1>1, <1>4 DEF TracingInv, Blames, Blamed
  <2> QED BY <1>2, <2>1, EndedSays
<1> QED BY <1>3, <1>4, <1>5, <1>6, EndSpanStep

LEMMA MainClosesStep ==
    ASSUME TreeAssumption, TracingInv, MainCloses
    PROVE  TracingInv'
<1> USE DEF TracingInv
<1>1. /\ closed' = TRUE /\ \A t \in Tests : phase[t] \in {"new", "done"}
      /\ UNCHANGED <<phase, adopted, span, snapshot, returns, frames, failed, late>>
  BY DEF MainCloses, contexts, verdicts
<1>2. Typed'
  BY <1>1 DEF Typed
<1>3. Family' /\ Closed'
  BY <1>1 DEF Family, Closed, Unfinished
<1>4. OwnSpans'
  BY <1>1 DEF OwnSpans, SpanOver, Started, Inherited, InContext
<1>5. ReturnsOnce' /\ Verdict'
  <2>1. ReturnsOnce'
    BY <1>1 DEF ReturnsOnce, Over
  <2>2. Verdict'
    BY <1>1 DEF Verdict, VerdictOf, Blames, SpanOver, Blamed
  <2> QED BY <2>1, <2>2
<1>6. Stack'
  BY <1>1, StackKept DEF Stack
<1> QED BY <1>2, <1>3, <1>4, <1>5, <1>6

LEMMA CallStep ==
    ASSUME TreeAssumption, TracingInv, NEW t \in Tests, NEW f \in Functions, Call(t, f)
    PROVE  TracingInv'
<1> USE DEF TracingInv
<1>1. PICK p : /\ span' = [span EXCEPT ![f] = [NoSpan EXCEPT !.parent = p]]
               /\ p # <<>>
  <2>1. PICK caller : caller = Last(frames[t]).fn
    OBVIOUS
  <2>2. PICK p : p = IF caller = t THEN InContext(t) ELSE <<"own", caller>>
    OBVIOUS
  <2>3. span' = [span EXCEPT ![f] = [NoSpan EXCEPT !.parent = p]]
    BY <2>1, <2>2 DEF Call
  <2>4. p # <<>>
    BY <2>2, HasParent DEF InContext
  <2> QED BY <2>3, <2>4
<1>2. PICK r : r = [NoSpan EXCEPT !.parent = p]
  OBVIOUS
<1>3. PICK n : n = NoSpan
  OBVIOUS
<1>4. IsSpan(r) /\ r.ends = 0 /\ r # NoSpan
  <2>1. r = [n EXCEPT !.parent = p]
    BY <1>2, <1>3
  <2>2. IsSpan(n) /\ n.ends = 0
    BY <1>3 DEF IsSpan, NoSpan
  <2>3. IsSpan(r) /\ r.ends = 0 /\ r.parent = p
    BY <2>1, <2>2 DEF IsSpan
  <2> QED BY <2>3, <1>1, HasParent
<1>5. PICK e : e = Frame(f)
  OBVIOUS
<1>6. IsFrame(e) /\ e.fn = f
  BY <1>5 DEF IsFrame, Frame
<1>7. PICK s : s = frames[t]
  OBVIOUS
<1>8. PICK new : new = Append(s, e)
  OBVIOUS
<1>9. PICK l \in Nat : l = Len(s)
  BY <1>7, AppendedSeq DEF Typed
<1>10. /\ IsSeq(s) /\ IsSeq(new) /\ Len(new) = l + 1 /\ DOMAIN new = 1..(l + 1) /\ DOMAIN s = 1..l
       /\ new[l + 1] = e /\ \A i \in 1..l : new[i] = s[i]
  BY <1>7, <1>8, <1>9, AppendedSeq DEF Typed
<1>11. l >= 1
  BY <1>7, <1>9 DEF Stack
<1>12. /\ phase[t] = "body" /\ ~Started(f) /\ frames' = [frames EXCEPT ![t] = new]
       /\ UNCHANGED <<closed, phase, adopted, snapshot, returns, failed, late>>
  BY <1>5, <1>7, <1>8 DEF Call, Free, contexts, verdicts
<1>13. frames'[t] = new /\ \A u \in Tests : u # t => frames'[u] = frames[u]
  BY <1>12 DEF Typed
<1>14. span'[f] = r /\ \A u \in Tests \cup Functions : u # f => span'[u] = span[u]
  BY <1>1, <1>2 DEF Typed
<1>15. \A u \in Tests : u # f
  BY DEF TreeAssumption
<1>16. Typed'
  <2>1. /\ span' = [u \in Tests \cup Functions |-> span'[u]]
        /\ \A u \in Tests \cup Functions : IsSpan(span'[u])
    BY <1>1, <1>4, <1>14 DEF Typed
  <2>2. \A i \in 1..(l + 1) : i \in 1..l \/ i = l + 1
    BY <1>9
  <2>3. \A i \in DOMAIN new : IsFrame(new[i])
    BY <1>6, <1>7, <1>10, <2>2 DEF Typed
  <2>4. /\ frames' = [u \in Tests |-> frames'[u]]
        /\ \A u \in Tests : IsSeq(frames'[u]) /\ \A i \in DOMAIN frames'[u] : IsFrame(frames'[u][i])
    BY <1>10, <1>12, <1>13, <2>3 DEF Typed
  <2> QED BY <1>12, <2>1, <2>4 DEF Typed
<1>17. Family' /\ Closed'
  BY <1>12 DEF Family, Closed, Unfinished
<1>18. OwnSpans'
  BY <1>12, <1>14, <1>15 DEF OwnSpans, SpanOver, Started, Inherited, InContext
<1>19. ReturnsOnce' /\ Verdict'
  <2>1. ReturnsOnce'
    BY <1>12 DEF ReturnsOnce, Over
  <2>2. \A u \in Tests : span'[u] = span[u]
    BY <1>14, <1>15
  <2>3. Verdict'
    BY <1>12, <2>2 DEF Verdict, VerdictOf, Blames, SpanOver, Blamed
  <2> QED BY <2>1, <2>3
<1>20. Stack'
  <2>1. InCall(t) = 2..l /\ 2..Len(frames'[t]) = 2..(l + 1)
    BY <1>7, <1>9, <1>10, <1>13 DEF InCall
  <2>2. \A u \in Tests : u # t => 2..Len(frames'[u]) = InCall(u)
    BY <1>13 DEF InCall
  <2>3. \A i \in 2..(l + 1) : i \in 2..l \/ i = l + 1
    BY <1>9
  <2>4. \A i \in 2..l : frames'[t][i] = frames[t][i] /\ i \in 2..(l + 1)
    BY <1>7, <1>9, <1>10, <1>13
  <2>5. l + 1 \in 2..(l + 1) /\ frames'[t][l + 1].fn = f
    BY <1>6, <1>9, <1>10, <1>11, <1>13
  <2>6. \A u \in Tests : \A i \in InCall(u) : frames[u][i].fn # f
    BY <1>12 DEF Stack
  <2>7. frames'[t][1] = frames[t][1] /\ Len(frames'[t]) >= 1
    BY <1>7, <1>9, <1>10, <1>11, <1>13
  <2>8. ASSUME NEW u \in Tests
        PROVE  /\ Len(frames'[u]) >= 1 /\ frames'[u][1].fn = u
               /\ Len(frames'[u]) > 1 => phase'[u] \in {"body", "parked"}
    BY <1>12, <1>13, <2>7 DEF Stack
  <2>9. ASSUME NEW u \in Tests, NEW i \in 2..Len(frames'[u])
        PROVE  \/ u = t /\ i = l + 1
               \/ i \in InCall(u) /\ frames'[u][i] = frames[u][i] /\ frames[u][i].fn # f
    BY <2>1, <2>2, <2>3, <2>4, <2>6, <1>13
  <2>10. ASSUME NEW u \in Tests, NEW i \in 2..Len(frames'[u])
         PROVE  /\ frames'[u][i].fn \in Functions
                /\ span'[frames'[u][i].fn] # NoSpan /\ span'[frames'[u][i].fn].ends = 0
    <3>1. CASE u = t /\ i = l + 1
      BY <3>1, <2>5, <1>4, <1>14
    <3>2. CASE i \in InCall(u) /\ frames'[u][i] = frames[u][i] /\ frames[u][i].fn # f
      BY <3>2, <1>14 DEF Stack, Started
    <3> QED BY <2>9, <3>1, <3>2
  <2>11. ASSUME NEW u \in Tests, NEW v \in Tests, NEW i \in 2..Len(frames'[u]), NEW j \in 2..Len(frames'[v]),
                frames'[u][i].fn = frames'[v][j].fn
         PROVE  u = v /\ i = j
    <3> DEFINE Old(x, k) == k \in InCall(x) /\ frames'[x][k] = frames[x][k] /\ frames[x][k].fn # f
    <3>1. CASE u = t /\ i = l + 1 /\ v = t /\ j = l + 1
      BY <3>1
    <3>2. CASE Old(u, i) /\ Old(v, j)
      <4>1. frames[u][i].fn = frames[v][j].fn
        BY <2>11, <3>2
      <4> QED BY <3>2, <4>1 DEF Stack
    <3>3. CASE u = t /\ i = l + 1 /\ Old(v, j)
      BY <2>5, <2>11, <3>3
    <3>4. CASE Old(u, i) /\ v = t /\ j = l + 1
      BY <2>5, <2>11, <3>4
    <3>5. /\ (u = t /\ i = l + 1) \/ Old(u, i)
          /\ (v = t /\ j = l + 1) \/ Old(v, j)
      BY <2>9
    <3> QED BY <3>1, <3>2, <3>3, <3>4, <3>5
  <2>12. ASSUME NEW g \in Functions, span'[g] # NoSpan, span'[g].ends # 1
         PROVE  \E u \in Tests : \E i \in 2..Len(frames'[u]) : frames'[u][i].fn = g
    <3>1. CASE g = f
      BY <3>1, <2>1, <2>5
    <3>2. CASE g # f
      <4>3. PICK u \in Tests : \E i \in InCall(u) : frames[u][i].fn = g
        BY <2>12, <3>2, <1>14 DEF Stack, Started
      <4>1. PICK i \in InCall(u) : frames[u][i].fn = g
        BY <4>3
      <4>2. i \in 2..Len(frames'[u]) /\ frames'[u][i] = frames[u][i]
        BY <2>1, <2>2, <2>4, <1>13
      <4> QED BY <4>1, <4>2
    <3> QED BY <3>1, <3>2
  <2> QED BY <2>8, <2>10, <2>11, <2>12 DEF Stack, Started, InCall
<1> QED BY <1>16, <1>17, <1>18, <1>19, <1>20

Replaced(s, n, e, new) == new = [s EXCEPT ![n] = e]

LEMMA ReplacedSeq ==
    ASSUME NEW s, IsSeq(s), NEW n \in DOMAIN s, NEW e, NEW new, Replaced(s, n, e, new)
    PROVE  /\ IsSeq(new) /\ Len(new) = Len(s) /\ DOMAIN new = DOMAIN s
           /\ new[n] = e /\ \A i \in DOMAIN s : i # n => new[i] = s[i]
<1> DEFINE S == {s[i] : i \in DOMAIN s} \cup {e}
<1>1. s \in Seq(S)
  BY DEF IsSeq
<1>2. PICK l \in Nat : l = Len(s) /\ DOMAIN s = 1..l
  BY <1>1
<1>3. new \in Seq(S) /\ Len(new) = l /\ DOMAIN new = 1..l
  BY <1>1, <1>2 DEF Replaced
<1>4. new[n] = e /\ \A i \in 1..l : i # n => new[i] = s[i]
  BY <1>1, <1>2 DEF Replaced
<1>5. new = [i \in 1..l |-> new[i]]
  BY <1>2, <1>3
<1>6. new \in Seq({new[i] : i \in DOMAIN new})
  BY <1>3, <1>5
<1>7. IsSeq(new)
  BY <1>6 DEF IsSeq
<1> QED BY <1>2, <1>3, <1>4, <1>7

\* What is left of a stack that a call has returned from.
Left(s, l, new) ==
    /\ IsSeq(new) /\ Len(new) = l - 1 /\ DOMAIN new = 1..(l - 1)
    /\ \A i \in 1..(l - 1) : IsFrame(new[i]) /\ new[i].fn = s[i].fn

LEMMA ReturnLeft ==
    ASSUME Typed, NEW t \in Tests, NEW err, ReturnFrom(t, err), NEW s, s = frames[t],
           NEW l \in Nat, l = Len(s)
    PROVE  \E new : frames' = [frames EXCEPT ![t] = new] /\ Left(s, l, new)
<1>1. l > 1 /\ IsSeq(s) /\ DOMAIN s = 1..l /\ \A i \in 1..l : IsFrame(s[i])
  <2>1. IsSeq(s) /\ \A i \in DOMAIN s : IsFrame(s[i])
    BY DEF Typed
  <2>2. Len(frames[t]) > 1
    BY DEF ReturnFrom
  <2>3. l > 1
    BY <2>2
  <2>4. DOMAIN s = 1..l
    BY <2>1, <2>3, FrontSeq
  <2> QED BY <2>1, <2>3, <2>4
<1>10. l - 1 \in Nat /\ l - 1 >= 1
  BY <1>1
<1>2. PICK n \in Nat : n = l - 1 /\ n >= 1
  BY <1>10
<1>3. PICK below : below = Front(s)
  OBVIOUS
<1>4. IsSeq(below) /\ Len(below) = n /\ DOMAIN below = 1..n /\ \A i \in 1..n : below[i] = s[i]
  BY <1>1, <1>2, <1>3, FrontSeq
<1>5. \A i \in 1..n : i \in 1..l
  BY <1>2
<1>6. PICK ret : ret = EndWithCause(Last(s).fn, err)
  OBVIOUS
<1>7. frames' = [frames EXCEPT ![t] = IF ret.err = NilError THEN below
                                       ELSE [below EXCEPT ![n].errs = Append(@, ret.err)]]
  BY <1>3, <1>4, <1>6 DEF ReturnFrom
<1>8. CASE ret.err = NilError
  <2>1. frames' = [frames EXCEPT ![t] = below]
    BY <1>7, <1>8
  <2>2. Left(s, l, below)
    BY <1>1, <1>2, <1>4, <1>5 DEF Left
  <2> QED BY <2>1, <2>2
<1>9. CASE ret.err # NilError
  <2>1. PICK x : x = below[n]
    OBVIOUS
  <2>2. PICK errs : errs = Append(x.errs, ret.err)
    OBVIOUS
  <2>3. PICK y : y = [x EXCEPT !.errs = errs]
    OBVIOUS
  <2>4. IsFrame(x) /\ n \in 1..n /\ n \in 1..l
    BY <1>1, <1>2, <1>4, <1>5, <2>1
  <2>5. IsFrame(y) /\ y.fn = x.fn
    BY <2>3, <2>4 DEF IsFrame
  <2>6. PICK new : new = [below EXCEPT ![n] = y]
    OBVIOUS
  <2>11. Replaced(below, n, y, new) /\ n \in DOMAIN below
    BY <1>4, <2>4, <2>6 DEF Replaced
  <2>7. frames' = [frames EXCEPT ![t] = new]
    BY <1>7, <1>9, <2>1, <2>2, <2>3, <2>6
  <2>8. /\ IsSeq(new) /\ Len(new) = n /\ DOMAIN new = 1..n
        /\ new[n] = y /\ \A i \in 1..n : i # n => new[i] = below[i]
    <3>1. IsSeq(below) /\ n \in DOMAIN below
      BY <1>4, <2>11
    <3>2. /\ IsSeq(new) /\ Len(new) = Len(below) /\ DOMAIN new = DOMAIN below
          /\ new[n] = y /\ \A i \in DOMAIN below : i # n => new[i] = below[i]
      BY <2>11, <3>1, ReplacedSeq
    <3> QED BY <1>4, <3>2
  <2>9. ASSUME NEW i \in 1..n PROVE IsFrame(new[i]) /\ new[i].fn = s[i].fn
    BY <1>1, <1>4, <1>5, <2>1, <2>5, <2>8
  <2>10. Left(s, l, new)
    BY <1>2, <2>8, <2>9 DEF Left
  <2> QED BY <2>7, <2>10
<1> QED BY <1>8, <1>9

LEMMA ReturnFromStep ==
    ASSUME TreeAssumption, TracingInv, NEW t \in Tests, NEW err, ReturnFrom(t, err)
    PROVE  TracingInv'
<1> USE DEF TracingInv
<1>1. PICK s : s = frames[t]
  OBVIOUS
<1>2. PICK l \in Nat : l = Len(s)
  BY <1>1, AppendedSeq DEF Typed
<1>3. PICK new : frames' = [frames EXCEPT ![t] = new] /\ Left(s, l, new)
  BY <1>1, <1>2, ReturnLeft
<1>4. l > 1 /\ phase[t] = "body"
  <2>1. Len(frames[t]) > 1 /\ phase[t] = "body"
    BY DEF ReturnFrom, Free
  <2> QED BY <1>1, <1>2, <2>1
<1>5. PICK f : f = s[l].fn
  OBVIOUS
<1>6. l \in 2..l
  BY <1>2, <1>4
<1>7. f \in Functions /\ Started(f) /\ span[f].ends = 0
  BY <1>1, <1>2, <1>5, <1>6 DEF Stack, InCall
<1>8. PICK c : c = span[f]
  OBVIOUS
<1>9. IsSpan(c) /\ c.ends = 0
  BY <1>7, <1>8 DEF Typed
<1>10. PICK ret : ret = EndWithCause(f, err)
  OBVIOUS
<1>11. PICK r : r = Ended(c, ret.links, ret.status, ret.desc, c.end)
  OBVIOUS
<1>12. span' = [span EXCEPT ![f] = r]
  <2>1. Last(frames[t]).fn = f
    BY <1>1, <1>2, <1>5 DEF Last
  <2> QED BY <1>8, <1>10, <1>11, <2>1 DEF ReturnFrom
<1>13. IsSpan(r) /\ r.ends = 1
  BY <1>9, <1>11 DEF IsSpan, Ended
<1>14. UNCHANGED <<closed, phase, adopted, snapshot, returns, failed, late>>
  BY DEF ReturnFrom, contexts, verdicts
<1>15. span'[f] = r /\ \A u \in Tests \cup Functions : u # f => span'[u] = span[u]
  BY <1>7, <1>12 DEF Typed
<1>16. \A u \in Tests : u # f
  BY <1>7 DEF TreeAssumption
<1>17. frames'[t] = new /\ \A u \in Tests : u # t => frames'[u] = frames[u]
  BY <1>3 DEF Typed
<1>18. Typed'
  <2>1. /\ span' = [u \in Tests \cup Functions |-> span'[u]]
        /\ \A u \in Tests \cup Functions : IsSpan(span'[u])
    BY <1>12, <1>13, <1>15 DEF Typed
  <2>2. /\ frames' = [u \in Tests |-> frames'[u]]
        /\ \A u \in Tests : IsSeq(frames'[u]) /\ \A i \in DOMAIN frames'[u] : IsFrame(frames'[u][i])
    BY <1>3, <1>17 DEF Typed, Left
  <2> QED BY <1>14, <2>1, <2>2 DEF Typed
<1>19. Family' /\ Closed'
  BY <1>14 DEF Family, Closed, Unfinished
<1>20. \A u \in Tests : span'[u] = span[u]
  BY <1>15, <1>16
<1>21. OwnSpans'
  BY <1>14, <1>20 DEF OwnSpans, SpanOver, Started, Inherited, InContext
<1>22. ReturnsOnce'
  BY <1>14 DEF ReturnsOnce, Over
<1>23. Verdict'
  BY <1>14, <1>20 DEF Verdict, VerdictOf, Blames, SpanOver, Blamed
<1>24. Stack'
  <2>1. Len(frames'[t]) = l - 1 /\ l - 1 >= 1
    BY <1>2, <1>3, <1>4, <1>17 DEF Left
  <2>2. \A i \in 1..(l - 1) : frames'[t][i].fn = frames[t][i].fn
    BY <1>1, <1>3, <1>17 DEF Left
  <2>3. InCall(t) = 2..l /\ 2..Len(frames'[t]) = 2..(l - 1)
    BY <1>1, <1>2, <2>1 DEF InCall
  <2>4. \A u \in Tests : u # t => 2..Len(frames'[u]) = InCall(u)
    BY <1>17 DEF InCall
  <2>5. \A i \in 2..(l - 1) : i \in 2..l /\ i \in 1..(l - 1) /\ i # l
    BY <1>2
  <2>6. \A i \in 2..l : i = l \/ i \in 2..(l - 1)
    BY <1>2
  <2>7. 1 \in 1..(l - 1)
    BY <1>2, <1>4
  <2>8. ASSUME NEW u \in Tests
        PROVE  /\ Len(frames'[u]) >= 1 /\ frames'[u][1].fn = u
               /\ Len(frames'[u]) > 1 => phase'[u] \in {"body", "parked"}
    <3>1. CASE u = t
      BY <3>1, <1>4, <1>14, <2>1, <2>2, <2>7 DEF Stack
    <3>2. CASE u # t
      BY <3>2, <1>14, <1>17 DEF Stack
    <3> QED BY <3>1, <3>2
  <2>9. ASSUME NEW u \in Tests, NEW i \in 2..Len(frames'[u])
        PROVE  i \in InCall(u) /\ frames'[u][i].fn = frames[u][i].fn /\ ~(u = t /\ i = l)
    <3>1. CASE u = t
      BY <3>1, <2>2, <2>3, <2>5
    <3>2. CASE u # t
      BY <3>2, <1>17, <2>4
    <3> QED BY <3>1, <3>2
  <2>10. ASSUME NEW u \in Tests, NEW i \in InCall(u), frames[u][i].fn = f
         PROVE  u = t /\ i = l
    <3>1. l \in InCall(t) /\ frames[t][l].fn = f
      BY <1>1, <1>5, <1>6, <2>3
    <3> QED BY <2>10, <3>1 DEF Stack
  <2>11. ASSUME NEW u \in Tests, NEW i \in 2..Len(frames'[u])
         PROVE  /\ frames'[u][i].fn \in Functions
                /\ span'[frames'[u][i].fn] # NoSpan /\ span'[frames'[u][i].fn].ends = 0
    <3>1. PICK g : g = frames[u][i].fn
      OBVIOUS
    <3>2. i \in InCall(u) /\ frames'[u][i].fn = g
      BY <2>9, <3>1
    <3>3. g # f
      BY <2>9, <2>10, <3>1
    <3>4. g \in Functions /\ Started(g) /\ span[g].ends = 0
      BY <3>1, <3>2 DEF Stack
    <3>5. span'[g] = span[g]
      BY <1>15, <3>3, <3>4
    <3> QED BY <3>2, <3>4, <3>5 DEF Started
  <2>12. ASSUME NEW u \in Tests, NEW v \in Tests, NEW i \in 2..Len(frames'[u]),
                NEW j \in 2..Len(frames'[v]), frames'[u][i].fn = frames'[v][j].fn
         PROVE  u = v /\ i = j
    <3>1. i \in InCall(u) /\ j \in InCall(v) /\ frames[u][i].fn = frames[v][j].fn
      BY <2>9, <2>12
    <3> QED BY <3>1 DEF Stack
  <2>13. ASSUME NEW g \in Functions, span'[g] # NoSpan, span'[g].ends # 1
         PROVE  \E u \in Tests : \E i \in 2..Len(frames'[u]) : frames'[u][i].fn = g
    <3>1. g # f
      BY <2>13, <1>13, <1>15, <1>7
    <3>2. span'[g] = span[g]
      BY <1>15, <3>1
    <3>3. PICK u \in Tests : \E i \in InCall(u) : frames[u][i].fn = g
      BY <2>13, <3>2 DEF Stack, Started
    <3>4. PICK i \in InCall(u) : frames[u][i].fn = g
      BY <3>3
    <3>5. CASE u = t
      <4>1. i \in 2..(l - 1)
        BY <1>1, <1>5, <2>3, <2>6, <3>1, <3>4, <3>5
      <4> QED BY <3>4, <3>5, <4>1, <2>2, <2>3, <2>5
    <3>6. CASE u # t
      BY <3>4, <3>6, <1>17, <2>4
    <3> QED BY <3>5, <3>6
  <2> QED BY <2>8, <2>11, <2>12, <2>13 DEF Stack, Started, InCall
<1> QED BY <1>18, <1>19, <1>21, <1>22, <1>23, <1>24

-----------------------------------------------------------------------------
(* The specification.                                                      *)

LEMMA Stutters ==
    ASSUME TreeAssumption, TracingInv, UNCHANGED vars
    PROVE  TracingInv'
<1>1. UNCHANGED <<closed, phase, adopted, span, snapshot, returns, frames>>
  BY DEF vars
<1>2. UNCHANGED <<failed, late>>
  BY DEF vars
<1> QED BY <1>1, <1>2, OnlyFails

LEMMA TracingNext == TreeAssumption /\ TracingInv /\ [Next]_vars => TracingInv'
<1> SUFFICES ASSUME TreeAssumption, TracingInv, [Next]_vars PROVE TracingInv'
  OBVIOUS
<1>1. ASSUME NEW t \in Tests, Adopt(t) PROVE TracingInv'
  BY <1>1, AdoptStep
<1>2. ASSUME NEW t \in Tests, StartOwn(t) PROVE TracingInv'
  BY <1>2, StartOwnStep
<1>3. ASSUME NEW t \in Tests, Parallel(t) \/ Resume(t) PROVE TracingInv'
  <2>1. PICK next \in {"body", "parked"} :
          /\ phase[t] \in {"body", "parked"} /\ phase' = [phase EXCEPT ![t] = next]
          /\ UNCHANGED <<closed, adopted, span, snapshot, returns, frames, failed, late>>
    BY <1>3 DEF Parallel, Resume, Free, contexts, verdicts
  <2> QED BY <2>1, LastsStep
<1>4. ASSUME NEW t \in Tests, NEW f \in Functions, Call(t, f) PROVE TracingInv'
  BY <1>4, CallStep
<1>5. ASSUME NEW t \in Tests, NEW err, ReturnFrom(t, err) PROVE TracingInv'
  BY <1>5, ReturnFromStep
<1>6. ASSUME NEW t \in Tests, NEW err, NEW msg, Error(t, err, msg) PROVE TracingInv'
  <2>1. /\ Failing(t)
        /\ UNCHANGED <<closed, phase, adopted, span, snapshot, returns, frames>>
    BY <1>6 DEF Error, Free, Failing, Unfinished, contexts
  <2> QED BY <2>1, OnlyFails
<1>7. ASSUME NEW t \in Tests, HelperLogs(t) \/ HelperFails(t) PROVE TracingInv'
  <2>1. /\ UNCHANGED <<failed, late>> \/ Failing(t)
        /\ UNCHANGED <<closed, phase, adopted, span, snapshot, returns, frames>>
    BY <1>7 DEF HelperLogs, HelperFails, Failing, contexts
  <2> QED BY <2>1, OnlyFails
<1>8. ASSUME NEW t \in Tests, NEW err, Interrupt(t, err) PROVE TracingInv'
  <2>1. UNCHANGED <<closed, phase, adopted, span, snapshot, returns, frames, failed, late>>
    BY <1>8 DEF Interrupt, verdicts
  <2> QED BY <2>1, OnlyFails
<1>9. ASSUME NEW t \in Tests, NEW skips \in BOOLEAN, ReturnTest(t, skips) PROVE TracingInv'
  BY <1>9, ReturnTestStep
<1>10. ASSUME NEW t \in Tests, CleanupFailed(t) \/ TestDone(t) PROVE TracingInv'
  BY <1>10, CleanupFailedStep, TestDoneStep
<1>11. ASSUME NEW t \in Tests, CleanupUnfailed(t) PROVE TracingInv'
  BY <1>11, CleanupUnfailedStep
<1>12. ASSUME NEW t \in Tests, Describe(t) PROVE TracingInv'
  BY <1>12, DescribeStep
<1>13. CASE MainCloses
  BY <1>13, MainClosesStep
<1>14. CASE UNCHANGED vars
  BY <1>14, Stutters
<1> QED BY <1>1, <1>2, <1>3, <1>4, <1>5, <1>6, <1>7, <1>8, <1>9, <1>10, <1>11, <1>12, <1>13, <1>14
        DEF Next, Step

\* The life of a test, of its span and of its function, and the calls it is in.
THEOREM TracingCorrect == Spec => []TracingInv
<1>1. TreeAssumption /\ Init => TracingInv
  BY TracingInit
<1>2. TracingInv /\ [Next]_vars => TracingInv'
  BY TracingNext, TreeAssumption
<1> QED BY <1>1, <1>2, TreeAssumption, PTL DEF Spec

LEMMA ReturnedAt ==
    ASSUME TracingInv, NEW t \in Tests, Own(t)
    PROVE  snapshot[t].end = Returned(t) /\ snapshot[t].err = returns[Returned(t)].err
<1>1. Over(t)
  BY DEF Own, Over
<1>2. PICK i \in DOMAIN returns : returns[i].test = t
  BY <1>1 DEF TracingInv, ReturnsOnce
<1>3. Returned(t) \in DOMAIN returns /\ returns[Returned(t)].test = t
  BY <1>2 DEF Returned
<1> QED BY <1>3 DEF TracingInv, ReturnsOnce, Own

\* What a test's span says of it is what became of it: every failure by its own
\* code or a subtest, and every one by a helper before its span ended. Only a test
\* that a helper was the first to fail after that says that it passed.
THEOREM VerdictStandsHolds == Spec => []VerdictStands
<1>1. ASSUME TracingInv PROVE VerdictStands
  <2>1. ASSUME NEW t \in Tests, Own(t)
        PROVE  span[t].status = "error" <=> t \in failed \ late \/ returns[Returned(t)].err # ""
    <3>1. SpanOver(t) /\ t \notin adopted
      BY <2>1 DEF Own, SpanOver
    <3>2. Blames(t, span[t].status)
      BY <1>1, <3>1 DEF TracingInv, Verdict, VerdictOf
    <3>3. Blamed(t) <=> (t \in failed /\ t \notin late) \/ snapshot[t].err # ""
      BY DEF Blamed
    <3>4. snapshot[t].err = returns[Returned(t)].err
      BY <1>1, <2>1, ReturnedAt
    <3> QED BY <3>2, <3>3, <3>4 DEF Blames
  <2> QED BY <2>1 DEF VerdictStands
<1> QED BY <1>1, TracingCorrect, PTL

\* A test's span lasts as long as its function, under the span of its caller, and
\* every span has ended once when the exporters are closed.
THEOREM SpanCoversFunctionHolds == Spec => []SpanCoversFunction
<1>1. ASSUME TreeAssumption, TracingInv PROVE SpanCoversFunction
  <2>1. ASSUME NEW t \in Tests \ adopted, phase[t] # "new", Own(t) PROVE span[t].end = Returned(t)
    <3>1. SpanOver(t)
      BY <2>1 DEF Own, SpanOver
    <3> QED BY <1>1, <2>1, <3>1, ReturnedAt DEF TracingInv, Verdict, VerdictOf, Blames
  <2>2. ASSUME NEW t \in Tests \ adopted, phase[t] # "new"
        PROVE  LET p == ParentTest[t]
               IN span[t].parent = IF p = Main THEN <<"propagated", Main>>
                                   ELSE IF span[p] = NoSpan THEN <<"remote", p>> ELSE <<"own", p>>
    <3>1. span[t].parent = Inherited(t)
      BY <1>1, <2>2 DEF TracingInv, OwnSpans
    <3>2. CASE ParentTest[t] = Main
      BY <3>1, <3>2 DEF Inherited
    <3>3. CASE ParentTest[t] # Main
      <4>1. PICK p \in Tests : p = ParentTest[t]
        BY <1>1, <3>3 DEF TreeAssumption
      <4>2. p \in adopted <=> span[p] = NoSpan
        BY <1>1, <2>2, <3>3, <4>1 DEF TracingInv, Family, OwnSpans, Started
      <4> QED BY <3>1, <3>3, <4>1, <4>2 DEF Inherited, InContext
    <3> QED BY <3>2, <3>3
  <2>3. ASSUME closed, NEW t \in Tests, Started(t) PROVE span[t].ends = 1
    BY <1>1, <2>3 DEF TracingInv, Closed, OwnSpans, SpanOver
  <2>4. ASSUME closed, NEW f \in Functions, Started(f) PROVE span[f].ends = 1
    <3>1. \A t \in Tests : ~(Len(frames[t]) > 1)
      BY <1>1, <2>4 DEF TracingInv, Closed, Stack
    <3>2. \A t \in Tests : Len(frames[t]) \in Nat
      BY <1>1, AppendedSeq DEF TracingInv, Typed
    <3>3. \A n \in Nat : ~(n > 1) => 2..n = {}
      OBVIOUS
    <3>4. \A t \in Tests : InCall(t) = {}
      BY <3>1, <3>2, <3>3 DEF InCall
    <3> QED BY <1>1, <2>4, <3>4 DEF TracingInv, Stack
  <2>5. ASSUME closed, NEW t \in adopted PROVE span[t] = NoSpan
    BY <1>1, <2>5 DEF TracingInv, Typed, OwnSpans, Started
  <2> QED BY <2>1, <2>2, <2>3, <2>4, <2>5 DEF SpanCoversFunction
<1> QED BY <1>1, TracingCorrect, TreeAssumption, PTL
============================================================================
