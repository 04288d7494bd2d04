-------------------------- MODULE GoTestRunProofs --------------------------
(***************************************************************************)
(* Three parts. Run's bookkeeping is sound for every stream of events,     *)
(* every set of packages and tests and every configuration: RunInv, the    *)
(* conjunction of the invariants the open run checks, is inductive. Then   *)
(* what Run records of a stream that a run of tests can send (Seen). Last, *)
(* of what it can send of one test, what Run logs, buffers and prints for  *)
(* it (Heard), also while it looks for the panic of a timeout.             *)
(***************************************************************************)
EXTENDS TestSession, SequenceFacts, FiniteSetTheorems

RunInv == /\ RunTypeOK
          /\ EntriesSound
          /\ ActiveAreRunning
          /\ PackagesSound
          /\ ParentsSound

LEMMA InitInv == RunInit => RunInv
<1> SUFFICES ASSUME RunInit PROVE RunInv
  OBVIOUS
<1>1. RunTypeOK
  <2> USE DEF RunInit, EmptyMap
  <2>1. lastSpan = 0 /\ 1..lastSpan = {} /\ 0..lastSpan = {0}
    OBVIOUS
  <2>2. spans \in [DOMAIN spans -> Entry] /\ pkgSpans \in [DOMAIN pkgSpans -> 1..lastSpan]
    OBVIOUS
  <2>3. spanTab \in [1..lastSpan -> Span] /\ DOMAIN logged = 1..lastSpan
    BY <2>1
  <2>4. registered \in [Keys -> 0..lastSpan]
    BY <2>1
  <2>5. activeTests \in [Pkgs -> SUBSET Names] /\ pkgRuns \in [Pkgs -> Nat]
    OBVIOUS
  <2>6. /\ DOMAIN spans \subseteq Keys /\ DOMAIN buffered = DOMAIN spans
        /\ DOMAIN pkgSpans \subseteq Pkgs /\ lastSpan \in Nat /\ returned \in BOOLEAN
    OBVIOUS
  <2> HIDE DEF RunInit, EmptyMap
  <2> QED BY <2>2, <2>3, <2>4, <2>5, <2>6 DEF RunTypeOK
<1>2. EntriesSound /\ ActiveAreRunning /\ PackagesSound /\ ParentsSound
  BY DEF RunInit, EmptyMap, EntriesSound, ActiveAreRunning, PackagesSound, ParentsSound
<1> QED BY <1>1, <1>2 DEF RunInv

Started(kind, p, t, parent, link) ==
    [kind |-> kind, pkg |-> p, test |-> t, parent |-> parent, link |-> link,
     status |-> "unset", ends |-> 0, eofs |-> 0]

\* tracer.Start adds one span, still open, and changes no other.
LEMMA StartAdds ==
    ASSUME RunTypeOK, NEW kind \in Kinds, NEW p \in Pkgs, NEW t \in Names \cup {NoTest},
           NEW parent \in Nat, NEW link \in Nat, Start(kind, p, t, parent, link)
    PROVE  /\ lastSpan \in Nat /\ lastSpan' = lastSpan + 1
           /\ spanTab' \in [1..lastSpan' -> Span]
           /\ \A i \in 1..lastSpan : spanTab'[i] = spanTab[i]
           /\ spanTab'[lastSpan + 1] = Started(kind, p, t, parent, link)
           /\ DOMAIN logged' = 1..lastSpan'
           /\ \A i \in 1..lastSpan : logged'[i] = logged[i]
<1> DEFINE new == Started(kind, p, t, parent, link)
<1>1. lastSpan \in Nat /\ lastSpan' = lastSpan + 1
  BY DEF Start, NewSpan, RunTypeOK
<1>2. 1..lastSpan' = (1..lastSpan) \cup {lastSpan + 1} /\ lastSpan + 1 \notin 1..lastSpan
  BY <1>1
<1>3. new \in Span
  BY DEF Started, Span, Statuses
<1>4. spanTab' = [i \in 1..lastSpan' |-> IF i = lastSpan + 1 THEN new ELSE spanTab[i]]
  BY <1>2 DEF Start, Put, NewSpan, RunTypeOK, Started
<1>5. logged' = [i \in 1..lastSpan' |-> IF i = lastSpan + 1 THEN <<>> ELSE logged[i]]
  BY <1>2 DEF Start, Put, NewSpan, RunTypeOK
<1> HIDE DEF new
<1>6. spanTab' \in [1..lastSpan' -> Span]
  BY <1>2, <1>3, <1>4 DEF RunTypeOK
<1>7. spanTab'[lastSpan + 1] = new
  BY <1>2, <1>4
<1> QED BY <1>1, <1>2, <1>4, <1>5, <1>6, <1>7 DEF new

\* What makes UnderRightSpan hold of a span does not change.
LEMMA ShapeKept ==
    ASSUME RunTypeOK, ParentsSound, NEW tab,
           \A i \in 1..lastSpan : /\ tab[i].kind = spanTab[i].kind
                                  /\ tab[i].pkg = spanTab[i].pkg
                                  /\ tab[i].test = spanTab[i].test
                                  /\ tab[i].parent = spanTab[i].parent
                                  /\ tab[i].link = spanTab[i].link
    PROVE  \A i \in 1..lastSpan : UnderRightSpan(tab, i)
<1> SUFFICES ASSUME NEW i \in 1..lastSpan PROVE UnderRightSpan(tab, i)
  OBVIOUS
<1>1. UnderRightSpan(spanTab, i)
  BY DEF ParentsSound
<1>2. lastSpan \in Nat /\ 1..(i - 1) \subseteq 1..lastSpan
  BY DEF RunTypeOK
<1> QED BY <1>1, <1>2 DEF UnderRightSpan, Of

LEMMA PackageStartInv ==
    ASSUME RunInv, NEW p \in Pkgs, ~returned, PackageStart(p) PROVE RunInv'
<1> USE DEF PackageStart, NewSpan, RunInv
<1>a. /\ lastSpan \in Nat /\ lastSpan' = lastSpan + 1
      /\ spanTab' \in [1..lastSpan' -> Span]
      /\ \A i \in 1..lastSpan : spanTab'[i] = spanTab[i]
      /\ spanTab'[lastSpan + 1] = Started("package", p, NoTest, 0, 0)
      /\ DOMAIN logged' = 1..lastSpan'
  <2>1. "package" \in Kinds /\ NoTest \in Names \cup {NoTest} /\ 0 \in Nat
    BY DEF Kinds
  <2> QED BY <2>1, StartAdds
<1>1. RunTypeOK'
  <2>1. pkgSpans' \in [DOMAIN pkgSpans' -> 1..lastSpan'] /\ DOMAIN pkgSpans' \subseteq Pkgs
    BY <1>a DEF RunTypeOK, Put
  <2>2. spans' \in [DOMAIN spans' -> Entry']
    BY <1>a DEF RunTypeOK, Entry
  <2>3. registered' \in [Keys -> 0..lastSpan']
    BY <1>a DEF RunTypeOK
  <2> QED BY <1>a, <2>1, <2>2, <2>3 DEF RunTypeOK
<1>2. EntriesSound'
  BY <1>a DEF RunTypeOK, EntriesSound, Of, Entry
<1>3. ActiveAreRunning'
  BY DEF ActiveAreRunning
<1>4. PackagesSound'
  BY <1>a DEF RunTypeOK, PackagesSound, Put, Started
<1>5. ParentsSound'
  <2>1. \A i \in 1..lastSpan : UnderRightSpan(spanTab', i)
    BY <1>a, ShapeKept
  <2>2. UnderRightSpan(spanTab', lastSpan + 1)
    BY <1>a DEF UnderRightSpan, Started
  <2> QED BY <1>a, <2>1, <2>2 DEF ParentsSound
<1> QED BY <1>1, <1>2, <1>3, <1>4, <1>5

\* A test starts under the original span of the longest active test its name
\* extends, or under its package's span, or under the root.
LEMMA ParentIsRight ==
    ASSUME RunInv, NEW p \in Pkgs, NEW t \in Names, NEW parent \in Parents(p, t)
    PROVE  /\ parent \in 0..lastSpan
           /\ parent # 0 =>
                LET above == spanTab[parent] IN
                /\ above.pkg = p
                /\ \/ above.kind = "package"
                   \/ above.kind = "test" /\ IsStrictPrefix(above.test, t)
<1> USE DEF RunInv
<1>1. CASE Enclosing(p, t) # {}
  <2>1. PICK a \in Enclosing(p, t) : parent = spans[<<p, a>>].orig
    BY <1>1 DEF Parents, Longest
  <2>2. <<p, a>> \in DOMAIN spans /\ IsStrictPrefix(a, t)
    BY DEF Enclosing
  <2> QED BY <2>1, <2>2 DEF RunTypeOK, Entry, EntriesSound, Of
<1>2. CASE Enclosing(p, t) = {}
  BY <1>2 DEF Parents, RunTypeOK, PackagesSound
<1> QED BY <1>1, <1>2

LEMMA RegisterTyped ==
    ASSUME RunTypeOK, NEW k \in Keys, Register(k), lastSpan' = lastSpan + 1
    PROVE  registered' \in [Keys -> 0..lastSpan']
<1>1. lastSpan \in Nat /\ 0..lastSpan \subseteq 0..lastSpan' /\ NewSpan \in 0..lastSpan'
  BY DEF RunTypeOK, NewSpan
<1>2. registered \in [Keys -> 0..lastSpan']
  BY <1>1 DEF RunTypeOK
<1>3. CASE WithRegistry
  BY <1>1, <1>2, <1>3 DEF Register
<1>4. CASE ~WithRegistry
  BY <1>2, <1>4 DEF Register
<1> QED BY <1>3, <1>4

LEMMA RunTestInv ==
    ASSUME RunInv, NEW p \in Pkgs, NEW t \in Names, ~returned, Run(p, t) PROVE RunInv'
<1> USE DEF RunInv
<1>0. PICK parent \in Parents(p, t) : Start("test", p, t, parent, 0)
  BY DEF Run
<1>1. parent \in Nat /\ "test" \in Kinds
  BY ParentIsRight DEF RunTypeOK, Kinds
<1>a. /\ lastSpan \in Nat /\ lastSpan' = lastSpan + 1
      /\ spanTab' \in [1..lastSpan' -> Span]
      /\ \A i \in 1..lastSpan : spanTab'[i] = spanTab[i]
      /\ spanTab'[lastSpan + 1] = Started("test", p, t, parent, 0)
      /\ DOMAIN logged' = 1..lastSpan'
  BY <1>0, <1>1, StartAdds
<1>b. spans' = Put(spans, <<p, t>>,
                   [orig |-> lastSpan + 1, cur |-> lastSpan + 1, paused |-> FALSE])
  BY DEF Run, NewSpan
<1>2. RunTypeOK'
  <2>1. DOMAIN spans' = DOMAIN spans \cup {<<p, t>>} /\ DOMAIN buffered' = DOMAIN spans'
    BY <1>b DEF Run, Put, RunTypeOK
  <2>2. spans' \in [DOMAIN spans' -> Entry']
    BY <1>a, <1>b DEF Put, Entry, RunTypeOK
  <2>3. pkgSpans' \in [DOMAIN pkgSpans' -> 1..lastSpan'] /\ DOMAIN pkgSpans' \subseteq Pkgs
    BY <1>a DEF RunTypeOK, Run
  <2>4. registered' \in [Keys -> 0..lastSpan']
    BY <1>a, RegisterTyped DEF Run, Keys
  <2>5. /\ activeTests' \in [Pkgs -> SUBSET Names] /\ pkgRuns' \in [Pkgs -> Nat]
        /\ returned' \in BOOLEAN
    BY DEF RunTypeOK, Run
  <2>6. DOMAIN spans' \subseteq Keys
    BY <2>1 DEF Keys, RunTypeOK
  <2> QED BY <1>a, <2>1, <2>2, <2>3, <2>4, <2>5, <2>6 DEF RunTypeOK
<1>3. EntriesSound'
  <2> SUFFICES ASSUME NEW j \in DOMAIN spans'
               PROVE  LET e == spans'[j] IN
                      /\ spanTab'[e.orig].kind = "test" /\ Of(spanTab', e.orig, j)
                      /\ spanTab'[e.orig].eofs = 0
                      /\ spanTab'[e.cur].ends = (IF e.paused THEN 1 ELSE 0)
                      /\ e.cur # e.orig => /\ spanTab'[e.cur].kind = "continue"
                                           /\ Of(spanTab', e.cur, j)
                                           /\ spanTab'[e.cur].parent = e.orig
    BY DEF EntriesSound, Of
  <2>1. CASE j = <<p, t>>
    <3>1. spans'[j] = [orig |-> lastSpan + 1, cur |-> lastSpan + 1, paused |-> FALSE]
      BY <1>b, <2>1 DEF Put
    <3>2. LET s == spanTab'[lastSpan + 1] IN
          s.kind = "test" /\ s.pkg = p /\ s.test = t /\ s.eofs = 0 /\ s.ends = 0
      BY <1>a DEF Started
    <3> QED BY <2>1, <3>1, <3>2 DEF Of
  <2>2. CASE j # <<p, t>>
    <3>1. j \in DOMAIN spans /\ spans'[j] = spans[j]
      BY <1>b, <2>2 DEF Put
    <3>2. spans[j].orig \in 1..lastSpan /\ spans[j].cur \in 1..lastSpan
      BY <3>1 DEF RunTypeOK, Entry
    <3>3. /\ spanTab'[spans[j].orig] = spanTab[spans[j].orig]
          /\ spanTab'[spans[j].cur] = spanTab[spans[j].cur]
      BY <1>a, <3>2
    <3> QED BY <3>1, <3>3 DEF EntriesSound, Of
  <2> QED BY <2>1, <2>2
<1>4. ActiveAreRunning'
  <2>1. activeTests' = [activeTests EXCEPT ![p] = @ \cup {t}]
    BY DEF Run
  <2>2. ASSUME NEW q \in Pkgs, NEW u \in activeTests'[q], <<q, u>> # <<p, t>>
        PROVE  u \in activeTests[q]
    BY <2>1, <2>2 DEF RunTypeOK
  <2>3. \A j \in DOMAIN spans : j # <<p, t>> => j \in DOMAIN spans' /\ spans'[j] = spans[j]
    BY <1>b DEF Put
  <2>4. <<p, t>> \in DOMAIN spans' /\ ~spans'[<<p, t>>].paused
    BY <1>b DEF Put
  <2> QED BY <2>2, <2>3, <2>4 DEF ActiveAreRunning
<1>5. PackagesSound'
  BY <1>a DEF Run, RunTypeOK, PackagesSound
<1>6. ParentsSound'
  <2>1. \A i \in 1..lastSpan : UnderRightSpan(spanTab', i)
    BY <1>a, ShapeKept
  <2>2. UnderRightSpan(spanTab', lastSpan + 1)
    BY <1>a, ParentIsRight DEF UnderRightSpan, Started
  <2> QED BY <1>a, <2>1, <2>2 DEF ParentsSound
<1> QED BY <1>2, <1>3, <1>4, <1>5, <1>6

\* A paused test continues in a span of its own, under the original one.
LEMMA ContInv ==
    ASSUME RunInv, NEW p \in Pkgs, NEW t \in Names, ~returned, Cont(p, t) PROVE RunInv'
<1> USE DEF RunInv
<1> DEFINE k == <<p, t>>
<1>1. CASE k \notin DOMAIN spans \/ ~spans[k].paused
  <2>0. /\ UNCHANGED <<spans, buffered, pkgSpans, pkgRuns, registered, lastSpan, spanTab,
                       logged, returned>>
        /\ \/ UNCHANGED activeTests
           \/ /\ k \in DOMAIN spans
              /\ activeTests' = [activeTests EXCEPT ![p] = @ \cup {t}]
    BY <1>1 DEF Cont
  <2>1. /\ activeTests' \in [Pkgs -> SUBSET Names]
        /\ \A q \in Pkgs : \A u \in activeTests'[q] :
             <<q, u>> \in DOMAIN spans /\ ~spans[<<q, u>>].paused
    <3>1. CASE UNCHANGED activeTests
      BY <2>0, <3>1 DEF RunTypeOK, ActiveAreRunning
    <3>2. CASE /\ k \in DOMAIN spans
               /\ activeTests' = [activeTests EXCEPT ![p] = @ \cup {t}]
      <4>1. activeTests' \in [Pkgs -> SUBSET Names]
        BY <3>2 DEF RunTypeOK
      <4>2. ASSUME NEW q \in Pkgs, NEW u \in activeTests'[q]
            PROVE  u \in activeTests[q] \/ <<q, u>> = k
        BY <3>2, <4>2 DEF RunTypeOK
      <4> QED BY <1>1, <3>2, <4>1, <4>2 DEF ActiveAreRunning
    <3> QED BY <2>0, <3>1, <3>2
  <2> QED
    BY <2>0, <2>1
       DEF RunTypeOK, Entry, EntriesSound, ActiveAreRunning, PackagesSound, ParentsSound
<1>2. CASE k \in DOMAIN spans /\ spans[k].paused
  <2> DEFINE e == spans[k]
  <2>1. /\ e.orig \in 1..lastSpan /\ e.cur \in 1..lastSpan /\ lastSpan \in Nat
        /\ e.orig \in Nat /\ e.cur \in Nat /\ "continue" \in Kinds
    BY <1>2 DEF RunTypeOK, Entry, Kinds
  <2>2. Start("continue", p, t, e.orig, e.cur)
    BY <1>2 DEF Cont
  <2>a. /\ lastSpan \in Nat /\ lastSpan' = lastSpan + 1
        /\ spanTab' \in [1..lastSpan' -> Span]
        /\ \A i \in 1..lastSpan : spanTab'[i] = spanTab[i]
        /\ spanTab'[lastSpan + 1] = Started("continue", p, t, e.orig, e.cur)
        /\ DOMAIN logged' = 1..lastSpan'
    BY <2>1, <2>2, StartAdds
  <2>b. /\ spans' = [spans EXCEPT ![k] = Continued(@)]
        /\ activeTests' = [activeTests EXCEPT ![p] = @ \cup {t}]
        /\ UNCHANGED <<buffered, pkgSpans, pkgRuns, returned>>
        /\ Register(k)
    BY <1>2 DEF Cont, NewSpan
  <2>c. spans' = [j \in DOMAIN spans |->
                    IF j = k THEN [orig |-> e.orig, cur |-> lastSpan + 1, paused |-> FALSE]
                    ELSE spans[j]]
    BY <1>2, <2>b DEF RunTypeOK, Continued, NewSpan
  <2>3. RunTypeOK'
    <3>1. spans' \in [DOMAIN spans' -> Entry']
      <4>1. 1..lastSpan \subseteq 1..lastSpan' /\ lastSpan + 1 \in 1..lastSpan'
        BY <2>a
      <4>2. ASSUME NEW j \in DOMAIN spans PROVE spans[j] \in Entry'
        BY <4>1 DEF RunTypeOK, Entry
      <4>3. [orig |-> e.orig, cur |-> lastSpan + 1, paused |-> FALSE] \in Entry'
        BY <2>1, <4>1 DEF Entry
      <4> QED BY <2>c, <4>2, <4>3
    <3>2. registered' \in [Keys -> 0..lastSpan']
      BY <2>a, <2>b, RegisterTyped DEF Keys
    <3> QED BY <2>a, <2>b, <2>c, <3>1, <3>2 DEF RunTypeOK
  <2>4. EntriesSound'
    BY <1>2, <2>a, <2>c DEF RunTypeOK, EntriesSound, Of, Entry, Started
  <2>5. ActiveAreRunning'
    <3>1. ASSUME NEW q \in Pkgs, NEW u \in activeTests'[q]
          PROVE  u \in activeTests[q] \/ <<q, u>> = k
      BY <2>b, <3>1 DEF RunTypeOK
    <3>2. \A j \in DOMAIN spans : j \in DOMAIN spans' /\ (j # k => spans'[j] = spans[j])
      BY <2>c
    <3>3. k \in DOMAIN spans' /\ ~spans'[k].paused
      BY <1>2, <2>c
    <3> QED BY <3>1, <3>2, <3>3 DEF ActiveAreRunning
  <2>6. PackagesSound'
    BY <2>a, <2>b DEF RunTypeOK, PackagesSound
  <2>7. ParentsSound'
    <3>1. \A i \in 1..lastSpan : UnderRightSpan(spanTab', i)
      BY <2>a, ShapeKept
    <3>2. UnderRightSpan(spanTab', lastSpan + 1)
      BY <1>2, <2>1, <2>a DEF UnderRightSpan, Started, EntriesSound, Of
    <3> QED BY <2>a, <3>1, <3>2 DEF ParentsSound
  <2> QED BY <2>3, <2>4, <2>5, <2>6, <2>7
<1> QED BY <1>1, <1>2

----------------------------------------------------------------------------
(* Ending spans and closing streams changes nothing else.                  *)

LEMMA EndKeeps ==
    ASSUME NEW n \in Nat, NEW tab \in [1..n -> Span], NEW S, NEW status \in Statuses
    PROVE  /\ End(tab, S, status) \in [1..n -> Span]
           /\ \A i \in 1..n : LET s == End(tab, S, status)[i] IN
                /\ s.kind = tab[i].kind /\ s.pkg = tab[i].pkg /\ s.test = tab[i].test
                /\ s.parent = tab[i].parent /\ s.link = tab[i].link
                /\ s.eofs = tab[i].eofs
                /\ i \notin S => s.ends = tab[i].ends
                /\ i \in S => s.ends = tab[i].ends + 1
<1>1. ASSUME NEW i \in 1..n
      PROVE  /\ Final(tab[i], status) \in Span
             /\ LET f == Final(tab[i], status) IN
                /\ f.kind = tab[i].kind /\ f.pkg = tab[i].pkg /\ f.test = tab[i].test
                /\ f.parent = tab[i].parent /\ f.link = tab[i].link
                /\ f.eofs = tab[i].eofs /\ f.ends = tab[i].ends
  <2>1. tab[i] \in Span
    OBVIOUS
  <2> QED BY <2>1 DEF Final, Span
<1>2. End(tab, S, status) =
        [i \in 1..n |-> IF i \in S THEN [Final(tab[i], status) EXCEPT !.ends = @ + 1]
                       ELSE tab[i]]
  BY DEF End
<1>3. ASSUME NEW i \in 1..n, i \in S
      PROVE  LET s == End(tab, S, status)[i] IN
             /\ s \in Span
             /\ s.kind = tab[i].kind /\ s.pkg = tab[i].pkg /\ s.test = tab[i].test
             /\ s.parent = tab[i].parent /\ s.link = tab[i].link
             /\ s.eofs = tab[i].eofs /\ s.ends = tab[i].ends + 1
  <2> DEFINE f == Final(tab[i], status)
  <2>1. f \in Span
    BY <1>1
  <2>2. End(tab, S, status)[i] = [f EXCEPT !.ends = @ + 1]
    BY <1>2, <1>3
  <2>3. /\ f.kind = tab[i].kind /\ f.pkg = tab[i].pkg /\ f.test = tab[i].test
        /\ f.parent = tab[i].parent /\ f.link = tab[i].link
        /\ f.eofs = tab[i].eofs /\ f.ends = tab[i].ends
    BY <1>1
  <2> HIDE DEF f
  <2> QED BY <2>1, <2>2, <2>3, SMTT(30) DEF Span
<1>4. ASSUME NEW i \in 1..n, i \notin S PROVE End(tab, S, status)[i] = tab[i]
  BY <1>2, <1>4
<1> QED BY <1>2, <1>3, <1>4

LEMMA CloseKeeps ==
    ASSUME NEW n \in Nat, NEW tab \in [1..n -> Span], NEW S
    PROVE  /\ CloseStreams(tab, S) \in [1..n -> Span]
           /\ \A i \in 1..n : LET s == CloseStreams(tab, S)[i] IN
                /\ s.kind = tab[i].kind /\ s.pkg = tab[i].pkg /\ s.test = tab[i].test
                /\ s.parent = tab[i].parent /\ s.link = tab[i].link
                /\ s.ends = tab[i].ends
                /\ i \notin S => s.eofs = tab[i].eofs
BY SMTT(40) DEF CloseStreams, Span

LEMMA PauseInv ==
    ASSUME RunInv, NEW p \in Pkgs, NEW t \in Names, ~returned, Pause(p, t) PROVE RunInv'
<1> USE DEF RunInv
<1> DEFINE k == <<p, t>>
<1>0. /\ activeTests' = [activeTests EXCEPT ![p] = @ \ {t}]
      /\ activeTests' \in [Pkgs -> SUBSET Names]
      /\ \A q \in Pkgs : \A u \in activeTests'[q] : u \in activeTests[q] /\ <<q, u>> # k
      /\ UNCHANGED <<buffered, pkgSpans, pkgRuns, registered, lastSpan, logged, returned>>
  BY DEF Pause, RunTypeOK
<1>1. CASE k \notin DOMAIN spans \/ spans[k].paused
  <2>1. UNCHANGED <<spans, spanTab>>
    BY <1>1 DEF Pause
  <2> QED BY <1>0, <2>1 DEF RunTypeOK, Entry, EntriesSound, ActiveAreRunning, PackagesSound,
                           ParentsSound
<1>2. CASE k \in DOMAIN spans /\ ~spans[k].paused
  <2> DEFINE e == spans[k]
  <2>1. /\ spans' = [spans EXCEPT ![k] = PausedEntry(@)]
        /\ spanTab' = End(spanTab, {e.cur}, "unset")
    BY <1>2 DEF Pause
  <2>2. /\ lastSpan \in Nat /\ spanTab \in [1..lastSpan -> Span] /\ "unset" \in Statuses
        /\ e.orig \in 1..lastSpan /\ e.cur \in 1..lastSpan
    BY <1>2 DEF RunTypeOK, Statuses, Entry
  <2>a. /\ spanTab' \in [1..lastSpan -> Span]
        /\ \A i \in 1..lastSpan :
             /\ spanTab'[i].kind = spanTab[i].kind /\ spanTab'[i].pkg = spanTab[i].pkg
             /\ spanTab'[i].test = spanTab[i].test /\ spanTab'[i].link = spanTab[i].link
             /\ spanTab'[i].parent = spanTab[i].parent
             /\ spanTab'[i].eofs = spanTab[i].eofs
             /\ i # e.cur => spanTab'[i].ends = spanTab[i].ends
             /\ i = e.cur => spanTab'[i].ends = spanTab[i].ends + 1
    <3>0. \A S :
            /\ End(spanTab, S, "unset") \in [1..lastSpan -> Span]
            /\ \A i \in 1..lastSpan : LET s == End(spanTab, S, "unset")[i] IN
                 /\ s.kind = spanTab[i].kind /\ s.pkg = spanTab[i].pkg
                 /\ s.test = spanTab[i].test
                 /\ s.parent = spanTab[i].parent /\ s.link = spanTab[i].link
                 /\ s.eofs = spanTab[i].eofs
                 /\ i \notin S => s.ends = spanTab[i].ends
                 /\ i \in S => s.ends = spanTab[i].ends + 1
      BY <2>2, EndKeeps
    <3> DEFINE tab == End(spanTab, {e.cur}, "unset")
    <3>1. /\ tab \in [1..lastSpan -> Span]
          /\ \A i \in 1..lastSpan : LET s == tab[i] IN
               /\ s.kind = spanTab[i].kind /\ s.pkg = spanTab[i].pkg
               /\ s.test = spanTab[i].test
               /\ s.parent = spanTab[i].parent /\ s.link = spanTab[i].link
               /\ s.eofs = spanTab[i].eofs
               /\ i \notin {e.cur} => s.ends = spanTab[i].ends
               /\ i \in {e.cur} => s.ends = spanTab[i].ends + 1
      BY <3>0
    <3>2. spanTab' = tab
      BY <2>1
    <3> HIDE DEF tab
    <3> QED BY <3>1, <3>2
  <2>c. spans' = [j \in DOMAIN spans |->
                    IF j = k THEN [orig |-> e.orig, cur |-> e.cur, paused |-> TRUE]
                    ELSE spans[j]]
    BY <1>2, <2>1 DEF RunTypeOK, PausedEntry
  <2>3. RunTypeOK'
    <3>1. [orig |-> e.orig, cur |-> e.cur, paused |-> TRUE] \in Entry
      BY <2>2 DEF Entry
    <3>2. spans' \in [DOMAIN spans' -> Entry']
      BY <1>0, <2>c, <3>1 DEF RunTypeOK, Entry
    <3> QED BY <1>0, <2>a, <2>c, <3>2 DEF RunTypeOK
  <2>d. spanTab[e.cur].ends = 0 /\ Of(spanTab, e.cur, k) /\ spanTab[e.cur].kind # "package"
    BY <1>2 DEF EntriesSound
  <2>4. ASSUME NEW j \in DOMAIN spans, j # k
        PROVE  spans[j].orig # e.cur /\ spans[j].cur # e.cur
    <3>1. Of(spanTab, spans[j].orig, j) /\ Of(spanTab, spans[j].cur, j)
      BY DEF EntriesSound
    <3>2. k[1] = p /\ k[2] = t /\ j = <<j[1], j[2]>>
      BY DEF RunTypeOK, Keys
    <3> QED BY <2>d, <2>4, <3>1, <3>2 DEF Of
  <2>5. EntriesSound'
    <3>1. ASSUME NEW j \in DOMAIN spans, j # k
          PROVE  /\ spans'[j] = spans[j]
                 /\ spanTab'[spans[j].cur].ends = spanTab[spans[j].cur].ends
      BY <2>4, <2>a, <2>c, <3>1 DEF RunTypeOK, Entry
    <3>2. /\ spans'[k].orig = e.orig /\ spans'[k].cur = e.cur /\ spans'[k].paused = TRUE
          /\ spanTab'[e.cur].ends = 1
      <4>1. spans'[k] = [orig |-> e.orig, cur |-> e.cur, paused |-> TRUE]
        BY <1>2, <2>c
      <4>2. spanTab'[e.cur].ends = 1
        BY <2>2, <2>a, <2>d, SMTT(30)
      <4> QED BY <4>1, <4>2
    <3>3. \A j \in DOMAIN spans : spans[j].orig \in 1..lastSpan /\ spans[j].cur \in 1..lastSpan
      BY DEF RunTypeOK, Entry
    <3> SUFFICES ASSUME NEW j \in DOMAIN spans
                 PROVE  LET f == spans'[j] IN
                        /\ spanTab'[f.orig].kind = "test" /\ Of(spanTab', f.orig, j)
                        /\ spanTab'[f.orig].eofs = 0
                        /\ spanTab'[f.cur].ends = (IF f.paused THEN 1 ELSE 0)
                        /\ f.cur # f.orig => /\ spanTab'[f.cur].kind = "continue"
                                             /\ Of(spanTab', f.cur, j)
                                             /\ spanTab'[f.cur].parent = f.orig
      BY <2>c DEF EntriesSound, Of
    <3>4. CASE j = k
      BY SMTT(40), <1>2, <2>a, <2>2, <3>2, <3>4 DEF EntriesSound, Of
    <3>5. CASE j # k
      BY <2>a, <3>1, <3>3, <3>5 DEF EntriesSound, Of
    <3> QED BY <3>4, <3>5
  <2>6. ActiveAreRunning'
    BY <1>0, <2>c DEF ActiveAreRunning
  <2>7. PackagesSound'
    <3>1. \A q \in DOMAIN pkgSpans : pkgSpans[q] \in 1..lastSpan /\ pkgSpans[q] # e.cur
      BY <2>d DEF RunTypeOK, PackagesSound
    <3> QED BY <1>0, <2>a, <3>1 DEF PackagesSound
  <2>8. ParentsSound'
    BY <1>0, <2>a, ShapeKept DEF ParentsSound
  <2> QED BY <2>3, <2>5, <2>6, <2>7, <2>8
<1> QED BY <1>1, <1>2

----------------------------------------------------------------------------
(* Results: entries go away, and only their spans change.                  *)

LEMMA SettleInv ==
    ASSUME RunInv, NEW K, NEW P,
           spans' = Del(spans, K), pkgSpans' = Del(pkgSpans, P),
           DOMAIN buffered' = DOMAIN spans', DOMAIN logged' = DOMAIN logged,
           activeTests' \in [Pkgs -> SUBSET Names], pkgRuns' \in [Pkgs -> Nat],
           UNCHANGED <<registered, lastSpan, returned>>,
           \A q \in Pkgs : \A u \in activeTests'[q] :
             u \in activeTests[q] /\ <<q, u>> \notin K,
           spanTab' \in [1..lastSpan -> Span],
           \A i \in 1..lastSpan :
             /\ spanTab'[i].kind = spanTab[i].kind /\ spanTab'[i].pkg = spanTab[i].pkg
             /\ spanTab'[i].test = spanTab[i].test /\ spanTab'[i].link = spanTab[i].link
             /\ spanTab'[i].parent = spanTab[i].parent
             /\ \/ spanTab'[i].ends = spanTab[i].ends /\ spanTab'[i].eofs = spanTab[i].eofs
                \/ \E k \in DOMAIN spans \cap K : i \in {spans[k].orig, spans[k].cur}
                \/ \E p \in DOMAIN pkgSpans \cap P : i = pkgSpans[p]
    PROVE  RunInv'
<1> USE DEF RunInv
<1>0. /\ DOMAIN spans' = DOMAIN spans \ K /\ \A k \in DOMAIN spans' : spans'[k] = spans[k]
      /\ DOMAIN pkgSpans' = DOMAIN pkgSpans \ P
      /\ \A p \in DOMAIN pkgSpans' : pkgSpans'[p] = pkgSpans[p]
  BY DEF Del
<1>1. RunTypeOK'
  <2>1. spans' \in [DOMAIN spans' -> Entry']
    BY <1>0 DEF RunTypeOK, Entry, Del
  <2>2. pkgSpans' \in [DOMAIN pkgSpans' -> 1..lastSpan'] /\ DOMAIN pkgSpans' \subseteq Pkgs
    BY <1>0 DEF RunTypeOK, Del
  <2> QED BY <1>0, <2>1, <2>2 DEF RunTypeOK
<1>2. \A k \in DOMAIN spans :
        /\ spans[k].orig \in 1..lastSpan /\ spans[k].cur \in 1..lastSpan
        /\ Of(spanTab, spans[k].orig, k) /\ Of(spanTab, spans[k].cur, k)
        /\ spanTab[spans[k].orig].kind # "package"
        /\ spanTab[spans[k].cur].kind # "package"
        /\ k = <<k[1], k[2]>>
  BY DEF RunTypeOK, Entry, EntriesSound, Keys
<1>3. \A p \in DOMAIN pkgSpans : /\ pkgSpans[p] \in 1..lastSpan
                                 /\ spanTab[pkgSpans[p]].kind = "package"
                                 /\ spanTab[pkgSpans[p]].pkg = p
  BY DEF RunTypeOK, PackagesSound
<1>4. EntriesSound'
  <2> SUFFICES ASSUME NEW j \in DOMAIN spans, j \notin K
               PROVE  LET f == spans[j] IN
                      /\ spanTab'[f.orig].kind = "test" /\ Of(spanTab', f.orig, j)
                      /\ spanTab'[f.orig].eofs = 0
                      /\ spanTab'[f.cur].ends = (IF f.paused THEN 1 ELSE 0)
                      /\ f.cur # f.orig => /\ spanTab'[f.cur].kind = "continue"
                                           /\ Of(spanTab', f.cur, j)
                                           /\ spanTab'[f.cur].parent = f.orig
    BY <1>0 DEF EntriesSound, Of
  <2>1. \A k \in DOMAIN spans \cap K :
          {spans[j].orig, spans[j].cur} \cap {spans[k].orig, spans[k].cur} = {}
    <3> SUFFICES ASSUME NEW k \in DOMAIN spans \cap K,
                        NEW i \in {spans[j].orig, spans[j].cur},
                        i \in {spans[k].orig, spans[k].cur}
                 PROVE  FALSE
      OBVIOUS
    <3>1. Of(spanTab, i, j) /\ Of(spanTab, i, k)
      BY <1>2
    <3>2. j = k
      BY <1>2, <3>1 DEF Of
    <3> QED BY <3>2
  <2>2. \A p \in DOMAIN pkgSpans : pkgSpans[p] \notin {spans[j].orig, spans[j].cur}
    BY <1>2, <1>3
  <2>3. \A i \in {spans[j].orig, spans[j].cur} :
          i \in 1..lastSpan /\ spanTab'[i].ends = spanTab[i].ends
                            /\ spanTab'[i].eofs = spanTab[i].eofs
    <3> TAKE i \in {spans[j].orig, spans[j].cur}
    <3>1. i \in 1..lastSpan
      BY <1>2
    <3>2. ~\E k \in DOMAIN spans \cap K : i \in {spans[k].orig, spans[k].cur}
      BY <2>1
    <3>3. ~\E p \in DOMAIN pkgSpans \cap P : i = pkgSpans[p]
      BY <2>2
    <3> QED BY <3>1, <3>2, <3>3
  <2> QED BY <2>3 DEF EntriesSound, Of
<1>5. ActiveAreRunning'
  BY <1>0 DEF ActiveAreRunning
<1>6. PackagesSound'
  <2> SUFFICES ASSUME NEW p \in DOMAIN pkgSpans, p \notin P
               PROVE  LET s == spanTab'[pkgSpans[p]] IN
                      /\ s.kind = "package" /\ s.pkg = p /\ s.ends = 0
                      /\ ~returned => s.eofs = 0
    BY <1>0 DEF PackagesSound
  <2>1. \A k \in DOMAIN spans : pkgSpans[p] \notin {spans[k].orig, spans[k].cur}
    BY <1>2, <1>3, SMTT(30)
  <2>2. \A q \in DOMAIN pkgSpans \cap P : pkgSpans[p] # pkgSpans[q]
    BY <1>3
  <2> QED BY <1>3, <2>1, <2>2 DEF PackagesSound
<1>7. ParentsSound'
  BY ShapeKept DEF ParentsSound
<1> QED BY <1>1, <1>4, <1>5, <1>6, <1>7

\* Output and lines that are no event touch buffers, logs and the dumps only.
LEMMA QuietInv ==
    ASSUME RunInv,
           UNCHANGED <<spans, activeTests, pkgSpans, pkgRuns, registered, lastSpan, spanTab,
                       returned>>,
           DOMAIN buffered' = DOMAIN buffered, DOMAIN logged' = DOMAIN logged
    PROVE  RunInv'
BY DEF RunInv, RunTypeOK, Entry, EntriesSound, ActiveAreRunning, PackagesSound, ParentsSound

LEMMA OutputKeeps ==
    ASSUME NEW p \in Pkgs, NEW t \in Names \cup {NoTest}, NEW text, Output(p, t, text)
    PROVE  DOMAIN buffered' = DOMAIN buffered /\ DOMAIN logged' = DOMAIN logged
<1>1. \A texts, txt : DOMAIN Buffered(texts, p, t, txt) = DOMAIN texts
  BY DEF Buffered
<1>2. \A texts, u, txt : DOMAIN Unbuffered(texts, p, u, txt) = DOMAIN texts
  BY DEF Unbuffered
<1>3. \A log, i, txt : DOMAIN Log(log, i, txt) = DOMAIN log
  BY DEF Log
<1>4. \A log, txt : DOMAIN LogTest(log, p, t, txt) = DOMAIN log
  BY <1>3 DEF LogTest
<1>5. \A log, txt : DOMAIN LogPackage(log, p, txt) = DOMAIN log
  BY <1>3 DEF LogPackage
<1>6. CASE OutputPlain(p, t, text)
  BY <1>1, <1>4, <1>6 DEF OutputPlain
<1>7. CASE OutputDump(p, t, text)
  <2>1. PICK a, b : logged' = LogTest(LogPackage(logged, p, a), p, t, b)
    BY <1>7 DEF OutputDump
  <2>2. PICK c, u, trimmed :
          /\ trimmed \in {buffered, Unbuffered(buffered, p, u, c)}
          /\ \/ buffered' \in {buffered, trimmed}
             \/ \E txt : buffered' = Buffered(trimmed, p, t, txt)
    BY <1>7, Zenon DEF OutputDump
  <2>3. DOMAIN trimmed = DOMAIN buffered
    BY <1>2, <2>2
  <2> QED BY <1>1, <1>4, <1>5, <2>1, <2>2, <2>3
<1> QED BY <1>6, <1>7 DEF Output

LEMMA OutputInv ==
    ASSUME RunInv, NEW p \in Pkgs, NEW t \in Names \cup {NoTest}, NEW text,
           Output(p, t, text)
    PROVE  RunInv'
BY OutputKeeps, QuietInv, Zenon DEF Output, OutputPlain, OutputDump

\* Closing streams, then ending spans: what both together keep.
LEMMA CloseThenEnd ==
    ASSUME NEW n \in Nat, NEW tab \in [1..n -> Span], NEW S, NEW T, NEW status \in Statuses
    PROVE  LET new == End(CloseStreams(tab, S), T, status) IN
           /\ new \in [1..n -> Span]
           /\ \A i \in 1..n :
                /\ new[i].kind = tab[i].kind /\ new[i].pkg = tab[i].pkg
                /\ new[i].test = tab[i].test /\ new[i].link = tab[i].link
                /\ new[i].parent = tab[i].parent
                /\ i \notin S \cup T => /\ new[i].ends = tab[i].ends
                                        /\ new[i].eofs = tab[i].eofs
<1> DEFINE mid == CloseStreams(tab, S)
<1>1. /\ mid \in [1..n -> Span]
      /\ \A i \in 1..n : LET s == mid[i] IN
           /\ s.kind = tab[i].kind /\ s.pkg = tab[i].pkg /\ s.test = tab[i].test
           /\ s.parent = tab[i].parent /\ s.link = tab[i].link
           /\ s.ends = tab[i].ends
           /\ i \notin S => s.eofs = tab[i].eofs
  BY CloseKeeps
<1> HIDE DEF mid
<1>2. /\ End(mid, T, status) \in [1..n -> Span]
      /\ \A i \in 1..n : LET s == End(mid, T, status)[i] IN
           /\ s.kind = mid[i].kind /\ s.pkg = mid[i].pkg /\ s.test = mid[i].test
           /\ s.parent = mid[i].parent /\ s.link = mid[i].link
           /\ s.eofs = mid[i].eofs
           /\ i \notin T => s.ends = mid[i].ends
           /\ i \in T => s.ends = mid[i].ends + 1
  BY <1>1, EndKeeps
<1> QED BY <1>1, <1>2 DEF mid

LEMMA TestResultInv ==
    ASSUME RunInv, NEW p \in Pkgs, NEW t \in Names, NEW result \in {"pass", "fail", "skip"},
           TestResult(p, t, result)
    PROVE  RunInv'
<1> USE DEF RunInv
<1> DEFINE k == <<p, t>>
           e == spans[k]
           tab == End(CloseStreams(spanTab, {e.orig}), {e.cur}, result)
<1>0. /\ activeTests' \in [Pkgs -> SUBSET Names]
      /\ \A q \in Pkgs : \A u \in activeTests'[q] : u \in activeTests[q] /\ <<q, u>> # k
      /\ UNCHANGED <<pkgSpans, pkgRuns, registered, lastSpan, logged, returned>>
      /\ result \in Statuses /\ lastSpan \in Nat /\ spanTab \in [1..lastSpan -> Span]
  BY DEF TestResult, RunTypeOK, Statuses
<1>p. pkgSpans' = Del(pkgSpans, {}) /\ pkgRuns' \in [Pkgs -> Nat]
  BY <1>0 DEF Del, RunTypeOK
<1>1. CASE k \in DOMAIN spans
  <2>1. spans' = Del(spans, {k}) /\ buffered' = Del(buffered, {k}) /\ spanTab' = tab
    BY <1>1 DEF TestResult
  <2>2. /\ tab \in [1..lastSpan -> Span]
        /\ \A i \in 1..lastSpan :
             /\ tab[i].kind = spanTab[i].kind /\ tab[i].pkg = spanTab[i].pkg
             /\ tab[i].test = spanTab[i].test /\ tab[i].link = spanTab[i].link
             /\ tab[i].parent = spanTab[i].parent
             /\ i \notin {e.orig} \cup {e.cur} => /\ tab[i].ends = spanTab[i].ends
                                                  /\ tab[i].eofs = spanTab[i].eofs
    <3>1. \A S, T :
            LET new == End(CloseStreams(spanTab, S), T, result) IN
            /\ new \in [1..lastSpan -> Span]
            /\ \A i \in 1..lastSpan :
                 /\ new[i].kind = spanTab[i].kind /\ new[i].pkg = spanTab[i].pkg
                 /\ new[i].test = spanTab[i].test /\ new[i].link = spanTab[i].link
                 /\ new[i].parent = spanTab[i].parent
                 /\ i \notin S \cup T => /\ new[i].ends = spanTab[i].ends
                                         /\ new[i].eofs = spanTab[i].eofs
      BY <1>0, CloseThenEnd
    <3> QED BY <3>1
  <2>3. DOMAIN buffered' = DOMAIN spans' /\ DOMAIN logged' = DOMAIN logged
    BY <1>0, <2>1 DEF Del, RunTypeOK
  <2> HIDE DEF tab
  <2>4. \A q \in Pkgs : \A u \in activeTests'[q] : u \in activeTests[q] /\ <<q, u>> \notin {k}
    BY <1>0
  <2>5. \A i \in 1..lastSpan :
             /\ spanTab'[i].kind = spanTab[i].kind /\ spanTab'[i].pkg = spanTab[i].pkg
             /\ spanTab'[i].test = spanTab[i].test /\ spanTab'[i].link = spanTab[i].link
             /\ spanTab'[i].parent = spanTab[i].parent
             /\ \/ spanTab'[i].ends = spanTab[i].ends /\ spanTab'[i].eofs = spanTab[i].eofs
                \/ \E j \in DOMAIN spans \cap {k} : i \in {spans[j].orig, spans[j].cur}
                \/ \E q \in DOMAIN pkgSpans \cap {} : i = pkgSpans[q]
    BY <1>1, <2>1, <2>2
  <2>6. spanTab' \in [1..lastSpan -> Span]
    BY <2>1, <2>2
  <2> HIDE DEF k
  <2> QED BY <1>0, <1>p, <2>1, <2>3, <2>4, <2>5, <2>6, SettleInv
<1>2. CASE k \notin DOMAIN spans
  <2>1. UNCHANGED <<spans, buffered, spanTab>>
    BY <1>2 DEF TestResult
  <2>2. spans' = Del(spans, {}) /\ DOMAIN buffered' = DOMAIN spans'
    BY <2>1 DEF Del, RunTypeOK
  <2> QED BY <1>0, <1>p, <2>1, <2>2, SettleInv
<1> QED BY <1>1, <1>2

\* What the three results of a package have in common.
LEMMA PackageInv ==
    ASSUME RunInv, NEW p \in Pkgs, NEW K, NEW tab \in [1..lastSpan -> Span],
           NEW status \in Statuses, ForgetPackage(p),
           spans' = Del(spans, K), DOMAIN buffered' = DOMAIN spans',
           spanTab' = EndPackageSpan(tab, p, status),
           \A k \in DOMAIN spans \cap K : k[1] = p,
           \A i \in 1..lastSpan :
             /\ tab[i].kind = spanTab[i].kind /\ tab[i].pkg = spanTab[i].pkg
             /\ tab[i].test = spanTab[i].test /\ tab[i].link = spanTab[i].link
             /\ tab[i].parent = spanTab[i].parent
             /\ \/ tab[i].ends = spanTab[i].ends /\ tab[i].eofs = spanTab[i].eofs
                \/ \E k \in DOMAIN spans \cap K : i \in {spans[k].orig, spans[k].cur}
    PROVE  RunInv'
<1> USE DEF RunInv
<1> DEFINE new == EndPackageSpan(tab, p, status)
<1>1. lastSpan \in Nat
  BY DEF RunTypeOK
<1>2. /\ new \in [1..lastSpan -> Span]
      /\ \A i \in 1..lastSpan :
           /\ new[i].kind = tab[i].kind /\ new[i].pkg = tab[i].pkg
           /\ new[i].test = tab[i].test /\ new[i].link = tab[i].link
           /\ new[i].parent = tab[i].parent
           /\ i \notin PackageSpan(p) \cup PackageSpan(p) =>
                new[i].ends = tab[i].ends /\ new[i].eofs = tab[i].eofs
  BY <1>1, CloseThenEnd DEF EndPackageSpan
<1> HIDE DEF new
<1>3. /\ activeTests' \in [Pkgs -> SUBSET Names] /\ pkgRuns' \in [Pkgs -> Nat]
      /\ pkgSpans' = Del(pkgSpans, {p})
      /\ UNCHANGED <<registered, lastSpan, returned, logged>>
      /\ \A q \in Pkgs : \A u \in activeTests'[q] : u \in activeTests[q] /\ q # p
  BY DEF ForgetPackage, RunTypeOK
<1>4. \A q \in Pkgs : \A u \in activeTests'[q] : u \in activeTests[q] /\ <<q, u>> \notin K
  <2> SUFFICES ASSUME NEW q \in Pkgs, NEW u \in activeTests'[q] PROVE <<q, u>> \notin K
    BY <1>3
  <2>1. <<q, u>> \in DOMAIN spans /\ <<q, u>>[1] # p
    BY <1>3 DEF ActiveAreRunning
  <2> QED BY <2>1
<1>6. ASSUME NEW i \in 1..lastSpan
      PROVE  \/ new[i].ends = spanTab[i].ends /\ new[i].eofs = spanTab[i].eofs
             \/ \E k \in DOMAIN spans \cap K : i \in {spans[k].orig, spans[k].cur}
             \/ \E q \in DOMAIN pkgSpans \cap {p} : i = pkgSpans[q]
  BY <1>2 DEF PackageSpan
<1>7. /\ spanTab' \in [1..lastSpan -> Span]
      /\ \A i \in 1..lastSpan :
           /\ spanTab'[i].kind = spanTab[i].kind /\ spanTab'[i].pkg = spanTab[i].pkg
           /\ spanTab'[i].test = spanTab[i].test /\ spanTab'[i].link = spanTab[i].link
           /\ spanTab'[i].parent = spanTab[i].parent
           /\ \/ spanTab'[i].ends = spanTab[i].ends /\ spanTab'[i].eofs = spanTab[i].eofs
              \/ \E k \in DOMAIN spans \cap K : i \in {spans[k].orig, spans[k].cur}
              \/ \E q \in DOMAIN pkgSpans \cap {p} : i = pkgSpans[q]
  <2>1. spanTab' = new
    BY DEF new
  <2> QED BY <1>2, <1>6, <2>1
<1> QED BY <1>3, <1>4, <1>7, SettleInv

\* Package pass and skip: the package's own span is all that changes.
LEMMA PackageEndInv ==
    ASSUME RunInv, NEW p \in Pkgs, PackagePass(p) \/ PackageSkip(p) PROVE RunInv'
<1>1. PICK status \in Statuses : spanTab' = EndPackageSpan(spanTab, p, status)
  BY DEF PackagePass, PassStatus, PackageSkip, Statuses
<1>2. ForgetPackage(p) /\ UNCHANGED <<spans, buffered>>
  BY DEF PackagePass, PackageSkip
<1>3. spans' = Del(spans, {}) /\ DOMAIN buffered' = DOMAIN spans'
  BY <1>2 DEF Del, RunInv, RunTypeOK
<1>4. spanTab \in [1..lastSpan -> Span]
  BY DEF RunInv, RunTypeOK
<1>5. \A k \in DOMAIN spans \cap {} : k[1] = p
  OBVIOUS
<1> QED BY <1>1, <1>2, <1>3, <1>4, <1>5, PackageInv

LEMMA PackageFailInv ==
    ASSUME RunInv, NEW p \in Pkgs, PackageFail(p) PROVE RunInv'
<1> DEFINE K == Unfinished(p)
           S == {spans[k].orig : k \in K}
           T == Unended(p)
           tab == End(CloseStreams(spanTab, S), T, "unfinished")
<1>1. /\ spanTab' = EndPackageSpan(tab, p, "fail")
      /\ spans' = Del(spans, K) /\ DOMAIN buffered' = DOMAIN spans' /\ ForgetPackage(p)
  BY DEF PackageFail, DropUnfinished, Del, RunInv, RunTypeOK
<1>2. /\ lastSpan \in Nat /\ spanTab \in [1..lastSpan -> Span]
      /\ "unfinished" \in Statuses /\ "fail" \in Statuses
  BY DEF RunInv, RunTypeOK, Statuses
<1>3. \A k \in DOMAIN spans \cap K : k[1] = p
  BY DEF Unfinished
<1>4. \A i \in S \cup T : \E k \in DOMAIN spans \cap K : i \in {spans[k].orig, spans[k].cur}
  BY DEF Unended, Unfinished
<1> HIDE DEF S, T, K
<1>5. /\ tab \in [1..lastSpan -> Span]
      /\ \A i \in 1..lastSpan :
           /\ tab[i].kind = spanTab[i].kind /\ tab[i].pkg = spanTab[i].pkg
           /\ tab[i].test = spanTab[i].test /\ tab[i].link = spanTab[i].link
           /\ tab[i].parent = spanTab[i].parent
           /\ i \notin S \cup T => tab[i].ends = spanTab[i].ends /\ tab[i].eofs = spanTab[i].eofs
  BY <1>2, CloseThenEnd
<1> HIDE DEF tab
<1>6. \A i \in 1..lastSpan :
        /\ tab[i].kind = spanTab[i].kind /\ tab[i].pkg = spanTab[i].pkg
        /\ tab[i].test = spanTab[i].test /\ tab[i].link = spanTab[i].link
        /\ tab[i].parent = spanTab[i].parent
        /\ \/ tab[i].ends = spanTab[i].ends /\ tab[i].eofs = spanTab[i].eofs
           \/ \E k \in DOMAIN spans \cap K : i \in {spans[k].orig, spans[k].cur}
  BY <1>4, <1>5
<1> QED BY <1>1, <1>2, <1>3, <1>5, <1>6, PackageInv

\* At the end of the stream only the package streams are closed.
LEMMA ReturnInv == ASSUME RunInv, Return PROVE RunInv'
<1> USE DEF RunInv
<1> DEFINE S == {pkgSpans[p] : p \in DOMAIN pkgSpans}
           tab == CloseStreams(spanTab, S)
<1>1. /\ spanTab' = tab /\ returned' = TRUE
      /\ UNCHANGED <<spans, buffered, activeTests, pkgSpans, pkgRuns, registered, lastSpan,
                     logged>>
  BY DEF Return
<1>2. lastSpan \in Nat /\ spanTab \in [1..lastSpan -> Span]
  BY DEF RunTypeOK
<1>3. \A k \in DOMAIN spans : /\ spans[k].orig \in 1..lastSpan /\ spans[k].cur \in 1..lastSpan
                              /\ spans[k].orig \notin S
  BY DEF RunTypeOK, Entry, EntriesSound, PackagesSound
<1>4. \A p \in DOMAIN pkgSpans : pkgSpans[p] \in 1..lastSpan
  BY DEF RunTypeOK
<1> HIDE DEF S
<1>5. /\ tab \in [1..lastSpan -> Span]
      /\ \A i \in 1..lastSpan : LET s == tab[i] IN
           /\ s.kind = spanTab[i].kind /\ s.pkg = spanTab[i].pkg /\ s.test = spanTab[i].test
           /\ s.parent = spanTab[i].parent /\ s.link = spanTab[i].link
           /\ s.ends = spanTab[i].ends
           /\ i \notin S => s.eofs = spanTab[i].eofs
  BY <1>2, CloseKeeps
<1> HIDE DEF tab
<1>6. RunTypeOK'
  BY <1>1, <1>5 DEF RunTypeOK, Entry
<1>7. EntriesSound'
  BY <1>1, <1>3, <1>5 DEF EntriesSound, Of
<1>8. ActiveAreRunning'
  BY <1>1 DEF ActiveAreRunning
<1>9. PackagesSound'
  BY <1>1, <1>4, <1>5 DEF PackagesSound
<1>10. ParentsSound'
  <2>1. \A i \in 1..lastSpan : UnderRightSpan(tab, i)
    BY <1>5, ShapeKept
  <2> QED BY <1>1, <2>1 DEF ParentsSound
<1> QED BY <1>6, <1>7, <1>8, <1>9, <1>10

----------------------------------------------------------------------------
(* The next-state relation.                                                *)

\* Any event of a package and a name that Run knows, whatever its text.
LEMMA HandleInv ==
    ASSUME RunInv, NEW ev, Handle(ev), ev.action # "line" => ev.pkg \in Pkgs,
           ev.test \in Names \cup {NoTest}
    PROVE  RunInv'
<1> DEFINE p == ev.pkg
           t == ev.test
<1>0. /\ ~returned
      /\ ev.action # "line" => p \in Pkgs
      /\ t \in Names \cup {NoTest}
  BY DEF Handle
<1>1. CASE ev.action = "start" /\ PackageStart(p)
  BY <1>0, <1>1, PackageStartInv
<1>2. CASE ev.action \in {"pass", "skip"} /\ (PackagePass(p) \/ PackageSkip(p))
  BY <1>0, <1>2, PackageEndInv
<1>3. CASE ev.action = "fail" /\ PackageFail(p)
  BY <1>0, <1>3, PackageFailInv
<1>4. CASE t # NoTest /\ ev.action = "run" /\ Run(p, t)
  BY <1>0, <1>4, RunTestInv
<1>5. CASE t # NoTest /\ ev.action = "pause" /\ Pause(p, t)
  BY <1>0, <1>5, PauseInv
<1>6. CASE t # NoTest /\ ev.action = "cont" /\ Cont(p, t)
  BY <1>0, <1>6, ContInv
<1>7. CASE /\ t # NoTest /\ ev.action \in {"pass", "fail", "skip"}
           /\ TestResult(p, t, ev.action)
  BY <1>0, <1>7, TestResultInv
<1>8. CASE ev.action = "output" /\ Output(p, t, ev.text)
  BY <1>0, <1>8, OutputInv
<1>9. CASE PassThrough(ev.text)
  BY <1>9, QuietInv DEF PassThrough
<1> QED BY <1>1, <1>2, <1>3, <1>4, <1>5, <1>6, <1>7, <1>8, <1>9 DEF Handle

LEMMA StepInv == RunInv /\ [RunNext]_runVars => RunInv'
<1> SUFFICES ASSUME RunInv, [RunNext]_runVars PROVE RunInv'
  OBVIOUS
<1>1. CASE UNCHANGED runVars
  <2>1. UNCHANGED <<spans, activeTests, pkgSpans, pkgRuns, registered, lastSpan, spanTab,
                    returned, buffered, logged>>
    BY <1>1 DEF runVars
  <2> QED BY <2>1, QuietInv
<1>2. CASE Return
  BY <1>2, ReturnInv
<1>3. ASSUME NEW ev \in Events, Handle(ev) PROVE RunInv'
  BY <1>3, HandleInv DEF Events
<1> QED BY <1>1, <1>2, <1>3 DEF RunNext

LEMMA RunInvariant == RunSpec => []RunInv
BY InitInv, StepInv, PTL DEF RunSpec

\* Run's maps stay well-typed whatever it is fed.
THEOREM RunTyping == RunSpec => []RunTypeOK
BY RunInvariant, PTL DEF RunInv

\* A test's entry names its own spans, and its current span is open unless
\* the test is paused (gotest.go:36-57, 540-584).
THEOREM RunEntries == RunSpec => []EntriesSound
BY RunInvariant, PTL DEF RunInv

\* The lookup of an active test never fails (gotest.go:487-489).
THEOREM RunActive == RunSpec => []ActiveAreRunning
BY RunInvariant, PTL DEF RunInv

\* A package's entry is its running span, with its streams open.
THEOREM RunPackages == RunSpec => []PackagesSound
BY RunInvariant, PTL DEF RunInv

\* Every span is under a span it belongs under (gotest.go:477-498, 552-584).
THEOREM RunParents == RunSpec => []ParentsSound
BY RunInvariant, PTL DEF RunInv

----------------------------------------------------------------------------
(* The EOF record is the last word on a stream.                            *)

\* A closed stream is none that Run could still write to or close.
LEMMA ClosedIsForgotten ==
    ASSUME RunInv, ~returned, NEW i \in 1..lastSpan, spanTab[i].eofs > 0
    PROVE  /\ \A k \in DOMAIN spans : spans[k].orig # i
           /\ \A p \in DOMAIN pkgSpans : pkgSpans[p] # i
BY DEF RunInv, EntriesSound, PackagesSound

LEMMA EofsKept ==
    ASSUME NEW n \in Nat, NEW tab \in [1..n -> Span], NEW S, NEW T, NEW status \in Statuses,
           NEW i \in 1..n, i \notin S
    PROVE  /\ CloseStreams(tab, S)[i].eofs = tab[i].eofs
           /\ End(tab, T, status)[i].eofs = tab[i].eofs
           /\ End(CloseStreams(tab, S), T, status)[i].eofs = tab[i].eofs
<1> DEFINE mid == CloseStreams(tab, S)
<1>1. mid \in [1..n -> Span] /\ mid[i].eofs = tab[i].eofs
  BY CloseKeeps
<1> HIDE DEF mid
<1>2. End(mid, T, status)[i].eofs = mid[i].eofs
  BY <1>1, EndKeeps
<1>3. End(tab, T, status)[i].eofs = tab[i].eofs
  BY EndKeeps
<1> QED BY <1>1, <1>2, <1>3 DEF mid

LEMMA OutputQuiet ==
    ASSUME RunInv, NEW p \in Pkgs, NEW t \in Names \cup {NoTest}, NEW text, ~returned,
           Output(p, t, text), NEW i \in 1..lastSpan, spanTab[i].eofs > 0
    PROVE  logged'[i] = logged[i]
<1>1. \A log, j, txt : j # i => Log(log, j, txt)[i] = log[i]
  BY DEF Log
<1>2. \A log, txt : LogTest(log, p, t, txt)[i] = log[i]
  BY <1>1, ClosedIsForgotten DEF LogTest
<1>3. \A log, txt : LogPackage(log, p, txt)[i] = log[i]
  BY <1>1, ClosedIsForgotten DEF LogPackage
<1>4. CASE OutputPlain(p, t, text)
  BY <1>2, <1>4 DEF OutputPlain
<1>5. CASE OutputDump(p, t, text)
  <2>1. PICK a, b : logged' = LogTest(LogPackage(logged, p, a), p, t, b)
    BY <1>5 DEF OutputDump
  <2> QED BY <1>2, <1>3, <2>1
<1> QED BY <1>4, <1>5 DEF Output

LEMMA PackageFailEofs ==
    ASSUME RunInv, NEW p \in Pkgs, ~returned, PackageFail(p),
           NEW i \in 1..lastSpan, spanTab[i].eofs > 0
    PROVE  spanTab'[i].eofs = spanTab[i].eofs
<1> DEFINE S == {spans[k].orig : k \in Unfinished(p)}
           T == Unended(p)
           tab == End(CloseStreams(spanTab, S), T, "unfinished")
<1>1. spanTab' = End(CloseStreams(tab, PackageSpan(p)), PackageSpan(p), "fail")
  BY DEF PackageFail, EndPackageSpan
<1>2. /\ lastSpan \in Nat /\ spanTab \in [1..lastSpan -> Span]
      /\ "unfinished" \in Statuses /\ "fail" \in Statuses
  BY DEF RunInv, RunTypeOK, Statuses
<1>3. i \notin S /\ i \notin PackageSpan(p)
  BY ClosedIsForgotten DEF Unfinished, PackageSpan
<1> HIDE DEF S, T
<1>4. tab \in [1..lastSpan -> Span]
  BY <1>2, CloseThenEnd
<1>5. tab[i].eofs = spanTab[i].eofs
  BY <1>2, <1>3, EofsKept
<1> HIDE DEF tab
<1>6. End(CloseStreams(tab, PackageSpan(p)), PackageSpan(p), "fail")[i].eofs = tab[i].eofs
  BY <1>2, <1>3, <1>4, EofsKept
<1> QED BY <1>1, <1>5, <1>6

LEMMA EofsOfTab ==
    ASSUME RunInv, NEW i \in 1..lastSpan
    PROVE  \A S, T : \A status \in Statuses : i \notin S =>
             /\ CloseStreams(spanTab, S)[i].eofs = spanTab[i].eofs
             /\ End(spanTab, T, status)[i].eofs = spanTab[i].eofs
             /\ End(CloseStreams(spanTab, S), T, status)[i].eofs = spanTab[i].eofs
<1>1. \A n \in Nat : \A tab \in [1..n -> Span] : \A S, T : \A status \in Statuses :
        \A j \in 1..n : j \notin S =>
             /\ CloseStreams(tab, S)[j].eofs = tab[j].eofs
             /\ End(tab, T, status)[j].eofs = tab[j].eofs
             /\ End(CloseStreams(tab, S), T, status)[j].eofs = tab[j].eofs
  BY EofsKept, Zenon
<1>2. lastSpan \in Nat /\ spanTab \in [1..lastSpan -> Span]
  BY DEF RunInv, RunTypeOK
<1>3. \A S, T : \A status \in Statuses : \A j \in 1..lastSpan : j \notin S =>
             /\ CloseStreams(spanTab, S)[j].eofs = spanTab[j].eofs
             /\ End(spanTab, T, status)[j].eofs = spanTab[j].eofs
             /\ End(CloseStreams(spanTab, S), T, status)[j].eofs = spanTab[j].eofs
  BY <1>1, <1>2
<1> QED BY <1>3

LEMMA HandleEofs ==
    ASSUME RunInv, NEW ev, Handle(ev), ev.action # "line" => ev.pkg \in Pkgs,
           ev.test \in Names \cup {NoTest}, NEW i \in 1..lastSpan, spanTab[i].eofs > 0
    PROVE  spanTab'[i].eofs = spanTab[i].eofs /\ logged'[i] = logged[i]
<1>y. /\ lastSpan \in Nat /\ spanTab \in [1..lastSpan -> Span]
      /\ {"pass", "fail", "skip", "unset", "no tests to run"} \subseteq Statuses
  BY DEF RunInv, RunTypeOK, Statuses
<1>z. \A S, T : \A status \in Statuses : i \notin S =>
        /\ CloseStreams(spanTab, S)[i].eofs = spanTab[i].eofs
        /\ End(spanTab, T, status)[i].eofs = spanTab[i].eofs
        /\ End(CloseStreams(spanTab, S), T, status)[i].eofs = spanTab[i].eofs
  BY EofsOfTab
<1> DEFINE p == ev.pkg
           t == ev.test
<1>0. ~returned /\ (ev.action # "line" => p \in Pkgs) /\ t \in Names \cup {NoTest}
  BY DEF Handle
<1>f. /\ \A k \in DOMAIN spans : spans[k].orig # i
      /\ i \notin PackageSpan(p)
  BY <1>0, ClosedIsForgotten DEF PackageSpan
<1>s. ASSUME NEW kind \in Kinds, p \in Pkgs, NEW parent \in Nat, NEW link \in Nat,
             Start(kind, p, t, parent, link)
      PROVE  spanTab'[i].eofs = spanTab[i].eofs /\ logged'[i] = logged[i]
  BY <1>0, <1>s, StartAdds DEF RunInv
<1>1. CASE ev.action = "start" /\ t = NoTest /\ PackageStart(p)
  BY <1>0, <1>1, <1>s DEF PackageStart, Kinds
<1>2. CASE ev.action \in {"pass", "skip"} /\ (PackagePass(p) \/ PackageSkip(p))
  <2>1. PICK status \in Statuses :
          spanTab' = End(CloseStreams(spanTab, PackageSpan(p)), PackageSpan(p), status)
    BY <1>2 DEF PackagePass, PassStatus, PackageSkip, EndPackageSpan, Statuses
  <2>2. UNCHANGED logged
    BY <1>2 DEF PackagePass, PackageSkip, ForgetPackage
  <2>3. End(CloseStreams(spanTab, PackageSpan(p)), PackageSpan(p), status)[i].eofs
          = spanTab[i].eofs
    BY <1>z, <1>f
  <2> QED BY <2>1, <2>2, <2>3
<1>3. CASE ev.action = "fail" /\ PackageFail(p)
  BY <1>0, <1>3, PackageFailEofs DEF PackageFail, ForgetPackage
<1>4. CASE t # NoTest /\ ev.action = "run" /\ Run(p, t)
  <2>1. PICK parent \in Parents(p, t) : Start("test", p, t, parent, 0)
    BY <1>4 DEF Run
  <2>2. parent \in Nat
    BY <1>0, <1>4, ParentIsRight DEF RunInv, RunTypeOK
  <2> QED BY <1>0, <1>4, <1>s, <2>1, <2>2 DEF Kinds
<1>5. CASE t # NoTest /\ ev.action = "pause" /\ Pause(p, t)
  <2>1. UNCHANGED logged
    BY <1>5 DEF Pause
  <2>2. CASE UNCHANGED spanTab
    BY <2>1, <2>2
  <2>3. ASSUME NEW T, spanTab' = End(spanTab, T, "unset")
        PROVE  spanTab'[i].eofs = spanTab[i].eofs
    <3>1. End(spanTab, T, "unset") = spanTab'
      BY <2>3
    <3>2. \A n \in Nat : \A tab \in [1..n -> Span] : \A R : \A status \in Statuses :
            \A j \in 1..n : End(tab, R, status)[j].eofs = tab[j].eofs
      BY EndKeeps
    <3>3. \A R : \A status \in Statuses :
            \A j \in 1..lastSpan : End(spanTab, R, status)[j].eofs = spanTab[j].eofs
      BY <1>y, <3>2
    <3>4. "unset" \in Statuses
      BY <1>y
    <3>5. End(spanTab, T, "unset")[i].eofs = spanTab[i].eofs
      BY <3>3, <3>4
    <3> QED BY <3>1, <3>5
  <2> QED BY <1>5, <2>1, <2>2, <2>3 DEF Pause
<1>6. CASE t # NoTest /\ ev.action = "cont" /\ Cont(p, t)
  <2>1. CASE UNCHANGED <<spanTab, logged>>
    BY <2>1
  <2>2. CASE /\ <<p, t>> \in DOMAIN spans
             /\ Start("continue", p, t, spans[<<p, t>>].orig, spans[<<p, t>>].cur)
    <3>1. spans[<<p, t>>].orig \in Nat /\ spans[<<p, t>>].cur \in Nat
      BY <2>2 DEF RunInv, RunTypeOK, Entry
    <3> QED BY <1>0, <1>6, <1>s, <2>2, <3>1 DEF Kinds
  <2> QED BY <1>6, <2>1, <2>2 DEF Cont
<1>7. CASE /\ t # NoTest /\ ev.action \in {"pass", "fail", "skip"}
           /\ TestResult(p, t, ev.action)
  <2>1. UNCHANGED logged
    BY <1>7 DEF TestResult
  <2>2. CASE <<p, t>> \in DOMAIN spans
    <3>1. i \notin {spans[<<p, t>>].orig} /\ ev.action \in Statuses
      BY <1>y, <1>f, <1>7, <2>2
    <3> DEFINE S == {spans[<<p, t>>].orig}
               T == {spans[<<p, t>>].cur}
    <3>2. spanTab' = End(CloseStreams(spanTab, S), T, ev.action)
      BY <1>7, <2>2 DEF TestResult
    <3>3. End(CloseStreams(spanTab, S), T, ev.action)[i].eofs = spanTab[i].eofs
      BY <1>z, <3>1 DEF S
    <3> QED BY <2>1, <3>2, <3>3
  <2>3. CASE <<p, t>> \notin DOMAIN spans
    BY <1>7, <2>1, <2>3 DEF TestResult
  <2> QED BY <2>2, <2>3
<1>8. CASE ev.action = "output" /\ Output(p, t, ev.text)
  BY <1>0, <1>8, OutputQuiet, Zenon DEF Output, OutputPlain, OutputDump
<1>9. CASE PassThrough(ev.text)
  BY <1>9 DEF PassThrough
<1> QED BY <1>1, <1>2, <1>3, <1>4, <1>5, <1>6, <1>7, <1>8, <1>9 DEF Handle

LEMMA StepEofs ==
    ASSUME RunInv, [RunNext]_runVars, NEW i \in 1..lastSpan, spanTab[i].eofs > 0
    PROVE  spanTab'[i].eofs = spanTab[i].eofs /\ logged'[i] = logged[i]
<1>0. /\ lastSpan \in Nat /\ spanTab \in [1..lastSpan -> Span]
      /\ {"pass", "fail", "skip", "unset", "no tests to run"} \subseteq Statuses
  BY DEF RunInv, RunTypeOK, Statuses
<1>a. \A S, T : \A status \in Statuses : i \notin S =>
        /\ CloseStreams(spanTab, S)[i].eofs = spanTab[i].eofs
        /\ End(spanTab, T, status)[i].eofs = spanTab[i].eofs
        /\ End(CloseStreams(spanTab, S), T, status)[i].eofs = spanTab[i].eofs
  BY EofsOfTab
<1>1. CASE UNCHANGED runVars
  BY <1>1 DEF runVars
<1>2. CASE Return
  <2>1. i \notin {pkgSpans[p] : p \in DOMAIN pkgSpans}
    BY <1>2, ClosedIsForgotten DEF Return
  <2>2. /\ UNCHANGED logged
        /\ spanTab' = CloseStreams(spanTab, {pkgSpans[p] : p \in DOMAIN pkgSpans})
    BY <1>2 DEF Return
  <2> QED BY <1>0, <1>a, <2>1, <2>2
<1>3. ASSUME NEW ev \in Events, Handle(ev)
      PROVE  spanTab'[i].eofs = spanTab[i].eofs /\ logged'[i] = logged[i]
  BY <1>3, HandleEofs DEF Events
<1> QED BY <1>1, <1>2, <1>3 DEF RunNext

\* Nothing is logged to a span after its EOF record, which is sent once.
THEOREM RunEOFLast == RunSpec => NothingAfterEOF
<1>1. RunInv /\ [RunNext]_runVars =>
        [\A i \in 1..lastSpan : spanTab[i].eofs > 0 =>
           spanTab'[i].eofs = spanTab[i].eofs /\ logged'[i] = logged[i]]_runVars
  BY StepEofs
<1> QED BY <1>1, RunInvariant, PTL DEF RunSpec, NothingAfterEOF
----------------------------------------------------------------------------
(* A view is the state of the tests as of an event: which are on, paused   *)
(* or off, the runs each has begun, its last result, and each package's.   *)
(* Seen relates Run's tables and the spans it started to the view it has   *)
(* reached; Advance says what an event makes of a view. Run keeps up: an   *)
(* event that takes one view to the next takes Run from the one to the     *)
(* other.                                                                  *)

Verdicts == {"pass", "fail", "skip"}
Call == (Names \cup {NoTest}) \X Nat
View == [st : [Keys -> {"off", "on", "paused"}],
         pkg : [Pkgs -> {"new", "open"} \cup Verdicts],
         begun : [Keys -> Seq(Call)],
         last : [Keys -> Verdicts]]

Tests(p) == {k \in Keys : k[1] = p}

\* Event ev leads from view v to view w: of a test,
TestAdvance(v, action, k, w) ==
    /\ v.pkg[k[1]] = "open"
    /\ w.pkg = v.pkg
    /\ \/ /\ action = "run" /\ v.st[k] = "off"
          /\ w.st = [v.st EXCEPT ![k] = "on"]
          /\ \E call \in Call : w.begun = [v.begun EXCEPT ![k] = Append(@, call)]
          /\ w.last = v.last
       \/ /\ action = "pause" /\ v.st[k] = "on"
          /\ w.st = [v.st EXCEPT ![k] = "paused"]
          /\ w.begun = v.begun /\ w.last = v.last
       \/ /\ action = "cont" /\ v.st[k] = "paused"
          /\ w.st = [v.st EXCEPT ![k] = "on"]
          /\ w.begun = v.begun /\ w.last = v.last
       \/ /\ action \in Verdicts /\ v.st[k] = "on"
          /\ w.st = [v.st EXCEPT ![k] = "off"]
          /\ w.begun = v.begun /\ w.last = [v.last EXCEPT ![k] = action]

\* of a package, which passes or is skipped when all its tests are over,
PackageAdvance(v, action, p, w) ==
    /\ w.st = v.st /\ w.begun = v.begun /\ w.last = v.last
    /\ \/ /\ action = "start" /\ v.pkg[p] = "new"
          /\ w.pkg = [v.pkg EXCEPT ![p] = "open"]
       \/ /\ action \in Verdicts /\ v.pkg[p] = "open"
          /\ w.pkg = [v.pkg EXCEPT ![p] = action]
          /\ action # "fail" => \A k \in Tests(p) : v.st[k] = "off"
          /\ action = "skip" => \A k \in Tests(p) : v.begun[k] = <<>>

\* or of neither.
Advance(v, ev, w) ==
    \/ ev.action = "output" /\ w = v
    \/ ev.test = NoTest /\ PackageAdvance(v, ev.action, ev.pkg, w)
    \/ ev.test # NoTest /\ TestAdvance(v, ev.action, <<ev.pkg, ev.test>>, w)

\* A run event comes while the test that called t.Run is on, in its last run,
\* and no other test of the package that is on has a name between the two.
CallerIsOn(v, k, call) ==
    /\ call[1] # NoTest => /\ IsStrictPrefix(call[1], k[2])
                           /\ v.st[<<k[1], call[1]>>] = "on"
                           /\ call[2] = Len(v.begun[<<k[1], call[1]>>])
    /\ \A a \in Names : /\ v.st[<<k[1], a>>] = "on"
                        /\ IsStrictPrefix(a, k[2])
                        /\ call[1] = NoTest \/ IsStrictPrefix(call[1], a)
                        => FALSE

Called(v, ev, w) ==
    ev.test # NoTest /\ ev.action = "run" =>
      LET k == <<ev.pkg, ev.test>> IN CallerIsOn(v, k, Last(w.begun[k]))
----------------------------------------------------------------------------
(* Run's state as of view v.                                               *)

\* Run's tables hold the tests that are not off and the packages that are open.
Tables(v) ==
    /\ \A k \in Keys :
         /\ k \in DOMAIN spans <=> v.pkg[k[1]] = "open" /\ v.st[k] # "off"
         /\ k \in DOMAIN spans =>
              /\ spans[k].paused <=> v.st[k] = "paused"
              /\ ~spans[k].paused => k[2] \in activeTests[k[1]]
    /\ \A p \in Pkgs :
         /\ p \in DOMAIN pkgSpans <=> v.pkg[p] = "open"
         /\ v.pkg[p] \in {"new", "open"} =>
              (pkgRuns[p] = 0 <=> \A k \in Tests(p) : v.begun[k] = <<>>)
         /\ v.pkg[p] = "new" => \A k \in Tests(p) : v.st[k] = "off"

\* No span has ended twice or sent EOF twice, and one that has not is in the
\* tables.
Accounted ==
    \A i \in 1..lastSpan :
      LET s == spanTab[i]
          k == <<s.pkg, s.test>>
      IN
      /\ s.ends <= 1 /\ s.eofs <= 1
      /\ s.ends = 0 => \/ s.pkg \in DOMAIN pkgSpans /\ i = pkgSpans[s.pkg]
                       \/ k \in DOMAIN spans /\ i = spans[k].cur
      /\ s.kind = "continue" => s.eofs = 0
      /\ WithLogs /\ s.eofs = 0 /\ s.kind = "test" =>
           k \in DOMAIN spans /\ i = spans[k].orig
      /\ WithLogs /\ s.eofs = 0 /\ s.kind = "package" =>
           s.pkg \in DOMAIN pkgSpans /\ i = pkgSpans[s.pkg]

\* A package has one span, whose status is its result.
PackagesSeen(v) ==
    \A i \in 1..lastSpan :
      LET s == spanTab[i] IN
      /\ v.pkg[s.pkg] # "new"
      /\ s.kind = "package" <=> s.test = NoTest
      /\ s.kind = "package" /\ v.pkg[s.pkg] = "open" => pkgSpans[s.pkg] = i
      /\ s.kind = "package" /\ v.pkg[s.pkg] = "fail" => s.status = "fail"
      /\ s.kind = "package" /\ v.pkg[s.pkg] = "skip" => s.status = "skip"
      /\ s.kind = "package" /\ v.pkg[s.pkg] = "pass" =>
           s.status = IF \A k \in Tests(s.pkg) : v.begun[k] = <<>>
                      THEN "no tests to run" ELSE "pass"

\* The test spans of k up to span n, and their number.
TestSpans(k, n) == {j \in 1..n : spanTab[j].kind = "test" /\ Of(spanTab, j, k)}
Nth(k, n) == Cardinality(TestSpans(k, n))

\* Each run of a test has a test span, and an entry is of the last run.
RunsSeen(v) ==
    /\ \A k \in Keys : Nth(k, lastSpan) = Len(v.begun[k])
    /\ \A k \in DOMAIN spans : \A i \in 1..lastSpan :
         Of(spanTab, i, k) => /\ i <= spans[k].cur
                              /\ spanTab[i].kind = "test" => i <= spans[k].orig

\* A later span of the same run of k.
Continues(k, i) ==
    \E j \in 1..lastSpan : i < j /\ Of(spanTab, j, k) /\ Nth(k, j) = Nth(k, i)

VerdictsOf(v, k) ==
    \A i \in 1..lastSpan : Of(spanTab, i, k) =>
      /\ Continues(k, i) => spanTab[i].status = "unset"
      /\ ~Continues(k, i) /\ Nth(k, i) < Len(v.begun[k]) => spanTab[i].status \in Verdicts
      /\ ~Continues(k, i) /\ Nth(k, i) = Len(v.begun[k]) =>
           /\ v.st[k] = "off" => spanTab[i].status = v.last[k]
           /\ v.st[k] = "paused" => spanTab[i].status = "unset"
           /\ v.st[k] = "on" => spanTab[i].status =
                IF v.pkg[k[1]] = "open" THEN "unset" ELSE "unfinished"

VerdictsSeen(v) == \A k \in Keys : VerdictsOf(v, k)

CallersSeen(v) ==
    \A k \in Keys : \A i \in 1..lastSpan :
      LET s == spanTab[i]
          call == v.begun[k][Nth(k, i)]
          above == spanTab[s.parent]
      IN  Of(spanTab, i, k) /\ s.kind = "test" =>
            /\ s.parent # 0 /\ above.pkg = k[1]
            /\ call[1] = NoTest => above.kind = "package"
            /\ call[1] # NoTest => /\ above.kind = "test" /\ above.test = call[1]
                                   /\ Nth(<<k[1], call[1]>>, s.parent) = call[2]

Seen(v) == Tables(v) /\ Accounted /\ PackagesSeen(v) /\ RunsSeen(v) /\ VerdictsSeen(v)
----------------------------------------------------------------------------
(* Counting a test's spans.                                                *)

LEMMA NthBasics ==
    ASSUME RunTypeOK, NEW k
    PROVE  /\ \A i \in 0..lastSpan : Nth(k, i) \in Nat
           /\ \A i, j \in 0..lastSpan : i <= j => Nth(k, i) <= Nth(k, j)
           /\ \A i \in 1..lastSpan : Of(spanTab, i, k) /\ spanTab[i].kind = "test" =>
                Nth(k, i) > 0
<1>0. lastSpan \in Nat
  BY DEF RunTypeOK
<1>1. ASSUME NEW i \in 0..lastSpan PROVE IsFiniteSet(TestSpans(k, i)) /\ Nth(k, i) \in Nat
  <2>1. IsFiniteSet(1..i)
    BY <1>0, FS_Interval
  <2>2. TestSpans(k, i) \in SUBSET (1..i)
    BY DEF TestSpans
  <2>3. IsFiniteSet(TestSpans(k, i))
    BY <2>1, <2>2, FS_Subset
  <2> QED BY <2>3, FS_CardinalityType DEF Nth
<1>2. ASSUME NEW i \in 0..lastSpan, NEW j \in 0..lastSpan, i <= j
      PROVE  Nth(k, i) <= Nth(k, j)
  <2>1. TestSpans(k, i) \in SUBSET TestSpans(k, j)
    BY <1>0, <1>2 DEF TestSpans
  <2> QED BY <1>1, <2>1, FS_Subset DEF Nth
<1>3. ASSUME NEW i \in 1..lastSpan, Of(spanTab, i, k), spanTab[i].kind = "test"
      PROVE  Nth(k, i) > 0
  <2>1. i \in TestSpans(k, i) /\ i \in 0..lastSpan
    BY <1>0, <1>3 DEF TestSpans
  <2>2. Nth(k, i) # 0
    BY <1>1, <2>1, FS_EmptySet DEF Nth
  <2> QED BY <1>1, <2>1, <2>2
<1> QED BY <1>1, <1>2, <1>3

SameShape(i) == /\ spanTab'[i].kind = spanTab[i].kind /\ spanTab'[i].pkg = spanTab[i].pkg
                /\ spanTab'[i].test = spanTab[i].test
                /\ spanTab'[i].parent = spanTab[i].parent

LEMMA NthKept ==
    ASSUME RunTypeOK, \A i \in 1..lastSpan : SameShape(i), NEW k, NEW n \in 0..lastSpan
    PROVE  Nth(k, n)' = Nth(k, n)
<1>0. lastSpan \in Nat
  BY DEF RunTypeOK
<1>1. TestSpans(k, n)' = TestSpans(k, n)
  BY <1>0 DEF TestSpans, SameShape, Of
<1> QED BY <1>1 DEF Nth

LEMMA NthNew ==
    ASSUME RunTypeOK, \A i \in 1..lastSpan : SameShape(i), NEW k,
           NEW new, new = lastSpan + 1
    PROVE  Nth(k, new)' =
             IF spanTab'[new].kind = "test" /\ Of(spanTab', new, k)
             THEN Nth(k, lastSpan) + 1 ELSE Nth(k, lastSpan)
<1>0. lastSpan \in Nat /\ 1..new = (1..lastSpan) \cup {new} /\ new \notin 1..lastSpan
  BY DEF RunTypeOK
<1> DEFINE old == TestSpans(k, lastSpan)
<1>1. IsFiniteSet(old)
  <2>1. IsFiniteSet(1..lastSpan)
    BY <1>0, FS_Interval
  <2>2. old \in SUBSET (1..lastSpan)
    BY DEF TestSpans
  <2> QED BY <2>1, <2>2, FS_Subset
<1>2. {j \in 1..lastSpan : spanTab'[j].kind = "test" /\ Of(spanTab', j, k)} = old
  BY DEF TestSpans, SameShape, Of
<1>3. Nth(k, new)' = Cardinality({j \in 1..new : spanTab'[j].kind = "test" /\ Of(spanTab', j, k)})
  BY DEF Nth, TestSpans
<1>4. CASE spanTab'[new].kind = "test" /\ Of(spanTab', new, k)
  <2>1. {j \in 1..new : spanTab'[j].kind = "test" /\ Of(spanTab', j, k)} = old \cup {new}
    BY <1>0, <1>2, <1>4
  <2>2. new \notin old
    BY <1>0 DEF TestSpans
  <2>3. Cardinality(old \cup {new}) = Cardinality(old) + 1
    BY <1>1, <2>2, FS_AddElement
  <2> QED BY <1>3, <1>4, <2>1, <2>3 DEF Nth
<1>5. CASE ~(spanTab'[new].kind = "test" /\ Of(spanTab', new, k))
  <2>1. {j \in 1..new : spanTab'[j].kind = "test" /\ Of(spanTab', j, k)} = old
    BY <1>0, <1>2, <1>5
  <2> QED BY <1>3, <1>5, <2>1 DEF Nth
<1> QED BY <1>4, <1>5

----------------------------------------------------------------------------
(* The entry of a test is of its last run.                                 *)

LEMMA EntryIsLast ==
    ASSUME RunInv, NEW v, RunsSeen(v), NEW k \in DOMAIN spans
    PROVE  LET e == spans[k] IN
           /\ k \in Keys /\ e.orig \in 1..lastSpan /\ e.cur \in 1..lastSpan /\ e.orig <= e.cur
           /\ spanTab[e.orig].kind = "test" /\ spanTab[e.cur].kind # "package"
           /\ Of(spanTab, e.orig, k) /\ Of(spanTab, e.cur, k)
           /\ Nth(k, e.orig) = Len(v.begun[k]) /\ Nth(k, e.cur) = Len(v.begun[k])
           /\ \A i \in 1..lastSpan : Of(spanTab, i, k) =>
                (~Continues(k, i) /\ Nth(k, i) = Len(v.begun[k]) <=> i = e.cur)
<1> DEFINE o == spans[k].orig
           c == spans[k].cur
<1>0. RunTypeOK /\ lastSpan \in Nat
  BY DEF RunInv, RunTypeOK
<1>1. k \in Keys /\ o \in 1..lastSpan /\ c \in 1..lastSpan
  BY DEF RunInv, RunTypeOK, Entry
<1>2. /\ spanTab[o].kind = "test" /\ Of(spanTab, o, k)
      /\ spanTab[c].kind # "package" /\ Of(spanTab, c, k)
  BY DEF RunInv, EntriesSound
<1>3. \A i \in 1..lastSpan : Of(spanTab, i, k) => /\ i <= c
                                                  /\ spanTab[i].kind = "test" => i <= o
  BY DEF RunsSeen
<1>4. TestSpans(k, o) = TestSpans(k, lastSpan)
  BY <1>0, <1>1, <1>3 DEF TestSpans
<1>5. Nth(k, lastSpan) = Len(v.begun[k]) /\ Nth(k, o) = Len(v.begun[k])
  BY <1>1, <1>4 DEF Nth, RunsSeen
<1>6. /\ o <= c /\ o \in 0..lastSpan /\ c \in 0..lastSpan /\ lastSpan \in 0..lastSpan
      /\ o <= lastSpan /\ c <= lastSpan
  BY <1>0, <1>1, <1>2, <1>3
<1>7. /\ \A i \in 0..lastSpan : Nth(k, i) \in Nat
      /\ \A i, j \in 0..lastSpan : i <= j => Nth(k, i) <= Nth(k, j)
  BY <1>0, NthBasics
<1>8. Nth(k, c) = Len(v.begun[k])
  <2>1. Nth(k, o) <= Nth(k, c) /\ Nth(k, c) <= Nth(k, lastSpan) /\ Nth(k, c) \in Nat
    BY <1>6, <1>7
  <2> QED BY <1>5, <2>1
<1>9. ASSUME NEW i \in 1..lastSpan, Of(spanTab, i, k)
      PROVE  ~Continues(k, i) /\ Nth(k, i) = Len(v.begun[k]) <=> i = c
  <2>1. CASE i = c
    BY <1>0, <1>3, <1>8, <2>1 DEF Continues
  <2>2. CASE i # c /\ Nth(k, i) = Len(v.begun[k])
    <3>1. i < c
      BY <1>1, <1>3, <1>9, <2>2
    <3> QED BY <1>1, <1>2, <1>8, <2>2, <3>1 DEF Continues
  <2> QED BY <2>1, <2>2
<1> QED BY <1>1, <1>2, <1>5, <1>6, <1>8, <1>9

\* No span of a test is of a later run than its last.
LEMMA NthInRuns ==
    ASSUME RunInv, NEW v, RunsSeen(v), NEW k \in Keys, NEW i \in 1..lastSpan
    PROVE  Nth(k, i) \in Nat /\ Nth(k, i) <= Len(v.begun[k])
<1>0. lastSpan \in Nat /\ i \in 0..lastSpan /\ lastSpan \in 0..lastSpan /\ i <= lastSpan
  BY DEF RunInv, RunTypeOK
<1>1. Nth(k, i) \in Nat /\ Nth(k, i) <= Nth(k, lastSpan)
  BY <1>0, NthBasics DEF RunInv
<1> QED BY <1>1 DEF RunsSeen
----------------------------------------------------------------------------
(* Ending spans and closing streams: those in T, and of those in S.        *)

Ended(S, T) ==
    \A i \in 1..lastSpan :
      /\ SameShape(i)
      /\ spanTab'[i].ends = IF i \in T THEN spanTab[i].ends + 1 ELSE spanTab[i].ends
      /\ spanTab'[i].eofs = IF WithLogs /\ i \in S THEN spanTab[i].eofs + 1
                            ELSE spanTab[i].eofs

LEMMA EndTells ==
    ASSUME NEW n \in Nat, NEW tab \in [1..n -> Span], NEW S, NEW T, NEW status \in Statuses
    PROVE  LET new == End(CloseStreams(tab, S), T, status) IN
           /\ new \in [1..n -> Span]
           /\ \A i \in 1..n :
                /\ new[i].kind = tab[i].kind /\ new[i].pkg = tab[i].pkg
                /\ new[i].test = tab[i].test /\ new[i].parent = tab[i].parent
                /\ new[i].ends = IF i \in T THEN tab[i].ends + 1 ELSE tab[i].ends
                /\ new[i].eofs = IF WithLogs /\ i \in S THEN tab[i].eofs + 1
                                 ELSE tab[i].eofs
                /\ new[i].status = IF i \in T /\ tab[i].ends = 0 THEN status
                                   ELSE tab[i].status
<1> DEFINE mid == CloseStreams(tab, S)
           new == End(mid, T, status)
<1>1. mid \in [1..n -> Span] /\ new \in [1..n -> Span]
  BY CloseKeeps, CloseThenEnd
<1>2. ASSUME NEW i \in 1..n
      PROVE  /\ mid[i].kind = tab[i].kind /\ mid[i].pkg = tab[i].pkg
             /\ mid[i].test = tab[i].test /\ mid[i].parent = tab[i].parent
             /\ mid[i].ends = tab[i].ends /\ mid[i].status = tab[i].status
             /\ mid[i].eofs = IF WithLogs /\ i \in S THEN tab[i].eofs + 1 ELSE tab[i].eofs
  <2>1. tab[i] \in Span
    OBVIOUS
  <2>2. mid[i] = IF WithLogs /\ i \in S THEN [tab[i] EXCEPT !.eofs = @ + 1] ELSE tab[i]
    BY DEF CloseStreams
  <2> HIDE DEF mid
  <2> QED BY <2>1, <2>2 DEF Span
<1> HIDE DEF mid
<1>3. ASSUME NEW i \in 1..n
      PROVE  /\ new[i].kind = mid[i].kind /\ new[i].pkg = mid[i].pkg
             /\ new[i].test = mid[i].test /\ new[i].parent = mid[i].parent
             /\ new[i].eofs = mid[i].eofs
             /\ new[i].ends = IF i \in T THEN mid[i].ends + 1 ELSE mid[i].ends
             /\ new[i].status = IF i \in T /\ mid[i].ends = 0 THEN status ELSE mid[i].status
  <2>1. mid[i] \in Span
    BY <1>1
  <2>2. new[i] = IF i \in T THEN [Final(mid[i], status) EXCEPT !.ends = @ + 1] ELSE mid[i]
    BY <1>1 DEF End
  <2>3. Final(mid[i], status) = IF mid[i].ends = 0 THEN [mid[i] EXCEPT !.status = status]
                                ELSE mid[i]
    BY DEF Final
  <2>4. [mid[i] EXCEPT !.status = status] \in Span
    BY <2>1 DEF Span
  <2> DEFINE f == Final(mid[i], status)
  <2>5. /\ f \in Span /\ f.kind = mid[i].kind /\ f.pkg = mid[i].pkg
        /\ f.test = mid[i].test /\ f.parent = mid[i].parent
        /\ f.eofs = mid[i].eofs /\ f.ends = mid[i].ends
        /\ f.status = IF mid[i].ends = 0 THEN status ELSE mid[i].status
    BY <2>1, <2>3, <2>4 DEF Span
  <2> HIDE DEF f
  <2>6. new[i] = IF i \in T THEN [f EXCEPT !.ends = @ + 1] ELSE mid[i]
    BY <2>2 DEF f
  <2> HIDE DEF new
  <2> QED BY <2>5, <2>6 DEF Span
<1> HIDE DEF new
<1> QED BY <1>1, <1>2, <1>3 DEF new, mid

LEMMA EndingAccounted ==
    ASSUME RunInv, Accounted, lastSpan' = lastSpan, NEW S, NEW T, Ended(S, T),
           \A i \in T : i \in 1..lastSpan /\ spanTab[i].ends = 0,
           \A i \in S : /\ i \in 1..lastSpan
                        /\ spanTab[i].eofs = 0 /\ spanTab[i].kind # "continue",
           \A p \in DOMAIN pkgSpans :
             \/ p \in DOMAIN pkgSpans' /\ pkgSpans'[p] = pkgSpans[p]
             \/ pkgSpans[p] \in S /\ pkgSpans[p] \in T,
           \A k \in DOMAIN spans :
             \/ /\ k \in DOMAIN spans'
                /\ spans'[k].orig = spans[k].orig /\ spans'[k].cur = spans[k].cur
             \/ spans[k].orig \in S /\ (spans[k].cur \in T \/ spans[k].paused)
    PROVE  Accounted'
<1> SUFFICES ASSUME NEW i \in 1..lastSpan
             PROVE  LET s == spanTab'[i]
                        k == <<s.pkg, s.test>>
                    IN
                    /\ s.ends <= 1 /\ s.eofs <= 1
                    /\ s.ends = 0 => \/ s.pkg \in DOMAIN pkgSpans' /\ i = pkgSpans'[s.pkg]
                                     \/ k \in DOMAIN spans' /\ i = spans'[k].cur
                    /\ s.kind = "continue" => s.eofs = 0
                    /\ WithLogs /\ s.eofs = 0 /\ s.kind = "test" =>
                         k \in DOMAIN spans' /\ i = spans'[k].orig
                    /\ WithLogs /\ s.eofs = 0 /\ s.kind = "package" =>
                         s.pkg \in DOMAIN pkgSpans' /\ i = pkgSpans'[s.pkg]
  BY DEF Accounted
<1> DEFINE s == spanTab[i]
           t == spanTab'[i]
           k == <<s.pkg, s.test>>
<1>1. /\ t.kind = s.kind /\ t.pkg = s.pkg /\ t.test = s.test
      /\ t.ends = IF i \in T THEN s.ends + 1 ELSE s.ends
      /\ t.eofs = IF WithLogs /\ i \in S THEN s.eofs + 1 ELSE s.eofs
  BY DEF Ended, SameShape
<1>2. /\ s.ends \in Nat /\ s.eofs \in Nat
      /\ s.ends <= 1 /\ s.eofs <= 1
      /\ s.ends = 0 => \/ s.pkg \in DOMAIN pkgSpans /\ i = pkgSpans[s.pkg]
                       \/ k \in DOMAIN spans /\ i = spans[k].cur
      /\ s.kind = "continue" => s.eofs = 0
      /\ WithLogs /\ s.eofs = 0 /\ s.kind = "test" =>
           k \in DOMAIN spans /\ i = spans[k].orig
      /\ WithLogs /\ s.eofs = 0 /\ s.kind = "package" =>
           s.pkg \in DOMAIN pkgSpans /\ i = pkgSpans[s.pkg]
  BY DEF Accounted, RunInv, RunTypeOK, Span
<1>3. /\ i \in T => s.ends = 0
      /\ i \in S => s.eofs = 0 /\ s.kind # "continue"
  OBVIOUS
<1>4. t.ends <= 1 /\ t.eofs <= 1 /\ (t.kind = "continue" => t.eofs = 0)
  BY <1>1, <1>2, <1>3
<1>5. ASSUME t.ends = 0
      PROVE  \/ t.pkg \in DOMAIN pkgSpans' /\ i = pkgSpans'[t.pkg]
             \/ k \in DOMAIN spans' /\ i = spans'[k].cur
  <2>1. i \notin T /\ s.ends = 0
    BY <1>1, <1>2, <1>5
  <2>2. CASE s.pkg \in DOMAIN pkgSpans /\ i = pkgSpans[s.pkg]
    BY <1>1, <2>1, <2>2
  <2>3. CASE k \in DOMAIN spans /\ i = spans[k].cur
    <3>1. ~spans[k].paused
      BY <2>1, <2>3 DEF RunInv, EntriesSound
    <3> QED BY <2>1, <2>3, <3>1
  <2> QED BY <1>2, <2>1, <2>2, <2>3
<1>6. ASSUME WithLogs, t.eofs = 0
      PROVE  i \notin S /\ s.eofs = 0
  BY <1>1, <1>2, <1>6
<1>7. ASSUME WithLogs, t.eofs = 0, t.kind = "test"
      PROVE  k \in DOMAIN spans' /\ i = spans'[k].orig
  BY <1>1, <1>2, <1>6, <1>7
<1>8. ASSUME WithLogs, t.eofs = 0, t.kind = "package"
      PROVE  t.pkg \in DOMAIN pkgSpans' /\ i = pkgSpans'[t.pkg]
  BY <1>1, <1>2, <1>6, <1>8
<1>9. <<t.pkg, t.test>> = k
  BY <1>1
<1> HIDE DEF s, t, k
<1> QED BY <1>4, <1>5, <1>7, <1>8, <1>9 DEF t

LEMMA EndingRuns ==
    ASSUME RunInv, NEW v, RunsSeen(v), lastSpan' = lastSpan,
           \A i \in 1..lastSpan : SameShape(i), NEW w, w.begun = v.begun,
           \A k \in DOMAIN spans' : /\ k \in DOMAIN spans
                                    /\ spans'[k].orig = spans[k].orig
                                    /\ spans'[k].cur = spans[k].cur
    PROVE  RunsSeen(w)'
<1>0. lastSpan \in Nat /\ lastSpan \in 0..lastSpan
  BY DEF RunInv, RunTypeOK
<1>1. ASSUME NEW k \in Keys PROVE Nth(k, lastSpan') = Nth(k, lastSpan)
  OBVIOUS
<1>2. \A k, n : n \in 0..lastSpan => Nth(k, n)' = Nth(k, n)
  BY NthKept DEF RunInv
<1>3. \A k \in Keys : Nth(k, lastSpan)' = Len(w.begun[k])
  <2> TAKE k \in Keys
  <2>1. PICK n : n = lastSpan
    OBVIOUS
  <2>2. Nth(k, lastSpan)' = Nth(k, n)'
    BY <2>1
  <2> QED BY <1>0, <1>2, <2>1, <2>2 DEF RunsSeen
<1>4. ASSUME NEW k \in DOMAIN spans', NEW i \in 1..lastSpan, Of(spanTab', i, k)
      PROVE  i <= spans'[k].cur /\ (spanTab'[i].kind = "test" => i <= spans'[k].orig)
  <2>1. Of(spanTab, i, k) /\ spanTab'[i].kind = spanTab[i].kind
    BY <1>4 DEF Of, SameShape
  <2> QED BY <2>1 DEF RunsSeen
<1> QED BY <1>3, <1>4 DEF RunsSeen

LEMMA EndingCallers ==
    ASSUME RunInv, NEW v, CallersSeen(v), lastSpan' = lastSpan,
           \A i \in 1..lastSpan : SameShape(i), NEW w, w.begun = v.begun
    PROVE  CallersSeen(w)'
<1>0. lastSpan \in Nat
  BY DEF RunInv, RunTypeOK
<1>2. \A k, n : n \in 0..lastSpan => Nth(k, n)' = Nth(k, n)
  BY NthKept DEF RunInv
<1> SUFFICES ASSUME NEW k \in Keys, NEW i \in 1..lastSpan, Of(spanTab', i, k),
                    spanTab'[i].kind = "test", NEW call, call = w.begun[k][Nth(k, i)'],
                    NEW j, j = <<k[1], call[1]>>, NEW m, m = spanTab'[i].parent
             PROVE  /\ m # 0 /\ spanTab'[m].pkg = k[1]
                    /\ call[1] = NoTest => spanTab'[m].kind = "package"
                    /\ call[1] # NoTest =>
                         /\ spanTab'[m].kind = "test" /\ spanTab'[m].test = call[1]
                         /\ Nth(j, m)' = call[2]
  BY DEF CallersSeen
<1>3. /\ m = spanTab[i].parent /\ spanTab[i].kind = "test" /\ Of(spanTab, i, k)
      /\ Nth(k, i)' = Nth(k, i)
  BY <1>0, <1>2 DEF Of, SameShape
<1>4. /\ m # 0 /\ spanTab[m].pkg = k[1]
      /\ call[1] = NoTest => spanTab[m].kind = "package"
      /\ call[1] # NoTest => /\ spanTab[m].kind = "test" /\ spanTab[m].test = call[1]
                             /\ Nth(j, m) = call[2]
  BY <1>3 DEF CallersSeen
<1>5. m \in 1..lastSpan
  <2>1. UnderRightSpan(spanTab, i)
    BY DEF RunInv, ParentsSound
  <2>2. m \in 1..(i - 1)
    BY <1>3, <1>4, <2>1 DEF UnderRightSpan
  <2> QED BY <1>0, <2>2
<1>6. /\ spanTab'[m].kind = spanTab[m].kind /\ spanTab'[m].pkg = spanTab[m].pkg
      /\ spanTab'[m].test = spanTab[m].test
  BY <1>5 DEF SameShape
<1>7. Nth(j, m)' = Nth(j, m)
  BY <1>0, <1>2, <1>5
<1> QED BY <1>4, <1>6, <1>7

LEMMA EndingPackages ==
    ASSUME NEW v, PackagesSeen(v), lastSpan' = lastSpan, UNCHANGED pkgSpans,
           NEW w, w.pkg = v.pkg, w.begun = v.begun,
           \A i \in 1..lastSpan :
             /\ SameShape(i)
             /\ spanTab[i].kind = "package" => spanTab'[i].status = spanTab[i].status
    PROVE  PackagesSeen(w)'
<1> SUFFICES ASSUME NEW i \in 1..lastSpan
             PROVE  LET s == spanTab'[i] IN
                    /\ w.pkg[s.pkg] # "new"
                    /\ s.kind = "package" <=> s.test = NoTest
                    /\ s.kind = "package" /\ w.pkg[s.pkg] = "open" => pkgSpans'[s.pkg] = i
                    /\ s.kind = "package" /\ w.pkg[s.pkg] = "fail" => s.status = "fail"
                    /\ s.kind = "package" /\ w.pkg[s.pkg] = "skip" => s.status = "skip"
                    /\ s.kind = "package" /\ w.pkg[s.pkg] = "pass" =>
                         s.status = IF \A k \in Tests(s.pkg) : w.begun[k] = <<>>
                                    THEN "no tests to run" ELSE "pass"
  BY DEF PackagesSeen
<1>1. /\ spanTab'[i].kind = spanTab[i].kind /\ spanTab'[i].pkg = spanTab[i].pkg
      /\ spanTab'[i].test = spanTab[i].test
      /\ spanTab[i].kind = "package" => spanTab'[i].status = spanTab[i].status
  BY DEF SameShape
<1> QED BY ZenonT(60), <1>1 DEF PackagesSeen

\* The spans of a test keep their places among its runs.
LEMMA PlacesKept ==
    ASSUME RunInv, lastSpan' = lastSpan, \A i \in 1..lastSpan : SameShape(i),
           NEW k, NEW i \in 1..lastSpan
    PROVE  /\ Nth(k, i)' = Nth(k, i)
           /\ Of(spanTab', i, k) <=> Of(spanTab, i, k)
           /\ Continues(k, i)' <=> Continues(k, i)
<1>0. lastSpan \in Nat
  BY DEF RunInv, RunTypeOK
<1>1. \A j \in 1..lastSpan : Nth(k, j)' = Nth(k, j)
  BY <1>0, NthKept DEF RunInv
<1>2. \A j \in 1..lastSpan : Of(spanTab', j, k) <=> Of(spanTab, j, k)
  BY DEF Of, SameShape
<1> QED BY <1>1, <1>2 DEF Continues

LEMMA EndingVerdicts ==
    ASSUME RunInv, NEW v \in View, NEW w \in View, RunsSeen(v), VerdictsSeen(v),
           lastSpan' = lastSpan, w.begun = v.begun, \A i \in 1..lastSpan : SameShape(i),
           \A k \in Keys : \A i \in 1..lastSpan : Of(spanTab, i, k) =>
             IF ~Continues(k, i) /\ Nth(k, i) = Len(v.begun[k])
             THEN /\ w.st[k] = "off" => spanTab'[i].status = w.last[k]
                  /\ w.st[k] = "paused" => spanTab'[i].status = "unset"
                  /\ w.st[k] = "on" => spanTab'[i].status =
                       IF w.pkg[k[1]] = "open" THEN "unset" ELSE "unfinished"
             ELSE spanTab'[i].status = spanTab[i].status
    PROVE  VerdictsSeen(w)'
<1> SUFFICES ASSUME NEW k \in Keys, NEW i \in 1..lastSpan, Of(spanTab', i, k)
             PROVE  /\ Continues(k, i)' => spanTab'[i].status = "unset"
                    /\ ~Continues(k, i)' /\ Nth(k, i)' < Len(w.begun[k]) =>
                         spanTab'[i].status \in Verdicts
                    /\ ~Continues(k, i)' /\ Nth(k, i)' = Len(w.begun[k]) =>
                         /\ w.st[k] = "off" => spanTab'[i].status = w.last[k]
                         /\ w.st[k] = "paused" => spanTab'[i].status = "unset"
                         /\ w.st[k] = "on" => spanTab'[i].status =
                              IF w.pkg[k[1]] = "open" THEN "unset" ELSE "unfinished"
  BY DEF VerdictsSeen, VerdictsOf
<1>1. /\ Nth(k, i)' = Nth(k, i) /\ Of(spanTab, i, k)
      /\ Continues(k, i)' <=> Continues(k, i)
  BY PlacesKept
<1>2. Nth(k, i) \in Nat /\ Len(v.begun[k]) \in Nat
  <2>1. v.begun[k] \in Seq(Call)
    BY DEF View
  <2> QED BY <2>1, NthInRuns, LenProperties
<1>3. /\ Continues(k, i) => spanTab[i].status = "unset"
      /\ ~Continues(k, i) /\ Nth(k, i) < Len(v.begun[k]) => spanTab[i].status \in Verdicts
  BY <1>1 DEF VerdictsSeen, VerdictsOf
<1> QED BY <1>1, <1>2, <1>3

LEMMA PauseSeen ==
    ASSUME RunInv, RunInv', ~returned, NEW v \in View, NEW w \in View, Seen(v),
           NEW p \in Pkgs, NEW t \in Names, NEW k, k = <<p, t>>,
           TestAdvance(v, "pause", k, w), Pause(p, t)
    PROVE  Seen(w)' /\ (CallersSeen(v) => CallersSeen(w)')
<1> DEFINE c == spans[k].cur
<1>1. /\ k \in Keys /\ k[1] = p /\ k[2] = t /\ v.st[k] = "on" /\ v.pkg[p] = "open"
      /\ w.st = [v.st EXCEPT ![k] = "paused"]
      /\ w.begun = v.begun /\ w.last = v.last /\ w.pkg = v.pkg
  BY DEF TestAdvance, Keys, Verdicts
<1>a. v.st \in [Keys -> {"off", "on", "paused"}]
  BY DEF View
<1>2. k \in DOMAIN spans /\ ~spans[k].paused
  BY <1>1 DEF Seen, Tables
<1>3. RunsSeen(v) /\ RunTypeOK /\ EntriesSound /\ ActiveAreRunning
  BY DEF Seen, RunInv
<1>4. /\ c \in 1..lastSpan /\ spanTab[c].kind # "package" /\ Of(spanTab, c, k)
      /\ spanTab[c].ends = 0
      /\ \A i \in 1..lastSpan : Of(spanTab, i, k) =>
           (~Continues(k, i) /\ Nth(k, i) = Len(v.begun[k]) <=> i = c)
  BY <1>2, <1>3, EntryIsLast DEF EntriesSound
<1>5. /\ spans' = [spans EXCEPT ![k] = PausedEntry(@)]
      /\ spanTab' = End(spanTab, {c}, "unset")
      /\ activeTests' = [activeTests EXCEPT ![p] = @ \ {t}]
      /\ UNCHANGED <<buffered, pkgSpans, pkgRuns, lastSpan, returned>>
  BY <1>1, <1>2 DEF Pause
<1>6. /\ DOMAIN spans' = DOMAIN spans
      /\ \A j \in DOMAIN spans : /\ spans'[j].orig = spans[j].orig
                                 /\ spans'[j].cur = spans[j].cur
                                 /\ j # k => spans'[j].paused = spans[j].paused
      /\ spans'[k].paused = TRUE
  <2>1. DOMAIN spans' = DOMAIN spans
    BY <1>5
  <2>2. ASSUME NEW j \in DOMAIN spans
        PROVE  spans'[j] = IF j = k THEN PausedEntry(spans[j]) ELSE spans[j]
    BY <1>5
  <2> QED BY <1>2, <2>1, <2>2 DEF PausedEntry
<1>7. \A i \in 1..lastSpan :
        /\ SameShape(i)
        /\ spanTab'[i].ends = IF i \in {c} THEN spanTab[i].ends + 1 ELSE spanTab[i].ends
        /\ spanTab'[i].eofs = spanTab[i].eofs
        /\ spanTab'[i].status = IF i \in {c} THEN "unset" ELSE spanTab[i].status
  <2>1. /\ lastSpan \in Nat /\ spanTab \in [1..lastSpan -> Span] /\ "unset" \in Statuses
    BY <1>3 DEF RunTypeOK, Statuses
  <2>2. CloseStreams(spanTab, {}) = spanTab
    BY <2>1 DEF CloseStreams
  <2>3. \A T : LET new == End(CloseStreams(spanTab, {}), T, "unset") IN
          \A i \in 1..lastSpan :
            /\ new[i].kind = spanTab[i].kind /\ new[i].pkg = spanTab[i].pkg
            /\ new[i].test = spanTab[i].test /\ new[i].parent = spanTab[i].parent
            /\ new[i].ends = IF i \in T THEN spanTab[i].ends + 1 ELSE spanTab[i].ends
            /\ new[i].eofs = IF WithLogs /\ i \in {} THEN spanTab[i].eofs + 1
                             ELSE spanTab[i].eofs
            /\ new[i].status = IF i \in T /\ spanTab[i].ends = 0 THEN "unset"
                               ELSE spanTab[i].status
    BY SMTT(40), <2>1, EndTells
  <2>4. spanTab' = End(CloseStreams(spanTab, {}), {c}, "unset")
    BY <1>5, <2>2
  <2> QED BY <1>4, <2>3, <2>4 DEF SameShape
<1>8. Accounted'
  <2>1. Ended({}, {c})
    BY <1>7 DEF Ended
  <2>2. Accounted
    BY DEF Seen
  <2> HIDE DEF c
  <2> QED BY SMTT(40), <1>4, <1>5, <1>6, <2>1, <2>2, EndingAccounted
<1>9. RunsSeen(w)'
  BY <1>1, <1>3, <1>5, <1>6, <1>7, EndingRuns
<1>10. PackagesSeen(w)'
  BY ZenonT(60), <1>1, <1>4, <1>5, <1>7, EndingPackages DEF Seen
<1>11. CallersSeen(v) => CallersSeen(w)'
  BY <1>1, <1>5, <1>7, EndingCallers
<1>12. Tables(w)'
  <2>1. ASSUME NEW j \in Keys
        PROVE  /\ j \in DOMAIN spans' <=> w.pkg[j[1]] = "open" /\ w.st[j] # "off"
               /\ j \in DOMAIN spans' =>
                    /\ spans'[j].paused <=> w.st[j] = "paused"
                    /\ ~spans'[j].paused => j[2] \in activeTests'[j[1]]
    <3>1. /\ j \in DOMAIN spans <=> v.pkg[j[1]] = "open" /\ v.st[j] # "off"
          /\ j \in DOMAIN spans =>
              /\ spans[j].paused <=> v.st[j] = "paused"
              /\ ~spans[j].paused => j[2] \in activeTests[j[1]]
      BY DEF Seen, Tables
    <3>2. CASE j = k
      BY <1>1, <1>a, <1>2, <1>6, <3>1, <3>2
    <3>3. CASE j # k
      <4>1. w.st[j] = v.st[j]
        BY <1>1, <1>a, <3>3
      <4>2. j[1] # p \/ j[2] # t
        BY <1>1, <3>3 DEF Keys
      <4>3. j[2] \in activeTests[j[1]] => j[2] \in activeTests'[j[1]]
        BY <1>3, <1>5, <4>2 DEF RunTypeOK, Keys
      <4> QED BY <1>1, <1>6, <3>1, <3>3, <4>1, <4>3
    <3> QED BY <3>2, <3>3
  <2>2. ASSUME NEW q \in Pkgs
        PROVE  /\ q \in DOMAIN pkgSpans' <=> w.pkg[q] = "open"
               /\ w.pkg[q] \in {"new", "open"} =>
                    (pkgRuns'[q] = 0 <=> \A j \in Tests(q) : w.begun[j] = <<>>)
               /\ w.pkg[q] = "new" => \A j \in Tests(q) : w.st[j] = "off"
    <3>1. /\ q \in DOMAIN pkgSpans <=> v.pkg[q] = "open"
          /\ v.pkg[q] \in {"new", "open"} =>
               (pkgRuns[q] = 0 <=> \A j \in Tests(q) : v.begun[j] = <<>>)
          /\ v.pkg[q] = "new" => \A j \in Tests(q) : v.st[j] = "off"
      BY DEF Seen, Tables
    <3>2. v.pkg[q] = "new" => \A j \in Tests(q) : w.st[j] = "off"
      BY <1>1, <1>a, <3>1 DEF Tests
    <3> QED BY <1>1, <1>5, <3>1, <3>2
  <2> QED BY <2>1, <2>2 DEF Tables
<1>13. VerdictsSeen(w)'
  <2>1. ASSUME NEW j \in Keys, NEW i \in 1..lastSpan, Of(spanTab, i, j)
        PROVE  IF ~Continues(j, i) /\ Nth(j, i) = Len(v.begun[j])
               THEN /\ w.st[j] = "off" => spanTab'[i].status = w.last[j]
                    /\ w.st[j] = "paused" => spanTab'[i].status = "unset"
                    /\ w.st[j] = "on" => spanTab'[i].status =
                         IF w.pkg[j[1]] = "open" THEN "unset" ELSE "unfinished"
               ELSE spanTab'[i].status = spanTab[i].status
    <3>1. CASE j = k
      BY <1>1, <1>a, <1>4, <1>7, <2>1, <3>1
    <3>2. CASE j # k
      <4>1. i # c
        BY <1>1, <1>4, <2>1, <3>2 DEF Of, Keys
      <4>2. w.st[j] = v.st[j]
        BY <1>1, <1>a, <3>2
      <4> QED BY <1>1, <1>7, <2>1, <4>1, <4>2 DEF Seen, VerdictsSeen, VerdictsOf
    <3> QED BY <3>1, <3>2
  <2>2. VerdictsSeen(v)
    BY DEF Seen
  <2> QED BY <1>1, <1>3, <1>5, <1>7, <2>1, <2>2, EndingVerdicts
<1> QED BY <1>8, <1>9, <1>10, <1>11, <1>12, <1>13 DEF Seen

LEMMA ResultSeen ==
    ASSUME RunInv, RunInv', ~returned, NEW v \in View, NEW w \in View, Seen(v),
           NEW p \in Pkgs, NEW t \in Names, NEW k, k = <<p, t>>, NEW action \in Verdicts,
           TestAdvance(v, action, k, w), TestResult(p, t, action)
    PROVE  Seen(w)' /\ (CallersSeen(v) => CallersSeen(w)')
<1> DEFINE c == spans[k].cur
           o == spans[k].orig
<1>1. /\ k \in Keys /\ k[1] = p /\ k[2] = t /\ v.st[k] = "on" /\ v.pkg[p] = "open"
      /\ w.st = [v.st EXCEPT ![k] = "off"] /\ w.last = [v.last EXCEPT ![k] = action]
      /\ w.begun = v.begun /\ w.pkg = v.pkg
  BY DEF TestAdvance, Keys, Verdicts
<1>a. v.st \in [Keys -> {"off", "on", "paused"}] /\ v.last \in [Keys -> Verdicts]
  BY DEF View
<1>2. k \in DOMAIN spans /\ ~spans[k].paused
  BY <1>1 DEF Seen, Tables
<1>3. RunsSeen(v) /\ RunTypeOK /\ EntriesSound /\ ActiveAreRunning
  BY DEF Seen, RunInv
<1>4. /\ c \in 1..lastSpan /\ spanTab[c].kind # "package" /\ Of(spanTab, c, k)
      /\ spanTab[c].ends = 0
      /\ o \in 1..lastSpan /\ spanTab[o].kind = "test" /\ spanTab[o].eofs = 0
      /\ \A i \in 1..lastSpan : Of(spanTab, i, k) =>
           (~Continues(k, i) /\ Nth(k, i) = Len(v.begun[k]) <=> i = c)
  BY <1>2, <1>3, EntryIsLast DEF EntriesSound
<1>5. /\ spans' = Del(spans, {k})
      /\ spanTab' = End(CloseStreams(spanTab, {o}), {c}, action)
      /\ activeTests' = [activeTests EXCEPT ![p] = @ \ {t}]
      /\ UNCHANGED <<pkgSpans, pkgRuns, lastSpan, returned>>
  BY <1>1, <1>2 DEF TestResult
<1>6. /\ DOMAIN spans' = DOMAIN spans \ {k}
      /\ \A j \in DOMAIN spans' : spans'[j] = spans[j]
  BY <1>5 DEF Del
<1>7. \A i \in 1..lastSpan :
        /\ SameShape(i)
        /\ spanTab'[i].ends = IF i \in {c} THEN spanTab[i].ends + 1 ELSE spanTab[i].ends
        /\ spanTab'[i].eofs = IF WithLogs /\ i \in {o} THEN spanTab[i].eofs + 1
                              ELSE spanTab[i].eofs
        /\ spanTab'[i].status = IF i \in {c} THEN action ELSE spanTab[i].status
  <2>1. /\ lastSpan \in Nat /\ spanTab \in [1..lastSpan -> Span] /\ action \in Statuses
    BY <1>3 DEF RunTypeOK, Statuses, Verdicts
  <2>2. \A S, T : LET new == End(CloseStreams(spanTab, S), T, action) IN
          \A i \in 1..lastSpan :
            /\ new[i].kind = spanTab[i].kind /\ new[i].pkg = spanTab[i].pkg
            /\ new[i].test = spanTab[i].test /\ new[i].parent = spanTab[i].parent
            /\ new[i].ends = IF i \in T THEN spanTab[i].ends + 1 ELSE spanTab[i].ends
            /\ new[i].eofs = IF WithLogs /\ i \in S THEN spanTab[i].eofs + 1
                             ELSE spanTab[i].eofs
            /\ new[i].status = IF i \in T /\ spanTab[i].ends = 0 THEN action
                               ELSE spanTab[i].status
    BY <2>1, EndTells
  <2> QED BY <1>4, <1>5, <2>2 DEF SameShape
<1>8. Accounted'
  <2>1. Ended({o}, {c})
    BY <1>7 DEF Ended
  <2>2. Accounted
    BY DEF Seen
  <2>3. spans[k].orig \in {o} /\ spans[k].cur \in {c}
    OBVIOUS
  <2>4. \A j \in DOMAIN spans :
          \/ /\ j \in DOMAIN spans'
             /\ spans'[j].orig = spans[j].orig /\ spans'[j].cur = spans[j].cur
          \/ spans[j].orig \in {o} /\ (spans[j].cur \in {c} \/ spans[j].paused)
    BY <1>6, <2>3
  <2>5. \A i \in {o} : /\ i \in 1..lastSpan
                       /\ spanTab[i].eofs = 0 /\ spanTab[i].kind # "continue"
    BY <1>4
  <2>6. \A i \in {c} : i \in 1..lastSpan /\ spanTab[i].ends = 0
    BY <1>4
  <2>7. lastSpan' = lastSpan /\ pkgSpans' = pkgSpans
    BY <1>5
  <2> HIDE DEF c, o
  <2> QED BY <2>1, <2>2, <2>4, <2>5, <2>6, <2>7, EndingAccounted
<1>9. RunsSeen(w)'
  BY ZenonT(60), <1>1, <1>3, <1>5, <1>6, <1>7, EndingRuns
<1>10. PackagesSeen(w)'
  BY ZenonT(60), <1>1, <1>4, <1>5, <1>7, EndingPackages DEF Seen
<1>11. CallersSeen(v) => CallersSeen(w)'
  BY <1>1, <1>5, <1>7, EndingCallers
<1>12. Tables(w)'
  <2>1. ASSUME NEW j \in Keys
        PROVE  /\ j \in DOMAIN spans' <=> w.pkg[j[1]] = "open" /\ w.st[j] # "off"
               /\ j \in DOMAIN spans' =>
                    /\ spans'[j].paused <=> w.st[j] = "paused"
                    /\ ~spans'[j].paused => j[2] \in activeTests'[j[1]]
    <3>1. /\ j \in DOMAIN spans <=> v.pkg[j[1]] = "open" /\ v.st[j] # "off"
          /\ j \in DOMAIN spans =>
              /\ spans[j].paused <=> v.st[j] = "paused"
              /\ ~spans[j].paused => j[2] \in activeTests[j[1]]
      BY DEF Seen, Tables
    <3>2. CASE j = k
      BY <1>1, <1>a, <1>6, <3>2
    <3>3. CASE j # k
      <4>1. w.st[j] = v.st[j]
        BY <1>1, <1>a, <3>3
      <4>2. j[1] # p \/ j[2] # t
        BY <1>1, <3>3 DEF Keys
      <4>3. j[2] \in activeTests[j[1]] => j[2] \in activeTests'[j[1]]
        BY <1>3, <1>5, <4>2 DEF RunTypeOK, Keys
      <4> QED BY <1>1, <1>6, <3>1, <3>3, <4>1, <4>3
    <3> QED BY <3>2, <3>3
  <2>2. ASSUME NEW q \in Pkgs
        PROVE  /\ q \in DOMAIN pkgSpans' <=> w.pkg[q] = "open"
               /\ w.pkg[q] \in {"new", "open"} =>
                    (pkgRuns'[q] = 0 <=> \A j \in Tests(q) : w.begun[j] = <<>>)
               /\ w.pkg[q] = "new" => \A j \in Tests(q) : w.st[j] = "off"
    <3>1. /\ q \in DOMAIN pkgSpans <=> v.pkg[q] = "open"
          /\ v.pkg[q] \in {"new", "open"} =>
               (pkgRuns[q] = 0 <=> \A j \in Tests(q) : v.begun[j] = <<>>)
          /\ v.pkg[q] = "new" => \A j \in Tests(q) : v.st[j] = "off"
      BY DEF Seen, Tables
    <3>2. v.pkg[q] = "new" => \A j \in Tests(q) : w.st[j] = "off"
      BY <1>1, <1>a, <3>1 DEF Tests
    <3> QED BY <1>1, <1>5, <3>1, <3>2
  <2> QED BY <2>1, <2>2 DEF Tables
<1>13. VerdictsSeen(w)'
  <2>1. ASSUME NEW j \in Keys, NEW i \in 1..lastSpan, Of(spanTab, i, j)
        PROVE  IF ~Continues(j, i) /\ Nth(j, i) = Len(v.begun[j])
               THEN /\ w.st[j] = "off" => spanTab'[i].status = w.last[j]
                    /\ w.st[j] = "paused" => spanTab'[i].status = "unset"
                    /\ w.st[j] = "on" => spanTab'[i].status =
                         IF w.pkg[j[1]] = "open" THEN "unset" ELSE "unfinished"
               ELSE spanTab'[i].status = spanTab[i].status
    <3>1. CASE j = k
      <4>1. w.st[j] = "off" /\ w.last[j] = action
        BY <1>1, <1>a, <3>1
      <4>2. /\ ~Continues(j, i) /\ Nth(j, i) = Len(v.begun[j]) <=> i = c
            /\ spanTab'[i].status = IF i \in {c} THEN action ELSE spanTab[i].status
        BY <1>4, <1>7, <2>1, <3>1
      <4> HIDE DEF c
      <4> QED BY <4>1, <4>2
    <3>2. CASE j # k
      <4>1. i # c
        BY <1>1, <1>4, <2>1, <3>2 DEF Of, Keys
      <4>2. w.st[j] = v.st[j] /\ w.last[j] = v.last[j]
        BY <1>1, <1>a, <3>2
      <4> QED BY <1>1, <1>7, <2>1, <4>1, <4>2 DEF Seen, VerdictsSeen, VerdictsOf
    <3> QED BY <3>1, <3>2
  <2>2. VerdictsSeen(v)
    BY DEF Seen
  <2> QED BY <1>1, <1>3, <1>5, <1>7, <2>1, <2>2, EndingVerdicts
<1> QED BY <1>8, <1>9, <1>10, <1>11, <1>12, <1>13 DEF Seen

----------------------------------------------------------------------------
(* A package's result.                                                     *)

Origs(p) == {spans[k].orig : k \in Unfinished(p)}

\* What a result does to the tables and the spans: those of unfinished tests,
\* and the package's, which ends with this status.
PackageEnded(p, status) ==
    /\ DOMAIN spans' = DOMAIN spans \ Unfinished(p)
    /\ \A j \in DOMAIN spans' : spans'[j] = spans[j]
    /\ pkgSpans' = Del(pkgSpans, {p})
    /\ activeTests' = [activeTests EXCEPT ![p] = {}]
    /\ pkgRuns' = [pkgRuns EXCEPT ![p] = 0]
    /\ lastSpan' = lastSpan
    /\ Ended(Origs(p) \cup {pkgSpans[p]}, Unended(p) \cup {pkgSpans[p]})
    /\ \A i \in 1..lastSpan : spanTab'[i].status =
         IF i \in Unended(p) THEN "unfinished"
         ELSE IF i = pkgSpans[p] THEN status ELSE spanTab[i].status

\* The spans that a package's result ends and whose streams it closes.
LEMMA ToEnd ==
    ASSUME RunInv, ~returned, NEW p \in DOMAIN pkgSpans
    PROVE  /\ pkgSpans[p] \in 1..lastSpan /\ spanTab[pkgSpans[p]].ends = 0
           /\ spanTab[pkgSpans[p]].eofs = 0 /\ spanTab[pkgSpans[p]].kind = "package"
           /\ spanTab[pkgSpans[p]].pkg = p
           /\ \A i \in Unended(p) : /\ i \in 1..lastSpan /\ spanTab[i].ends = 0
                                    /\ spanTab[i].kind # "package" /\ spanTab[i].pkg = p
           /\ \A i \in Origs(p) : /\ i \in 1..lastSpan /\ spanTab[i].eofs = 0
                                  /\ spanTab[i].kind = "test" /\ spanTab[i].pkg = p
<1>1. pkgSpans[p] \in 1..lastSpan /\ p \in Pkgs
  BY DEF RunInv, RunTypeOK
<1>2. /\ spanTab[pkgSpans[p]].ends = 0
      /\ spanTab[pkgSpans[p]].eofs = 0 /\ spanTab[pkgSpans[p]].kind = "package"
      /\ spanTab[pkgSpans[p]].pkg = p
  BY DEF RunInv, PackagesSound
<1>3. ASSUME NEW k \in DOMAIN spans
      PROVE  /\ spans[k].orig \in 1..lastSpan /\ spans[k].cur \in 1..lastSpan
             /\ spanTab[spans[k].orig].kind = "test" /\ spanTab[spans[k].orig].eofs = 0
             /\ spanTab[spans[k].cur].kind # "package"
             /\ Of(spanTab, spans[k].orig, k) /\ Of(spanTab, spans[k].cur, k)
             /\ ~spans[k].paused => spanTab[spans[k].cur].ends = 0
  <2>1. spans[k].orig \in 1..lastSpan /\ spans[k].cur \in 1..lastSpan
    BY DEF RunInv, RunTypeOK, Entry
  <2> QED BY <2>1 DEF RunInv, EntriesSound
<1>4. ASSUME NEW i \in Unended(p)
      PROVE  /\ i \in 1..lastSpan /\ spanTab[i].ends = 0
             /\ spanTab[i].kind # "package" /\ spanTab[i].pkg = p
  <2>1. PICK k \in DOMAIN spans : k[1] = p /\ ~spans[k].paused /\ i = spans[k].cur
    BY DEF Unended, Unfinished
  <2> QED BY <1>3, <2>1 DEF Of
<1>5. ASSUME NEW i \in Origs(p)
      PROVE  /\ i \in 1..lastSpan /\ spanTab[i].eofs = 0
             /\ spanTab[i].kind = "test" /\ spanTab[i].pkg = p
  <2>1. PICK k \in DOMAIN spans : k[1] = p /\ i = spans[k].orig
    BY DEF Origs, Unfinished
  <2> QED BY <1>3, <2>1 DEF Of
<1> QED BY <1>1, <1>2, <1>4, <1>5

LEMMA PassEnds ==
    ASSUME RunInv, ~returned, NEW p \in DOMAIN pkgSpans, Unfinished(p) = {},
           NEW status \in Statuses, ForgetPackage(p), UNCHANGED spans,
           spanTab' = EndPackageSpan(spanTab, p, status)
    PROVE  PackageEnded(p, status)
<1> DEFINE f == pkgSpans[p]
<1>1. /\ pkgSpans' = Del(pkgSpans, {p}) /\ activeTests' = [activeTests EXCEPT ![p] = {}]
      /\ pkgRuns' = [pkgRuns EXCEPT ![p] = 0] /\ lastSpan' = lastSpan
  BY DEF ForgetPackage
<1>2. Unended(p) = {} /\ Origs(p) = {}
  BY DEF Unended, Origs
<1>3. lastSpan \in Nat /\ spanTab \in [1..lastSpan -> Span]
  BY DEF RunInv, RunTypeOK
<1>4. spanTab' = End(CloseStreams(spanTab, {f}), {f}, status)
  BY DEF EndPackageSpan, PackageSpan
<1>5. \A S, T : LET new == End(CloseStreams(spanTab, S), T, status) IN
        \A i \in 1..lastSpan :
          /\ new[i].kind = spanTab[i].kind /\ new[i].pkg = spanTab[i].pkg
          /\ new[i].test = spanTab[i].test /\ new[i].parent = spanTab[i].parent
          /\ new[i].ends = IF i \in T THEN spanTab[i].ends + 1 ELSE spanTab[i].ends
          /\ new[i].eofs = IF WithLogs /\ i \in S THEN spanTab[i].eofs + 1
                           ELSE spanTab[i].eofs
          /\ new[i].status = IF i \in T /\ spanTab[i].ends = 0 THEN status
                             ELSE spanTab[i].status
  BY <1>3, EndTells
<1>6. \A i \in 1..lastSpan :
        /\ SameShape(i)
        /\ spanTab'[i].ends = IF i \in {f} THEN spanTab[i].ends + 1 ELSE spanTab[i].ends
        /\ spanTab'[i].eofs = IF WithLogs /\ i \in {f} THEN spanTab[i].eofs + 1
                              ELSE spanTab[i].eofs
        /\ spanTab'[i].status = IF i = f THEN status ELSE spanTab[i].status
  BY <1>4, <1>5, ToEnd DEF SameShape
<1>7. /\ DOMAIN spans' = DOMAIN spans \ Unfinished(p)
      /\ \A j \in DOMAIN spans' : spans'[j] = spans[j]
  OBVIOUS
<1>8. Ended(Origs(p) \cup {f}, Unended(p) \cup {f})
  BY <1>2, <1>6 DEF Ended
<1>9. \A i \in 1..lastSpan : spanTab'[i].status =
         IF i \in Unended(p) THEN "unfinished"
         ELSE IF i = f THEN status ELSE spanTab[i].status
  BY <1>2, <1>6
<1> QED BY <1>1, <1>7, <1>8, <1>9 DEF PackageEnded

LEMMA FailEnds ==
    ASSUME RunInv, ~returned, NEW p \in DOMAIN pkgSpans, PackageFail(p)
    PROVE  PackageEnded(p, "fail")
<1> DEFINE f == pkgSpans[p]
           mid == End(CloseStreams(spanTab, Origs(p)), Unended(p), "unfinished")
<1>1. /\ pkgSpans' = Del(pkgSpans, {p}) /\ activeTests' = [activeTests EXCEPT ![p] = {}]
      /\ pkgRuns' = [pkgRuns EXCEPT ![p] = 0] /\ lastSpan' = lastSpan
      /\ spans' = Del(spans, Unfinished(p))
  BY DEF PackageFail, ForgetPackage, DropUnfinished
<1>2. /\ f \in 1..lastSpan /\ spanTab[f].ends = 0 /\ f \notin Unended(p) /\ f \notin Origs(p)
      /\ \A i \in Unended(p) : spanTab[i].ends = 0
  BY ToEnd
<1>3. /\ lastSpan \in Nat /\ spanTab \in [1..lastSpan -> Span]
      /\ "fail" \in Statuses /\ "unfinished" \in Statuses
  BY DEF RunInv, RunTypeOK, Statuses
<1>4. spanTab' = End(CloseStreams(mid, {f}), {f}, "fail")
  BY DEF PackageFail, EndPackageSpan, PackageSpan, Origs
<1>5. /\ mid \in [1..lastSpan -> Span]
      /\ \A i \in 1..lastSpan :
          /\ mid[i].kind = spanTab[i].kind /\ mid[i].pkg = spanTab[i].pkg
          /\ mid[i].test = spanTab[i].test /\ mid[i].parent = spanTab[i].parent
          /\ mid[i].ends = IF i \in Unended(p) THEN spanTab[i].ends + 1 ELSE spanTab[i].ends
          /\ mid[i].eofs = IF WithLogs /\ i \in Origs(p) THEN spanTab[i].eofs + 1
                           ELSE spanTab[i].eofs
          /\ mid[i].status = IF i \in Unended(p) /\ spanTab[i].ends = 0 THEN "unfinished"
                             ELSE spanTab[i].status
  BY <1>3, EndTells
<1> HIDE DEF mid
<1>6. \A i \in 1..lastSpan :
          /\ spanTab'[i].kind = mid[i].kind /\ spanTab'[i].pkg = mid[i].pkg
          /\ spanTab'[i].test = mid[i].test /\ spanTab'[i].parent = mid[i].parent
          /\ spanTab'[i].ends = IF i \in {f} THEN mid[i].ends + 1 ELSE mid[i].ends
          /\ spanTab'[i].eofs = IF WithLogs /\ i \in {f} THEN mid[i].eofs + 1 ELSE mid[i].eofs
          /\ spanTab'[i].status = IF i \in {f} /\ mid[i].ends = 0 THEN "fail"
                                  ELSE mid[i].status
  <2> DEFINE new == End(CloseStreams(mid, {f}), {f}, "fail")
  <2>1. \A i \in 1..lastSpan :
          /\ new[i].kind = mid[i].kind /\ new[i].pkg = mid[i].pkg
          /\ new[i].test = mid[i].test /\ new[i].parent = mid[i].parent
          /\ new[i].ends = IF i \in {f} THEN mid[i].ends + 1 ELSE mid[i].ends
          /\ new[i].eofs = IF WithLogs /\ i \in {f} THEN mid[i].eofs + 1 ELSE mid[i].eofs
          /\ new[i].status = IF i \in {f} /\ mid[i].ends = 0 THEN "fail" ELSE mid[i].status
    BY <1>3, <1>5, EndTells
  <2>2. spanTab' = new
    BY <1>4
  <2> HIDE DEF new
  <2> QED BY <2>1, <2>2
<1>7. /\ DOMAIN spans' = DOMAIN spans \ Unfinished(p)
      /\ \A j \in DOMAIN spans' : spans'[j] = spans[j]
  BY <1>1 DEF Del
<1>8. Ended(Origs(p) \cup {f}, Unended(p) \cup {f})
  <2> SUFFICES ASSUME NEW i \in 1..lastSpan
               PROVE  /\ SameShape(i)
                      /\ spanTab'[i].ends = IF i \in Unended(p) \cup {f}
                                            THEN spanTab[i].ends + 1 ELSE spanTab[i].ends
                      /\ spanTab'[i].eofs = IF WithLogs /\ i \in Origs(p) \cup {f}
                                            THEN spanTab[i].eofs + 1 ELSE spanTab[i].eofs
    BY DEF Ended
  <2>1. CASE i = f
    BY <1>2, <1>5, <1>6, <2>1 DEF SameShape
  <2>2. CASE i # f
    BY <1>2, <1>5, <1>6, <2>2 DEF SameShape
  <2> QED BY <2>1, <2>2
<1>9. \A i \in 1..lastSpan : spanTab'[i].status =
         IF i \in Unended(p) THEN "unfinished"
         ELSE IF i = f THEN "fail" ELSE spanTab[i].status
  BY <1>2, <1>5, <1>6
<1> QED BY <1>1, <1>7, <1>8, <1>9 DEF PackageEnded

\* A span of a test is no package's, and of one test.
LEMMA OneKey ==
    ASSUME NEW v, PackagesSeen(v), NEW i \in 1..lastSpan, NEW k \in Keys, Of(spanTab, i, k)
    PROVE  /\ spanTab[i].kind # "package" /\ spanTab[i].pkg = k[1]
           /\ \A j \in Keys : Of(spanTab, i, j) => j = k
<1>1. k[2] # NoTest
  BY RunAssumption DEF Keys
<1>2. spanTab[i].kind # "package" /\ spanTab[i].pkg = k[1]
  BY <1>1 DEF PackagesSeen, Of
<1>3. \A j \in Keys : j = <<j[1], j[2]>>
  BY DEF Keys
<1>4. \A j \in Keys : Of(spanTab, i, j) => j[1] = k[1] /\ j[2] = k[2]
  BY DEF Of
<1> QED BY <1>2, <1>3, <1>4

LEMMA PackageResultSeen ==
    ASSUME RunInv, RunInv', ~returned, NEW v \in View, NEW w \in View, Seen(v),
           NEW p \in Pkgs, NEW action \in Verdicts, PackageAdvance(v, action, p, w),
           NEW status, PackageEnded(p, status),
           action # "pass" => status = action,
           action = "pass" => status = PassStatus(p)
    PROVE  Seen(w)' /\ (CallersSeen(v) => CallersSeen(w)')
<1> DEFINE f == pkgSpans[p]
<1>0. Tables(v) /\ Accounted /\ PackagesSeen(v) /\ RunsSeen(v) /\ VerdictsSeen(v)
  BY DEF Seen
<1>1. /\ v.pkg[p] = "open" /\ w.pkg = [v.pkg EXCEPT ![p] = action]
      /\ w.st = v.st /\ w.begun = v.begun /\ w.last = v.last
  BY DEF PackageAdvance, Verdicts
<1>a. /\ v.pkg \in [Pkgs -> {"new", "open"} \cup Verdicts] /\ action \notin {"new", "open"}
      /\ w.pkg[p] = action /\ \A q \in Pkgs : q # p => w.pkg[q] = v.pkg[q]
  BY <1>1 DEF View, Verdicts
<1>2. p \in DOMAIN pkgSpans
  BY <1>0, <1>1 DEF Tables
<1>3. /\ f \in 1..lastSpan /\ spanTab[f].ends = 0 /\ spanTab[f].eofs = 0
      /\ spanTab[f].kind = "package" /\ spanTab[f].pkg = p
      /\ \A i \in Unended(p) : /\ i \in 1..lastSpan /\ spanTab[i].ends = 0
                               /\ spanTab[i].kind # "package" /\ spanTab[i].pkg = p
      /\ \A i \in Origs(p) : /\ i \in 1..lastSpan /\ spanTab[i].eofs = 0
                             /\ spanTab[i].kind = "test" /\ spanTab[i].pkg = p
  BY <1>2, ToEnd
<1>4. /\ DOMAIN spans' = DOMAIN spans \ Unfinished(p)
      /\ \A j \in DOMAIN spans' : spans'[j] = spans[j]
      /\ pkgSpans' = Del(pkgSpans, {p})
      /\ activeTests' = [activeTests EXCEPT ![p] = {}]
      /\ pkgRuns' = [pkgRuns EXCEPT ![p] = 0]
      /\ lastSpan' = lastSpan
      /\ Ended(Origs(p) \cup {f}, Unended(p) \cup {f})
      /\ \A i \in 1..lastSpan : spanTab'[i].status =
           IF i \in Unended(p) THEN "unfinished"
           ELSE IF i = f THEN status ELSE spanTab[i].status
  BY DEF PackageEnded
<1>5. /\ \A i \in 1..lastSpan : SameShape(i)
      /\ DOMAIN pkgSpans' = DOMAIN pkgSpans \ {p}
      /\ \A q \in DOMAIN pkgSpans' : pkgSpans'[q] = pkgSpans[q]
  BY <1>4 DEF Ended, Del
<1>6. \A k \in DOMAIN spans : k \in Unfinished(p) <=> k[1] = p
  BY DEF Unfinished
<1> HIDE DEF f
<1>7. Accounted'
  <2> DEFINE S == Origs(p) \cup {f}
             T == Unended(p) \cup {f}
  <2>1. \A i \in T : i \in 1..lastSpan /\ spanTab[i].ends = 0
    BY <1>3
  <2>2. \A i \in S : /\ i \in 1..lastSpan
                     /\ spanTab[i].eofs = 0 /\ spanTab[i].kind # "continue"
    BY <1>3
  <2>3. \A q \in DOMAIN pkgSpans :
          \/ q \in DOMAIN pkgSpans' /\ pkgSpans'[q] = pkgSpans[q]
          \/ pkgSpans[q] \in S /\ pkgSpans[q] \in T
    BY <1>5 DEF f
  <2>4. ASSUME NEW k \in DOMAIN spans
        PROVE  \/ /\ k \in DOMAIN spans'
                  /\ spans'[k].orig = spans[k].orig /\ spans'[k].cur = spans[k].cur
               \/ spans[k].orig \in S /\ (spans[k].cur \in T \/ spans[k].paused)
    <3>1. CASE k \in Unfinished(p)
      BY <3>1 DEF Origs, Unended
    <3>2. CASE k \notin Unfinished(p)
      BY <1>4, <3>2
    <3> QED BY <3>1, <3>2
  <2>5. Ended(S, T) /\ lastSpan' = lastSpan
    BY <1>4
  <2> HIDE DEF S, T
  <2> QED BY <1>0, <2>1, <2>2, <2>3, <2>4, <2>5, EndingAccounted
<1>8. RunsSeen(w)'
  BY <1>0, <1>1, <1>4, <1>5, EndingRuns
<1>9. CallersSeen(v) => CallersSeen(w)'
  BY <1>1, <1>4, <1>5, EndingCallers
<1>10. Tables(w)'
  <2>1. ASSUME NEW j \in Keys
        PROVE  /\ j \in DOMAIN spans' <=> w.pkg[j[1]] = "open" /\ w.st[j] # "off"
               /\ j \in DOMAIN spans' =>
                    /\ spans'[j].paused <=> w.st[j] = "paused"
                    /\ ~spans'[j].paused => j[2] \in activeTests'[j[1]]
    <3>1. /\ j \in DOMAIN spans <=> v.pkg[j[1]] = "open" /\ v.st[j] # "off"
          /\ j \in DOMAIN spans =>
              /\ spans[j].paused <=> v.st[j] = "paused"
              /\ ~spans[j].paused => j[2] \in activeTests[j[1]]
      BY <1>0 DEF Tables
    <3>2. CASE j[1] = p
      BY <1>4, <1>6, <1>a, <3>2
    <3>3. CASE j[1] # p
      <4>1. j[1] \in Pkgs /\ activeTests'[j[1]] = activeTests[j[1]]
        BY <1>4, <3>3 DEF Keys, RunInv, RunTypeOK
      <4>2. j \in DOMAIN spans' <=> j \in DOMAIN spans
        BY <1>4, <1>6, <3>3
      <4> QED BY <1>1, <1>4, <1>a, <3>1, <3>3, <4>1, <4>2
    <3> QED BY <3>2, <3>3
  <2>2. ASSUME NEW q \in Pkgs
        PROVE  /\ q \in DOMAIN pkgSpans' <=> w.pkg[q] = "open"
               /\ w.pkg[q] \in {"new", "open"} =>
                    (pkgRuns'[q] = 0 <=> \A j \in Tests(q) : w.begun[j] = <<>>)
               /\ w.pkg[q] = "new" => \A j \in Tests(q) : w.st[j] = "off"
    <3>1. /\ q \in DOMAIN pkgSpans <=> v.pkg[q] = "open"
          /\ v.pkg[q] \in {"new", "open"} =>
               (pkgRuns[q] = 0 <=> \A j \in Tests(q) : v.begun[j] = <<>>)
          /\ v.pkg[q] = "new" => \A j \in Tests(q) : v.st[j] = "off"
      BY <1>0 DEF Tables
    <3>2. CASE q = p
      BY <1>5, <1>a, <3>2
    <3>3. CASE q # p
      <4>1. pkgRuns'[q] = pkgRuns[q]
        BY <1>4, <3>3 DEF RunInv, RunTypeOK
      <4> QED BY <1>1, <1>5, <1>a, <3>1, <3>3, <4>1
    <3> QED BY <3>2, <3>3
  <2> QED BY <2>1, <2>2 DEF Tables
<1>11. PackagesSeen(w)'
  <2> SUFFICES ASSUME NEW i \in 1..lastSpan
               PROVE  LET s == spanTab'[i] IN
                      /\ w.pkg[s.pkg] # "new"
                      /\ s.kind = "package" <=> s.test = NoTest
                      /\ s.kind = "package" /\ w.pkg[s.pkg] = "open" => pkgSpans'[s.pkg] = i
                      /\ s.kind = "package" /\ w.pkg[s.pkg] = "fail" => s.status = "fail"
                      /\ s.kind = "package" /\ w.pkg[s.pkg] = "skip" => s.status = "skip"
                      /\ s.kind = "package" /\ w.pkg[s.pkg] = "pass" =>
                           s.status = IF \A k \in Tests(s.pkg) : w.begun[k] = <<>>
                                      THEN "no tests to run" ELSE "pass"
    BY <1>4 DEF PackagesSeen
  <2>1. /\ spanTab'[i].kind = spanTab[i].kind /\ spanTab'[i].pkg = spanTab[i].pkg
        /\ spanTab'[i].test = spanTab[i].test
        /\ spanTab'[i].status = IF i \in Unended(p) THEN "unfinished"
                                ELSE IF i = f THEN status ELSE spanTab[i].status
    BY <1>4, <1>5 DEF SameShape
  <2>2. LET s == spanTab[i] IN
        /\ v.pkg[s.pkg] # "new"
        /\ s.kind = "package" <=> s.test = NoTest
        /\ s.kind = "package" /\ v.pkg[s.pkg] = "open" => pkgSpans[s.pkg] = i
        /\ s.kind = "package" /\ v.pkg[s.pkg] = "fail" => s.status = "fail"
        /\ s.kind = "package" /\ v.pkg[s.pkg] = "skip" => s.status = "skip"
        /\ s.kind = "package" /\ v.pkg[s.pkg] = "pass" =>
             s.status = IF \A k \in Tests(s.pkg) : v.begun[k] = <<>>
                        THEN "no tests to run" ELSE "pass"
    BY <1>0 DEF PackagesSeen
  <2>3. spanTab[i].pkg \in Pkgs
    BY DEF RunInv, RunTypeOK, Span
  <2>4. CASE spanTab[i].pkg # p
    <3>1. i \notin Unended(p) /\ i # f
      BY <1>3, <2>4
    <3>2. v.pkg[spanTab[i].pkg] = "open" => spanTab[i].pkg \in DOMAIN pkgSpans'
      BY <1>0, <1>5, <2>3, <2>4 DEF Tables
    <3>3. v.pkg[spanTab[i].pkg] = "open" => pkgSpans'[spanTab[i].pkg] = pkgSpans[spanTab[i].pkg]
      BY <1>5, <3>2
    <3>4. w.pkg[spanTab[i].pkg] = v.pkg[spanTab[i].pkg]
      BY <1>a, <2>3, <2>4
    <3>5. spanTab'[i].status = spanTab[i].status
      BY <2>1, <3>1
    <3> QED BY ZenonT(60), <1>1, <2>1, <2>2, <3>3, <3>4, <3>5
  <2>5. CASE spanTab[i].pkg = p /\ spanTab[i].kind # "package"
    BY <1>a, <2>1, <2>2, <2>5
  <2>6. CASE spanTab[i].pkg = p /\ spanTab[i].kind = "package"
    <3>1. i = f /\ i \notin Unended(p)
      BY <1>1, <1>3, <2>2, <2>6 DEF f
    <3>2. spanTab'[i].status = status
      BY <2>1, <3>1
    <3>3. action = "pass" => status = IF \A k \in Tests(p) : w.begun[k] = <<>>
                                      THEN "no tests to run" ELSE "pass"
      <4>1. pkgRuns[p] = 0 <=> \A k \in Tests(p) : v.begun[k] = <<>>
        BY <1>0, <1>1 DEF Tables
      <4> QED BY <1>1, <4>1 DEF PassStatus
    <3> QED BY <1>a, <2>1, <2>2, <2>6, <3>2, <3>3
  <2> QED BY <2>4, <2>5, <2>6
<1>12. VerdictsSeen(w)'
  <2>0. \A i \in Unended(p) : \A j \in Keys : i \in 1..lastSpan /\ Of(spanTab, i, j) =>
          /\ j \in DOMAIN spans /\ i = spans[j].cur /\ ~spans[j].paused
    <3> SUFFICES ASSUME NEW i \in Unended(p), NEW j \in Keys, i \in 1..lastSpan,
                        Of(spanTab, i, j)
                 PROVE  j \in DOMAIN spans /\ i = spans[j].cur /\ ~spans[j].paused
      OBVIOUS
    <3>1. PICK k \in DOMAIN spans : ~spans[k].paused /\ i = spans[k].cur
      BY DEF Unended, Unfinished
    <3>2. k \in Keys /\ Of(spanTab, i, k)
      BY <1>0, <3>1, EntryIsLast
    <3>3. k = j
      BY <1>0, <3>2, OneKey
    <3> QED BY <3>1, <3>3
  <2>1. ASSUME NEW j \in Keys, NEW i \in 1..lastSpan, Of(spanTab, i, j)
        PROVE  IF ~Continues(j, i) /\ Nth(j, i) = Len(v.begun[j])
               THEN /\ w.st[j] = "off" => spanTab'[i].status = w.last[j]
                    /\ w.st[j] = "paused" => spanTab'[i].status = "unset"
                    /\ w.st[j] = "on" => spanTab'[i].status =
                         IF w.pkg[j[1]] = "open" THEN "unset" ELSE "unfinished"
               ELSE spanTab'[i].status = spanTab[i].status
    <3>1. spanTab[i].kind # "package" /\ spanTab[i].pkg = j[1] /\ i # f
      BY <1>0, <1>3, <2>1, OneKey
    <3>2. /\ spanTab'[i].status = IF i \in Unended(p) THEN "unfinished"
                                  ELSE spanTab[i].status
          /\ i \in Unended(p) => j[1] = p
      BY <1>3, <1>4, <3>1
    <3>3. j \in DOMAIN spans => (~Continues(j, i) /\ Nth(j, i) = Len(v.begun[j])
                                   <=> i = spans[j].cur)
      BY <1>0, <2>1, EntryIsLast
    <3>4. CASE ~(~Continues(j, i) /\ Nth(j, i) = Len(v.begun[j]))
      BY <2>0, <2>1, <3>2, <3>3, <3>4
    <3>5. CASE ~Continues(j, i) /\ Nth(j, i) = Len(v.begun[j])
      <4>1. /\ v.st[j] = "off" => spanTab[i].status = v.last[j]
            /\ v.st[j] = "paused" => spanTab[i].status = "unset"
            /\ v.st[j] = "on" => spanTab[i].status =
                 IF v.pkg[j[1]] = "open" THEN "unset" ELSE "unfinished"
        BY <1>0, <2>1, <3>5 DEF VerdictsSeen, VerdictsOf
      <4>2. /\ j \in DOMAIN spans <=> v.pkg[j[1]] = "open" /\ v.st[j] # "off"
            /\ j \in DOMAIN spans => (spans[j].paused <=> v.st[j] = "paused")
        BY <1>0 DEF Tables
      <4>3. v.st[j] \in {"off", "on", "paused"} /\ j[1] \in Pkgs
        BY DEF View, Keys
      <4>4. CASE i \in Unended(p)
        <5>1. v.st[j] = "on" /\ j[1] = p
          BY <2>0, <2>1, <3>2, <4>2, <4>3, <4>4
        <5>2. w.st[j] = "on" /\ w.pkg[j[1]] # "open"
          BY <1>1, <1>a, <5>1
        <5> QED BY <3>2, <3>5, <4>4, <5>2
      <4>5. CASE i \notin Unended(p)
        <5>1. v.st[j] = "on" => j[1] # p
          <6> SUFFICES ASSUME v.st[j] = "on", j[1] = p PROVE FALSE
            OBVIOUS
          <6>1. j \in DOMAIN spans /\ ~spans[j].paused /\ i = spans[j].cur
            BY <1>1, <3>3, <3>5, <4>2
          <6> QED BY <1>6, <4>5, <6>1 DEF Unended
        <5> QED BY <1>1, <1>a, <3>2, <4>1, <4>3, <4>5, <5>1
      <4> QED BY <4>4, <4>5
    <3> QED BY <3>4, <3>5
  <2> QED BY <1>0, <1>1, <1>4, <1>5, <2>1, EndingVerdicts
<1> QED BY <1>7, <1>8, <1>9, <1>10, <1>11, <1>12 DEF Seen

LEMMA PackageOverSeen ==
    ASSUME RunInv, RunInv', ~returned, NEW v \in View, NEW w \in View, Seen(v),
           NEW p \in Pkgs, NEW action \in Verdicts, PackageAdvance(v, action, p, w),
           \/ action = "pass" /\ PackagePass(p)
           \/ action = "fail" /\ PackageFail(p)
           \/ action = "skip" /\ PackageSkip(p)
    PROVE  Seen(w)' /\ (CallersSeen(v) => CallersSeen(w)')
<1>1. v.pkg[p] = "open" /\ (action # "fail" => \A k \in Tests(p) : v.st[k] = "off")
  BY DEF PackageAdvance, Verdicts
<1>2. p \in DOMAIN pkgSpans
  BY <1>1 DEF Seen, Tables
<1>3. action # "fail" => Unfinished(p) = {}
  <2> SUFFICES ASSUME action # "fail", NEW k \in Unfinished(p) PROVE FALSE
    OBVIOUS
  <2>1. k \in DOMAIN spans /\ k \in Keys /\ k[1] = p
    BY DEF Unfinished, RunInv, RunTypeOK
  <2>2. v.st[k] = "off"
    BY <1>1, <2>1 DEF Tests
  <2> QED BY <2>1, <2>2 DEF Seen, Tables
<1>4. PassStatus(p) \in Statuses /\ "skip" \in Statuses
  BY DEF PassStatus, Statuses
<1>5. CASE action = "pass" /\ PackagePass(p)
  <2>1. PackageEnded(p, PassStatus(p))
    BY <1>2, <1>3, <1>4, <1>5, PassEnds DEF PackagePass
  <2> QED BY <1>5, <2>1, PackageResultSeen
<1>6. CASE action = "skip" /\ PackageSkip(p)
  <2>1. PackageEnded(p, "skip")
    BY <1>2, <1>3, <1>4, <1>6, PassEnds DEF PackageSkip
  <2> QED BY <1>6, <2>1, PackageResultSeen
<1>7. CASE action = "fail" /\ PackageFail(p)
  <2>1. PackageEnded(p, "fail")
    BY <1>2, <1>7, FailEnds
  <2> QED BY <1>7, <2>1, PackageResultSeen
<1> QED BY <1>5, <1>6, <1>7

----------------------------------------------------------------------------
(* Starting a span.                                                        *)

\* A new span, with streams that are open; the others stay as they were.
Added(kind, p, t, parent) ==
    LET n == lastSpan + 1 IN
    /\ lastSpan' = n
    /\ \A i \in 1..lastSpan : spanTab'[i] = spanTab[i]
    /\ spanTab'[n].kind = kind /\ spanTab'[n].pkg = p /\ spanTab'[n].test = t
    /\ spanTab'[n].parent = parent /\ spanTab'[n].status = "unset"
    /\ spanTab'[n].ends = 0 /\ spanTab'[n].eofs = 0

LEMMA StartIsAdded ==
    ASSUME RunInv, NEW kind \in Kinds, NEW p \in Pkgs, NEW t \in Names \cup {NoTest},
           NEW parent \in Nat, NEW link \in Nat, Start(kind, p, t, parent, link)
    PROVE  Added(kind, p, t, parent)
<1>1. /\ lastSpan' = lastSpan + 1
      /\ \A i \in 1..lastSpan : spanTab'[i] = spanTab[i]
      /\ spanTab'[lastSpan + 1] = Started(kind, p, t, parent, link)
  BY StartAdds DEF RunInv
<1> QED BY <1>1 DEF Added, Started

LEMMA AddingAccounted ==
    ASSUME RunInv, Accounted, NEW kind, NEW p, NEW t, NEW parent, Added(kind, p, t, parent),
           \A q \in DOMAIN pkgSpans :
             q \in DOMAIN pkgSpans' /\ pkgSpans'[q] = pkgSpans[q],
           \A k \in DOMAIN spans :
             /\ k \in DOMAIN spans' /\ spans'[k].orig = spans[k].orig
             /\ spans'[k].cur = spans[k].cur \/ spans[k].paused,
           kind = "package" => p \in DOMAIN pkgSpans' /\ pkgSpans'[p] = lastSpan + 1,
           kind # "package" => <<p, t>> \in DOMAIN spans' /\ spans'[<<p, t>>].cur = lastSpan + 1,
           kind = "test" => spans'[<<p, t>>].orig = lastSpan + 1
    PROVE  Accounted'
<1>0. lastSpan \in Nat /\ lastSpan' = lastSpan + 1
  BY DEF RunInv, RunTypeOK, Added
<1> SUFFICES ASSUME NEW i \in 1..(lastSpan + 1)
             PROVE  LET s == spanTab'[i]
                        k == <<s.pkg, s.test>>
                    IN
                    /\ s.ends <= 1 /\ s.eofs <= 1
                    /\ s.ends = 0 => \/ s.pkg \in DOMAIN pkgSpans' /\ i = pkgSpans'[s.pkg]
                                     \/ k \in DOMAIN spans' /\ i = spans'[k].cur
                    /\ s.kind = "continue" => s.eofs = 0
                    /\ WithLogs /\ s.eofs = 0 /\ s.kind = "test" =>
                         k \in DOMAIN spans' /\ i = spans'[k].orig
                    /\ WithLogs /\ s.eofs = 0 /\ s.kind = "package" =>
                         s.pkg \in DOMAIN pkgSpans' /\ i = pkgSpans'[s.pkg]
  BY <1>0 DEF Accounted
<1>1. CASE i = lastSpan + 1
  <2>1. /\ spanTab'[i].kind = kind /\ spanTab'[i].pkg = p /\ spanTab'[i].test = t
        /\ spanTab'[i].ends = 0 /\ spanTab'[i].eofs = 0
    BY <1>1 DEF Added
  <2> QED BY <1>1, <2>1
<1>2. CASE i # lastSpan + 1
  <2>1. i \in 1..lastSpan
    BY <1>0, <1>2
  <2>2. spanTab'[i] = spanTab[i]
    BY <2>1 DEF Added
  <2> DEFINE s == spanTab[i]
             k == <<s.pkg, s.test>>
  <2>3. /\ s.ends <= 1 /\ s.eofs <= 1
        /\ s.ends = 0 => \/ s.pkg \in DOMAIN pkgSpans /\ i = pkgSpans[s.pkg]
                         \/ k \in DOMAIN spans /\ i = spans[k].cur
        /\ s.kind = "continue" => s.eofs = 0
        /\ WithLogs /\ s.eofs = 0 /\ s.kind = "test" =>
             k \in DOMAIN spans /\ i = spans[k].orig
        /\ WithLogs /\ s.eofs = 0 /\ s.kind = "package" =>
             s.pkg \in DOMAIN pkgSpans /\ i = pkgSpans[s.pkg]
    BY <2>1 DEF Accounted
  <2>4. k \in DOMAIN spans /\ i = spans[k].cur /\ s.ends = 0 => ~spans[k].paused
    BY DEF RunInv, EntriesSound
  <2> HIDE DEF k
  <2>5. s.ends = 0 => \/ s.pkg \in DOMAIN pkgSpans' /\ i = pkgSpans'[s.pkg]
                      \/ k \in DOMAIN spans' /\ i = spans'[k].cur
    BY <2>3, <2>4
  <2>6. WithLogs /\ s.eofs = 0 /\ s.kind = "test" => k \in DOMAIN spans' /\ i = spans'[k].orig
    BY <2>3
  <2>7. WithLogs /\ s.eofs = 0 /\ s.kind = "package" =>
             s.pkg \in DOMAIN pkgSpans' /\ i = pkgSpans'[s.pkg]
    BY <2>3
  <2> QED BY <2>2, <2>3, <2>5, <2>6, <2>7 DEF k
<1> QED BY <1>1, <1>2

\* Earlier spans keep their places among the runs of a test, and the new one is
\* of another test, opens its next run or continues its last.
LEMMA PlacesAdded ==
    ASSUME RunInv, NEW v, RunsSeen(v), NEW kind, NEW p, NEW t, NEW parent,
           Added(kind, p, t, parent), NEW k, NEW n, n = lastSpan + 1
    PROVE  /\ \A i \in 0..lastSpan : Nth(k, i)' = Nth(k, i)
           /\ \A i \in 1..lastSpan : Of(spanTab', i, k) <=> Of(spanTab, i, k)
           /\ Of(spanTab', n, k) <=> p = k[1] /\ t = k[2]
           /\ k \in Keys => Nth(k, n)' = IF kind = "test" /\ p = k[1] /\ t = k[2]
                                         THEN Len(v.begun[k]) + 1 ELSE Len(v.begun[k])
<1>0. lastSpan \in Nat
  BY DEF RunInv, RunTypeOK
<1>1. \A i \in 1..lastSpan : SameShape(i) /\ spanTab'[i] = spanTab[i]
  BY DEF Added, SameShape
<1>2. \A i \in 0..lastSpan : Nth(k, i)' = Nth(k, i)
  BY <1>1, NthKept DEF RunInv
<1>3. \A i \in 1..lastSpan : Of(spanTab', i, k) <=> Of(spanTab, i, k)
  BY <1>1 DEF Of
<1>4. spanTab'[n].kind = kind /\ (Of(spanTab', n, k) <=> p = k[1] /\ t = k[2])
  BY DEF Added, Of
<1>5. Nth(k, n)' = IF spanTab'[n].kind = "test" /\ Of(spanTab', n, k)
                   THEN Nth(k, lastSpan) + 1 ELSE Nth(k, lastSpan)
  BY <1>1, NthNew DEF RunInv
<1> QED BY <1>2, <1>3, <1>4, <1>5 DEF RunsSeen

LEMMA AddingRuns ==
    ASSUME RunInv, RunInv', NEW v, RunsSeen(v), NEW kind, NEW p, NEW t, NEW parent,
           Added(kind, p, t, parent), NEW w,
           \A k \in Keys : Len(w.begun[k]) = IF kind = "test" /\ p = k[1] /\ t = k[2]
                                             THEN Len(v.begun[k]) + 1 ELSE Len(v.begun[k]),
           \A k \in DOMAIN spans' :
             IF p = k[1] /\ t = k[2]
             THEN /\ spans'[k].cur = lastSpan + 1
                  /\ \/ spans'[k].orig = lastSpan + 1
                     \/ /\ kind = "continue" /\ k \in DOMAIN spans
                        /\ spans'[k].orig = spans[k].orig
             ELSE /\ k \in DOMAIN spans
                  /\ spans'[k].orig = spans[k].orig /\ spans'[k].cur = spans[k].cur
    PROVE  RunsSeen(w)'
<1> DEFINE n == lastSpan + 1
<1>0. lastSpan \in Nat /\ lastSpan' = n
  BY DEF RunInv, RunTypeOK, Added
<1>1. ASSUME NEW k \in Keys PROVE Nth(k, lastSpan)' = Len(w.begun[k])
  <2>1. PICK m : m = lastSpan + 1
    OBVIOUS
  <2>2. Nth(k, m)' = IF kind = "test" /\ p = k[1] /\ t = k[2]
                     THEN Len(v.begun[k]) + 1 ELSE Len(v.begun[k])
    BY <2>1, PlacesAdded
  <2>3. Nth(k, lastSpan)' = Nth(k, m)'
    BY <1>0, <2>1
  <2> QED BY <2>2, <2>3
<1>2. ASSUME NEW k \in DOMAIN spans', NEW i \in 1..n, Of(spanTab', i, k)
      PROVE  i <= spans'[k].cur /\ (spanTab'[i].kind = "test" => i <= spans'[k].orig)
  <2>1. CASE i = n
    <3>1. p = k[1] /\ t = k[2] /\ spanTab'[n].kind = kind
      BY <1>2, <2>1 DEF Added, Of
    <3>2. spans'[k].cur = n /\ (kind # "continue" => spans'[k].orig = n)
      BY <3>1
    <3> QED BY <1>0, <2>1, <3>1, <3>2
  <2>2. CASE i # n
    <3>1. i \in 1..lastSpan /\ i <= n
      BY <1>0, <2>2
    <3>2. Of(spanTab, i, k) /\ spanTab'[i] = spanTab[i]
      BY <1>2, <3>1 DEF Added, Of
    <3>3. k \in DOMAIN spans => i <= spans[k].cur
                                /\ (spanTab[i].kind = "test" => i <= spans[k].orig)
      BY <3>1, <3>2 DEF RunsSeen
    <3> QED BY <3>1, <3>2, <3>3
  <2> QED BY <2>1, <2>2
<1> QED BY <1>0, <1>1, <1>2 DEF RunsSeen

\* Of the other tests nothing changes.
LEMMA AddingVerdicts ==
    ASSUME RunInv, NEW v, RunsSeen(v), NEW kind, NEW p, NEW t, NEW parent,
           Added(kind, p, t, parent), NEW w, NEW k \in Keys, VerdictsOf(v, k),
           ~(p = k[1] /\ t = k[2]),
           w.begun[k] = v.begun[k], w.st[k] = v.st[k], w.last[k] = v.last[k],
           v.st[k] = "on" => (w.pkg[k[1]] = "open" <=> v.pkg[k[1]] = "open")
    PROVE  VerdictsOf(w, k)'
<1>0. lastSpan \in Nat /\ lastSpan' = lastSpan + 1
  BY DEF RunInv, RunTypeOK, Added
<1>1. /\ \A i \in 1..lastSpan : Nth(k, i)' = Nth(k, i)
      /\ \A i \in 1..lastSpan : Of(spanTab', i, k) <=> Of(spanTab, i, k)
      /\ \A n : n = lastSpan + 1 => ~Of(spanTab', n, k)
  <2>1. PICK n : n = lastSpan + 1
    OBVIOUS
  <2>2. /\ \A i \in 0..lastSpan : Nth(k, i)' = Nth(k, i)
        /\ \A i \in 1..lastSpan : Of(spanTab', i, k) <=> Of(spanTab, i, k)
        /\ ~Of(spanTab', n, k)
    BY <2>1, PlacesAdded
  <2> QED BY <1>0, <2>1, <2>2
<1>2. \A i \in 1..lastSpan : Continues(k, i)' <=> Continues(k, i)
  BY <1>0, <1>1 DEF Continues
<1> SUFFICES ASSUME NEW i \in 1..lastSpan', Of(spanTab', i, k)
             PROVE  /\ Continues(k, i)' => spanTab'[i].status = "unset"
                    /\ ~Continues(k, i)' /\ Nth(k, i)' < Len(w.begun[k]) =>
                         spanTab'[i].status \in Verdicts
                    /\ ~Continues(k, i)' /\ Nth(k, i)' = Len(w.begun[k]) =>
                         /\ w.st[k] = "off" => spanTab'[i].status = w.last[k]
                         /\ w.st[k] = "paused" => spanTab'[i].status = "unset"
                         /\ w.st[k] = "on" => spanTab'[i].status =
                              IF w.pkg[k[1]] = "open" THEN "unset" ELSE "unfinished"
  BY DEF VerdictsOf
<1>3. i \in 1..lastSpan
  BY <1>0, <1>1
<1>4. Of(spanTab, i, k) /\ spanTab'[i] = spanTab[i]
  BY <1>1, <1>3 DEF Added
<1> QED BY <1>1, <1>2, <1>3, <1>4 DEF VerdictsOf

LEMMA AddingCallers ==
    ASSUME RunInv, NEW v \in View, RunsSeen(v), CallersSeen(v),
           NEW kind, NEW p, NEW t, NEW parent, Added(kind, p, t, parent), NEW w,
           \A k \in Keys : \A m \in 1..Len(v.begun[k]) : w.begun[k][m] = v.begun[k][m],
           NEW call, \A k \in Keys : kind = "test" /\ p = k[1] /\ t = k[2] =>
                       call = w.begun[k][Len(v.begun[k]) + 1],
           kind = "test" => /\ parent \in 1..lastSpan /\ spanTab[parent].pkg = p
                            /\ call[1] = NoTest => spanTab[parent].kind = "package"
                            /\ call[1] # NoTest =>
                                 /\ spanTab[parent].kind = "test"
                                 /\ spanTab[parent].test = call[1]
                                 /\ Nth(<<p, call[1]>>, parent) = call[2]
    PROVE  CallersSeen(w)'
<1>0. lastSpan \in Nat /\ lastSpan' = lastSpan + 1
  BY DEF RunInv, RunTypeOK, Added
<1>1. \A j : \A i \in 0..lastSpan : Nth(j, i)' = Nth(j, i)
  <2> SUFFICES ASSUME NEW j PROVE \A i \in 0..lastSpan : Nth(j, i)' = Nth(j, i)
    OBVIOUS
  <2>1. PICK n : n = lastSpan + 1
    OBVIOUS
  <2> QED BY ZenonT(60), <2>1, PlacesAdded
<1> SUFFICES ASSUME NEW k \in Keys, NEW i \in 1..lastSpan', Of(spanTab', i, k),
                    spanTab'[i].kind = "test", NEW c, c = w.begun[k][Nth(k, i)'],
                    NEW j, j = <<k[1], c[1]>>, NEW m, m = spanTab'[i].parent
             PROVE  /\ m # 0 /\ spanTab'[m].pkg = k[1]
                    /\ c[1] = NoTest => spanTab'[m].kind = "package"
                    /\ c[1] # NoTest =>
                         /\ spanTab'[m].kind = "test" /\ spanTab'[m].test = c[1]
                         /\ Nth(j, m)' = c[2]
  BY DEF CallersSeen
<1>2. SUFFICES /\ m \in 1..lastSpan /\ spanTab[m].pkg = k[1]
               /\ c[1] = NoTest => spanTab[m].kind = "package"
               /\ c[1] # NoTest => /\ spanTab[m].kind = "test" /\ spanTab[m].test = c[1]
                                   /\ Nth(j, m) = c[2]
  <2>1. m \in 1..lastSpan => m # 0 /\ m \in 0..lastSpan /\ spanTab'[m] = spanTab[m]
    BY <1>0 DEF Added
  <2> QED BY <1>1, <2>1
<1>3. CASE i = lastSpan + 1
  <2>1. PICK n : n = lastSpan + 1
    OBVIOUS
  <2>2. /\ p = k[1] /\ t = k[2] /\ kind = "test" /\ m = parent
    BY <1>3 DEF Added, Of
  <2>3. Nth(k, n)' = Len(v.begun[k]) + 1
    BY <2>1, <2>2, PlacesAdded
  <2>4. Nth(k, i)' = Nth(k, n)'
    BY <1>3, <2>1
  <2>5. c = call
    BY <2>2, <2>3, <2>4
  <2> QED BY <2>2, <2>5
<1>4. CASE i # lastSpan + 1
  <2>1. i \in 1..lastSpan /\ i \in 0..lastSpan
    BY <1>0, <1>4
  <2>2. Of(spanTab, i, k) /\ spanTab'[i] = spanTab[i]
    BY <2>1 DEF Added, Of
  <2>3. Nth(k, i)' = Nth(k, i) /\ Nth(k, i) > 0
    BY <1>1, <2>1, <2>2, NthBasics DEF RunInv
  <2>4. Nth(k, i) \in Nat /\ Nth(k, i) <= Len(v.begun[k])
    BY <2>1, NthInRuns
  <2>5. v.begun[k] \in Seq(Call)
    BY DEF View
  <2>6. c = v.begun[k][Nth(k, i)]
    BY <2>3, <2>4, <2>5, LenProperties
  <2>7. /\ m = spanTab[i].parent /\ m # 0 /\ spanTab[m].pkg = k[1]
        /\ c[1] = NoTest => spanTab[m].kind = "package"
        /\ c[1] # NoTest => /\ spanTab[m].kind = "test" /\ spanTab[m].test = c[1]
                            /\ Nth(j, m) = c[2]
    BY <2>1, <2>2, <2>6 DEF CallersSeen
  <2>8. UnderRightSpan(spanTab, i)
    BY <2>1 DEF RunInv, ParentsSound
  <2>9. m \in 1..(i - 1)
    BY <2>2, <2>7, <2>8 DEF UnderRightSpan
  <2> QED BY <1>0, <2>1, <2>7, <2>9
<1> QED BY <1>3, <1>4

LEMMA AddingOther ==
    ASSUME RunInv, NEW v \in View, RunsSeen(v), CallersSeen(v),
           NEW kind, NEW p, NEW t, NEW parent, Added(kind, p, t, parent), kind # "test",
           NEW w, w.begun = v.begun
    PROVE  CallersSeen(w)'
<1>1. \A k \in Keys : \A m \in 1..Len(v.begun[k]) : w.begun[k][m] = v.begun[k][m]
  OBVIOUS
<1>2. PICK call : call = 0
  OBVIOUS
<1>3. \A k \in Keys : kind = "test" /\ p = k[1] /\ t = k[2] =>
                     call = w.begun[k][Len(v.begun[k]) + 1]
  OBVIOUS
<1>4. kind = "test" => /\ parent \in 1..lastSpan /\ spanTab[parent].pkg = p
                       /\ call[1] = NoTest => spanTab[parent].kind = "package"
                       /\ call[1] # NoTest =>
                            /\ spanTab[parent].kind = "test"
                            /\ spanTab[parent].test = call[1]
                            /\ Nth(<<p, call[1]>>, parent) = call[2]
  OBVIOUS
<1> QED BY <1>1, <1>3, <1>4, AddingCallers

LEMMA PackageStartSeen ==
    ASSUME RunInv, RunInv', ~returned, NEW v \in View, NEW w \in View, Seen(v),
           NEW p \in Pkgs, PackageAdvance(v, "start", p, w), PackageStart(p)
    PROVE  Seen(w)' /\ (CallersSeen(v) => CallersSeen(w)')
<1> DEFINE n == lastSpan + 1
<1>0. Tables(v) /\ Accounted /\ PackagesSeen(v) /\ RunsSeen(v) /\ VerdictsSeen(v)
  BY DEF Seen
<1>1. /\ v.pkg[p] = "new" /\ w.pkg = [v.pkg EXCEPT ![p] = "open"]
      /\ w.st = v.st /\ w.begun = v.begun /\ w.last = v.last
  BY DEF PackageAdvance, Verdicts
<1>a. w.pkg[p] = "open" /\ \A q \in Pkgs : q # p => w.pkg[q] = v.pkg[q]
  <2>1. v.pkg \in [Pkgs -> {"new", "open"} \cup Verdicts]
    BY DEF View
  <2> QED BY <1>1, <2>1
<1>2. p \notin DOMAIN pkgSpans
  BY <1>0, <1>1 DEF Tables
<1>3. Start("package", p, NoTest, 0, 0)
  BY DEF PackageStart
<1>4. Added("package", p, NoTest, 0)
  BY <1>3, StartIsAdded DEF Kinds
<1>5. /\ UNCHANGED <<spans, activeTests, pkgRuns>>
      /\ DOMAIN pkgSpans' = DOMAIN pkgSpans \cup {p} /\ pkgSpans'[p] = n
      /\ \A q \in DOMAIN pkgSpans : pkgSpans'[q] = pkgSpans[q]
  BY <1>2 DEF PackageStart, Put, NewSpan
<1>6. \A k \in Keys : k[2] # NoTest /\ k[1] \in Pkgs
  BY RunAssumption DEF Keys
<1>7. lastSpan \in Nat /\ lastSpan' = n /\ DOMAIN spans \subseteq Keys
  BY <1>4 DEF RunInv, RunTypeOK, Added
<1>8. Accounted'
  BY <1>0, <1>4, <1>5, AddingAccounted
<1>9. RunsSeen(w)'
  BY <1>0, <1>1, <1>4, <1>5, <1>6, <1>7, AddingRuns
<1>10. CallersSeen(v) => CallersSeen(w)'
  <2>1. "package" # "test"
    OBVIOUS
  <2> QED BY <1>0, <1>1, <1>4, <2>1, AddingOther
<1>11. Tables(w)'
  <2>1. ASSUME NEW j \in Keys
        PROVE  /\ j \in DOMAIN spans' <=> w.pkg[j[1]] = "open" /\ w.st[j] # "off"
               /\ j \in DOMAIN spans' =>
                    /\ spans'[j].paused <=> w.st[j] = "paused"
                    /\ ~spans'[j].paused => j[2] \in activeTests'[j[1]]
    <3>1. /\ j \in DOMAIN spans <=> v.pkg[j[1]] = "open" /\ v.st[j] # "off"
          /\ j \in DOMAIN spans =>
              /\ spans[j].paused <=> v.st[j] = "paused"
              /\ ~spans[j].paused => j[2] \in activeTests[j[1]]
      BY <1>0 DEF Tables
    <3>2. j[1] = p => v.st[j] = "off"
      BY <1>0, <1>1 DEF Tables, Tests
    <3> QED BY <1>1, <1>5, <1>6, <1>a, <3>1, <3>2
  <2>2. ASSUME NEW q \in Pkgs
        PROVE  /\ q \in DOMAIN pkgSpans' <=> w.pkg[q] = "open"
               /\ w.pkg[q] \in {"new", "open"} =>
                    (pkgRuns'[q] = 0 <=> \A j \in Tests(q) : w.begun[j] = <<>>)
               /\ w.pkg[q] = "new" => \A j \in Tests(q) : w.st[j] = "off"
    <3>1. /\ q \in DOMAIN pkgSpans <=> v.pkg[q] = "open"
          /\ v.pkg[q] \in {"new", "open"} =>
               (pkgRuns[q] = 0 <=> \A j \in Tests(q) : v.begun[j] = <<>>)
          /\ v.pkg[q] = "new" => \A j \in Tests(q) : v.st[j] = "off"
      BY <1>0 DEF Tables
    <3>2. CASE q = p
      BY <1>1, <1>5, <1>a, <3>1, <3>2
    <3>3. CASE q # p
      BY <1>1, <1>5, <1>a, <3>1, <3>3
    <3> QED BY <3>2, <3>3
  <2> QED BY <2>1, <2>2 DEF Tables
<1>12. PackagesSeen(w)'
  <2> SUFFICES ASSUME NEW i \in 1..n
               PROVE  LET s == spanTab'[i] IN
                      /\ w.pkg[s.pkg] # "new"
                      /\ s.kind = "package" <=> s.test = NoTest
                      /\ s.kind = "package" /\ w.pkg[s.pkg] = "open" => pkgSpans'[s.pkg] = i
                      /\ s.kind = "package" /\ w.pkg[s.pkg] = "fail" => s.status = "fail"
                      /\ s.kind = "package" /\ w.pkg[s.pkg] = "skip" => s.status = "skip"
                      /\ s.kind = "package" /\ w.pkg[s.pkg] = "pass" =>
                           s.status = IF \A k \in Tests(s.pkg) : w.begun[k] = <<>>
                                      THEN "no tests to run" ELSE "pass"
    BY <1>7 DEF PackagesSeen
  <2>1. CASE i = n
    <3>1. spanTab'[i].kind = "package" /\ spanTab'[i].pkg = p /\ spanTab'[i].test = NoTest
      BY <1>4, <2>1 DEF Added
    <3> QED BY <1>5, <1>a, <2>1, <3>1
  <2>2. CASE i # n
    <3>1. i \in 1..lastSpan
      BY <1>7, <2>2
    <3>2. spanTab'[i] = spanTab[i] /\ spanTab[i].pkg \in Pkgs
      BY <1>4, <3>1 DEF Added, RunInv, RunTypeOK, Span
    <3>3. LET s == spanTab[i] IN
          /\ v.pkg[s.pkg] # "new"
          /\ s.kind = "package" <=> s.test = NoTest
          /\ s.kind = "package" /\ v.pkg[s.pkg] = "open" => pkgSpans[s.pkg] = i
          /\ s.kind = "package" /\ v.pkg[s.pkg] = "fail" => s.status = "fail"
          /\ s.kind = "package" /\ v.pkg[s.pkg] = "skip" => s.status = "skip"
          /\ s.kind = "package" /\ v.pkg[s.pkg] = "pass" =>
               s.status = IF \A k \in Tests(s.pkg) : v.begun[k] = <<>>
                          THEN "no tests to run" ELSE "pass"
      BY <1>0, <3>1 DEF PackagesSeen
    <3>4. spanTab[i].pkg # p
      BY <1>1, <3>3
    <3>5. w.pkg[spanTab[i].pkg] = v.pkg[spanTab[i].pkg]
      BY <1>a, <3>2, <3>4
    <3>6. v.pkg[spanTab[i].pkg] = "open" => pkgSpans'[spanTab[i].pkg] = pkgSpans[spanTab[i].pkg]
      BY <1>0, <1>5, <3>2 DEF Tables
    <3>7. /\ spanTab[i].kind = "package" /\ w.pkg[spanTab[i].pkg] = "pass" =>
               spanTab[i].status = IF \A k \in Tests(spanTab[i].pkg) : w.begun[k] = <<>>
                                   THEN "no tests to run" ELSE "pass"
          /\ spanTab[i].kind = "package" /\ w.pkg[spanTab[i].pkg] = "open" =>
               pkgSpans'[spanTab[i].pkg] = i
      BY <1>1, <3>3, <3>5, <3>6
    <3> QED BY <3>2, <3>3, <3>5, <3>7
  <2> QED BY <2>1, <2>2
<1>13. VerdictsSeen(w)'
  <2>1. ASSUME NEW k \in Keys PROVE VerdictsOf(w, k)'
    <3>1. VerdictsOf(v, k)
      BY <1>0 DEF VerdictsSeen
    <3>2. k[1] = p => v.st[k] = "off"
      BY <1>0, <1>1 DEF Tables, Tests
    <3>3. v.st[k] = "on" => (w.pkg[k[1]] = "open" <=> v.pkg[k[1]] = "open")
      BY <1>6, <1>a, <3>2
    <3>4. ~(p = k[1] /\ NoTest = k[2])
      BY <1>6
    <3>5. w.begun[k] = v.begun[k] /\ w.st[k] = v.st[k] /\ w.last[k] = v.last[k]
      BY <1>1
    <3>6. RunsSeen(v)
      BY <1>0
    <3> QED BY <1>4, <3>1, <3>3, <3>4, <3>5, <3>6, AddingVerdicts
  <2> QED BY <2>1 DEF VerdictsSeen
<1> QED BY <1>8, <1>9, <1>10, <1>11, <1>12, <1>13 DEF Seen

\* Two tests' names that the name of a third extends: one extends the other.
LEMMA OnePath ==
    ASSUME NEW a \in Names, NEW b \in Names, NEW t \in Names,
           IsStrictPrefix(a, t), IsStrictPrefix(b, t), Len(a) <= Len(b), a # b
    PROVE  IsStrictPrefix(a, b)
<1>1. a \in Seq(STRING) /\ b \in Seq(STRING) /\ t \in Seq(STRING)
  BY RunAssumption
<1>2. IsPrefix(a, t) /\ IsPrefix(b, t)
  BY DEF IsStrictPrefix
<1>3. /\ Len(b) <= Len(t) /\ \A i \in 1..Len(a) : a[i] = t[i]
      /\ \A i \in 1..Len(b) : b[i] = t[i]
      /\ Len(a) \in Nat /\ Len(b) \in Nat
  BY <1>1, <1>2, PrefixIs, LenProperties
<1>4. \A i \in 1..Len(a) : a[i] = b[i]
  BY <1>3
<1>5. IsPrefix(a, b)
  BY <1>1, <1>4, PrefixIs
<1> QED BY <1>5 DEF IsStrictPrefix

\* The parent Run picks is the original span of the caller's last run.
LEMMA CallerFound ==
    ASSUME RunInv, NEW v \in View, Tables(v), RunsSeen(v),
           NEW p \in Pkgs, NEW t \in Names, NEW call \in Call,
           v.pkg[p] = "open", CallerIsOn(v, <<p, t>>, call), NEW parent \in Parents(p, t)
    PROVE  /\ parent \in 1..lastSpan /\ spanTab[parent].pkg = p
           /\ call[1] = NoTest => spanTab[parent].kind = "package"
           /\ call[1] # NoTest =>
                /\ spanTab[parent].kind = "test" /\ spanTab[parent].test = call[1]
                /\ Nth(<<p, call[1]>>, parent) = call[2]
<1> DEFINE c == call[1]
           E == Enclosing(p, t)
<1>1. /\ c # NoTest => /\ IsStrictPrefix(c, t) /\ v.st[<<p, c>>] = "on"
                       /\ call[2] = Len(v.begun[<<p, c>>])
      /\ \A a \in Names : /\ v.st[<<p, a>>] = "on" /\ IsStrictPrefix(a, t)
                          /\ c = NoTest \/ IsStrictPrefix(c, a)
                          => FALSE
  <2>1. <<p, t>>[1] = p /\ <<p, t>>[2] = t
    OBVIOUS
  <2> QED BY <2>1 DEF CallerIsOn
<1>2. c # NoTest => c \in Names /\ <<p, c>> \in Keys
  BY DEF Call, Keys
<1>3. ASSUME NEW a \in E
      PROVE  /\ a \in Names /\ <<p, a>> \in Keys /\ <<p, a>> \in DOMAIN spans
             /\ v.st[<<p, a>>] = "on" /\ IsStrictPrefix(a, t)
  <2>1. a \in activeTests[p] /\ <<p, a>> \in DOMAIN spans /\ IsStrictPrefix(a, t)
    BY DEF Enclosing
  <2>2. a \in Names /\ <<p, a>> \in Keys
    BY <2>1 DEF RunInv, RunTypeOK, Keys
  <2>3. ~spans[<<p, a>>].paused
    BY <2>1 DEF RunInv, ActiveAreRunning
  <2>4. /\ v.st[<<p, a>>] \in {"off", "on", "paused"}
        /\ v.st[<<p, a>>] # "off"
        /\ spans[<<p, a>>].paused <=> v.st[<<p, a>>] = "paused"
    BY <2>1, <2>2 DEF View, Tables
  <2> QED BY <2>1, <2>2, <2>3, <2>4
<1>4. CASE c = NoTest
  <2>1. E = {}
    BY <1>1, <1>3, <1>4
  <2>2. p \in DOMAIN pkgSpans
    BY DEF Tables
  <2>3. parent = pkgSpans[p]
    BY <2>1, <2>2 DEF Parents
  <2> QED BY <1>4, <2>2, <2>3 DEF RunInv, RunTypeOK, PackagesSound
<1>5. CASE c # NoTest
  <2>1. /\ c \in Names /\ <<p, c>> \in Keys
        /\ IsStrictPrefix(c, t) /\ v.st[<<p, c>>] = "on"
        /\ call[2] = Len(v.begun[<<p, c>>])
    BY <1>1, <1>2, <1>5
  <2>2. <<p, c>> \in DOMAIN spans /\ c \in activeTests[p]
    <3>1. <<p, c>>[1] = p /\ <<p, c>>[2] = c
      OBVIOUS
    <3> HIDE DEF c
    <3>2. <<p, c>> \in DOMAIN spans
      BY <2>1, <3>1 DEF Tables
    <3>3. ~spans[<<p, c>>].paused
      BY <2>1, <3>2 DEF Tables
    <3> QED BY <2>1, <3>1, <3>2, <3>3 DEF Tables
  <2>3. c \in E
    BY <2>1, <2>2 DEF Enclosing
  <2>4. ASSUME NEW a \in Longest(E) PROVE a = c
    <3>1. a \in E /\ Len(c) <= Len(a)
      BY <2>3 DEF Longest
    <3>2. a \in Names /\ v.st[<<p, a>>] = "on" /\ IsStrictPrefix(a, t)
      BY <1>3, <3>1
    <3>3. ~IsStrictPrefix(c, a)
      BY <1>1, <3>2
    <3> HIDE DEF c
    <3> QED BY <2>1, <3>1, <3>2, <3>3, OnePath
  <2>5. parent = spans[<<p, c>>].orig
    <3>1. parent \in {spans[<<p, a>>].orig : a \in Longest(E)}
      BY <2>3 DEF Parents
    <3> HIDE DEF E, c
    <3> QED BY <2>4, <3>1
  <2>6. /\ parent \in 1..lastSpan /\ spanTab[parent].kind = "test"
        /\ Of(spanTab, parent, <<p, c>>) /\ Nth(<<p, c>>, parent) = Len(v.begun[<<p, c>>])
    BY <2>2, <2>5, EntryIsLast
  <2> QED BY <1>5, <2>1, <2>6 DEF Of
<1> QED BY <1>4, <1>5

\* Packages, when the new span is a test's: it is of a package that is open.
LEMMA AddingPackages ==
    ASSUME RunInv, NEW v \in View, PackagesSeen(v), NEW kind, NEW p \in Pkgs, NEW t \in Names,
           NEW parent, Added(kind, p, t, parent), kind # "package", v.pkg[p] = "open",
           pkgSpans' = pkgSpans, NEW w, w.pkg = v.pkg,
           \A q \in Pkgs : v.pkg[q] # "open" => \A k \in Tests(q) : w.begun[k] = v.begun[k]
    PROVE  PackagesSeen(w)'
<1>0. lastSpan \in Nat /\ lastSpan' = lastSpan + 1 /\ t # NoTest
  BY RunAssumption DEF RunInv, RunTypeOK, Added
<1> SUFFICES ASSUME NEW i \in 1..(lastSpan + 1)
             PROVE  LET s == spanTab'[i] IN
                    /\ w.pkg[s.pkg] # "new"
                    /\ s.kind = "package" <=> s.test = NoTest
                    /\ s.kind = "package" /\ w.pkg[s.pkg] = "open" => pkgSpans'[s.pkg] = i
                    /\ s.kind = "package" /\ w.pkg[s.pkg] = "fail" => s.status = "fail"
                    /\ s.kind = "package" /\ w.pkg[s.pkg] = "skip" => s.status = "skip"
                    /\ s.kind = "package" /\ w.pkg[s.pkg] = "pass" =>
                         s.status = IF \A k \in Tests(s.pkg) : w.begun[k] = <<>>
                                    THEN "no tests to run" ELSE "pass"
  BY <1>0 DEF PackagesSeen
<1>1. CASE i = lastSpan + 1
  <2>1. spanTab'[i].kind = kind /\ spanTab'[i].pkg = p /\ spanTab'[i].test = t
    BY <1>1 DEF Added
  <2> QED BY <1>0, <2>1
<1>2. CASE i # lastSpan + 1
  <2>1. i \in 1..lastSpan
    BY <1>0, <1>2
  <2>2. spanTab'[i] = spanTab[i] /\ spanTab[i].pkg \in Pkgs
    BY <2>1 DEF Added, RunInv, RunTypeOK, Span
  <2>3. LET s == spanTab[i] IN
        /\ v.pkg[s.pkg] # "new"
        /\ s.kind = "package" <=> s.test = NoTest
        /\ s.kind = "package" /\ v.pkg[s.pkg] = "open" => pkgSpans[s.pkg] = i
        /\ s.kind = "package" /\ v.pkg[s.pkg] = "fail" => s.status = "fail"
        /\ s.kind = "package" /\ v.pkg[s.pkg] = "skip" => s.status = "skip"
        /\ s.kind = "package" /\ v.pkg[s.pkg] = "pass" =>
             s.status = IF \A k \in Tests(s.pkg) : v.begun[k] = <<>>
                        THEN "no tests to run" ELSE "pass"
    BY <2>1 DEF PackagesSeen
  <2>4. spanTab[i].kind = "package" /\ w.pkg[spanTab[i].pkg] = "pass" =>
          spanTab[i].status = IF \A k \in Tests(spanTab[i].pkg) : w.begun[k] = <<>>
                              THEN "no tests to run" ELSE "pass"
    BY <2>2, <2>3
  <2> QED BY <2>2, <2>3, <2>4
<1> QED BY <1>1, <1>2

\* A run of the test itself: its earlier runs have their results.
LEMMA NextRunVerdicts ==
    ASSUME RunInv, NEW v, RunsSeen(v), NEW p, NEW t, NEW parent, Added("test", p, t, parent),
           NEW w, NEW k \in Keys, k[1] = p, k[2] = t, VerdictsOf(v, k),
           Len(v.begun[k]) \in Nat, Len(w.begun[k]) = Len(v.begun[k]) + 1,
           v.st[k] = "off", v.last[k] \in Verdicts, w.st[k] = "on", w.pkg[p] = "open"
    PROVE  VerdictsOf(w, k)'
<1>0. lastSpan \in Nat /\ lastSpan' = lastSpan + 1
  BY DEF RunInv, RunTypeOK, Added
<1>1. /\ \A i \in 1..lastSpan : Nth(k, i)' = Nth(k, i)
      /\ \A i \in 1..lastSpan : Of(spanTab', i, k) <=> Of(spanTab, i, k)
      /\ \A n : n = lastSpan + 1 => Nth(k, n)' = Len(v.begun[k]) + 1
  <2>1. PICK n : n = lastSpan + 1
    OBVIOUS
  <2>2. /\ \A i \in 0..lastSpan : Nth(k, i)' = Nth(k, i)
        /\ \A i \in 1..lastSpan : Of(spanTab', i, k) <=> Of(spanTab, i, k)
        /\ Nth(k, n)' = Len(v.begun[k]) + 1
    BY <2>1, PlacesAdded
  <2> QED BY <1>0, <2>1, <2>2
<1>2. \A i \in 1..lastSpan : Nth(k, i) \in Nat /\ Nth(k, i) <= Len(v.begun[k])
  BY NthInRuns
<1>3. \A i \in 1..lastSpan : Continues(k, i)' <=> Continues(k, i)
  <2> SUFFICES ASSUME NEW i \in 1..lastSpan PROVE Continues(k, i)' <=> Continues(k, i)
    OBVIOUS
  <2>1. Continues(k, i)' <=> \E j \in 1..(lastSpan + 1) :
                               i < j /\ Of(spanTab', j, k) /\ Nth(k, j)' = Nth(k, i)
    BY <1>0, <1>1 DEF Continues
  <2>2. \A j \in 1..(lastSpan + 1) : Nth(k, j)' = Nth(k, i) => j \in 1..lastSpan
    BY <1>0, <1>1, <1>2
  <2>3. 1..lastSpan \subseteq 1..(lastSpan + 1)
    BY <1>0
  <2> QED BY <1>1, <2>1, <2>2, <2>3 DEF Continues
<1> SUFFICES ASSUME NEW i \in 1..lastSpan', Of(spanTab', i, k)
             PROVE  /\ Continues(k, i)' => spanTab'[i].status = "unset"
                    /\ ~Continues(k, i)' /\ Nth(k, i)' < Len(w.begun[k]) =>
                         spanTab'[i].status \in Verdicts
                    /\ ~Continues(k, i)' /\ Nth(k, i)' = Len(w.begun[k]) =>
                         /\ w.st[k] = "off" => spanTab'[i].status = w.last[k]
                         /\ w.st[k] = "paused" => spanTab'[i].status = "unset"
                         /\ w.st[k] = "on" => spanTab'[i].status =
                              IF w.pkg[k[1]] = "open" THEN "unset" ELSE "unfinished"
  BY DEF VerdictsOf
<1>4. CASE i = lastSpan + 1
  <2>1. spanTab'[i].status = "unset"
    BY <1>4 DEF Added
  <2>2. Nth(k, i)' = Len(w.begun[k])
    BY <1>1, <1>4
  <2> QED BY <2>1, <2>2
<1>5. CASE i # lastSpan + 1
  <2>1. i \in 1..lastSpan
    BY <1>0, <1>5
  <2>2. Of(spanTab, i, k) /\ spanTab'[i] = spanTab[i]
    BY <1>1, <2>1 DEF Added
  <2>3. /\ Continues(k, i) => spanTab[i].status = "unset"
        /\ ~Continues(k, i) => spanTab[i].status \in Verdicts
    BY <1>2, <2>1, <2>2 DEF VerdictsOf
  <2>4. Nth(k, i)' < Len(w.begun[k])
    BY <1>1, <1>2, <2>1
  <2> QED BY <1>1, <1>2, <1>3, <2>1, <2>2, <2>3, <2>4
<1> QED BY <1>4, <1>5

LEMMA RunSeen ==
    ASSUME RunInv, RunInv', ~returned, NEW v \in View, NEW w \in View, Seen(v),
           NEW p \in Pkgs, NEW t \in Names, NEW k, k = <<p, t>>,
           TestAdvance(v, "run", k, w), Run(p, t)
    PROVE  /\ Seen(w)'
           /\ CallersSeen(v) /\ CallerIsOn(v, k, Last(w.begun[k])) => CallersSeen(w)'
<1> DEFINE n == lastSpan + 1
<1>0. Tables(v) /\ Accounted /\ PackagesSeen(v) /\ RunsSeen(v) /\ VerdictsSeen(v)
  BY DEF Seen
<1>1. /\ k \in Keys /\ k[1] = p /\ k[2] = t /\ v.st[k] = "off" /\ v.pkg[p] = "open"
      /\ w.st = [v.st EXCEPT ![k] = "on"] /\ w.last = v.last /\ w.pkg = v.pkg
      /\ \E call \in Call : w.begun = [v.begun EXCEPT ![k] = Append(@, call)]
  BY DEF TestAdvance, Keys, Verdicts
<1>a. /\ v.st \in [Keys -> {"off", "on", "paused"}] /\ v.begun \in [Keys -> Seq(Call)]
      /\ v.last \in [Keys -> Verdicts]
  BY DEF View
<1>2. PICK call \in Call : w.begun = [v.begun EXCEPT ![k] = Append(@, call)]
  BY <1>1
<1>3. /\ w.st[k] = "on" /\ \A j \in Keys : j # k => w.st[j] = v.st[j]
      /\ w.begun[k] = Append(v.begun[k], call)
      /\ \A j \in Keys : j # k => w.begun[j] = v.begun[j]
  BY <1>1, <1>2, <1>a
<1>4. /\ Len(v.begun[k]) \in Nat /\ Len(w.begun[k]) = Len(v.begun[k]) + 1
      /\ w.begun[k][Len(v.begun[k]) + 1] = call /\ w.begun[k] # <<>>
      /\ Last(w.begun[k]) = call
      /\ \A m \in 1..Len(v.begun[k]) : w.begun[k][m] = v.begun[k][m]
  <2>1. PICK s \in Seq(Call) : s = v.begun[k]
    BY <1>1, <1>a
  <2>2. PICK u : u = Append(s, call)
    OBVIOUS
  <2>3. /\ Len(s) \in Nat /\ u # <<>> /\ Len(u) = Len(s) + 1 /\ u[Len(s) + 1] = call
        /\ \A m \in 1..Len(s) : u[m] = s[m]
    BY <2>2, AppendProperties, LenProperties
  <2>4. Last(u) = call
    BY <2>3 DEF Last
  <2> QED BY <1>3, <2>1, <2>2, <2>3, <2>4
<1>5. PICK parent \in Parents(p, t) : Start("test", p, t, parent, 0)
  BY DEF Run
<1>6. Added("test", p, t, parent)
  <2>1. parent \in Nat
    BY ParentIsRight DEF RunInv, RunTypeOK
  <2> QED BY <1>5, <2>1, StartIsAdded DEF Kinds
<1>7. /\ k \notin DOMAIN spans /\ p \in DOMAIN pkgSpans
      /\ DOMAIN spans' = DOMAIN spans \cup {k}
      /\ spans'[k].orig = n /\ spans'[k].cur = n /\ spans'[k].paused = FALSE
      /\ \A j \in DOMAIN spans : spans'[j] = spans[j]
      /\ activeTests' = [activeTests EXCEPT ![p] = @ \cup {t}]
      /\ pkgRuns' = [pkgRuns EXCEPT ![p] = @ + 1]
      /\ pkgSpans' = pkgSpans
  <2>1. k \notin DOMAIN spans /\ p \in DOMAIN pkgSpans
    BY <1>0, <1>1 DEF Tables
  <2> QED BY <2>1 DEF Run, Put, NewSpan
<1>8. /\ lastSpan \in Nat /\ lastSpan' = n /\ DOMAIN spans' \subseteq Keys
      /\ activeTests \in [Pkgs -> SUBSET Names] /\ pkgRuns \in [Pkgs -> Nat]
      /\ "test" # "package" /\ "test" # "continue"
  BY <1>6 DEF RunInv, RunTypeOK, Added
<1>9. \A j \in Keys : (p = j[1] /\ t = j[2]) <=> j = k
  <2>1. \A j \in Keys : j = <<j[1], j[2]>>
    BY DEF Keys
  <2> QED BY <1>1, <2>1
<1>10. Accounted'
  BY <1>0, <1>6, <1>7, AddingAccounted
<1>11. RunsSeen(w)'
  <2>1. \A j \in Keys : Len(w.begun[j]) = IF "test" = "test" /\ p = j[1] /\ t = j[2]
                                          THEN Len(v.begun[j]) + 1 ELSE Len(v.begun[j])
    BY <1>3, <1>4, <1>9
  <2>2. \A j \in DOMAIN spans' :
          IF p = j[1] /\ t = j[2]
          THEN /\ spans'[j].cur = lastSpan + 1
               /\ \/ spans'[j].orig = lastSpan + 1
                  \/ /\ "test" = "continue" /\ j \in DOMAIN spans
                     /\ spans'[j].orig = spans[j].orig
          ELSE /\ j \in DOMAIN spans
               /\ spans'[j].orig = spans[j].orig /\ spans'[j].cur = spans[j].cur
    BY <1>7, <1>8, <1>9
  <2> QED BY <1>0, <1>6, <2>1, <2>2, AddingRuns
<1>12. ASSUME CallersSeen(v), CallerIsOn(v, k, Last(w.begun[k])) PROVE CallersSeen(w)'
  <2>1. CallerIsOn(v, <<p, t>>, call)
    BY <1>4, <1>12
  <2>2. /\ parent \in 1..lastSpan /\ spanTab[parent].pkg = p
        /\ call[1] = NoTest => spanTab[parent].kind = "package"
        /\ call[1] # NoTest =>
             /\ spanTab[parent].kind = "test" /\ spanTab[parent].test = call[1]
             /\ Nth(<<p, call[1]>>, parent) = call[2]
    BY <1>0, <1>1, <2>1, CallerFound
  <2>3. \A j \in Keys : \A m \in 1..Len(v.begun[j]) : w.begun[j][m] = v.begun[j][m]
    BY <1>3, <1>4
  <2>4. \A j \in Keys : "test" = "test" /\ p = j[1] /\ t = j[2] =>
                          call = w.begun[j][Len(v.begun[j]) + 1]
    BY <1>4, <1>9
  <2> QED BY <1>0, <1>6, <1>12, <2>2, <2>3, <2>4, AddingCallers
<1>13. Tables(w)'
  <2>1. ASSUME NEW j \in Keys
        PROVE  /\ j \in DOMAIN spans' <=> w.pkg[j[1]] = "open" /\ w.st[j] # "off"
               /\ j \in DOMAIN spans' =>
                    /\ spans'[j].paused <=> w.st[j] = "paused"
                    /\ ~spans'[j].paused => j[2] \in activeTests'[j[1]]
    <3>1. /\ j \in DOMAIN spans <=> v.pkg[j[1]] = "open" /\ v.st[j] # "off"
          /\ j \in DOMAIN spans =>
              /\ spans[j].paused <=> v.st[j] = "paused"
              /\ ~spans[j].paused => j[2] \in activeTests[j[1]]
      BY <1>0 DEF Tables
    <3>2. j[2] \in activeTests[j[1]] => j[2] \in activeTests'[j[1]]
      BY <1>7, <1>8 DEF Keys
    <3>3. CASE j = k
      <4>1. t \in activeTests'[p]
        BY <1>7, <1>8
      <4> QED BY <1>1, <1>3, <1>7, <3>3, <4>1
    <3>4. CASE j # k
      BY <1>1, <1>3, <1>7, <3>1, <3>2, <3>4
    <3> QED BY <3>3, <3>4
  <2>2. ASSUME NEW q \in Pkgs
        PROVE  /\ q \in DOMAIN pkgSpans' <=> w.pkg[q] = "open"
               /\ w.pkg[q] \in {"new", "open"} =>
                    (pkgRuns'[q] = 0 <=> \A j \in Tests(q) : w.begun[j] = <<>>)
               /\ w.pkg[q] = "new" => \A j \in Tests(q) : w.st[j] = "off"
    <3>1. /\ q \in DOMAIN pkgSpans <=> v.pkg[q] = "open"
          /\ v.pkg[q] \in {"new", "open"} =>
               (pkgRuns[q] = 0 <=> \A j \in Tests(q) : v.begun[j] = <<>>)
          /\ v.pkg[q] = "new" => \A j \in Tests(q) : v.st[j] = "off"
      BY <1>0 DEF Tables
    <3>2. CASE q = p
      <4>1. k \in Tests(q)
        BY <1>1, <3>2 DEF Tests
      <4>2. pkgRuns'[q] # 0
        BY <1>7, <1>8, <3>2
      <4> QED BY <1>1, <1>4, <1>7, <3>1, <3>2, <4>1, <4>2
    <3>3. CASE q # p
      <4>1. \A j \in Tests(q) : j \in Keys /\ j # k
        BY <1>1, <3>3 DEF Tests
      <4>2. pkgRuns'[q] = pkgRuns[q]
        BY <1>7, <1>8, <3>3
      <4>3. \A j \in Tests(q) : w.st[j] = v.st[j] /\ w.begun[j] = v.begun[j]
        BY <1>3, <4>1
      <4>4. /\ (\A j \in Tests(q) : w.begun[j] = <<>>) <=> \A j \in Tests(q) : v.begun[j] = <<>>
            /\ (\A j \in Tests(q) : w.st[j] = "off") <=> \A j \in Tests(q) : v.st[j] = "off"
        BY <4>3
      <4> HIDE DEF Tests
      <4> QED BY <1>1, <1>7, <3>1, <4>2, <4>4
    <3> QED BY <3>2, <3>3
  <2> QED BY <2>1, <2>2 DEF Tables
<1>14. PackagesSeen(w)'
  <2>1. \A q \in Pkgs : v.pkg[q] # "open" => \A j \in Tests(q) : w.begun[j] = v.begun[j]
    BY <1>1, <1>3 DEF Tests
  <2> QED BY <1>0, <1>1, <1>6, <1>7, <1>8, <2>1, AddingPackages
<1>15. VerdictsSeen(w)'
  <2>1. ASSUME NEW j \in Keys, j # k PROVE VerdictsOf(w, j)'
    <3>1. VerdictsOf(v, j) /\ RunsSeen(v)
      BY <1>0 DEF VerdictsSeen
    <3>2. /\ ~(p = j[1] /\ t = j[2])
          /\ w.begun[j] = v.begun[j] /\ w.st[j] = v.st[j] /\ w.last[j] = v.last[j]
      BY <1>1, <1>3, <1>9, <2>1
    <3>3. v.st[j] = "on" => (w.pkg[j[1]] = "open" <=> v.pkg[j[1]] = "open")
      BY <1>1
    <3> QED BY <1>6, <3>1, <3>2, <3>3, AddingVerdicts
  <2>2. VerdictsOf(w, k)'
    <3>1. RunsSeen(v) /\ VerdictsOf(v, k) /\ v.last[k] \in Verdicts
      BY <1>0, <1>1, <1>a DEF VerdictsSeen
    <3>2. k \in Keys /\ k[1] = p /\ k[2] = t /\ v.st[k] = "off" /\ w.st[k] = "on"
      BY <1>1, <1>3
    <3>3. w.pkg[p] = "open"
      BY <1>1
    <3>4. Len(v.begun[k]) \in Nat /\ Len(w.begun[k]) = Len(v.begun[k]) + 1
      BY <1>4
    <3> HIDE DEF n
    <3> QED BY <1>6, <3>1, <3>2, <3>3, <3>4, NextRunVerdicts
  <2> QED BY <2>1, <2>2 DEF VerdictsSeen
<1> QED BY <1>10, <1>11, <1>12, <1>13, <1>14, <1>15 DEF Seen

\* A continuation of the test itself: the span it continues has no verdict.
LEMMA ContinuedVerdicts ==
    ASSUME RunInv, NEW v, RunsSeen(v), NEW p, NEW t, NEW parent,
           Added("continue", p, t, parent),
           NEW w, NEW k \in Keys, k[1] = p, k[2] = t, VerdictsOf(v, k),
           Len(v.begun[k]) \in Nat, w.begun[k] = v.begun[k],
           v.st[k] = "paused", w.st[k] = "on", w.pkg[p] = "open"
    PROVE  VerdictsOf(w, k)'
<1>0. lastSpan \in Nat /\ lastSpan' = lastSpan + 1
  BY DEF RunInv, RunTypeOK, Added
<1>1. /\ \A i \in 1..lastSpan : Nth(k, i)' = Nth(k, i)
      /\ \A i \in 1..lastSpan : Of(spanTab', i, k) <=> Of(spanTab, i, k)
      /\ \A n : n = lastSpan + 1 => Nth(k, n)' = Len(v.begun[k]) /\ Of(spanTab', n, k)
  <2>1. PICK n : n = lastSpan + 1
    OBVIOUS
  <2>2. "continue" # "test"
    OBVIOUS
  <2>3. /\ \A i \in 0..lastSpan : Nth(k, i)' = Nth(k, i)
        /\ \A i \in 1..lastSpan : Of(spanTab', i, k) <=> Of(spanTab, i, k)
        /\ Nth(k, n)' = Len(v.begun[k]) /\ Of(spanTab', n, k)
    BY <2>1, <2>2, PlacesAdded
  <2> QED BY <1>0, <2>1, <2>3
<1>2. \A i \in 1..lastSpan : Nth(k, i) \in Nat /\ Nth(k, i) <= Len(v.begun[k])
  BY NthInRuns
<1>3. \A i \in 1..lastSpan :
        Continues(k, i)' <=> Continues(k, i) \/ Nth(k, i) = Len(v.begun[k])
  <2> SUFFICES ASSUME NEW i \in 1..lastSpan
               PROVE  Continues(k, i)' <=> Continues(k, i) \/ Nth(k, i) = Len(v.begun[k])
    OBVIOUS
  <2>1. Continues(k, i)' <=> \E j \in 1..(lastSpan + 1) :
                               i < j /\ Of(spanTab', j, k) /\ Nth(k, j)' = Nth(k, i)
    BY <1>0, <1>1 DEF Continues
  <2>2. 1..(lastSpan + 1) = (1..lastSpan) \cup {lastSpan + 1} /\ i < lastSpan + 1
    BY <1>0
  <2> QED BY <1>1, <2>1, <2>2 DEF Continues
<1> SUFFICES ASSUME NEW i \in 1..lastSpan', Of(spanTab', i, k)
             PROVE  /\ Continues(k, i)' => spanTab'[i].status = "unset"
                    /\ ~Continues(k, i)' /\ Nth(k, i)' < Len(w.begun[k]) =>
                         spanTab'[i].status \in Verdicts
                    /\ ~Continues(k, i)' /\ Nth(k, i)' = Len(w.begun[k]) =>
                         /\ w.st[k] = "off" => spanTab'[i].status = w.last[k]
                         /\ w.st[k] = "paused" => spanTab'[i].status = "unset"
                         /\ w.st[k] = "on" => spanTab'[i].status =
                              IF w.pkg[k[1]] = "open" THEN "unset" ELSE "unfinished"
  BY DEF VerdictsOf
<1>4. CASE i = lastSpan + 1
  <2>1. spanTab'[i].status = "unset"
    BY <1>4 DEF Added
  <2>2. Nth(k, i)' = Len(w.begun[k])
    BY <1>1, <1>4
  <2> QED BY <2>1, <2>2
<1>5. CASE i # lastSpan + 1
  <2>1. i \in 1..lastSpan
    BY <1>0, <1>5
  <2>2. Of(spanTab, i, k) /\ spanTab'[i] = spanTab[i]
    BY <1>1, <2>1 DEF Added
  <2>3. /\ Continues(k, i) => spanTab[i].status = "unset"
        /\ ~Continues(k, i) /\ Nth(k, i) = Len(v.begun[k]) => spanTab[i].status = "unset"
        /\ ~Continues(k, i) /\ Nth(k, i) < Len(v.begun[k]) => spanTab[i].status \in Verdicts
    BY <2>1, <2>2 DEF VerdictsOf
  <2> QED BY <1>1, <1>2, <1>3, <2>1, <2>2, <2>3
<1> QED BY <1>4, <1>5

LEMMA ContSeen ==
    ASSUME RunInv, RunInv', ~returned, NEW v \in View, NEW w \in View, Seen(v),
           NEW p \in Pkgs, NEW t \in Names, NEW k, k = <<p, t>>,
           TestAdvance(v, "cont", k, w), Cont(p, t)
    PROVE  Seen(w)' /\ (CallersSeen(v) => CallersSeen(w)')
<1> DEFINE n == lastSpan + 1
           o == spans[k].orig
<1>0. Tables(v) /\ Accounted /\ PackagesSeen(v) /\ RunsSeen(v) /\ VerdictsSeen(v)
  BY DEF Seen
<1>1. /\ k \in Keys /\ k[1] = p /\ k[2] = t /\ v.st[k] = "paused" /\ v.pkg[p] = "open"
      /\ w.st = [v.st EXCEPT ![k] = "on"] /\ w.last = v.last /\ w.pkg = v.pkg
      /\ w.begun = v.begun
  BY DEF TestAdvance, Keys, Verdicts
<1>a. /\ v.st \in [Keys -> {"off", "on", "paused"}] /\ v.begun \in [Keys -> Seq(Call)]
  BY DEF View
<1>2. w.st[k] = "on" /\ \A j \in Keys : j # k => w.st[j] = v.st[j]
  BY <1>1, <1>a
<1>3. k \in DOMAIN spans /\ spans[k].paused
  BY <1>0, <1>1 DEF Tables
<1>4. Start("continue", p, t, o, spans[k].cur)
  BY <1>1, <1>3 DEF Cont
<1>5. Added("continue", p, t, o)
  <2>1. o \in Nat /\ spans[k].cur \in Nat
    BY <1>3 DEF RunInv, RunTypeOK, Entry
  <2> HIDE DEF o
  <2> QED BY <1>4, <2>1, StartIsAdded DEF Kinds
<1>6. /\ DOMAIN spans' = DOMAIN spans
      /\ spans'[k].orig = o /\ spans'[k].cur = n /\ spans'[k].paused = FALSE
      /\ \A j \in DOMAIN spans : j # k => spans'[j] = spans[j]
      /\ activeTests' = [activeTests EXCEPT ![p] = @ \cup {t}]
      /\ UNCHANGED <<pkgSpans, pkgRuns>>
  <2>1. /\ spans' = [spans EXCEPT ![k] = Continued(@)]
        /\ activeTests' = [activeTests EXCEPT ![p] = @ \cup {t}]
        /\ UNCHANGED <<pkgSpans, pkgRuns>>
    BY <1>1, <1>3 DEF Cont
  <2> QED BY <1>3, <2>1 DEF Continued, NewSpan
<1>7. /\ lastSpan \in Nat /\ lastSpan' = n /\ DOMAIN spans' \subseteq Keys
      /\ activeTests \in [Pkgs -> SUBSET Names]
      /\ "continue" # "package" /\ "continue" # "test"
  BY <1>5 DEF RunInv, RunTypeOK, Added
<1>8. \A j \in Keys : (p = j[1] /\ t = j[2]) <=> j = k
  <2>1. \A j \in Keys : j = <<j[1], j[2]>>
    BY DEF Keys
  <2> QED BY <1>1, <2>1
<1>9. Accounted'
  <2>1. \A j \in DOMAIN spans :
          /\ j \in DOMAIN spans' /\ spans'[j].orig = spans[j].orig
          /\ spans'[j].cur = spans[j].cur \/ spans[j].paused
    BY <1>3, <1>6
  <2> HIDE DEF o
  <2> QED BY <1>0, <1>1, <1>3, <1>5, <1>6, <1>7, <2>1, AddingAccounted
<1> HIDE DEF o
<1>10. RunsSeen(w)'
  <2>1. \A j \in Keys : Len(w.begun[j]) = IF "continue" = "test" /\ p = j[1] /\ t = j[2]
                                          THEN Len(v.begun[j]) + 1 ELSE Len(v.begun[j])
    BY <1>1
  <2>2. \A j \in DOMAIN spans' :
          IF p = j[1] /\ t = j[2]
          THEN /\ spans'[j].cur = lastSpan + 1
               /\ \/ spans'[j].orig = lastSpan + 1
                  \/ /\ "continue" = "continue" /\ j \in DOMAIN spans
                     /\ spans'[j].orig = spans[j].orig
          ELSE /\ j \in DOMAIN spans
               /\ spans'[j].orig = spans[j].orig /\ spans'[j].cur = spans[j].cur
    BY <1>3, <1>6, <1>7, <1>8 DEF o
  <2> QED BY <1>0, <1>5, <2>1, <2>2, AddingRuns
<1>11. CallersSeen(v) => CallersSeen(w)'
  BY <1>0, <1>1, <1>5, <1>7, AddingOther
<1>12. Tables(w)'
  <2>1. ASSUME NEW j \in Keys
        PROVE  /\ j \in DOMAIN spans' <=> w.pkg[j[1]] = "open" /\ w.st[j] # "off"
               /\ j \in DOMAIN spans' =>
                    /\ spans'[j].paused <=> w.st[j] = "paused"
                    /\ ~spans'[j].paused => j[2] \in activeTests'[j[1]]
    <3>1. /\ j \in DOMAIN spans <=> v.pkg[j[1]] = "open" /\ v.st[j] # "off"
          /\ j \in DOMAIN spans =>
              /\ spans[j].paused <=> v.st[j] = "paused"
              /\ ~spans[j].paused => j[2] \in activeTests[j[1]]
      BY <1>0 DEF Tables
    <3>2. j[2] \in activeTests[j[1]] => j[2] \in activeTests'[j[1]]
      BY <1>6, <1>7 DEF Keys
    <3>3. CASE j = k
      <4>1. t \in activeTests'[p]
        BY <1>6, <1>7
      <4> QED BY <1>1, <1>2, <1>3, <1>6, <3>3, <4>1
    <3>4. CASE j # k
      BY <1>1, <1>2, <1>6, <3>1, <3>2, <3>4
    <3> QED BY <3>3, <3>4
  <2>2. ASSUME NEW q \in Pkgs
        PROVE  /\ q \in DOMAIN pkgSpans' <=> w.pkg[q] = "open"
               /\ w.pkg[q] \in {"new", "open"} =>
                    (pkgRuns'[q] = 0 <=> \A j \in Tests(q) : w.begun[j] = <<>>)
               /\ w.pkg[q] = "new" => \A j \in Tests(q) : w.st[j] = "off"
    <3>1. /\ q \in DOMAIN pkgSpans <=> v.pkg[q] = "open"
          /\ v.pkg[q] \in {"new", "open"} =>
               (pkgRuns[q] = 0 <=> \A j \in Tests(q) : v.begun[j] = <<>>)
          /\ v.pkg[q] = "new" => \A j \in Tests(q) : v.st[j] = "off"
      BY <1>0 DEF Tables
    <3>2. v.pkg[q] = "new" => \A j \in Tests(q) : w.st[j] = "off"
      BY <1>1, <1>2, <3>1 DEF Tests
    <3> QED BY <1>1, <1>6, <3>1, <3>2
  <2> QED BY <2>1, <2>2 DEF Tables
<1>13. PackagesSeen(w)'
  BY <1>0, <1>1, <1>5, <1>6, <1>7, AddingPackages
<1>14. VerdictsSeen(w)'
  <2>1. ASSUME NEW j \in Keys, j # k PROVE VerdictsOf(w, j)'
    <3>1. VerdictsOf(v, j) /\ RunsSeen(v)
      BY <1>0 DEF VerdictsSeen
    <3>2. /\ ~(p = j[1] /\ t = j[2])
          /\ w.begun[j] = v.begun[j] /\ w.st[j] = v.st[j] /\ w.last[j] = v.last[j]
      BY <1>1, <1>2, <1>8, <2>1
    <3>3. v.st[j] = "on" => (w.pkg[j[1]] = "open" <=> v.pkg[j[1]] = "open")
      BY <1>1
    <3> HIDE DEF n
    <3> QED BY <1>5, <3>1, <3>2, <3>3, AddingVerdicts
  <2>2. VerdictsOf(w, k)'
    <3>1. RunsSeen(v) /\ VerdictsOf(v, k)
      BY <1>0, <1>1 DEF VerdictsSeen
    <3>2. k \in Keys /\ k[1] = p /\ k[2] = t /\ v.st[k] = "paused" /\ w.st[k] = "on"
      BY <1>1, <1>2
    <3>3. w.pkg[p] = "open" /\ w.begun[k] = v.begun[k]
      BY <1>1
    <3>4. Len(v.begun[k]) \in Nat
      <4>1. v.begun[k] \in Seq(Call)
        BY <1>1, <1>a
      <4> QED BY <4>1, LenProperties
    <3> HIDE DEF n
    <3> QED BY <1>5, <3>1, <3>2, <3>3, <3>4, ContinuedVerdicts
  <2> QED BY <2>1, <2>2 DEF VerdictsSeen
<1> QED BY <1>9, <1>10, <1>11, <1>12, <1>13, <1>14 DEF Seen

----------------------------------------------------------------------------
\* Closing streams, and nothing else.
LEMMA ClosingSeen ==
    ASSUME RunInv, NEW v \in View, Seen(v), NEW S,
           UNCHANGED <<spans, activeTests, pkgSpans, pkgRuns, lastSpan>>,
           \A i \in S : i \in 1..lastSpan /\ spanTab[i].eofs = 0 /\ spanTab[i].kind # "continue",
           \A i \in 1..lastSpan :
             /\ SameShape(i) /\ spanTab'[i].ends = spanTab[i].ends
             /\ spanTab'[i].status = spanTab[i].status
             /\ spanTab'[i].eofs = IF WithLogs /\ i \in S THEN spanTab[i].eofs + 1
                                   ELSE spanTab[i].eofs
    PROVE  Seen(v)' /\ (CallersSeen(v) => CallersSeen(v)')
<1>1. Accounted'
  <2>1. Ended(S, {}) /\ Accounted
    BY DEF Ended, Seen
  <2> QED BY <2>1, EndingAccounted
<1>2. RunsSeen(v) /\ PackagesSeen(v) /\ VerdictsSeen(v) /\ Tables(v)
  BY DEF Seen
<1>3. Tables(v)'
  BY <1>2 DEF Tables
<1>4. RunsSeen(v)'
  BY <1>2, EndingRuns
<1>5. PackagesSeen(v)'
  BY <1>2, EndingPackages
<1>6. VerdictsSeen(v)'
  BY <1>2, EndingVerdicts DEF VerdictsSeen, VerdictsOf
<1>7. CallersSeen(v) => CallersSeen(v)'
  BY EndingCallers
<1> QED BY <1>1, <1>3, <1>4, <1>5, <1>6, <1>7 DEF Seen

LEMMA QuietSeen ==
    ASSUME RunInv, NEW v \in View, Seen(v),
           UNCHANGED <<spans, activeTests, pkgSpans, pkgRuns, lastSpan, spanTab>>
    PROVE  Seen(v)' /\ (CallersSeen(v) => CallersSeen(v)')
<1>0. PICK none : none = {}
  OBVIOUS
<1>1. \A i \in 1..lastSpan :
        /\ SameShape(i) /\ spanTab'[i].ends = spanTab[i].ends
        /\ spanTab'[i].status = spanTab[i].status
        /\ spanTab'[i].eofs = IF WithLogs /\ i \in none THEN spanTab[i].eofs + 1
                              ELSE spanTab[i].eofs
  BY <1>0 DEF SameShape
<1>2. UNCHANGED <<spans, activeTests, pkgSpans, pkgRuns, lastSpan>>
  OBVIOUS
<1> QED BY <1>0, <1>1, <1>2, ClosingSeen

LEMMA ReturnSeen ==
    ASSUME RunInv, NEW v \in View, Seen(v), Return
    PROVE  Seen(v)' /\ (CallersSeen(v) => CallersSeen(v)')
<1> DEFINE S == {pkgSpans[p] : p \in DOMAIN pkgSpans}
<1>1. /\ ~returned /\ spanTab' = CloseStreams(spanTab, S)
      /\ UNCHANGED <<spans, activeTests, pkgSpans, pkgRuns, lastSpan>>
  BY DEF Return
<1>2. lastSpan \in Nat /\ spanTab \in [1..lastSpan -> Span]
  BY DEF RunInv, RunTypeOK
<1>3. ASSUME NEW i \in S
      PROVE  i \in 1..lastSpan /\ spanTab[i].eofs = 0 /\ spanTab[i].kind # "continue"
  BY <1>1 DEF RunInv, RunTypeOK, PackagesSound
<1> HIDE DEF S
<1>4. ASSUME NEW i \in 1..lastSpan
      PROVE  /\ SameShape(i) /\ spanTab'[i].ends = spanTab[i].ends
             /\ spanTab'[i].status = spanTab[i].status
             /\ spanTab'[i].eofs = IF WithLogs /\ i \in S THEN spanTab[i].eofs + 1
                                   ELSE spanTab[i].eofs
  <2>1. spanTab[i] \in Span
    BY <1>2
  <2>2. spanTab'[i] = IF WithLogs /\ i \in S THEN [spanTab[i] EXCEPT !.eofs = @ + 1]
                      ELSE spanTab[i]
    BY <1>1, <1>2 DEF CloseStreams
  <2> QED BY <2>1, <2>2 DEF Span, SameShape
<1> QED BY <1>1, <1>3, <1>4, ClosingSeen

\* Run keeps up with any event that takes one view to the next.
LEMMA HandleSeen ==
    ASSUME RunInv, RunInv', NEW v \in View, NEW w \in View, Seen(v),
           NEW ev, ev.pkg \in Pkgs, ev.test \in Names \cup {NoTest}, Advance(v, ev, w),
           Handle(ev)
    PROVE  Seen(w)' /\ (CallersSeen(v) /\ Called(v, ev, w) => CallersSeen(w)')
<1> DEFINE p == ev.pkg
           t == ev.test
           k == <<p, t>>
<1>0. ~returned
  BY DEF Handle
<1>1. CASE ev.action = "output" /\ w = v
  <2>1. Output(p, t, ev.text)
    BY <1>1 DEF Handle
  <2>2. UNCHANGED <<spans, activeTests, pkgSpans, pkgRuns, lastSpan, spanTab>>
    BY <2>1, Zenon DEF Output, OutputPlain, OutputDump
  <2> QED BY <1>1, <2>2, QuietSeen
<1>2. CASE t = NoTest /\ PackageAdvance(v, ev.action, p, w)
  <2>1. CASE ev.action = "start"
    <3>1. PackageStart(p)
      BY <1>2, <2>1 DEF Handle
    <3> QED BY <1>0, <1>2, <2>1, <3>1, PackageStartSeen
  <2>2. CASE ev.action \in Verdicts
    <3>1. \/ ev.action = "pass" /\ PackagePass(p)
          \/ ev.action = "fail" /\ PackageFail(p)
          \/ ev.action = "skip" /\ PackageSkip(p)
      BY <1>2, <2>2 DEF Handle, Verdicts
    <3> QED BY <1>0, <1>2, <2>2, <3>1, PackageOverSeen
  <2> QED BY <1>2, <2>1, <2>2 DEF PackageAdvance
<1>3. CASE t # NoTest /\ TestAdvance(v, ev.action, k, w)
  <2>0. t \in Names
    BY <1>3
  <2>1. CASE ev.action = "run"
    <3>1. Run(p, t)
      BY <1>3, <2>1 DEF Handle
    <3>2. Called(v, ev, w) => CallerIsOn(v, k, Last(w.begun[k]))
      BY <1>3, <2>1 DEF Called
    <3>3. TestAdvance(v, "run", k, w)
      BY <1>3, <2>1
    <3> HIDE DEF k
    <3>4. k = <<p, t>>
      BY DEF k
    <3> QED BY <1>0, <2>0, <3>1, <3>2, <3>3, <3>4, RunSeen
  <2>2. CASE ev.action = "pause"
    <3>1. Pause(p, t)
      BY <1>3, <2>2 DEF Handle
    <3> QED BY <1>0, <1>3, <2>0, <2>2, <3>1, PauseSeen
  <2>3. CASE ev.action = "cont"
    <3>1. Cont(p, t)
      BY <1>3, <2>3 DEF Handle
    <3> QED BY <1>0, <1>3, <2>0, <2>3, <3>1, ContSeen
  <2>4. CASE ev.action \in Verdicts
    <3>1. TestResult(p, t, ev.action)
      BY <1>3, <2>4 DEF Handle, Verdicts
    <3> QED BY <1>0, <1>3, <2>0, <2>4, <3>1, ResultSeen
  <2> QED BY <1>3, <2>1, <2>2, <2>3, <2>4 DEF TestAdvance
<1> QED BY <1>1, <1>2, <1>3 DEF Advance
----------------------------------------------------------------------------
(* What an event is, and the spans it leaves as they were.                 *)

Actions == {"start", "run", "pause", "cont", "pass", "fail", "skip", "output"}
Event == [action : Actions, pkg : Pkgs, test : Names \cup {NoTest}, text : Seq(STRING)]

ShapesKept == \A i \in 1..lastSpan : SameShape(i)

\* No event makes a span another test's, and one that is registered with an
\* event is of the test the event names.
LEMMA HandleShapes ==
    ASSUME RunInv, NEW ev, Handle(ev), NEW p \in Pkgs, NEW t \in Names \cup {NoTest},
           ev.pkg = p, ev.test = t
    PROVE  /\ ShapesKept /\ lastSpan' \in Nat /\ lastSpan <= lastSpan'
           /\ \A k \in Keys : registered'[k] # registered[k] =>
                registered'[k] = lastSpan' /\ lastSpan' > 0 /\ Of(spanTab', lastSpan', k)
<1>0. /\ lastSpan \in Nat /\ spanTab \in [1..lastSpan -> Span] /\ RunTypeOK
      /\ {"pass", "fail", "skip", "unset", "unfinished", "no tests to run"} \subseteq Statuses
      /\ registered \in [Keys -> 0..lastSpan]
  BY DEF RunInv, RunTypeOK, Statuses
<1>n. lastSpan \in Nat
  BY <1>0
<1>p. spanTab \in [1..lastSpan -> Span]
  BY <1>0
<1>r. \A k \in Keys : registered[k] \in 0..lastSpan
  BY <1>0
<1>1. ASSUME NEW tab \in [1..lastSpan -> Span], NEW S, NEW T, NEW status \in Statuses,
             \A i \in 1..lastSpan : /\ tab[i].kind = spanTab[i].kind /\ tab[i].pkg = spanTab[i].pkg
                                  /\ tab[i].test = spanTab[i].test /\ tab[i].parent = spanTab[i].parent,
             spanTab' = End(CloseStreams(tab, S), T, status)
      PROVE  ShapesKept
  <2> DEFINE new == End(CloseStreams(tab, S), T, status)
  <2>1. \A i \in 1..lastSpan : /\ new[i].kind = tab[i].kind /\ new[i].pkg = tab[i].pkg
                           /\ new[i].test = tab[i].test /\ new[i].parent = tab[i].parent
    BY <1>n, <1>1, CloseThenEnd
  <2>2. spanTab' = new
    BY <1>1
  <2> HIDE DEF new
  <2> QED BY <1>1, <2>1, <2>2 DEF ShapesKept, SameShape
<1>2. ASSUME NEW T, spanTab' = End(spanTab, T, "unset") PROVE ShapesKept
  <2> DEFINE new == End(spanTab, T, "unset")
  <2>1. "unset" \in Statuses
    BY <1>0
  <2>2. \A i \in 1..lastSpan : /\ new[i].kind = spanTab[i].kind /\ new[i].pkg = spanTab[i].pkg
                           /\ new[i].test = spanTab[i].test /\ new[i].parent = spanTab[i].parent
    BY <1>n, <1>p, <2>1, EndKeeps
  <2>3. spanTab' = new
    BY <1>2
  <2> HIDE DEF new
  <2> QED BY <2>2, <2>3 DEF ShapesKept, SameShape
<1>k. ASSUME UNCHANGED spanTab PROVE ShapesKept
  BY <1>k DEF ShapesKept, SameShape
<1>3. ASSUME NEW kind \in Kinds, NEW parent \in Nat, NEW link \in Nat,
             Start(kind, p, t, parent, link)
      PROVE  /\ ShapesKept /\ lastSpan' = lastSpan + 1
             /\ spanTab'[lastSpan + 1].pkg = p /\ spanTab'[lastSpan + 1].test = t
  <2>1. /\ lastSpan' = lastSpan + 1
        /\ \A i \in 1..lastSpan : spanTab'[i] = spanTab[i]
        /\ spanTab'[lastSpan + 1] = Started(kind, p, t, parent, link)
    BY <1>0, <1>3, StartAdds
  <2>2. ShapesKept
    BY <2>1 DEF ShapesKept, SameShape
  <2> QED BY <2>1, <2>2 DEF Started
<1>4. ASSUME ShapesKept, UNCHANGED <<lastSpan, registered>>
      PROVE  /\ ShapesKept /\ lastSpan' \in Nat /\ lastSpan <= lastSpan'
             /\ \A k \in Keys : registered'[k] = registered[k]
  BY <1>n, <1>4
<1>5. ASSUME NEW kind \in Kinds, NEW parent \in Nat, NEW link \in Nat,
             Start(kind, p, t, parent, link), t # NoTest => Register(<<p, t>>),
             t = NoTest => UNCHANGED registered
      PROVE  /\ ShapesKept /\ lastSpan' \in Nat /\ lastSpan <= lastSpan'
             /\ \A k \in Keys : registered'[k] # registered[k] =>
                  registered'[k] = lastSpan' /\ lastSpan' > 0 /\ Of(spanTab', lastSpan', k)
  <2>1. /\ ShapesKept /\ lastSpan' = lastSpan + 1
        /\ spanTab'[lastSpan + 1].pkg = p /\ spanTab'[lastSpan + 1].test = t
    BY <1>3, <1>5
  <2>2. lastSpan' \in Nat /\ lastSpan <= lastSpan' /\ lastSpan' > 0
    <3>1. lastSpan' = lastSpan + 1
      BY <2>1
    <3> QED BY <1>n, <3>1
  <2>3. ASSUME NEW k \in Keys, registered'[k] # registered[k]
        PROVE  registered'[k] = lastSpan' /\ k = <<p, t>>
    BY <1>0, <1>5, <2>1, <2>3 DEF Register, NewSpan
  <2> QED BY <2>1, <2>2, <2>3 DEF Of
<1>6. CASE t = NoTest /\ PackageStart(p)
  <2>1. Start("package", p, t, 0, 0) /\ UNCHANGED registered
    BY <1>6 DEF PackageStart
  <2> QED BY <1>0, <1>5, <1>6, <2>1 DEF Kinds
<1>7. CASE PackagePass(p) \/ PackageSkip(p)
  <2>1. PICK status \in Statuses :
          spanTab' = End(CloseStreams(spanTab, PackageSpan(p)), PackageSpan(p), status)
    BY <1>7 DEF PackagePass, PassStatus, PackageSkip, EndPackageSpan, Statuses
  <2>2. UNCHANGED <<lastSpan, registered>>
    BY <1>7 DEF PackagePass, PackageSkip, ForgetPackage
  <2>3. ShapesKept
    BY <1>1, <1>p, <2>1
  <2> QED BY <1>0, <1>4, <2>2, <2>3
<1>8. CASE PackageFail(p)
  <2> DEFINE S == {spans[k].orig : k \in Unfinished(p)}
             tab == End(CloseStreams(spanTab, S), Unended(p), "unfinished")
  <2>1. spanTab' = End(CloseStreams(tab, PackageSpan(p)), PackageSpan(p), "fail")
    BY <1>8 DEF PackageFail, EndPackageSpan
  <2>2. UNCHANGED <<lastSpan, registered>>
    BY <1>8 DEF PackageFail, ForgetPackage
  <2> HIDE DEF S
  <2>a. "unfinished" \in Statuses /\ "fail" \in Statuses
    BY <1>0
  <2>3. /\ tab \in [1..lastSpan -> Span]
        /\ \A i \in 1..lastSpan : /\ tab[i].kind = spanTab[i].kind /\ tab[i].pkg = spanTab[i].pkg
                                  /\ tab[i].test = spanTab[i].test /\ tab[i].parent = spanTab[i].parent
    BY <1>n, <1>p, <2>a, CloseThenEnd
  <2> HIDE DEF tab
  <2>4. ShapesKept
    BY <1>1, <2>a, <2>1, <2>3
  <2> QED BY <1>0, <1>4, <2>2, <2>4
<1>9. CASE t # NoTest /\ Run(p, t)
  <2>1. PICK parent \in Parents(p, t) : Start("test", p, t, parent, 0)
    BY <1>9 DEF Run
  <2>2. parent \in Nat
    BY <1>9, <2>1, ParentIsRight DEF RunInv, RunTypeOK
  <2>3. Register(<<p, t>>)
    BY <1>9 DEF Run
  <2> QED BY <1>0, <1>5, <1>9, <2>1, <2>2, <2>3 DEF Kinds
<1>10. CASE Pause(p, t)
  <2>1. UNCHANGED <<lastSpan, registered>>
    BY <1>10 DEF Pause
  <2>2. UNCHANGED spanTab \/ \E T : spanTab' = End(spanTab, T, "unset")
    BY <1>10 DEF Pause
  <2>3. ShapesKept
    BY <1>2, <1>k, <2>2
  <2> QED BY <1>0, <1>4, <2>1, <2>3
<1>11. CASE t # NoTest /\ Cont(p, t)
  <2>1. CASE UNCHANGED <<spanTab, lastSpan, registered>>
    <3>1. ShapesKept
      BY <2>1 DEF ShapesKept, SameShape
    <3> QED BY <1>0, <1>4, <2>1, <3>1
  <2>2. CASE /\ <<p, t>> \in DOMAIN spans /\ Register(<<p, t>>)
             /\ Start("continue", p, t, spans[<<p, t>>].orig, spans[<<p, t>>].cur)
    <3>1. spans[<<p, t>>].orig \in Nat /\ spans[<<p, t>>].cur \in Nat
      BY <2>2 DEF RunInv, RunTypeOK, Entry
    <3> QED BY <1>0, <1>5, <1>11, <2>2, <3>1 DEF Kinds
  <2> QED BY <1>11, <2>1, <2>2 DEF Cont
<1>12. CASE ev.action \in {"pass", "fail", "skip"} /\ TestResult(p, t, ev.action)
  <2>1. UNCHANGED <<lastSpan, registered>>
    BY <1>12 DEF TestResult
  <2>2. \/ UNCHANGED spanTab
        \/ \E S, T : spanTab' = End(CloseStreams(spanTab, S), T, ev.action)
    BY <1>12 DEF TestResult
  <2>a. ev.action \in Statuses
    BY <1>0, <1>12
  <2>3. ShapesKept
    BY <1>1, <1>k, <1>p, <2>a, <2>2
  <2> QED BY <1>0, <1>4, <2>1, <2>3
<1>13. CASE Output(p, t, ev.text) \/ PassThrough(ev.text)
  <2>1. UNCHANGED <<spanTab, lastSpan, registered>>
    BY <1>13, Zenon DEF Output, OutputPlain, OutputDump, PassThrough
  <2>2. ShapesKept
    BY <2>1 DEF ShapesKept, SameShape
  <2> QED BY <1>0, <1>4, <2>1, <2>2
<1> QED BY <1>6, <1>7, <1>8, <1>9, <1>10, <1>11, <1>12, <1>13 DEF Handle
----------------------------------------------------------------------------
\* The lumps of a text, among them those whose type the provers are not told.
Lump == STRING \cup {NL} \cup {Signature[i] : i \in 1..3}
Text == Seq(Lump)

\* The first n fragments of the panic, and whether its signature is in them.
Joined(n) == FlattenSeq(SubSeq(Panic, 1, n))
Complete(n) == IsPrefix(Signature, Joined(n))

LEMMA TheSignature ==
    /\ Signature \in Text /\ Len(Signature) = 3
    /\ NL # Signature[1] /\ NL # Signature[2] /\ NL # Signature[3] /\ NL \in Lump
<1>1. Signature = <<Signature[1], Signature[2], Signature[3]>> /\ Len(Signature) = 3
  BY DEF Signature
<1>2. Signature[1] \in Lump /\ Signature[2] \in Lump /\ Signature[3] \in Lump
  BY DEF Lump
<1>3. \A a, b, c \in Lump : <<a, b, c>> \in Seq(Lump)
  OBVIOUS
<1>4. NL # Signature[1] /\ NL # Signature[2] /\ NL # Signature[3]
  BY DEF Signature, NL
<1>5. Signature \in Seq(Lump)
  BY <1>1, <1>2, <1>3, Zenon
<1> QED BY <1>1, <1>4, <1>5 DEF Lump, Text

LEMMA NotFrames == \A j \in 1..3 : Signature[j] \notin FrameHeads
<1>1. Signature[1] \notin FrameHeads
  BY DEF Signature, FrameHeads
<1>2. Signature[2] \notin FrameHeads
  BY DEF Signature, FrameHeads
<1>3. Signature[3] \notin FrameHeads
  BY DEF Signature, FrameHeads
<1> QED BY <1>1, <1>2, <1>3

LEMMA Texted1 ==
    /\ \A f \in Seq(STRING) : f \in Text
    /\ <<>> \in Text /\ Texts \subseteq Text
    /\ \A n \in DOMAIN Panic : Panic[n] \in Seq(STRING)
<1>1. ASSUME NEW f \in Seq(STRING) PROVE f \in Text
  <2>1. STRING \subseteq Lump
    BY DEF Lump
  <2> QED BY <2>1, SeqMonotonic DEF Text
<1>2. <<>> \in Text
  BY DEF Text
<1> QED BY <1>1, <1>2, SessionAssumption

LEMMA JoinedTyped ==
    ASSUME NEW n \in 0..Len(Panic)
    PROVE  /\ SubSeq(Panic, 1, n) \in Seq(Seq(STRING)) /\ Len(SubSeq(Panic, 1, n)) = n
           /\ Joined(n) \in Seq(STRING) /\ Joined(n) \in Text
<1>0. Panic \in Seq(Seq(STRING)) /\ Len(Panic) \in Nat
  BY SessionAssumption, LenProperties
<1>1. SubSeq(Panic, 1, n) \in Seq(Seq(STRING)) /\ Len(SubSeq(Panic, 1, n)) = n
  <2>1. \A i \in 1..n : Panic[i] \in Seq(STRING)
    BY <1>0, ElementOfSeq
  <2> QED BY <1>0, <2>1, SubSeqProperties
<1>2. Joined(n) \in Seq(STRING)
  BY <1>1, FlattenedType DEF Joined
<1> QED BY <1>1, <1>2, Texted1

LEMMA JoinedStep ==
    /\ Joined(0) = <<>> /\ Joined(Len(Panic)) = FlattenSeq(Panic)
    /\ \A n \in 0..(Len(Panic) - 1) : Joined(n + 1) = Joined(n) \o Panic[n + 1]
<1>0. Panic \in Seq(Seq(STRING)) /\ Len(Panic) \in Nat
  BY SessionAssumption, LenProperties
<1>1. Joined(0) = <<>>
  <2>1. SubSeq(Panic, 1, 0) = <<>>
    BY <1>0, JoinedTyped, EmptySeq
  <2> QED BY <2>1, FlattenEmpty DEF Joined
<1>2. Joined(Len(Panic)) = FlattenSeq(Panic)
  BY <1>0, SubSeqFull DEF Joined
<1>3. \A n \in 0..(Len(Panic) - 1) : Joined(n + 1) = Joined(n) \o Panic[n + 1]
  BY <1>0, FlattenUpTo DEF Joined
<1> QED BY <1>1, <1>2, <1>3

LEMMA PrefixFacts ==
    ASSUME NEW a \in Text, NEW b \in Text
    PROVE  /\ IsPrefix(a, a \o b)
           /\ \A c \in Text : IsPrefix(a, b) /\ IsPrefix(b, c) => IsPrefix(a, c)
           /\ \A c \in Text : IsPrefix(a, c) /\ IsPrefix(b, c) =>
                IsPrefix(a, b) \/ IsStrictPrefix(b, a)
<1>0. /\ Len(a) \in Nat /\ Len(b) \in Nat /\ a \in Seq(Lump) /\ b \in Seq(Lump)
  BY LenProperties DEF Text
<1>1. IsPrefix(a, a \o b)
  <2>1. /\ a \o b \in Seq(Lump) /\ Len(a \o b) = Len(a) + Len(b)
        /\ \A i \in 1..Len(a) + Len(b) : (a \o b)[i] = IF i <= Len(a) THEN a[i] ELSE b[i - Len(a)]
    BY <1>0, ConcatProperties
  <2>2. \A i \in 1..Len(a) : a[i] = (a \o b)[i]
    BY <1>0, <2>1
  <2>3. Len(a) <= Len(a \o b)
    BY <1>0, <2>1
  <2> QED BY <1>0, <2>1, <2>2, <2>3, PrefixIs
<1>2. ASSUME NEW c \in Text, IsPrefix(b, c)
      PROVE  /\ IsPrefix(a, b) => IsPrefix(a, c)
             /\ IsPrefix(a, c) => IsPrefix(a, b) \/ IsStrictPrefix(b, a)
  <2>0. Len(c) \in Nat /\ c \in Seq(Lump)
    BY LenProperties DEF Text
  <2>1. Len(b) <= Len(c) /\ \A i \in 1..Len(b) : b[i] = c[i]
    BY <1>0, <1>2, <2>0, PrefixIs
  <2>2. IsPrefix(a, b) <=> Len(a) <= Len(b) /\ \A i \in 1..Len(a) : a[i] = b[i]
    BY <1>0, PrefixIs
  <2>3. IsPrefix(a, c) <=> Len(a) <= Len(c) /\ \A i \in 1..Len(a) : a[i] = c[i]
    BY <1>0, <2>0, PrefixIs
  <2>4. IsPrefix(b, a) <=> Len(b) <= Len(a) /\ \A i \in 1..Len(b) : b[i] = a[i]
    BY <1>0, PrefixIs
  <2>5. IsPrefix(a, b) => IsPrefix(a, c)
    BY <1>0, <2>0, <2>1, <2>2, <2>3
  <2>6. ASSUME IsPrefix(a, c) PROVE IsPrefix(a, b) \/ IsStrictPrefix(b, a)
    <3>1. CASE Len(a) <= Len(b)
      BY <1>0, <2>1, <2>2, <2>3, <2>6, <3>1
    <3>2. CASE ~(Len(a) <= Len(b))
      <4>1. Len(b) <= Len(a) /\ b # a
        BY <1>0, <3>2
      <4>2. \A i \in 1..Len(b) : b[i] = a[i]
        BY <1>0, <2>0, <2>1, <2>3, <2>6, <4>1
      <4> QED BY <2>4, <4>1, <4>2 DEF IsStrictPrefix
    <3> QED BY <3>1, <3>2
  <2> QED BY <2>5, <2>6
<1> QED BY <1>1, <1>2

LEMMA JoinedGrows ==
    ASSUME NEW n \in 0..Len(Panic)
    PROVE  IsPrefix(Joined(n), Joined(Len(Panic)))
<1>0. Len(Panic) \in Nat
  BY SessionAssumption, LenProperties
<1> DEFINE l == Len(Panic)
           M == {m \in Nat : n + m <= l => IsPrefix(Joined(n), Joined(n + m))}
<1>1. Joined(n) \in Text /\ n \in Nat
  BY <1>0, JoinedTyped
<1>2. 0 \in M
  <2>1. n + 0 = n
    BY <1>1
  <2>2. IsPrefix(Joined(n), Joined(n) \o <<>>) /\ Joined(n) \o <<>> = Joined(n)
    BY <1>1, PrefixFacts, Texted1, ConcatEmptySeq DEF Text
  <2> QED BY <2>1, <2>2
<1>3. ASSUME NEW m \in M PROVE m + 1 \in M
  <2> DEFINE i == n + m
             j == n + (m + 1)
  <2> SUFFICES ASSUME j <= l PROVE IsPrefix(Joined(n), Joined(j))
    OBVIOUS
  <2>1. i \in 0..(Len(Panic) - 1) /\ i \in 0..Len(Panic) /\ j \in 0..Len(Panic) /\ j = i + 1 /\ i <= l
        /\ j \in 1..Len(Panic)
    BY <1>0, <1>1
  <2>2. IsPrefix(Joined(n), Joined(i))
    BY <2>1
  <2> HIDE DEF i, j, M
  <2>3. Joined(j) = Joined(i) \o Panic[j]
    BY <2>1, JoinedStep
  <2>4. Panic[j] \in Text /\ Joined(i) \in Text /\ Joined(j) \in Text
    <3>1. DOMAIN Panic = 1..Len(Panic)
      BY SessionAssumption, LenProperties
    <3>2. Panic[j] \in Seq(STRING)
      BY <2>1, <3>1, Texted1
    <3> QED BY <2>1, <3>2, Texted1, JoinedTyped
  <2>5. IsPrefix(Joined(i), Joined(j))
    BY <2>3, <2>4, PrefixFacts
  <2> QED BY <1>1, <2>2, <2>4, <2>5, PrefixFacts
<1>4. M = Nat
  <2> HIDE DEF M
  <2>1. M \in SUBSET Nat
    BY DEF M
  <2> QED BY <1>2, <1>3, <2>1, Induct
<1>5. PICK m \in Nat : n + m = Len(Panic)
  <2>1. Len(Panic) - n \in Nat /\ n + (Len(Panic) - n) = Len(Panic)
    BY <1>0
  <2> QED BY <2>1, Zenon
<1>6. n + m <= l => IsPrefix(Joined(n), Joined(n + m))
  BY <1>4
<1> QED BY <1>0, <1>5, <1>6

\* The panic up to a fragment is the start of the signature or has all of it.
LEMMA Fragments ==
    ASSUME Orderly, NEW n \in 0..Len(Panic)
    PROVE  /\ ~Complete(0) /\ (n = Len(Panic) /\ n # 0 => Complete(n))
           /\ ~Complete(n) => IsStrictPrefix(Joined(n), Signature)
           /\ \A m \in 0..Len(Panic) : m = n + 1 =>
                /\ Complete(n) => Complete(m)
                /\ Panic[m] \in Seq(STRING) /\ Panic[m] # <<>>
                /\ Joined(m) = Joined(n) \o Panic[m]
<1>0. Panic \in Seq(Seq(STRING)) /\ Len(Panic) \in Nat /\ DOMAIN Panic = 1..Len(Panic)
  BY SessionAssumption, LenProperties
<1>1. ~Complete(0)
  <2>1. IsPrefix(Signature, <<>>) => Len(Signature) <= Len(<<>>)
    BY PrefixIs, TheSignature, Texted1 DEF Text
  <2>2. Len(<<>>) = 0
    OBVIOUS
  <2> QED BY <2>1, <2>2, JoinedStep, TheSignature DEF Complete
<1>2. Len(Panic) # 0 => Complete(Len(Panic))
  <2>1. Len(Panic) # 0 => Panic # <<>>
    BY <1>0, EmptySeq
  <2> QED BY <2>1, JoinedStep DEF Orderly, Complete
<1>3. Joined(n) \in Text /\ Joined(Len(Panic)) \in Text
  BY <1>0, JoinedTyped
<1>4. ASSUME ~Complete(n) PROVE IsStrictPrefix(Joined(n), Signature)
  <2>1. CASE Len(Panic) = 0
    <3>1. n = 0 /\ Joined(n) = <<>>
      BY <1>0, <2>1, JoinedStep
    <3>2. IsPrefix(<<>>, <<>> \o Signature)
      BY TheSignature, Texted1, PrefixFacts
    <3>3. <<>> \o Signature = Signature /\ <<>> # Signature
      <4>1. <<>> \o Signature = Signature
        BY TheSignature, ConcatEmptySeq DEF Text
      <4>2. Len(<<>>) = 0
        OBVIOUS
      <4>3. <<>> # Signature
        BY <4>2, TheSignature, SMTT(30)
      <4> QED BY <4>1, <4>3
    <3>4. IsPrefix(<<>>, Signature)
      BY <3>2, <3>3
    <3> QED BY <3>1, <3>3, <3>4 DEF IsStrictPrefix
  <2>2. CASE Len(Panic) # 0
    <3>1. IsPrefix(Signature, Joined(Len(Panic))) /\ IsPrefix(Joined(n), Joined(Len(Panic)))
      BY <1>2, <2>2, JoinedGrows DEF Complete
    <3>2. IsPrefix(Signature, Joined(n)) \/ IsStrictPrefix(Joined(n), Signature)
      BY <1>3, <3>1, TheSignature, PrefixFacts
    <3> QED BY <1>4, <3>2 DEF Complete
  <2> QED BY <2>1, <2>2
<1>5. ASSUME NEW m \in 0..Len(Panic), m = n + 1
      PROVE  /\ Complete(n) => Complete(m)
             /\ Panic[m] \in Seq(STRING) /\ Panic[m] # <<>>
             /\ Joined(m) = Joined(n) \o Panic[m]
  <2>1. m \in 1..Len(Panic) /\ n \in 0..(Len(Panic) - 1)
    BY <1>0, <1>5
  <2>2. Panic[m] \in Seq(STRING) /\ Panic[m] # <<>> /\ Panic[m] \in Text
    BY <1>0, <2>1, Texted1 DEF Orderly
  <2>3. Joined(m) = Joined(n) \o Panic[m]
    BY <1>5, <2>1, JoinedStep
  <2>4. IsPrefix(Joined(n), Joined(m)) /\ Joined(m) \in Text
    BY <1>3, <2>2, <2>3, PrefixFacts, JoinedTyped
  <2>5. Complete(n) => Complete(m)
    BY <1>3, <2>4, TheSignature, PrefixFacts DEF Complete
  <2> QED BY <2>2, <2>3, <2>5
<1>6. n = Len(Panic) /\ n # 0 => Complete(n)
  BY <1>2
<1> QED BY <1>1, <1>4, <1>5, <1>6
----------------------------------------------------------------------------
(* How the fragments of a panic are routed.                                *)

Fields == {"head", "headTest", "midLine", "active", "retained", "pending", "inStacks",
           "copied", "truncated"}
Shaped(r) == DOMAIN r = Fields /\ r = [x \in Fields |-> r[x]] /\ r.pending \in Text

\* Nothing is found; the start of a line, h, is kept of what test t was given.
Waits(r, h, t) ==
    /\ Shaped(r) /\ ~r.active /\ ~r.midLine /\ r.head = h
    /\ h # <<>> => r.headTest = t

\* A whole line.
LEMMA RouteLine ==
    ASSUME Orderly, NEW f \in Texts, NEW r, NEW u, Waits(r, <<>>, u), NEW test, NEW keep
    PROVE  /\ Route(r, f, test, keep).dump = <<>>
           /\ \A t : Waits(Route(r, f, test, keep).d, <<>>, t)
<1>1. f \in Seq(STRING) /\ f # <<>> /\ Last(f) = NL /\ Hits(NewDump, f) = {}
  BY SessionAssumption DEF Orderly
<1>2. Hits(r, f) = Hits(NewDump, f)
  <2>1. r.head = <<>> /\ ~r.midLine /\ NewDump.head = <<>> /\ ~NewDump.midLine
    BY DEF Waits, NewDump
  <2>2. \A i : MayBeSignature(r, i) /\ MayBeSignature(NewDump, i)
    BY <2>1 DEF MayBeSignature
  <2>3. \A i : Line(r, f, i) = Line(NewDump, f, i)
    BY <2>1 DEF Line
  <2> QED BY <2>2, <2>3 DEF Hits
<1>3. f[Len(f)] = NL
  BY <1>1 DEF Last
<1>4. NotFound(r, f, test) = [r EXCEPT !.head = <<>>, !.headTest = NoTest, !.midLine = FALSE]
  BY <1>3 DEF NotFound
<1> DEFINE new == [r EXCEPT !.head = <<>>, !.headTest = NoTest, !.midLine = FALSE]
<1>5. \A t : Waits(new, <<>>, t)
  BY DEF Waits, Shaped, Fields
<1>6. Route(r, f, test, keep) = [d |-> NotFound(r, f, test), before |-> f, dump |-> <<>>,
                                 carried |-> <<>>, carriedTest |-> NoTest]
  BY <1>1, <1>2 DEF Route, Waits
<1> HIDE DEF new
<1> QED BY <1>4, <1>5, <1>6 DEF new

\* A text without a newline is one line.
LEMMA NoNewline ==
    ASSUME NEW f \in Text, f # <<>>, \A i \in 1..Len(f) : f[i] # NL
    PROVE  LineStarts(f) = {1} /\ LineFrom(f, 1) = f
<1>1. Len(f) \in Nat /\ Len(f) > 0
  BY EmptySeq DEF Text
<1>2. LineEnds(f) = {}
  BY DEF LineEnds
<1>3. LineStarts(f) = {1}
  <2>1. \A i \in 1..Len(f) : i # 1 => i - 1 \in 1..Len(f)
    BY <1>1
  <2>2. 1 \in 1..Len(f)
    BY <1>1
  <2> QED BY <2>1, <2>2 DEF LineStarts
<1>4. LineFrom(f, 1) = SubSeq(f, 1, Len(f))
  <2>1. {j \in LineEnds(f) : j >= 1} = {}
    BY <1>2
  <2> QED BY <2>1 DEF LineFrom
<1> QED BY <1>3, <1>4, SubSeqFull DEF Text

\* More of what may become the signature.
LEMMA RouteMore ==
    ASSUME NEW h \in Text, NEW f \in Text, f # <<>>, IsStrictPrefix(h \o f, Signature),
           NEW r, NEW u, Waits(r, h, u), NEW test, h # <<>> => test = u, NEW keep
    PROVE  /\ Route(r, f, test, keep).dump = <<>>
           /\ Waits(Route(r, f, test, keep).d, h \o f, test)
<1>0. /\ h \in Seq(Lump) /\ f \in Seq(Lump) /\ Signature \in Seq(Lump) /\ Len(Signature) = 3
      /\ Len(h) \in Nat /\ Len(f) \in Nat /\ Len(f) > 0
  BY TheSignature, LenProperties, EmptySeq DEF Text
<1> DEFINE line == h \o f
<1>1. /\ line \in Seq(Lump) /\ Len(line) = Len(h) + Len(f)
      /\ \A i \in 1..Len(h) + Len(f) : line[i] = IF i <= Len(h) THEN h[i] ELSE f[i - Len(h)]
  BY <1>0, ConcatProperties
<1>2. /\ IsPrefix(line, Signature) /\ line # Signature
  BY DEF IsStrictPrefix
<1> HIDE DEF line
<1>3. Len(line) <= 3 /\ \A i \in 1..Len(line) : line[i] = Signature[i]
  <2>1. line \in Seq(Lump) /\ Signature \in Seq(Lump)
    BY <1>0, <1>1
  <2>2. IsPrefix(line, Signature) <=>
          Len(line) <= Len(Signature) /\ \A i \in 1..Len(line) : line[i] = Signature[i]
    BY <2>1, PrefixIs
  <2> QED BY <1>0, <1>2, <2>2
<1>4. Len(line) # 3
  <2>1. Len(line) = 3 => line = Signature
    BY <1>0, <1>1, <1>3, SeqEqual
  <2> QED BY <1>2, <2>1
<1>5. ~IsPrefix(Signature, line)
  <2>1. IsPrefix(Signature, line) => Len(Signature) <= Len(line)
    BY <1>0, <1>1, PrefixIs
  <2> QED BY <1>0, <1>1, <1>3, <1>4, <2>1
<1>6. \A i \in 1..Len(f) : f[i] # NL
  <2> TAKE i \in 1..Len(f)
  <2> DEFINE j == Len(h) + i
  <2>1. j \in 1..Len(line) /\ j \in 1..3 /\ ~(j <= Len(h)) /\ j - Len(h) = i
    BY <1>0, <1>1, <1>3
  <2>2. line[j] = f[i] /\ line[j] = Signature[j]
    BY <1>1, <1>3, <2>1
  <2> HIDE DEF j
  <2>3. j = 1 \/ j = 2 \/ j = 3
    BY <2>1
  <2> QED BY <2>2, <2>3, TheSignature
<1>7. LineStarts(f) = {1} /\ LineFrom(f, 1) = f
  BY <1>6, NoNewline
<1>8. Line(r, f, 1) = line
  BY <1>7 DEF Line, line, Waits
<1>9. Hits(r, f) = {}
  BY <1>5, <1>7, <1>8 DEF Hits
<1>10. Max(LineStarts(f)) = 1
  <2>1. Max({1}) = CHOOSE x \in {1} : \A y \in {1} : x >= y
    BY DEF Max
  <2> QED BY <1>7, <2>1
<1>11. f[Len(f)] # NL
  <2>1. Len(f) \in 1..Len(f)
    BY <1>0
  <2> QED BY <1>6, <2>1
<1>12. MayBeSignature(r, 1)
  BY DEF MayBeSignature, Waits
<1> DEFINE new == [r EXCEPT !.head = line, !.midLine = FALSE,
                            !.headTest = OwnerOfHead(r, 1, test)]
<1>13. NotFound(r, f, test) = new
  BY <1>2, <1>8, <1>10, <1>11, <1>12 DEF NotFound
<1>14. OwnerOfHead(r, 1, test) = test
  BY DEF OwnerOfHead, Waits
<1>15. Waits(new, line, test)
  BY <1>14 DEF Waits, Shaped, Fields
<1>16. Route(r, f, test, keep) = [d |-> NotFound(r, f, test), before |-> f, dump |-> <<>>,
                                  carried |-> <<>>, carriedTest |-> NoTest]
  BY <1>9 DEF Route, Waits
<1> HIDE DEF new
<1> QED BY <1>13, <1>15, <1>16 DEF line

\* The signature is complete.
LEMMA RouteFound ==
    ASSUME NEW h \in Text, NEW f \in Text, IsStrictPrefix(h, Signature),
           IsPrefix(Signature, h \o f), NEW r, NEW u, Waits(r, h, u), NEW test, NEW keep
    PROVE  LET q == Route(r, f, test, keep) IN
           /\ q.dump = f /\ f # <<>> /\ q.before = <<>> /\ q.carried = h
           /\ h # <<>> => q.carriedTest = u
           /\ Shaped(q.d) /\ q.d.active
<1>0. /\ h \in Seq(Lump) /\ f \in Seq(Lump) /\ Signature \in Seq(Lump) /\ Len(Signature) = 3
      /\ Len(h) \in Nat /\ Len(f) \in Nat
  BY TheSignature, LenProperties DEF Text
<1> DEFINE line == h \o f
<1>1. /\ line \in Seq(Lump) /\ Len(line) = Len(h) + Len(f)
      /\ \A i \in 1..Len(h) + Len(f) : line[i] = IF i <= Len(h) THEN h[i] ELSE f[i - Len(h)]
  BY <1>0, ConcatProperties
<1>2. IsPrefix(Signature, line)
  OBVIOUS
<1> HIDE DEF line
<1>3. 3 <= Len(line) /\ \A i \in 1..3 : line[i] = Signature[i]
  <2>1. line \in Seq(Lump) /\ Signature \in Seq(Lump)
    BY <1>0, <1>1
  <2>2. IsPrefix(Signature, line) <=>
          Len(Signature) <= Len(line) /\ \A i \in 1..Len(Signature) : Signature[i] = line[i]
    BY <2>1, PrefixIs
  <2> QED BY <1>0, <1>2, <2>2
<1>4. Len(h) < 3
  <2>1. Len(h) <= 3 /\ (\A i \in 1..Len(h) : h[i] = Signature[i]) /\ h # Signature
    BY <1>0, PrefixIs, SMTT(30) DEF IsStrictPrefix
  <2>2. Len(h) = 3 => h = Signature
    BY <1>0, <2>1, SeqEqual
  <2> QED BY <1>0, <2>1, <2>2
<1>5. Len(f) >= 3 - Len(h) /\ Len(f) > 0
  BY <1>0, <1>1, <1>3, <1>4
<1>6. \A i \in 1..Len(f) : i <= 3 - Len(h) => f[i] # NL
  <2> TAKE i \in 1..Len(f)
  <2> HAVE i <= 3 - Len(h)
  <2> DEFINE j == Len(h) + i
  <2>1. j \in 1..Len(h) + Len(f) /\ j \in 1..3 /\ ~(j <= Len(h)) /\ j - Len(h) = i
    BY <1>0, <1>1, <1>3, SMTT(30)
  <2>2. line[j] = f[i] /\ line[j] = Signature[j]
    BY <1>1, <1>3, <2>1
  <2> HIDE DEF j
  <2>3. j = 1 \/ j = 2 \/ j = 3
    BY <2>1
  <2> QED BY <2>2, <2>3, TheSignature
<1>7. PICK e \in 1..Len(f) : e >= 3 - Len(h) /\ LineFrom(f, 1) = SubSeq(f, 1, e)
  <2> DEFINE ends == {j \in LineEnds(f) : j >= 1}
  <2>1. CASE ends = {}
    <3>1. LineFrom(f, 1) = SubSeq(f, 1, Len(f))
      BY <2>1 DEF LineFrom
    <3>2. Len(f) \in 1..Len(f)
      BY <1>0, <1>5
    <3> QED BY <1>5, <3>1, <3>2
  <2>2. CASE ends # {}
    <3>1. LineFrom(f, 1) = SubSeq(f, 1, Min(ends))
      BY <2>2 DEF LineFrom
    <3>2. ends \in SUBSET Nat
      BY <1>0 DEF LineEnds
    <3>3. PICK m \in ends : \A n \in ends : m <= n
      BY <2>2, <3>2, Least
    <3>4. Min(ends) \in ends
      BY <3>3 DEF Min
    <3>5. Min(ends) \in 1..Len(f) /\ f[Min(ends)] = NL
      BY <3>4 DEF LineEnds
    <3> HIDE DEF ends
    <3>6. ~(Min(ends) <= 3 - Len(h))
      BY <1>6, <3>5
    <3>7. Min(ends) >= 3 - Len(h)
      BY <1>0, <3>5, <3>6
    <3> QED BY <3>1, <3>5, <3>7
  <2> QED BY <2>1, <2>2
<1> DEFINE g == SubSeq(f, 1, e)
<1>8. g \in Seq(Lump) /\ Len(g) = e /\ \A i \in 1..e : g[i] = f[i]
  <2>1. \A i \in 1..e : f[i] \in Lump
    BY <1>0, ElementOfSeq
  <2> QED BY <1>0, <1>7, <2>1, SubSeqProperties
<1> HIDE DEF g
<1>9. IsPrefix(Signature, h \o g)
  <2>1. /\ h \o g \in Seq(Lump) /\ Len(h \o g) = Len(h) + e
        /\ \A i \in 1..Len(h) + e : (h \o g)[i] = IF i <= Len(h) THEN h[i] ELSE g[i - Len(h)]
    BY <1>0, <1>8, ConcatProperties
  <2>2. \A i \in 1..3 : (h \o g)[i] = Signature[i]
    <3> TAKE i \in 1..3
    <3>1. i \in 1..Len(h) + e /\ i \in 1..Len(h) + Len(f)
      BY <1>0, <1>5, <1>7
    <3>2. ~(i <= Len(h)) => i - Len(h) \in 1..e
      BY <1>0, <1>7
    <3>3. (h \o g)[i] = line[i]
      BY <1>1, <1>8, <2>1, <3>1, <3>2
    <3> QED BY <1>3, <3>3
  <2>3. 3 <= Len(h \o g)
    BY <1>0, <1>7, <2>1
  <2> QED BY <1>0, <2>1, <2>2, <2>3, PrefixIs
<1>10. 1 \in Hits(r, f)
  <2>1. 1 \in LineStarts(f)
    BY <1>0, <1>5 DEF LineStarts
  <2>2. MayBeSignature(r, 1)
    BY DEF MayBeSignature, Waits
  <2>3. Line(r, f, 1) = h \o g
    BY <1>7 DEF Line, Waits, g
  <2> QED BY <1>9, <2>1, <2>2, <2>3 DEF Hits
<1>11. Min(Hits(r, f)) = 1
  <2>1. \A i \in Hits(r, f) : i \in Nat /\ i >= 1
    BY <1>0 DEF Hits, LineStarts
  <2>2. \E x \in Hits(r, f) : \A y \in Hits(r, f) : x <= y
    BY <1>10, <2>1
  <2>3. Min(Hits(r, f)) \in Hits(r, f) /\ \A y \in Hits(r, f) : Min(Hits(r, f)) <= y
    BY <2>2 DEF Min
  <2> QED BY <1>10, <2>1, <2>3
<1> DEFINE new == [Found(r, f) EXCEPT !.retained = keep]
<1>12. Shaped(new) /\ new.active
  BY DEF Found, Waits, Shaped, Fields
<1>13. Route(r, f, test, keep) =
         [d |-> new, before |-> SubSeq(f, 1, 1 - 1), dump |-> SubSeq(f, 1, Len(f)),
          carried |-> Carried(r, 1), carriedTest |-> r.headTest]
  BY <1>10, <1>11 DEF Route, Waits
<1>14. SubSeq(f, 1, 1 - 1) = <<>> /\ SubSeq(f, 1, Len(f)) = f
  BY <1>0, SubSeqFull, SubSeqEmpty
<1>15. Carried(r, 1) = h /\ (h # <<>> => r.headTest = u)
  BY DEF Carried, Waits
<1>16. f # <<>>
  BY <1>5
<1> HIDE DEF new
<1> QED BY <1>12, <1>13, <1>14, <1>15, <1>16

\* All that follows.
LEMMA RouteActive ==
    ASSUME NEW r, r.active, NEW f, NEW test, NEW keep
    PROVE  Route(r, f, test, keep) = [d |-> r, before |-> <<>>, dump |-> f, carried |-> <<>>,
                                      carriedTest |-> NoTest]
BY DEF Route
----------------------------------------------------------------------------
(* What is copied leaves the dump found.                                   *)

\* The recursive function in CopyLines.
Copied(r, a) ==
    CHOOSE f : f = [i \in 0..Len(a) |->
                      IF i = 0 THEN [d |-> [r EXCEPT !.pending = Partial(a)], out |-> <<>>]
                      ELSE IF a[i] = NL THEN CopyLine(f[i - 1], LineTo(a, i)) ELSE f[i - 1]]

\* What it is at i, from what it is at i - 1.
Next1(a, c, i) == IF a[i] = NL THEN CopyLine(c, LineTo(a, i)) ELSE c

LEMMA CopiedExists ==
    ASSUME NEW r, NEW a, Len(a) \in Nat
    PROVE  LET f == Copied(r, a)
           IN  /\ f[0] = [d |-> [r EXCEPT !.pending = Partial(a)], out |-> <<>>]
               /\ \A i \in 1..Len(a) : f[i] = Next1(a, f[i - 1], i)
               /\ CopyLines(r, a) = f[Len(a)]
<1> DEFINE zero == [d |-> [r EXCEPT !.pending = Partial(a)], out |-> <<>>]
           Good(f, n) == f = [i \in 0..n |-> IF i = 0 THEN zero ELSE Next1(a, f[i - 1], i)]
           N == {n \in Nat : \E f : Good(f, n)}
<1> HIDE DEF zero
<1>1. 0 \in N
  <2>1. Good([i \in 0..0 |-> zero], 0)
    OBVIOUS
  <2> QED BY <2>1
<1>2. ASSUME NEW n \in N PROVE n + 1 \in N
  <2>1. PICK f : Good(f, n)
    OBVIOUS
  <2> DEFINE g == [i \in 0..(n + 1) |-> IF i = n + 1 THEN Next1(a, f[i - 1], i) ELSE f[i]]
  <2>2. ASSUME NEW i \in 0..(n + 1)
        PROVE  g[i] = IF i = 0 THEN zero ELSE Next1(a, g[i - 1], i)
    <3>1. CASE i = 0
      <4>1. i \in 0..n /\ i # n + 1
        BY <3>1
      <4> QED BY <2>1, <3>1, <4>1
    <3>2. CASE i # 0
      <4>1. i - 1 \in 0..n /\ i - 1 # n + 1 /\ i - 1 \in 0..(n + 1)
        BY <3>2
      <4>2. g[i - 1] = f[i - 1]
        BY <4>1
      <4>3. i # n + 1 => i \in 0..n
        BY <3>2
      <4>4. i # n + 1 => f[i] = Next1(a, f[i - 1], i)
        BY <2>1, <3>2, <4>3
      <4> QED BY <3>2, <4>2, <4>4
    <3> QED BY <3>1, <3>2
  <2>3. g = [i \in 0..(n + 1) |-> IF i = 0 THEN zero ELSE Next1(a, g[i - 1], i)]
    <3> DEFINE h == [i \in 0..(n + 1) |-> IF i = 0 THEN zero ELSE Next1(a, g[i - 1], i)]
    <3>1. \A i \in 0..(n + 1) : g[i] = h[i]
      BY <2>2
    <3>2. g = [i \in 0..(n + 1) |-> g[i]] /\ h = [i \in 0..(n + 1) |-> h[i]]
      OBVIOUS
    <3> HIDE DEF g, h
    <3>3. g = h
      BY <3>1, <3>2
    <3> QED BY <3>3 DEF h
  <2> HIDE DEF g
  <2>4. Good(g, n + 1)
    BY <2>3
  <2> HIDE DEF Good
  <2> QED BY <2>4
<1>3. N = Nat
  <2> HIDE DEF N
  <2>1. N \in SUBSET Nat
    BY DEF N
  <2> QED BY <1>1, <1>2, <2>1, Induct
<1>5. \E f : Good(f, Len(a))
  BY <1>3
<1> DEFINE f == Copied(r, a)
<1>6. Good(f, Len(a))
  <2>1. \E g : g = [i \in 0..Len(a) |->
                      IF i = 0 THEN [d |-> [r EXCEPT !.pending = Partial(a)], out |-> <<>>]
                      ELSE IF a[i] = NL THEN CopyLine(g[i - 1], LineTo(a, i)) ELSE g[i - 1]]
    BY <1>5, Zenon DEF Next1, zero
  <2>2. f = [i \in 0..Len(a) |->
                      IF i = 0 THEN [d |-> [r EXCEPT !.pending = Partial(a)], out |-> <<>>]
                      ELSE IF a[i] = NL THEN CopyLine(f[i - 1], LineTo(a, i)) ELSE f[i - 1]]
    BY <2>1, Zenon DEF Copied
  <2> HIDE DEF f
  <2> QED BY <2>2, Zenon DEF Next1, zero
<1>7. CopyLines(r, a) = f[Len(a)]
  BY Zenon DEF CopyLines, Copied
<1> HIDE DEF f
<1>8. f[0] = zero
  BY <1>6
<1>9. \A i \in 1..Len(a) : f[i] = Next1(a, f[i - 1], i)
  <2> TAKE i \in 1..Len(a)
  <2>1. i \in 0..Len(a) /\ i # 0
    OBVIOUS
  <2> QED BY <1>6, <2>1
<1> QED BY <1>7, <1>8, <1>9 DEF f, zero

LEMMA PartialText == ASSUME NEW a \in Text PROVE Partial(a) \in Text
<1>1. Len(a) \in Nat /\ \A i \in 1..Len(a) : a[i] \in Lump
  BY LenProperties, ElementOfSeq DEF Text
<1>2. CASE LineEnds(a) # {}
  <2>1. LineEnds(a) \in SUBSET (0..Len(a))
    BY <1>1 DEF LineEnds
  <2>2. PICK e \in LineEnds(a) : e = Max(LineEnds(a))
    <3>1. \E x \in LineEnds(a) : \A y \in LineEnds(a) : x >= y
      BY <1>1, <1>2, <2>1, Greatest
    <3> QED BY <3>1 DEF Max
  <2> DEFINE s == e + 1
  <2>3. s \in Int /\ Len(a) \in Int /\ \A i \in s..Len(a) : a[i] \in Lump
    BY <1>1, <2>1
  <2>4. Partial(a) = SubSeq(a, s, Len(a))
    BY <1>2, <2>2 DEF Partial
  <2> HIDE DEF s
  <2>5. SubSeq(a, s, Len(a)) \in Seq(Lump)
    BY <2>3, SubSeqProperties
  <2> QED BY <2>4, <2>5 DEF Text
<1> QED BY <1>2 DEF Partial

LEMMA CopyLineKeeps ==
    ASSUME NEW c, Shaped(c.d), c.d.active, NEW line
    PROVE  Shaped(CopyLine(c, line).d) /\ CopyLine(c, line).d.active
<1> DEFINE r == [c.d EXCEPT !.inStacks = @ \/ Head(line) = Goroutine]
           q == [r EXCEPT !.truncated = TRUE]
           z == [r EXCEPT !.copied = @ + Len(line)]
<1>1. Shaped(r) /\ r.active
  BY DEF Shaped, Fields
<1> HIDE DEF r
<1>2. Shaped(q) /\ q.active /\ Shaped(z) /\ z.active
  BY <1>1 DEF Shaped, Fields
<1> HIDE DEF q, z
<1>3. CopyLine(c, line).d \in {r, q, z}
  BY DEF CopyLine, r, q, z
<1> QED BY <1>1, <1>2, <1>3

LEMMA CopyKeeps ==
    ASSUME NEW r, Shaped(r), r.active, NEW a \in Text
    PROVE  Shaped(CopyTo(r, a).d) /\ CopyTo(r, a).d.active
<1> DEFINE b == r.pending \o a
<1>1. b \in Text /\ Len(b) \in Nat
  BY ConcatProperties, LenProperties DEF Shaped, Text
<1>2. CopyTo(r, a) = CopyLines(r, b)
  BY DEF CopyTo
<1> HIDE DEF b
<1>4. Partial(b) \in Text
  BY <1>1, PartialText
<1> DEFINE f == Copied(r, b)
<1>5. /\ f[0] = [d |-> [r EXCEPT !.pending = Partial(b)], out |-> <<>>]
      /\ \A i \in 1..Len(b) : f[i] = Next1(b, f[i - 1], i)
      /\ CopyLines(r, b) = f[Len(b)]
  BY <1>1, CopiedExists
<1> HIDE DEF f
<1> DEFINE N == {n \in Nat : n <= Len(b) => Shaped(f[n].d) /\ f[n].d.active}
<1>6. Len(b) \in Nat
  BY <1>1
<1>7. 0 \in N
  <2> DEFINE z == [r EXCEPT !.pending = Partial(b)]
  <2>1. Shaped(z) /\ z.active
    BY <1>4 DEF Shaped, Fields
  <2> HIDE DEF z
  <2>2. f[0].d = z
    BY <1>5 DEF z
  <2> QED BY <2>1, <2>2
<1>8. ASSUME NEW n \in N PROVE n + 1 \in N
  <2> DEFINE m == n + 1
  <2> SUFFICES ASSUME m <= Len(b) PROVE Shaped(f[m].d) /\ f[m].d.active
    OBVIOUS
  <2>1. m \in 1..Len(b) /\ m - 1 = n /\ n <= Len(b)
    BY <1>6
  <2>2. Shaped(f[n].d) /\ f[n].d.active
    BY <2>1
  <2> HIDE DEF m, N
  <2>3. f[m] = Next1(b, f[n], m)
    BY <1>5, <2>1
  <2>4. f[m] = f[n] \/ \E line : f[m] = CopyLine(f[n], line)
    BY <2>3 DEF Next1
  <2> QED BY <2>2, <2>4, CopyLineKeeps
<1>9. N = Nat
  <2> HIDE DEF N
  <2>1. N \in SUBSET Nat
    BY DEF N
  <2> QED BY <1>7, <1>8, <2>1, Induct
<1>10. Len(b) <= Len(b) => Shaped(f[Len(b)].d) /\ f[Len(b)].d.active
  BY <1>6, <1>9
<1> QED BY <1>2, <1>5, <1>6, <1>10
----------------------------------------------------------------------------
(* What is printed of a test's buffer.                                     *)

Matches(row, k) == row.what \in {"buffered", "unfinished"} /\ <<row.pkg, row.test>> = k
Part(row, k) == IF Matches(row, k) THEN row.text ELSE <<>>
TextOf(o, k) == FlattenSeq([n \in DOMAIN o |-> Part(o[n], k)])

Rows(o, k) == /\ \E S : o \in Seq(S)
              /\ \A n \in DOMAIN o : Matches(o[n], k) => o[n].text \in Text

LEMMA TextOfIs == \A k : Texted({"buffered", "unfinished"}, k) = TextOf(out, k)
BY DEF Texted, TextOf, Part, Matches

\* w is nothing, or a row of which x is printed for k.
Adds(w, k, x) == \/ w = <<>> /\ x = <<>>
                 \/ \E row : w = <<row>> /\ Part(row, k) = x

LEMMA RowsTexts ==
    ASSUME NEW o, NEW k, Rows(o, k)
    PROVE  LET parts == [n \in DOMAIN o |-> Part(o[n], k)] IN
           /\ Len(o) \in Nat /\ DOMAIN o = 1..Len(o)
           /\ parts \in Seq(Text) /\ Len(parts) = Len(o) /\ TextOf(o, k) \in Text
<1> DEFINE parts == [n \in DOMAIN o |-> Part(o[n], k)]
<1>1. Len(o) \in Nat /\ DOMAIN o = 1..Len(o)
  BY LenProperties DEF Rows
<1>2. \A n \in DOMAIN o : Part(o[n], k) \in Text
  BY Texted1 DEF Part, Rows
<1>3. parts \in [1..Len(o) -> Text]
  BY <1>1, <1>2
<1> HIDE DEF parts
<1>4. parts \in Seq(Text) /\ Len(parts) = Len(o)
  <2>1. PICK n \in Nat : n = Len(o) /\ parts \in [1..n -> Text]
    BY <1>1, <1>3, Zenon
  <2>2. parts \in Seq(Text) /\ DOMAIN parts = 1..n
    BY <2>1
  <2>3. DOMAIN parts = 1..Len(parts) /\ Len(parts) \in Nat
    BY <2>2, LenProperties
  <2> QED BY <2>1, <2>2, <2>3
<1>5. FlattenSeq(parts) \in Text
  BY <1>4, FlattenedType DEF Text
<1> QED BY <1>1, <1>4, <1>5 DEF TextOf, parts

LEMMA RowAdds ==
    ASSUME NEW o, NEW k, Rows(o, k), NEW w, NEW x \in Text, Adds(w, k, x)
    PROVE  Rows(o \o w, k) /\ TextOf(o \o w, k) = TextOf(o, k) \o x
<1>1. CASE w = <<>> /\ x = <<>>
  <2>1. o \o w = o
    BY <1>1, ConcatEmptySeq DEF Rows
  <2>2. TextOf(o, k) \o x = TextOf(o, k)
    BY <1>1, RowsTexts, ConcatEmptySeq DEF Text
  <2> QED BY <2>1, <2>2
<1>2. ASSUME NEW row, w = <<row>>, Part(row, k) = x
      PROVE  Rows(o \o w, k) /\ TextOf(o \o w, k) = TextOf(o, k) \o x
  <2>1. PICK S : o \in Seq(S)
    BY DEF Rows
  <2> DEFINE T == S \cup {row}
  <2>2. o \in Seq(T) /\ row \in T
    BY <2>1, SeqMonotonic
  <2> HIDE DEF T
  <2> DEFINE z == Append(o, row)
  <2>3. /\ z \in Seq(T) /\ Len(z) = Len(o) + 1 /\ z[Len(o) + 1] = row /\ z = o \o w
        /\ \A i \in 1..Len(o) : z[i] = o[i]
    BY <1>2, <2>2, AppendProperties, AppendIsConcat
  <2> HIDE DEF z
  <2> DEFINE parts == [n \in DOMAIN o |-> Part(o[n], k)]
             more == [n \in DOMAIN z |-> Part(z[n], k)]
             next == Append(parts, x)
  <2>4. /\ Len(o) \in Nat /\ DOMAIN o = 1..Len(o)
        /\ parts \in Seq(Text) /\ Len(parts) = Len(o)
    BY RowsTexts
  <2>5. DOMAIN z = 1..Len(z) /\ Len(z) \in Nat
    BY <2>3, LenProperties
  <2>6. Rows(z, k)
    <3>1. ASSUME NEW n \in DOMAIN z, Matches(z[n], k) PROVE z[n].text \in Text
      <4>1. CASE n = Len(o) + 1
        BY <1>2, <2>3, <3>1, <4>1 DEF Part
      <4>2. CASE n # Len(o) + 1
        <5>1. n \in DOMAIN o /\ z[n] = o[n]
          BY <2>3, <2>4, <2>5, <4>2
        <5> QED BY <3>1, <5>1 DEF Rows
      <4> QED BY <4>1, <4>2
    <3> QED BY <2>3, <3>1 DEF Rows
  <2>7. more \in Seq(Text) /\ Len(more) = Len(z)
    BY <2>6, RowsTexts
  <2>8. \A n \in 1..Len(o) : parts[n] = Part(o[n], k)
    BY <2>4
  <2>9. \A n \in 1..Len(z) : more[n] = Part(z[n], k)
    BY <2>5
  <2> HIDE DEF parts, more
  <2>10. /\ next \in Seq(Text) /\ Len(next) = Len(o) + 1 /\ next[Len(o) + 1] = x
         /\ \A i \in 1..Len(o) : next[i] = parts[i]
    BY <2>4, AppendProperties
  <2> HIDE DEF next
  <2>11. \A i \in 1..Len(z) : more[i] = next[i]
    <3>1. \A i \in 1..Len(z) : i = Len(o) + 1 \/ i \in 1..Len(o)
      BY <2>3, <2>4
    <3>2. more[Len(o) + 1] = x
      <4>1. Len(o) + 1 \in 1..Len(z)
        BY <2>3, <2>4
      <4> QED BY <1>2, <2>3, <2>9, <4>1
    <3>3. \A i \in 1..Len(o) : more[i] = parts[i]
      <4>1. \A i \in 1..Len(o) : i \in 1..Len(z)
        BY <2>3, <2>4
      <4> QED BY <2>3, <2>8, <2>9, <4>1
    <3> QED BY <2>10, <3>1, <3>2, <3>3
  <2>12. more = next
    BY <2>3, <2>7, <2>10, <2>11, SeqEqual
  <2>13. FlattenSeq(next) = FlattenSeq(parts) \o x
    BY <2>4, FlattenAppend DEF Text, next
  <2> QED BY <2>3, <2>6, <2>12, <2>13 DEF TextOf, parts, more
<1> QED BY <1>1, <1>2 DEF Adds

LEMMA WriteAdds ==
    ASSUME NEW what, NEW p, NEW t, NEW f, NEW k
    PROVE  /\ what \notin {"buffered", "unfinished"} \/ <<p, t>> # k =>
                Adds(Write(what, p, t, f), k, <<>>)
           /\ what \in {"buffered", "unfinished"} /\ <<p, t>> = k =>
                Adds(Write(what, p, t, f), k, f)
<1> DEFINE row == [what |-> what, pkg |-> p, test |-> t, text |-> f]
<1>1. Part(row, k) = IF what \in {"buffered", "unfinished"} /\ <<p, t>> = k THEN f ELSE <<>>
  BY DEF Part, Matches
<1>2. Write(what, p, t, f) = <<row>> \/ (Write(what, p, t, f) = <<>> /\ f = <<>>)
  BY DEF Write
<1> HIDE DEF row
<1> QED BY <1>1, <1>2 DEF Adds

LEMMA Regroup ==
    \A S : \A a, b, c \in Seq(S) : (a \o b) \o c = a \o (b \o c)
BY ConcatAssociative

\* Several writes, of which one at most, at position at, says x of k.
InTurn(w, k, at, x) ==
    /\ at \in 0..Len(w) /\ (at = 0 => x = <<>>)
    /\ \A n \in 1..Len(w) : Adds(w[n], k, IF n = at THEN x ELSE <<>>)

LEMMA RowsInTurn ==
    ASSUME NEW o, NEW k, Rows(o, k), NEW S, NEW w \in Seq(Seq(S)),
           NEW at, NEW x \in Text, InTurn(w, k, at, x)
    PROVE  Rows(o \o FlattenSeq(w), k) /\ TextOf(o \o FlattenSeq(w), k) = TextOf(o, k) \o x
<1> DEFINE G(m) == FlattenSeq(SubSeq(w, 1, m))
           y(m) == IF at <= m THEN x ELSE <<>>
           N == {m \in Nat : m <= Len(w) => /\ Rows(o \o G(m), k)
                                            /\ TextOf(o \o G(m), k) = TextOf(o, k) \o y(m)}
<1>0. /\ Len(w) \in Nat /\ at \in Nat /\ TextOf(o, k) \in Text /\ at \in 0..Len(w)
      /\ at = 0 => x = <<>>
  <2>1. Len(w) \in Nat
    BY LenProperties
  <2>2. TextOf(o, k) \in Text
    BY RowsTexts
  <2> QED BY <2>1, <2>2 DEF InTurn
<1>1. ASSUME NEW m \in 0..Len(w) PROVE SubSeq(w, 1, m) \in Seq(Seq(S)) /\ G(m) \in Seq(S)
  <2>1. \A i \in 1..m : w[i] \in Seq(S)
    BY <1>0, ElementOfSeq
  <2>2. SubSeq(w, 1, m) \in Seq(Seq(S))
    BY <1>0, <2>1, SubSeqProperties
  <2> QED BY <2>2, FlattenedType
<1>2. 0 \in N
  <2>1. G(0) = <<>>
    <3>1. SubSeq(w, 1, 0) = <<>>
      BY SubSeqEmpty
    <3> QED BY <3>1, FlattenEmpty
  <2>2. y(0) = <<>>
    BY <1>0
  <2>3. Adds(<<>>, k, <<>>)
    BY DEF Adds
  <2> HIDE DEF G, y
  <2> QED BY <2>1, <2>2, <2>3, RowAdds, Texted1
<1>3. ASSUME NEW m \in N PROVE m + 1 \in N
  <2> DEFINE n == m + 1
  <2> SUFFICES ASSUME n <= Len(w)
               PROVE  Rows(o \o G(n), k) /\ TextOf(o \o G(n), k) = TextOf(o, k) \o y(n)
    OBVIOUS
  <2>1. n \in 1..Len(w) /\ m \in 0..Len(w) /\ m \in 0..(Len(w) - 1) /\ m <= Len(w) /\ n = m + 1
    BY <1>0
  <2>2. Rows(o \o G(m), k) /\ TextOf(o \o G(m), k) = TextOf(o, k) \o y(m)
    BY <2>1
  <2>3. G(n) = G(m) \o w[n]
    BY <2>1, FlattenUpTo
  <2>4. G(m) \in Seq(S) /\ w[n] \in Seq(S)
    BY <1>1, <2>1, ElementOfSeq
  <2> HIDE DEF N, G
  <2>5. o \o G(n) = (o \o G(m)) \o w[n]
    <3>1. PICK T : o \in Seq(T)
      BY DEF Rows
    <3> DEFINE U == S \cup T
    <3>2. o \in Seq(U) /\ G(m) \in Seq(U) /\ w[n] \in Seq(U)
      BY <2>4, <3>1, SeqMonotonic
    <3> HIDE DEF U
    <3>3. (o \o G(m)) \o w[n] = o \o (G(m) \o w[n])
      <4>1. PICK a \in Seq(U), b \in Seq(U) : a = G(m) /\ b = w[n]
        BY <3>2
      <4>2. PICK c \in Seq(U) : c = o
        BY <3>2
      <4>3. (c \o a) \o b = c \o (a \o b)
        BY ONLY Regroup, SMTT(30)
      <4> QED BY <4>1, <4>2, <4>3
    <3> QED BY <2>3, <3>3
  <2> DEFINE z == IF n = at THEN x ELSE <<>>
  <2>6. Adds(w[n], k, z) /\ z \in Text
    BY <2>1, Texted1 DEF InTurn
  <2>7. y(m) \o z = y(n) /\ y(m) \in Text
    <3>1. CASE n = at
      <4>1. y(m) = <<>> /\ y(n) = x /\ z = x
        BY <1>0, <2>1, <3>1
      <4>2. <<>> \o x = x
        BY ConcatEmptySeq DEF Text
      <4> HIDE DEF y, z
      <4> QED BY <4>1, <4>2, Texted1
    <3>2. CASE n # at
      <4>1. y(m) = y(n) /\ z = <<>> /\ y(m) \in Text
        BY <1>0, <2>1, <3>2, Texted1
      <4>2. y(m) \o <<>> = y(m)
        BY <4>1, ConcatEmptySeq DEF Text
      <4> HIDE DEF y, z
      <4> QED BY <4>1, <4>2
    <3> QED BY <3>1, <3>2
  <2> HIDE DEF z, n
  <2>8. /\ Rows((o \o G(m)) \o w[n], k)
        /\ TextOf((o \o G(m)) \o w[n], k) = TextOf(o \o G(m), k) \o z
    BY <2>2, <2>6, RowAdds, ZenonT(60)
  <2>9. (TextOf(o, k) \o y(m)) \o z = TextOf(o, k) \o y(n)
    <3>1. /\ TextOf(o, k) \in Seq(Lump) /\ y(m) \in Seq(Lump) /\ z \in Seq(Lump)
      BY <1>0, <2>6, <2>7 DEF Text
    <3> HIDE DEF y
    <3>2. PICK a \in Seq(Lump), b \in Seq(Lump), c \in Seq(Lump) :
            a = TextOf(o, k) /\ b = y(m) /\ c = z
      BY <3>1
    <3>3. (a \o b) \o c = a \o (b \o c)
      BY Regroup, SMTT(30)
    <3> QED BY <2>7, <3>2, <3>3
  <2> HIDE DEF y
  <2> QED BY <2>2, <2>5, <2>8, <2>9
<1>4. N = Nat
  <2> HIDE DEF N
  <2>1. N \in SUBSET Nat
    BY DEF N
  <2> QED BY <1>2, <1>3, <2>1, Induct
<1>5. G(Len(w)) = FlattenSeq(w)
  BY SubSeqFull
<1>6. y(Len(w)) = x
  BY <1>0
<1>7. /\ Rows(o \o G(Len(w)), k)
      /\ TextOf(o \o G(Len(w)), k) = TextOf(o, k) \o y(Len(w))
  <2>1. Len(w) \in N /\ Len(w) <= Len(w)
    BY <1>0, <1>4
  <2> QED BY <2>1
<1> HIDE DEF G, y
<1> QED BY <1>5, <1>6, <1>7
----------------------------------------------------------------------------
(* What has been said of test k, event by event: whether it is on and its  *)
(* package over, the output of its last run and of those that did not      *)
(* pass, the fragments of the panic, whose test they name, and what of     *)
(* them was sent before the signature was complete.                        *)

Voice == [on : BOOLEAN, over : BOOLEAN, said : Text, owed : Text, pan : 0..Len(Panic),
          who : Names \cup {NoTest}, kept : Text]

Sound(v) == /\ v \in Voice /\ IsStrictPrefix(v.kept, Signature)
            /\ ~Complete(v.pan) => v.kept = Joined(v.pan)
            /\ v.said = <<>> \/ Last(v.said) = NL

\* The panic is not being printed.
Calm(v) == v.pan \in {0, Len(Panic)}

HearAside(k, ev, v, w) ==
    /\ w = v
    /\ \/ ev.test = NoTest /\ ev.action = "start"
       \/ ev.test # NoTest /\ ev.action \in {"pause", "cont"}
       \/ ev.test \notin {NoTest, k[2]} /\ ev.action \in {"run", "pass", "fail", "skip"}

HearRun(k, ev, v, w) ==
    /\ ev.test = k[2] /\ ev.action = "run" /\ v.pan = 0
    /\ w.on /\ w.said = <<>>
    /\ w.over = v.over /\ w.owed = v.owed /\ w.pan = v.pan /\ w.who = v.who /\ w.kept = v.kept

HearResult(k, ev, v, w) ==
    /\ ev.test = k[2] /\ ev.action \in Verdicts /\ v.on /\ Calm(v)
    /\ ~w.on /\ w.owed = IF ev.action = "fail" THEN v.owed \o v.said ELSE v.owed
    /\ w.over = v.over /\ w.said = v.said /\ w.pan = v.pan /\ w.who = v.who /\ w.kept = v.kept

HearSpeech(k, ev, v, w) ==
    /\ ev.action = "output" /\ ev.test # NoTest /\ ev.text \in Texts /\ v.pan = 0
    /\ ev.test = k[2] => v.on
    /\ w.said = IF ev.test = k[2] THEN v.said \o ev.text ELSE v.said
    /\ w.on = v.on /\ w.over = v.over /\ w.owed = v.owed /\ w.pan = v.pan /\ w.who = v.who
    /\ w.kept = v.kept

HearPanic(k, ev, v, w) ==
    /\ ev.action = "output" /\ w.pan = v.pan + 1 /\ ev.text = Panic[w.pan]
    /\ v.pan # 0 => ev.test = v.who
    /\ ev.test = k[2] => v.on
    /\ w.who = ev.test
    /\ w.kept = IF Complete(w.pan) THEN v.kept ELSE Joined(w.pan)
    /\ w.on = v.on /\ w.over = v.over /\ w.said = v.said /\ w.owed = v.owed

HearOver(k, ev, v, w) ==
    /\ ev.test = NoTest /\ ev.action \in Verdicts
    /\ IF ev.action = "fail" THEN Calm(v) ELSE ~v.on
    /\ w.over /\ ~w.on /\ w.owed = IF v.on THEN v.owed \o v.said ELSE v.owed
    /\ w.said = v.said /\ w.pan = v.pan /\ w.who = v.who /\ w.kept = v.kept

\* Event ev leads from voice v of k to w.
Hear(k, v, ev, w) ==
    \/ ev.pkg # k[1] /\ w = v
    \/ /\ ev.pkg = k[1] /\ ~v.over
       /\ \/ HearAside(k, ev, v, w) \/ HearRun(k, ev, v, w) \/ HearResult(k, ev, v, w)
          \/ HearSpeech(k, ev, v, w) \/ HearPanic(k, ev, v, w) \/ HearOver(k, ev, v, w)

LEMMA SaidGrows ==
    ASSUME Orderly, NEW s \in Text, NEW f \in Texts, s = <<>> \/ Last(s) = NL
    PROVE  s \o f \in Text /\ Last(s \o f) = NL
<1>1. f \in Seq(Lump) /\ f # <<>> /\ Last(f) = NL /\ s \in Seq(Lump)
  BY Texted1 DEF Orderly, Text
<1>2. Len(s) \in Nat /\ Len(f) \in Nat /\ Len(f) > 0
  BY <1>1, LenProperties, EmptySeq
<1>3. /\ s \o f \in Seq(Lump) /\ Len(s \o f) = Len(s) + Len(f)
      /\ \A i \in 1..Len(s) + Len(f) : (s \o f)[i] = IF i <= Len(s) THEN s[i] ELSE f[i - Len(s)]
  BY <1>1, ConcatProperties
<1> DEFINE n == Len(s) + Len(f)
<1>4. n \in 1..n /\ ~(n <= Len(s)) /\ n - Len(s) = Len(f)
  BY <1>2
<1>5. (s \o f)[n] = f[Len(f)]
  BY <1>3, <1>4
<1> QED BY <1>1, <1>3, <1>5 DEF Last, Text

LEMMA HearSound ==
    ASSUME Orderly, NEW k, NEW v, Sound(v), NEW ev, NEW w \in Voice, Hear(k, v, ev, w)
    PROVE  Sound(w)
<1>0. /\ v \in Voice /\ v.said \in Text /\ v.kept \in Text /\ v.pan \in 0..Len(Panic)
      /\ w.pan \in 0..Len(Panic) /\ Len(Panic) \in Nat
  BY SessionAssumption, LenProperties DEF Sound, Voice
<1>1. CASE w.said \in {v.said, <<>>} /\ w.pan = v.pan /\ w.kept = v.kept
  BY <1>1 DEF Sound
<1>2. CASE HearSpeech(k, ev, v, w)
  <2>1. w.said = <<>> \/ Last(w.said) = NL
    BY <1>0, <1>2, SaidGrows DEF HearSpeech, Sound
  <2> QED BY <1>2, <2>1 DEF HearSpeech, Sound
<1>3. CASE HearPanic(k, ev, v, w)
  <2>1. w.kept = IF Complete(w.pan) THEN v.kept ELSE Joined(w.pan)
    BY <1>3 DEF HearPanic
  <2>2. ~Complete(w.pan) => IsStrictPrefix(Joined(w.pan), Signature)
    BY <1>0, Fragments
  <2> QED BY <1>3, <2>1, <2>2 DEF HearPanic, Sound
<1>4. HearAside(k, ev, v, w) \/ HearRun(k, ev, v, w) \/ HearResult(k, ev, v, w)
        \/ HearOver(k, ev, v, w) \/ w = v =>
        w.said \in {v.said, <<>>} /\ w.pan = v.pan /\ w.kept = v.kept
  BY DEF HearAside, HearRun, HearResult, HearOver
<1> QED BY <1>1, <1>2, <1>3, <1>4 DEF Hear
----------------------------------------------------------------------------
(* What Run makes of it.                                                   *)

\* The start of the panic that is in k's buffer, and in its log.
Buffers(k, v) == v.said \o (IF Complete(v.pan) \/ v.who # k[2] THEN <<>> ELSE v.kept)
Logs(k, v) == v.said \o (IF v.who # k[2] THEN <<>> ELSE v.kept)

Waiting(r, v) == IF Complete(v.pan) THEN Shaped(r) /\ r.active ELSE Waits(r, v.kept, v.who)

\* The last test span of k.
LastOf(k, i) == /\ spanTab[i].kind = "test" /\ Of(spanTab, i, k)
                /\ \A j \in 1..lastSpan :
                     spanTab[j].kind = "test" /\ Of(spanTab, j, k) => j <= i

HeardOn(k, v) == k \in DOMAIN spans <=> v.on
HeardBuffer(k, v) == BufferOutput /\ v.on => buffered[k] = Buffers(k, v)
HeardOut(k, v) == BufferOutput => Rows(out, k) /\ TextOf(out, k) = v.owed
HeardDump(k, v) == ~v.over /\ ~returned => Waiting(dumps[k[1]], v)
HeardLog(k, v) ==
    WithLogs => \A i \in 1..lastSpan : LastOf(k, i) =>
                  logged[i] \in Seq(Text) /\ FlattenSeq(logged[i]) = Logs(k, v)
HeardStart(k, v) ==
    ~v.over => \A i \in 1..lastSpan : spanTab[i].kind = "package" /\ spanTab[i].pkg = k[1] =>
                 k[1] \in DOMAIN pkgSpans

Heard(k, v) == /\ Sound(v) /\ HeardOn(k, v) /\ HeardBuffer(k, v) /\ HeardOut(k, v)
               /\ HeardDump(k, v) /\ HeardLog(k, v) /\ HeardStart(k, v)

\* An output event of k's package: nothing of a dump is in it,
Passes(r, ev, w) == r.dump = <<>> /\ ~Complete(w.pan) /\ Waits(r.d, w.kept, w.who)

\* or all of it is, and what was kept of the events before it.
Dumps(r, ev, v, w) ==
    /\ Complete(w.pan) /\ r.dump = ev.text /\ ev.text # <<>> /\ ev.text \in Text
    /\ r.before = <<>> /\ Shaped(r.d) /\ r.d.active
    /\ r.carried = IF Complete(v.pan) THEN <<>> ELSE v.kept
    /\ r.carried # <<>> => r.carriedTest = v.who

LEMMA OutputRouted ==
    ASSUME Orderly, NEW k \in Keys, NEW v, Sound(v), HeardDump(k, v), NEW w \in Voice, ~returned,
           NEW ev, ev.pkg = k[1], ev.action = "output", Hear(k, v, ev, w), NEW keep
    PROVE  LET r == Route(dumps[k[1]], ev.text, ev.test, keep) IN
           /\ HearSpeech(k, ev, v, w) => Passes(r, ev, w)
           /\ HearPanic(k, ev, v, w) => Passes(r, ev, w) \/ Dumps(r, ev, v, w)
           /\ HearSpeech(k, ev, v, w) \/ HearPanic(k, ev, v, w)
<1> DEFINE d == dumps[k[1]]
           r == Route(d, ev.text, ev.test, keep)
<1>0. /\ v \in Voice /\ v.kept \in Text /\ w.kept \in Text
      /\ v.pan \in 0..Len(Panic) /\ w.pan \in 0..Len(Panic) /\ Len(Panic) \in Nat
  BY SessionAssumption, LenProperties DEF Sound, Voice
<1>1. HearSpeech(k, ev, v, w) \/ HearPanic(k, ev, v, w)
  BY DEF Hear, HearAside, HearRun, HearResult, HearOver, Verdicts
<1>2. Waiting(d, v)
  BY DEF HeardDump, Hear
<1>3. ASSUME HearSpeech(k, ev, v, w) PROVE Passes(r, ev, w)
  <2>1. /\ v.pan = 0 /\ w.pan = 0 /\ w.kept = v.kept /\ w.who = v.who /\ ev.text \in Texts
    BY <1>3 DEF HearSpeech
  <2>2. ~Complete(0) /\ v.kept = <<>>
    <3>1. ~Complete(0)
      BY <1>0, Fragments
    <3> QED BY <2>1, <3>1, JoinedStep DEF Sound
  <2>3. Waits(d, <<>>, v.who)
    BY <1>2, <2>1, <2>2 DEF Waiting
  <2>4. PICK q : q = d
    OBVIOUS
  <2>5. /\ Route(q, ev.text, ev.test, keep).dump = <<>>
        /\ \A t : Waits(Route(q, ev.text, ev.test, keep).d, <<>>, t)
    BY <2>1, <2>3, <2>4, RouteLine, ZenonT(60)
  <2> QED BY <2>1, <2>2, <2>4, <2>5 DEF Passes
<1>4. ASSUME HearPanic(k, ev, v, w) PROVE Passes(r, ev, w) \/ Dumps(r, ev, v, w)
  <2>1. /\ w.pan = v.pan + 1 /\ ev.text = Panic[w.pan] /\ w.who = ev.test
        /\ v.pan # 0 => ev.test = v.who
        /\ w.kept = IF Complete(w.pan) THEN v.kept ELSE Joined(w.pan)
    BY <1>4 DEF HearPanic
  <2>2. /\ Complete(v.pan) => Complete(w.pan)
        /\ ev.text \in Seq(STRING) /\ ev.text # <<>>
        /\ Joined(w.pan) = Joined(v.pan) \o ev.text
        /\ ~Complete(w.pan) => IsStrictPrefix(Joined(w.pan), Signature)
    BY <1>0, <2>1, Fragments
  <2>3. ev.text \in Text
    BY <2>2, Texted1
  <2>4. PICK q : q = d
    OBVIOUS
  <2>5. CASE Complete(v.pan)
    <3>1. Shaped(q) /\ q.active
      BY <1>2, <2>4, <2>5 DEF Waiting
    <3>2. Route(q, ev.text, ev.test, keep) = [d |-> q, before |-> <<>>, dump |-> ev.text,
                                              carried |-> <<>>, carriedTest |-> NoTest]
      BY <3>1, RouteActive
    <3> QED BY <2>2, <2>3, <2>4, <2>5, <3>1, <3>2 DEF Dumps
  <2>6. CASE ~Complete(v.pan)
    <3>1. Waits(q, v.kept, v.who) /\ v.kept = Joined(v.pan) /\ IsStrictPrefix(v.kept, Signature)
      BY <1>2, <2>4, <2>6 DEF Waiting, Sound
    <3>2. CASE Complete(w.pan)
      <4>1. IsPrefix(Signature, v.kept \o ev.text)
        BY <2>2, <3>1, <3>2 DEF Complete
      <4> DEFINE z == Route(q, ev.text, ev.test, keep)
      <4>2. /\ z.dump = ev.text /\ z.before = <<>> /\ z.carried = v.kept
            /\ v.kept # <<>> => z.carriedTest = v.who
            /\ Shaped(z.d) /\ z.d.active
        BY <1>0, <2>3, <3>1, <4>1, RouteFound
      <4> HIDE DEF z
      <4> QED BY <2>2, <2>3, <2>4, <2>6, <3>2, <4>2 DEF Dumps, z
    <3>3. CASE ~Complete(w.pan)
      <4>1. IsStrictPrefix(v.kept \o ev.text, Signature) /\ w.kept = v.kept \o ev.text
        BY <2>1, <2>2, <3>1, <3>3
      <4>2. v.kept # <<>> => ev.test = v.who
        <5>1. v.pan = 0 => v.kept = <<>>
          BY <3>1, JoinedStep
        <5> QED BY <2>1, <5>1
      <4>3. /\ Route(q, ev.text, ev.test, keep).dump = <<>>
            /\ Waits(Route(q, ev.text, ev.test, keep).d, v.kept \o ev.text, ev.test)
        BY <1>0, <2>2, <2>3, <3>1, <4>1, <4>2, RouteMore
      <4> QED BY <2>1, <2>4, <3>3, <4>1, <4>3 DEF Passes
    <3> QED BY <3>2, <3>3
  <2> QED BY <2>5, <2>6
<1> QED BY <1>1, <1>3, <1>4
----------------------------------------------------------------------------
(* An event that is heard takes Run along, table by table.                 *)

\* What the event says of k itself.
LEMMA HearsKey ==
    ASSUME NEW k \in Keys, NEW v, NEW ev \in Event, NEW w, Hear(k, v, ev, w)
    PROVE  /\ k[1] \in Pkgs /\ k[2] \in Names /\ k[2] # NoTest /\ k = <<k[1], k[2]>>
           /\ ev.pkg \in Pkgs /\ ev.test \in Names \cup {NoTest}
           /\ <<ev.pkg, ev.test>> = k <=> ev.pkg = k[1] /\ ev.test = k[2]
           /\ ev.action # "run" \/ <<ev.pkg, ev.test>> # k => w.on = v.on \/ (~w.on /\
                 \/ HearResult(k, ev, v, w) \/ HearOver(k, ev, v, w))
<1>1. k[1] \in Pkgs /\ k[2] \in Names /\ k[2] # NoTest /\ k = <<k[1], k[2]>>
  BY RunAssumption DEF Keys
<1>2. ev.pkg \in Pkgs /\ ev.test \in Names \cup {NoTest}
  BY DEF Event
<1>3. <<ev.pkg, ev.test>> = k <=> ev.pkg = k[1] /\ ev.test = k[2]
  BY <1>1
<1>4. ev.action # "run" \/ <<ev.pkg, ev.test>> # k => w.on = v.on \/ (~w.on /\
        (HearResult(k, ev, v, w) \/ HearOver(k, ev, v, w)))
  BY <1>3 DEF Hear, HearAside, HearRun, HearResult, HearSpeech, HearPanic, HearOver
<1> QED BY <1>1, <1>2, <1>3, <1>4

LEMMA HearsOn ==
    ASSUME RunInv, NEW k \in Keys, NEW v, Sound(v), HeardOn(k, v), NEW ev \in Event,
           Handle(ev), NEW w \in Voice, Hear(k, v, ev, w)
    PROVE  HeardOn(k, w)'
<1> DEFINE p == ev.pkg
           t == ev.test
<1>0. /\ k[1] \in Pkgs /\ k[2] \in Names /\ k[2] # NoTest /\ k = <<k[1], k[2]>>
      /\ p \in Pkgs /\ t \in Names \cup {NoTest}
      /\ <<p, t>> = k <=> p = k[1] /\ t = k[2]
  BY HearsKey
<1>a. w.on \in BOOLEAN /\ v.on \in BOOLEAN
  BY DEF Sound, Voice
<1>1. CASE /\ UNCHANGED DOMAIN spans
           /\ ev.action \in {"start", "pause", "cont", "output"}
                \/ (ev.action \in {"pass", "skip"} /\ t = NoTest)
  <2>1. w.on = v.on
    BY <1>0, <1>1, <1>a DEF Hear, HearAside, HearRun, HearResult, HearSpeech, HearPanic, HearOver, Verdicts
  <2> QED BY <1>1, <2>1 DEF HeardOn
<1>2. CASE t = NoTest /\ ev.action = "fail" /\ PackageFail(p)
  <2>1. DOMAIN spans' = DOMAIN spans \ Unfinished(p)
    BY <1>2 DEF PackageFail, DropUnfinished, Del
  <2>2. IF p = k[1] THEN ~w.on ELSE w.on = v.on
    BY <1>0, <1>2 DEF Hear, HearAside, HearRun, HearResult, HearSpeech, HearPanic, HearOver
  <2>3. k \in Unfinished(p) <=> k \in DOMAIN spans /\ k[1] = p
    BY DEF Unfinished
  <2> QED BY <1>a, <2>1, <2>2, <2>3 DEF HeardOn
<1>3. CASE ev.action = "run" /\ Run(p, t)
  <2>1. DOMAIN spans' = DOMAIN spans \cup {<<p, t>>}
    BY <1>3 DEF Run, Put
  <2>2. IF <<p, t>> = k THEN w.on ELSE w.on = v.on
    BY <1>0, <1>3 DEF Hear, HearAside, HearRun, HearResult, HearSpeech, HearPanic, HearOver, Verdicts
  <2> QED BY <1>a, <2>1, <2>2 DEF HeardOn
<1>4. CASE t # NoTest /\ ev.action \in {"pass", "fail", "skip"} /\ TestResult(p, t, ev.action)
  <2>1. DOMAIN spans' = DOMAIN spans \ {<<p, t>>}
    BY <1>4 DEF TestResult, Del
  <2>2. IF <<p, t>> = k THEN ~w.on ELSE w.on = v.on
    BY <1>0, <1>4 DEF Hear, HearAside, HearRun, HearResult, HearSpeech, HearPanic, HearOver
  <2> QED BY <1>a, <2>1, <2>2 DEF HeardOn
<1>5. t = NoTest /\ ev.action = "start" /\ PackageStart(p) => UNCHANGED DOMAIN spans
  BY DEF PackageStart
<1>6. PackagePass(p) \/ PackageSkip(p) => UNCHANGED DOMAIN spans
  BY DEF PackagePass, PackageSkip
<1>7. Pause(p, t) \/ Cont(p, t) => UNCHANGED DOMAIN spans
  BY DEF Pause, Cont
<1>8. Output(p, t, ev.text) => UNCHANGED DOMAIN spans
  BY Zenon DEF Output, OutputPlain, OutputDump
<1>9. ev.action # "line"
  BY DEF Event, Actions
<1> QED BY <1>1, <1>2, <1>3, <1>4, <1>5, <1>6, <1>7, <1>8, <1>9 DEF Handle

\* The span an event adds, if any.
Adding(ev) ==
    LET n == lastSpan + 1 IN
    /\ ev.action \in {"start", "run", "cont"} /\ lastSpan' = n
    /\ spanTab'[n].pkg = ev.pkg /\ spanTab'[n].test = ev.test
    /\ spanTab'[n].kind = CASE ev.action = "start" -> "package" [] ev.action = "run" -> "test"
                            [] ev.action = "cont" -> "continue"
    /\ logged'[n] = <<>> /\ \A i \in 1..lastSpan : logged'[i] = logged[i]

LEMMA HandleAdds ==
    ASSUME RunInv, NEW ev \in Event, Handle(ev)
    PROVE  \/ Adding(ev)
           \/ UNCHANGED lastSpan /\ (ev.action = "output" \/ UNCHANGED logged) /\ ev.action # "run"
<1> DEFINE p == ev.pkg
           t == ev.test
<1>0. p \in Pkgs /\ t \in Names \cup {NoTest} /\ RunTypeOK /\ NoTest \in Names \cup {NoTest}
  BY DEF Event, RunInv
<1>1. ASSUME NEW kind \in Kinds, NEW parent \in Nat, NEW link \in Nat,
             Start(kind, p, t, parent, link), ev.action \in {"start", "run", "cont"},
             kind = CASE ev.action = "start" -> "package" [] ev.action = "run" -> "test"
                      [] ev.action = "cont" -> "continue"
      PROVE  Adding(ev)
  <2>1. /\ lastSpan' = lastSpan + 1
        /\ spanTab'[lastSpan + 1] = Started(kind, p, t, parent, link)
        /\ \A i \in 1..lastSpan : logged'[i] = logged[i]
    BY <1>0, <1>1, StartAdds, ZenonT(60)
  <2>2. logged'[lastSpan + 1] = <<>>
    BY <1>1 DEF Start, Put, NewSpan
  <2> QED BY <1>1, <2>1, <2>2 DEF Adding, Started
<1>2. CASE t = NoTest /\ ev.action = "start" /\ PackageStart(p)
  <2>1. Start("package", p, t, 0, 0) /\ "package" \in Kinds
    BY <1>2 DEF PackageStart, Kinds
  <2> QED BY <1>1, <1>2, <2>1
<1>3. CASE t # NoTest /\ ev.action = "run" /\ Run(p, t)
  <2>1. PICK parent \in Parents(p, t) : Start("test", p, t, parent, 0)
    BY <1>3 DEF Run
  <2>2. parent \in Nat /\ "test" \in Kinds
    BY <1>0, <1>3, <2>1, ParentIsRight DEF RunInv, RunTypeOK, Kinds
  <2> QED BY <1>1, <1>3, <2>1, <2>2
<1>4. CASE t # NoTest /\ ev.action = "cont" /\ Cont(p, t)
  <2>1. CASE UNCHANGED <<lastSpan, logged>>
    BY <1>4, <2>1
  <2>2. CASE /\ <<p, t>> \in DOMAIN spans
             /\ Start("continue", p, t, spans[<<p, t>>].orig, spans[<<p, t>>].cur)
    <3>1. spans[<<p, t>>].orig \in Nat /\ spans[<<p, t>>].cur \in Nat /\ "continue" \in Kinds
      BY <2>2 DEF RunInv, RunTypeOK, Entry, Kinds
    <3> QED BY <1>1, <1>4, <2>2, <3>1
  <2> QED BY <1>4, <2>1, <2>2 DEF Cont
<1>5. PackagePass(p) \/ PackageSkip(p) \/ PackageFail(p) => UNCHANGED <<lastSpan, logged>>
  BY DEF PackagePass, PackageSkip, PackageFail, ForgetPackage
<1>6. \A result : TestResult(p, t, result) => UNCHANGED <<lastSpan, logged>>
  BY DEF TestResult
<1>7. Pause(p, t) => UNCHANGED <<lastSpan, logged>>
  BY DEF Pause
<1>8. Output(p, t, ev.text) => UNCHANGED lastSpan
  BY Zenon DEF Output, OutputPlain, OutputDump
<1>9. ev.action # "line"
  BY DEF Event, Actions
<1> QED BY <1>2, <1>3, <1>4, <1>5, <1>6, <1>7, <1>8, <1>9 DEF Handle

LEMMA HearsStart ==
    ASSUME RunInv, NEW k \in Keys, NEW v, Sound(v), HeardStart(k, v), NEW ev \in Event,
           Handle(ev), NEW w \in Voice, Hear(k, v, ev, w)
    PROVE  HeardStart(k, w)'
<1> DEFINE p == ev.pkg
           t == ev.test
<1>0. /\ k[1] \in Pkgs /\ k[2] # NoTest /\ p \in Pkgs /\ t \in Names \cup {NoTest}
      /\ lastSpan \in Nat /\ w.over \in BOOLEAN
  BY HearsKey DEF RunInv, RunTypeOK, Voice
<1>1. ShapesKept
  BY <1>0, HandleShapes
<1>2. ASSUME ~w.over PROVE ~v.over /\ ~(p = k[1] /\ t = NoTest /\ ev.action \in Verdicts)
  BY <1>0, <1>2 DEF Hear, HearAside, HearRun, HearResult, HearSpeech, HearPanic, HearOver, Verdicts
<1>3. ASSUME ~w.over, k[1] \in DOMAIN pkgSpans PROVE k[1] \in DOMAIN pkgSpans'
  <2>1. \/ DOMAIN pkgSpans \subseteq DOMAIN pkgSpans'
        \/ t = NoTest /\ ev.action \in Verdicts /\ DOMAIN pkgSpans' = DOMAIN pkgSpans \ {p}
    <3>1. PackageStart(p) => DOMAIN pkgSpans \subseteq DOMAIN pkgSpans'
      BY DEF PackageStart, Put
    <3>2. PackagePass(p) \/ PackageSkip(p) \/ PackageFail(p) =>
            DOMAIN pkgSpans' = DOMAIN pkgSpans \ {p}
      BY SMTT(30) DEF PackagePass, PackageSkip, PackageFail, ForgetPackage, Del
    <3>3. /\ Run(p, t) \/ Pause(p, t) \/ Cont(p, t) \/ Output(p, t, ev.text)
               \/ PassThrough(ev.text) => UNCHANGED pkgSpans
          /\ \A result : TestResult(p, t, result) => UNCHANGED pkgSpans
      BY DEF Run, Pause, Cont, Output, OutputPlain, OutputDump, PassThrough, TestResult
    <3> QED BY <3>1, <3>2, <3>3 DEF Handle, Verdicts
  <2> QED BY <1>2, <1>3, <2>1
<1>4. ASSUME ~w.over, NEW i \in 1..lastSpan', spanTab'[i].kind = "package",
             spanTab'[i].pkg = k[1]
      PROVE  k[1] \in DOMAIN pkgSpans'
  <2>1. CASE i \in 1..lastSpan
    <3>1. spanTab[i].kind = "package" /\ spanTab[i].pkg = k[1]
      BY <1>1, <1>4, <2>1 DEF ShapesKept, SameShape
    <3> QED BY <1>2, <1>3, <1>4, <2>1, <3>1 DEF HeardStart
  <2>2. CASE i \notin 1..lastSpan
    <3>1. Adding(ev)
      BY <1>4, <2>2, HandleAdds
    <3>2. i = lastSpan + 1
      BY <1>0, <1>4, <2>2, <3>1 DEF Adding
    <3>3. ev.action = "start" /\ ev.pkg = k[1]
      BY <1>4, <3>1, <3>2 DEF Adding
    <3>4. PackageStart(p)
      BY <3>3 DEF Handle
    <3> QED BY <3>3, <3>4 DEF PackageStart, Put
  <2> QED BY <2>1, <2>2
<1> QED BY <1>4 DEF HeardStart
----------------------------------------------------------------------------
(* The log of a test's last run.                                           *)

\* An entry's original span is the last of its test.
EntriesLast == \A k \in DOMAIN spans : k \in Keys /\ spans[k].orig \in 1..lastSpan
                                       /\ LastOf(k, spans[k].orig)

LEMMA EntriesAreLast == ASSUME RunInv, NEW v, RunsSeen(v) PROVE EntriesLast
<1>1. ASSUME NEW k \in DOMAIN spans
      PROVE  k \in Keys /\ spans[k].orig \in 1..lastSpan /\ LastOf(k, spans[k].orig)
  <2>1. /\ k \in Keys /\ spans[k].orig \in 1..lastSpan
        /\ spanTab[spans[k].orig].kind = "test" /\ Of(spanTab, spans[k].orig, k)
    BY EntryIsLast
  <2>2. \A i \in 1..lastSpan : Of(spanTab, i, k) =>
          (spanTab[i].kind = "test" => i <= spans[k].orig)
    BY DEF RunsSeen
  <2> QED BY <2>1, <2>2 DEF LastOf
<1> QED BY <1>1 DEF EntriesLast

\* What is logged to another span.
LEMMA PackageLogged ==
    ASSUME RunInv, NEW i \in 1..lastSpan, spanTab[i].kind = "test", NEW log, NEW p, NEW x
    PROVE  LogPackage(log, p, x)[i] = log[i]
<1>1. \A l, j, txt : j # i => Log(l, j, txt)[i] = l[i]
  BY DEF Log
<1>2. p \in DOMAIN pkgSpans => pkgSpans[p] # i
  BY DEF RunInv, PackagesSound
<1> QED BY <1>1, <1>2 DEF LogPackage

LEMMA OtherLogged ==
    ASSUME RunInv, NEW k \in Keys, NEW i \in 1..lastSpan, spanTab[i].kind = "test",
           Of(spanTab, i, k), NEW log, NEW p, NEW t, <<p, t>> # k, NEW x
    PROVE  LogTest(log, p, t, x)[i] = log[i]
<1>1. \A l, j, txt : j # i => Log(l, j, txt)[i] = l[i]
  BY DEF Log
<1>2. <<p, t>> \in DOMAIN spans => spans[<<p, t>>].orig # i
  <2> SUFFICES ASSUME <<p, t>> \in DOMAIN spans, spans[<<p, t>>].orig = i PROVE FALSE
    OBVIOUS
  <2>1. Of(spanTab, i, <<p, t>>)
    BY DEF RunInv, EntriesSound
  <2>2. k = <<k[1], k[2]>>
    BY DEF Keys
  <2>3. k[1] = p /\ k[2] = t
    BY <2>1 DEF Of
  <2> QED BY <2>2, <2>3
<1> QED BY <1>1, <1>2 DEF LogTest

\* The start of the signature is in no frame.
LEMMA PartNotFrame ==
    ASSUME NEW h \in Text, NEW f \in Text, f # <<>>, IsStrictPrefix(h \o f, Signature)
    PROVE  ~IsFrame(f)
<1>1. /\ Len(h) \in Nat /\ Len(f) \in Nat /\ Len(f) > 0 /\ h \in Seq(Lump) /\ f \in Seq(Lump)
      /\ Signature \in Seq(Lump) /\ Len(Signature) = 3
  BY LenProperties, EmptySeq, TheSignature DEF Text
<1>2. /\ h \o f \in Seq(Lump) /\ Len(h \o f) = Len(h) + Len(f)
      /\ \A i \in 1..Len(h) + Len(f) : (h \o f)[i] = IF i <= Len(h) THEN h[i] ELSE f[i - Len(h)]
  BY <1>1, ConcatProperties
<1>3. IsPrefix(h \o f, Signature)
  BY DEF IsStrictPrefix
<1>4. /\ Len(h) + Len(f) <= 3
      /\ \A i \in 1..Len(h) + Len(f) : (h \o f)[i] = Signature[i]
  <2> DEFINE g == h \o f
  <2>1. g \in Seq(Lump) /\ Len(g) = Len(h) + Len(f) /\ IsPrefix(g, Signature)
    BY <1>2, <1>3
  <2> HIDE DEF g
  <2>a. g \in Seq(Lump) /\ Signature \in Seq(Lump)
    BY <1>1, <2>1
  <2>2. IsPrefix(g, Signature) <=>
          Len(g) <= Len(Signature) /\ \A i \in 1..Len(g) : g[i] = Signature[i]
    BY <2>a, PrefixIs
  <2> QED BY <1>1, <2>1, <2>2 DEF g
<1> DEFINE j == Len(h) + 1
<1>5. j \in 1..3 /\ j \in 1..Len(h) + Len(f) /\ ~(j <= Len(h)) /\ j - Len(h) = 1
  BY <1>1, <1>4
<1>6. f[1] = Signature[j]
  BY <1>2, <1>4, <1>5
<1>7. Head(f) = f[1]
  BY <1>1, HeadTailProperties
<1>8. Signature[j] \notin FrameHeads
  BY <1>5, NotFrames
<1>9. f # <<NL>>
  <2> SUFFICES ASSUME f = <<NL>> PROVE FALSE
    OBVIOUS
  <2>1. f[1] = NL
    OBVIOUS
  <2>2. j = 1 \/ j = 2 \/ j = 3
    BY <1>5
  <2> QED BY <1>6, <2>1, <2>2, TheSignature
<1> QED BY <1>6, <1>7, <1>8, <1>9 DEF IsFrame

\* The start of the panic is of the test that prints it.
LEMMA LogsInPanic ==
    ASSUME Orderly, NEW k \in Keys, NEW v, Sound(v), NEW ev, NEW w \in Voice,
           HearPanic(k, ev, v, w)
    PROVE  Logs(k, v) = v.said \o (IF ev.test = k[2] THEN v.kept ELSE <<>>)
<1>1. CASE v.pan = 0
  <2>1. ~Complete(0)
    <3>1. 0 \in 0..Len(Panic)
      BY SessionAssumption, LenProperties
    <3> QED BY <3>1, Fragments
  <2>2. v.kept = <<>>
    BY <1>1, <2>1, JoinedStep DEF Sound
  <2> QED BY <2>2 DEF Logs
<1>2. CASE v.pan # 0
  BY <1>2 DEF Logs, HearPanic
<1> QED BY <1>1, <1>2

\* What an event that is not output, or of another package, does to it.
LEMMA HearsLogAside ==
    ASSUME Orderly, RunInv, NEW k \in Keys, NEW v, Sound(v), HeardLog(k, v), NEW ev \in Event,
           Handle(ev), NEW w \in Voice, Hear(k, v, ev, w), ev.action # "output"
    PROVE  HeardLog(k, w)'
<1> DEFINE n == lastSpan + 1
<1>0. /\ k[1] \in Pkgs /\ k[2] \in Names /\ k[2] # NoTest
      /\ ev.pkg \in Pkgs /\ ev.test \in Names \cup {NoTest} /\ lastSpan \in Nat
  BY HearsKey DEF RunInv, RunTypeOK
<1>1. ShapesKept
  BY <1>0, HandleShapes
<1>2. ASSUME NEW i \in 1..lastSpan, LastOf(k, i)', WithLogs, logged'[i] = logged[i],
             Logs(k, w) = Logs(k, v), lastSpan' \in Nat, lastSpan <= lastSpan'
      PROVE  logged'[i] \in Seq(Text) /\ FlattenSeq(logged'[i]) = Logs(k, w)
  <2>1. LastOf(k, i)
    <3>1. \A j \in 1..lastSpan : j \in 1..lastSpan'
      BY <1>0, <1>2
    <3> QED BY <1>1, <1>2, <3>1 DEF LastOf, ShapesKept, SameShape, Of
  <2> QED BY <1>2, <2>1 DEF HeardLog
<1>3. CASE UNCHANGED lastSpan /\ UNCHANGED logged /\ ev.action # "run"
  <2>1. Logs(k, w) = Logs(k, v)
    BY <1>3 DEF Hear, HearAside, HearRun, HearResult, HearSpeech, HearPanic, HearOver, Logs
  <2> QED BY <1>0, <1>2, <1>3, <2>1 DEF HeardLog
<1>4. CASE Adding(ev)
  <2>1. /\ lastSpan' = n /\ logged'[n] = <<>> /\ \A i \in 1..lastSpan : logged'[i] = logged[i]
        /\ spanTab'[n].pkg = ev.pkg /\ spanTab'[n].test = ev.test
        /\ spanTab'[n].kind = "test" <=> ev.action = "run"
    BY <1>4 DEF Adding
  <2>2. CASE ev.action = "run" /\ ev.pkg = k[1] /\ ev.test = k[2]
    <3>1. HearRun(k, ev, v, w)
      BY <1>0, <2>2 DEF Hear, HearAside, HearResult, HearSpeech, HearPanic, HearOver, Verdicts
    <3>2. Logs(k, w) = <<>>
      <4>1. ~Complete(0)
        <5>1. 0 \in 0..Len(Panic)
          BY SessionAssumption, LenProperties
        <5> QED BY <5>1, Fragments
      <4>2. w.said = <<>> /\ w.kept = <<>>
        BY <3>1, <4>1, JoinedStep DEF Sound, HearRun
      <4> QED BY <4>2 DEF Logs
    <3>3. ASSUME NEW i \in 1..n, LastOf(k, i)' PROVE i = n
      <4>1. n \in 1..n /\ n \in 1..lastSpan'
        BY <1>0, <2>1
      <4>2. n <= i
        BY <2>1, <2>2, <3>3, <4>1 DEF LastOf, Of
      <4> QED BY <1>0, <4>2
    <3>4. <<>> \in Seq(Text) /\ FlattenSeq(<<>>) = <<>>
      BY FlattenEmpty
    <3> HIDE DEF n
    <3> QED BY <2>1, <3>2, <3>3, <3>4 DEF HeardLog
  <2>3. CASE ~(ev.action = "run" /\ ev.pkg = k[1] /\ ev.test = k[2])
    <3>1. Logs(k, w) = Logs(k, v)
      BY <2>3 DEF Hear, HearAside, HearRun, HearResult, HearSpeech, HearPanic, HearOver, Logs
    <3>2. ASSUME NEW i \in 1..n, LastOf(k, i)' PROVE i \in 1..lastSpan
      <4>1. i # n
        BY <2>1, <2>3, <3>2 DEF LastOf, Of
      <4> QED BY <1>0, <4>1
    <3>3. lastSpan' \in Nat /\ lastSpan <= lastSpan'
      BY <1>0, <2>1
    <3> QED BY <1>2, <2>1, <3>1, <3>2, <3>3 DEF HeardLog
  <2> QED BY <2>2, <2>3
<1> QED BY <1>3, <1>4, HandleAdds

LEMMA OutputLogs ==
    ASSUME NEW p, NEW t, NEW x, Output(p, t, x)
    PROVE  LET r == Routed(p, t, x) IN
           \/ r.dump = <<>> /\ logged' = LogTest(logged, p, t, x)
           \/ /\ r.dump # <<>>
              /\ \E a : logged' = LogTest(LogPackage(logged, p, a), p, t, r.before)
<1>1. CASE OutputPlain(p, t, x)
  BY <1>1 DEF OutputPlain
<1>2. CASE OutputDump(p, t, x)
  BY <1>2 DEF OutputDump
<1> QED BY <1>1, <1>2 DEF Output

\* What output does.
LEMMA HearsLog ==
    ASSUME Orderly, RunInv, EntriesLast, NEW k \in Keys, NEW v, Sound(v), HeardOn(k, v),
           HeardDump(k, v), HeardLog(k, v), NEW ev \in Event, Handle(ev), NEW w \in Voice,
           Hear(k, v, ev, w)
    PROVE  HeardLog(k, w)'
<1> DEFINE p == ev.pkg
           t == ev.test
           x == ev.text
<1>0. /\ k[1] \in Pkgs /\ k[2] \in Names /\ k[2] # NoTest /\ k = <<k[1], k[2]>>
      /\ p \in Pkgs /\ t \in Names \cup {NoTest}
      /\ <<p, t>> = k <=> p = k[1] /\ t = k[2]
  BY HearsKey
<1>v. /\ v \in Voice /\ v.said \in Text /\ v.kept \in Text /\ w.kept \in Text
      /\ v.pan \in 0..Len(Panic) /\ w.pan \in 0..Len(Panic) /\ Len(Panic) \in Nat
  BY SessionAssumption, LenProperties DEF Sound, Voice
<1> SUFFICES ASSUME ev.action = "output", WithLogs, NEW i \in 1..lastSpan', LastOf(k, i)'
             PROVE  logged'[i] \in Seq(Text) /\ FlattenSeq(logged'[i]) = Logs(k, w)
  BY HearsLogAside DEF HeardLog
<1>1. Output(p, t, x) /\ ~returned
  BY DEF Handle
<1>2. UNCHANGED <<spanTab, lastSpan, spans, pkgSpans>>
  BY <1>1, Zenon DEF Output, OutputPlain, OutputDump
<1>3. LastOf(k, i) /\ i \in 1..lastSpan /\ spanTab[i].kind = "test" /\ Of(spanTab, i, k)
  BY <1>2 DEF LastOf, Of
<1>4. logged[i] \in Seq(Text) /\ FlattenSeq(logged[i]) = Logs(k, v) /\ i \in DOMAIN logged
  BY <1>3 DEF HeardLog, RunInv, RunTypeOK
<1>5. \A log, a, b : /\ LogPackage(log, p, a)[i] = log[i]
                     /\ <<p, t>> # k => LogTest(log, p, t, b)[i] = log[i]
  <2>1. PICK q, u : q = p /\ u = t
    OBVIOUS
  <2>2. ASSUME NEW log, NEW a, NEW b
        PROVE  LogPackage(log, q, a)[i] = log[i] /\ (<<q, u>> # k => LogTest(log, q, u, b)[i] = log[i])
    <3>1. LogPackage(log, q, a)[i] = log[i]
      BY <1>3, PackageLogged
    <3>2. <<q, u>> # k => LogTest(log, q, u, b)[i] = log[i]
      BY <1>3, OtherLogged
    <3> QED BY <3>1, <3>2
  <2> QED BY <2>1, <2>2
<1>6. CASE Logs(k, w) = Logs(k, v) /\ <<p, t>> # k
  <2>1. \/ logged' = LogTest(logged, p, t, x)
        \/ \E a, b : logged' = LogTest(LogPackage(logged, p, a), p, t, b)
    BY <1>1, OutputLogs
  <2>2. logged'[i] = logged[i]
    BY <1>5, <1>6, <2>1
  <2> QED BY <1>4, <1>6, <2>2
<1>7. ASSUME <<p, t>> = k, v.on, x \in Text, x # <<>>, ~IsFrame(x), Routed(p, t, x).dump = <<>>,
             Logs(k, w) = Logs(k, v) \o x
      PROVE  logged'[i] \in Seq(Text) /\ FlattenSeq(logged'[i]) = Logs(k, w)
  <2>1. logged' = LogTest(logged, p, t, x)
    BY <1>1, <1>7, OutputLogs
  <2>2. k \in DOMAIN spans /\ spans[k].orig = i
    <3>1. k \in DOMAIN spans
      BY <1>7 DEF HeardOn
    <3>2. spans[k].orig \in 1..lastSpan /\ LastOf(k, spans[k].orig)
      BY <3>1 DEF EntriesLast
    <3>3. spans[k].orig <= i /\ i <= spans[k].orig
      BY <1>3, <3>2 DEF LastOf
    <3>4. lastSpan \in Nat
      BY DEF RunInv, RunTypeOK
    <3> QED BY <1>3, <3>1, <3>2, <3>3, <3>4
  <2>3. logged'[i] = Append(logged[i], x)
    <3>1. <<p, t>> \in DOMAIN spans /\ spans[<<p, t>>].orig \in DOMAIN logged
      BY <1>4, <1>7, <2>2
    <3>2. PICK q, u, z, log : q = p /\ u = t /\ z = x /\ log = logged
      OBVIOUS
    <3>3. <<q, u>> \in DOMAIN spans /\ spans[<<q, u>>].orig \in DOMAIN log /\ z # <<>> /\ ~IsFrame(z)
      BY <1>7, <3>1, <3>2
    <3>4. LogTest(log, q, u, z)[spans[<<q, u>>].orig] = Append(log[spans[<<q, u>>].orig], z)
      BY <1>7, <3>3 DEF LogTest, Log
    <3> QED BY <1>7, <2>1, <2>2, <3>2, <3>4, Zenon
  <2>4. PICK s \in Seq(Text) : s = logged[i]
    BY <1>4
  <2>5. FlattenSeq(Append(s, x)) = FlattenSeq(s) \o x
    BY <1>7, FlattenAppend DEF Text
  <2>6. Append(s, x) \in Seq(Text)
    BY <1>7, <2>4, AppendProperties
  <2> QED BY <1>4, <1>7, <2>3, <2>4, <2>5, <2>6
<1>8. CASE p # k[1]
  <2>1. w = v
    BY <1>8 DEF Hear
  <2> QED BY <1>0, <1>6, <1>8, <2>1
<1>9. CASE p = k[1]
  <2> DEFINE keep == WithLogs /\ p \in DOMAIN pkgSpans
             r == Route(dumps[k[1]], x, t, keep)
  <2>1. /\ HearSpeech(k, ev, v, w) => Passes(r, ev, w)
        /\ HearPanic(k, ev, v, w) => Passes(r, ev, w) \/ Dumps(r, ev, v, w)
        /\ HearSpeech(k, ev, v, w) \/ HearPanic(k, ev, v, w)
    BY <1>1, <1>9, OutputRouted
  <2>r. Routed(p, t, x) = r
    BY <1>9 DEF Routed
  <2>2. CASE HearSpeech(k, ev, v, w)
    <3>1. /\ v.pan = 0 /\ w.pan = 0 /\ w.kept = v.kept /\ w.who = v.who /\ x \in Texts
          /\ t = k[2] => v.on
          /\ w.said = IF t = k[2] THEN v.said \o x ELSE v.said
      BY <2>2 DEF HearSpeech
    <3>2. v.kept = <<>>
      <4>1. ~Complete(0)
        BY <1>v, Fragments
      <4> QED BY <3>1, <4>1, JoinedStep DEF Sound
    <3>3. CASE t = k[2]
      <4>1. x \in Text /\ x # <<>> /\ ~IsFrame(x)
        BY <3>1, Texted1 DEF Orderly
      <4>2. Logs(k, v) = v.said /\ Logs(k, w) = v.said \o x
        <5>1. v.said \o x \in Text
          BY <1>v, <4>1, ConcatProperties DEF Text
        <5>2. v.said \o <<>> = v.said /\ (v.said \o x) \o <<>> = v.said \o x
          BY <1>v, <5>1, ConcatEmptySeq DEF Text
        <5> QED BY <3>1, <3>2, <3>3, <5>2 DEF Logs
      <4>3. r.dump = <<>>
        BY <2>1, <2>2 DEF Passes
      <4> QED BY <1>0, <1>7, <1>9, <2>r, <3>1, <3>3, <4>1, <4>2, <4>3
    <3>4. CASE t # k[2]
      <4>1. Logs(k, w) = Logs(k, v)
        BY <3>1, <3>4 DEF Logs
      <4> QED BY <1>0, <1>6, <3>4, <4>1
    <3> QED BY <3>3, <3>4
  <2>3. CASE HearPanic(k, ev, v, w)
    <3>1. /\ w.pan = v.pan + 1 /\ x = Panic[w.pan] /\ w.who = t /\ w.said = v.said
          /\ w.kept = IF Complete(w.pan) THEN v.kept ELSE Joined(w.pan)
          /\ t = k[2] => v.on
      BY <2>3 DEF HearPanic
    <3>2. Logs(k, v) = v.said \o (IF t = k[2] THEN v.kept ELSE <<>>)
      BY <2>3, LogsInPanic
    <3>3. Logs(k, w) = v.said \o (IF t = k[2] THEN w.kept ELSE <<>>)
      BY <3>1 DEF Logs
    <3>4. CASE t # k[2]
      BY <1>0, <1>6, <3>2, <3>3, <3>4
    <3>5. CASE t = k[2] /\ Dumps(r, ev, v, w)
      <4>1. w.kept = v.kept
        BY <3>1, <3>5 DEF Dumps
      <4>2. Logs(k, w) = Logs(k, v)
        BY <3>2, <3>3, <4>1
      <4>3. r.dump # <<>> /\ r.before = <<>>
        BY <3>5 DEF Dumps
      <4>5. PICK a : logged' = LogTest(LogPackage(logged, p, a), p, t, <<>>)
        BY <1>1, <2>r, <4>3, OutputLogs
      <4>6. \A log : LogTest(log, p, t, <<>>) = log
        BY DEF LogTest
      <4>7. logged'[i] = logged[i]
        BY <1>5, <4>5, <4>6
      <4> QED BY <1>4, <4>2, <4>7
    <3>6. CASE t = k[2] /\ Passes(r, ev, w)
      <4>1. ~Complete(w.pan) /\ r.dump = <<>>
        BY <3>6 DEF Passes
      <4>2. /\ x \in Seq(STRING) /\ x # <<>> /\ Joined(w.pan) = Joined(v.pan) \o x
            /\ Complete(v.pan) => Complete(w.pan)
        BY <1>v, <3>1, Fragments
      <4>3. x \in Text
        BY <4>2, Texted1
      <4>4. w.kept = v.kept \o x
        BY <3>1, <4>1, <4>2 DEF Sound
      <4>5. IsStrictPrefix(v.kept \o x, Signature)
        <5>1. Sound(w)
          BY HearSound
        <5> QED BY <4>4, <5>1 DEF Sound
      <4>6. ~IsFrame(x)
        BY <1>v, <4>2, <4>3, <4>5, PartNotFrame
      <4>7. Logs(k, w) = Logs(k, v) \o x
        <5>1. PICK a \in Seq(Lump), b \in Seq(Lump), c \in Seq(Lump) :
                a = v.said /\ b = v.kept /\ c = x
          BY <1>v, <4>3 DEF Text
        <5>2. (a \o b) \o c = a \o (b \o c)
          BY Regroup, SMTT(30)
        <5> QED BY <3>2, <3>3, <3>6, <4>4, <5>1, <5>2
      <4> QED BY <1>0, <1>7, <1>9, <2>r, <3>1, <3>6, <4>1, <4>2, <4>3, <4>6, <4>7
    <3> QED BY <2>1, <2>3, <3>4, <3>5, <3>6
  <2> QED BY <2>1, <2>2, <2>3
<1> QED BY <1>8, <1>9
----------------------------------------------------------------------------
(* The buffer of a test that is on.                                        *)

LEMMA SuffixOf ==
    ASSUME NEW a \in Text, NEW b \in Text
    PROVE  IsSuffix(b, a \o b) /\ SubSeq(a \o b, 1, Len(a \o b) - Len(b)) = a
<1> DEFINE c == a \o b
           rb == Reverse(b)
           rc == Reverse(c)
<1>0. a \in Seq(Lump) /\ b \in Seq(Lump) /\ Len(a) \in Nat /\ Len(b) \in Nat
  BY LenProperties DEF Text
<1>1. /\ c \in Seq(Lump) /\ Len(c) = Len(a) + Len(b)
      /\ \A i \in 1..Len(a) + Len(b) : c[i] = IF i <= Len(a) THEN a[i] ELSE b[i - Len(a)]
  BY <1>0, ConcatProperties
<1> HIDE DEF c
<1>2. \A i \in 1..Len(b) : b[Len(b) - i + 1] \in Lump
  <2>1. \A i \in 1..Len(b) : Len(b) - i + 1 \in 1..Len(b)
    BY <1>0
  <2>2. \A i \in 1..Len(b) : b[i] \in Lump
    BY <1>0, ElementOfSeq
  <2> QED BY <2>1, <2>2
<1>3. \A i \in 1..Len(c) : c[Len(c) - i + 1] \in Lump
  <2>1. \A i \in 1..Len(c) : Len(c) - i + 1 \in 1..Len(c)
    BY <1>0, <1>1
  <2>2. \A i \in 1..Len(c) : c[i] \in Lump
    BY <1>1, ElementOfSeq
  <2> QED BY <2>1, <2>2
<1>4. /\ rb \in Seq(Lump) /\ Len(rb) = Len(b)
      /\ \A i \in 1..Len(b) : rb[i] = b[Len(b) - i + 1]
  BY <1>0, <1>2 DEF Reverse
<1>5. /\ rc \in Seq(Lump) /\ Len(rc) = Len(c)
      /\ \A i \in 1..Len(c) : rc[i] = c[Len(c) - i + 1]
  BY <1>0, <1>1, <1>3 DEF Reverse
<1> HIDE DEF rb, rc
<1>6. \A i \in 1..Len(b) : rb[i] = rc[i]
  <2> TAKE i \in 1..Len(b)
  <2>1. /\ i \in 1..Len(c) /\ Len(c) - i + 1 \in 1..Len(a) + Len(b)
        /\ ~(Len(c) - i + 1 <= Len(a)) /\ (Len(c) - i + 1) - Len(a) = Len(b) - i + 1
    BY <1>0, <1>1
  <2>2. c[Len(c) - i + 1] = b[(Len(c) - i + 1) - Len(a)]
    BY <1>1, <2>1
  <2> QED BY <1>4, <1>5, <2>1, <2>2
<1>7. IsPrefix(rb, rc)
  <2>1. rb \in Seq(Lump) /\ rc \in Seq(Lump)
    BY <1>4, <1>5
  <2>2. Len(rb) <= Len(rc) /\ \A i \in 1..Len(rb) : rb[i] = rc[i]
    BY <1>0, <1>1, <1>4, <1>5, <1>6
  <2> QED BY <2>1, <2>2, PrefixIs
<1>8. IsSuffix(b, c)
  BY <1>7 DEF IsSuffix, rb, rc
<1>9. SubSeq(c, 1, Len(a)) = a
  <2> DEFINE s == SubSeq(c, 1, Len(a))
  <2>1. s \in Seq(Lump) /\ Len(s) = Len(a) /\ \A i \in 1..Len(a) : s[i] = c[i]
    <3>1. \A i \in 1..Len(a) : c[i] \in Lump
      <4>1. \A i \in 1..Len(a) : i \in 1..Len(c)
        BY <1>0, <1>1
      <4> QED BY <1>1, <4>1, ElementOfSeq
    <3>2. 1 \in Int /\ Len(a) \in Int /\ \A i \in 1..Len(a) : c[i] \in Lump
      BY <1>0, <3>1
    <3> QED BY <1>0, <1>1, <3>2, SubSeqProperties
  <2> HIDE DEF s
  <2>2. \A i \in 1..Len(a) : s[i] = a[i]
    <3>1. \A i \in 1..Len(a) : i \in 1..Len(a) + Len(b) /\ i <= Len(a)
      BY <1>0
    <3> QED BY <1>1, <2>1, <3>1
  <2> QED BY <1>0, <2>1, <2>2, SeqEqual DEF s
<1>10. Len(c) - Len(b) = Len(a)
  BY <1>0, <1>1
<1> QED BY <1>8, <1>9, <1>10 DEF c

\* The start of the panic is in the buffer of the test that prints it.
LEMMA BuffersInPanic ==
    ASSUME Orderly, NEW k \in Keys, NEW v, Sound(v), NEW ev, NEW w \in Voice,
           HearPanic(k, ev, v, w)
    PROVE  Buffers(k, v) = v.said \o (IF ev.test = k[2] /\ ~Complete(v.pan) THEN v.kept ELSE <<>>)
<1>1. CASE v.pan = 0
  <2>1. ~Complete(0)
    <3>1. 0 \in 0..Len(Panic)
      BY SessionAssumption, LenProperties
    <3> QED BY <3>1, Fragments
  <2>2. v.kept = <<>>
    BY <1>1, <2>1, JoinedStep DEF Sound
  <2> QED BY <2>2 DEF Buffers
<1>2. CASE v.pan # 0
  BY <1>2 DEF Buffers, HearPanic
<1> QED BY <1>1, <1>2

LEMMA HearsBufferAside ==
    ASSUME Orderly, RunInv, NEW k \in Keys, NEW v, Sound(v), HeardOn(k, v), HeardBuffer(k, v),
           NEW ev \in Event, Handle(ev), NEW w \in Voice, Hear(k, v, ev, w),
           ev.action # "output"
    PROVE  HeardBuffer(k, w)'
<1> DEFINE p == ev.pkg
           t == ev.test
<1>0. /\ k[1] \in Pkgs /\ k[2] \in Names /\ k[2] # NoTest /\ k = <<k[1], k[2]>>
      /\ p \in Pkgs /\ t \in Names \cup {NoTest}
      /\ <<p, t>> = k <=> p = k[1] /\ t = k[2]
      /\ w.on \in BOOLEAN /\ v.on \in BOOLEAN /\ BufferOutput \in BOOLEAN
  BY HearsKey DEF Sound, Voice, BufferOutput
<1>1. CASE ev.action = "run" /\ <<p, t>> = k
  <2>1. Run(p, t)
    BY <1>1 DEF Handle
  <2>2. buffered'[k] = <<>>
    BY <1>1, <2>1 DEF Run, Put
  <2>3. HearRun(k, ev, v, w)
    BY <1>0, <1>1 DEF Hear, HearAside, HearResult, HearSpeech, HearPanic, HearOver, Verdicts
  <2>4. Buffers(k, w) = <<>>
    <3>1. ~Complete(0)
      <4>1. 0 \in 0..Len(Panic)
        BY SessionAssumption, LenProperties
      <4> QED BY <4>1, Fragments
    <3>2. w.said = <<>> /\ w.kept = <<>>
      BY <2>3, <3>1, JoinedStep DEF Sound, HearRun
    <3> QED BY <3>2 DEF Buffers
  <2> QED BY <2>2, <2>4 DEF HeardBuffer
<1>2. CASE w.on /\ ~(ev.action = "run" /\ <<p, t>> = k)
  <2>1. v.on /\ Buffers(k, w) = Buffers(k, v)
    BY <1>0, <1>2 DEF Hear, HearAside, HearRun, HearResult, HearSpeech, HearPanic, HearOver, Buffers
  <2>2. k \in DOMAIN spans /\ k \in DOMAIN buffered
    BY <2>1 DEF HeardOn, RunInv, RunTypeOK
  <2>3. buffered'[k] = buffered[k]
    <3>1. ASSUME p = k[1] PROVE ~(ev.action \in Verdicts /\ t \in {NoTest, k[2]})
      BY <1>0, <1>2, <3>1 DEF Hear, HearAside, HearRun, HearResult, HearSpeech, HearPanic, HearOver, Verdicts
    <3>2. ev.action = "run" /\ Run(p, t) => buffered'[k] = buffered[k]
      BY <1>2, <2>2 DEF Run, Put
    <3>3. ev.action \in {"pass", "fail", "skip"} /\ t # NoTest /\ TestResult(p, t, ev.action) =>
            buffered'[k] = buffered[k]
      <4> SUFFICES ASSUME ev.action \in {"pass", "fail", "skip"}, t # NoTest,
                          TestResult(p, t, ev.action)
                   PROVE  buffered'[k] = buffered[k]
        OBVIOUS
      <4>1. <<p, t>> # k
        BY <1>0, <3>1 DEF Verdicts
      <4> QED BY <2>2, <4>1 DEF TestResult, Del
    <3>4. t = NoTest /\ ev.action = "fail" /\ PackageFail(p) => buffered'[k] = buffered[k]
      <4> SUFFICES ASSUME t = NoTest, ev.action = "fail", PackageFail(p)
                   PROVE  buffered'[k] = buffered[k]
        OBVIOUS
      <4>1. p # k[1]
        BY <3>1 DEF Verdicts
      <4>2. k \notin Unfinished(p)
        BY <4>1 DEF Unfinished
      <4>3. buffered' = Del(buffered, Unfinished(p))
        BY DEF PackageFail, DropUnfinished
      <4> QED BY <2>2, <4>2, <4>3 DEF Del
    <3>5. PackageStart(p) \/ PackagePass(p) \/ PackageSkip(p) \/ Pause(p, t) \/ Cont(p, t)
            \/ PassThrough(ev.text) => UNCHANGED buffered
      BY DEF PackageStart, PackagePass, PackageSkip, Pause, Cont, PassThrough
    <3> QED BY <3>2, <3>3, <3>4, <3>5 DEF Handle
  <2> QED BY <2>1, <2>3 DEF HeardBuffer
<1>3. CASE ~w.on
  BY <1>3 DEF HeardBuffer
<1> QED BY <1>1, <1>2, <1>3

Trimmed(p, r) == IF r.carried # <<>> /\ r.carriedTest # NoTest
                 THEN Unbuffered(buffered, p, r.carriedTest, r.carried) ELSE buffered

LEMMA OutputBuffers ==
    ASSUME NEW p, NEW t, NEW x, Output(p, t, x), BufferOutput
    PROVE  LET r == Routed(p, t, x) IN
           \/ /\ r.dump = <<>>
              /\ buffered' = IF t # NoTest THEN Buffered(buffered, p, t, x) ELSE buffered
           \/ /\ r.dump # <<>>
              /\ buffered' = IF t # NoTest THEN Buffered(Trimmed(p, r), p, t, r.before)
                             ELSE Trimmed(p, r)
<1>1. CASE OutputPlain(p, t, x)
  BY <1>1 DEF OutputPlain
<1>2. CASE OutputDump(p, t, x)
  BY <1>2 DEF OutputDump, Trimmed
<1> QED BY <1>1, <1>2 DEF Output

LEMMA BufferedElsewhere ==
    ASSUME NEW k, NEW p, NEW t, <<p, t>> # k, NEW f, NEW x
    PROVE  Buffered(f, p, t, x)[k] = f[k] /\ Unbuffered(f, p, t, x)[k] = f[k]
BY DEF Buffered, Unbuffered

LEMMA HearsBuffer ==
    ASSUME Orderly, RunInv, NEW k \in Keys, NEW v, Sound(v), HeardOn(k, v), HeardBuffer(k, v),
           HeardDump(k, v), NEW ev \in Event, Handle(ev), NEW w \in Voice, Hear(k, v, ev, w)
    PROVE  HeardBuffer(k, w)'
<1> DEFINE p == ev.pkg
           t == ev.test
           x == ev.text
<1>0. /\ k[1] \in Pkgs /\ k[2] \in Names /\ k[2] # NoTest /\ k = <<k[1], k[2]>>
      /\ p \in Pkgs /\ t \in Names \cup {NoTest}
      /\ <<p, t>> = k <=> p = k[1] /\ t = k[2]
  BY HearsKey
<1>v. /\ v \in Voice /\ v.said \in Text /\ v.kept \in Text /\ w.kept \in Text
      /\ v.pan \in 0..Len(Panic) /\ w.pan \in 0..Len(Panic) /\ Len(Panic) \in Nat
  BY SessionAssumption, LenProperties DEF Sound, Voice
<1> SUFFICES ASSUME ev.action = "output", BufferOutput, w.on
             PROVE  buffered'[k] = Buffers(k, w)
  BY HearsBufferAside DEF HeardBuffer
<1>1. Output(p, t, x) /\ ~returned
  BY DEF Handle
<1>2. v.on
  BY DEF Hear, HearAside, HearRun, HearResult, HearSpeech, HearPanic, HearOver, Verdicts
<1>3. buffered[k] = Buffers(k, v) /\ k \in DOMAIN buffered
  BY <1>2 DEF HeardBuffer, HeardOn, RunInv, RunTypeOK
<1> DEFINE r == Routed(p, t, x)
<1>4. \/ /\ r.dump = <<>>
         /\ buffered' = IF t # NoTest THEN Buffered(buffered, p, t, x) ELSE buffered
      \/ /\ r.dump # <<>>
         /\ buffered' = IF t # NoTest THEN Buffered(Trimmed(p, r), p, t, r.before)
                        ELSE Trimmed(p, r)
  BY <1>1, OutputBuffers
<1> HIDE DEF r
<1>5. CASE p # k[1]
  <2>1. w = v
    BY <1>5 DEF Hear
  <2>2. PICK q, u, z : q = p /\ u = t /\ z = x
    OBVIOUS
  <2>3. \A a, f, c : <<q, a>> # k
    BY <1>0, <1>5, <2>2
  <2>4. \A a, f, c : Buffered(f, q, a, c)[k] = f[k] /\ Unbuffered(f, q, a, c)[k] = f[k]
    BY <2>3, BufferedElsewhere
  <2>5. buffered'[k] = buffered[k]
    BY <1>4, <2>2, <2>4 DEF Trimmed
  <2> QED BY <1>3, <2>1, <2>5
<1>6. CASE p = k[1]
  <2>1. /\ HearSpeech(k, ev, v, w) => Passes(r, ev, w)
        /\ HearPanic(k, ev, v, w) => Passes(r, ev, w) \/ Dumps(r, ev, v, w)
        /\ HearSpeech(k, ev, v, w) \/ HearPanic(k, ev, v, w)
    <3> DEFINE keep == WithLogs /\ p \in DOMAIN pkgSpans
    <3>1. r = Route(dumps[k[1]], x, t, keep)
      BY <1>6 DEF Routed, r
    <3> QED BY <1>1, <1>6, <3>1, OutputRouted
  <2>2. PICK q, u, z : q = p /\ u = t /\ z = x
    OBVIOUS
  <2>3. \A a, f, c : a # k[2] => Buffered(f, q, a, c)[k] = f[k] /\ Unbuffered(f, q, a, c)[k] = f[k]
    <3>1. \A a : a # k[2] => <<q, a>> # k
      BY <1>0
    <3> QED BY <3>1, BufferedElsewhere
  <2>4. CASE HearSpeech(k, ev, v, w)
    <3>1. /\ v.pan = 0 /\ w.pan = 0 /\ w.kept = v.kept /\ w.who = v.who /\ x \in Texts
          /\ t # NoTest
          /\ w.said = IF t = k[2] THEN v.said \o x ELSE v.said
      BY <2>4 DEF HearSpeech
    <3>2. v.kept = <<>>
      <4>1. ~Complete(0)
        BY <1>v, Fragments
      <4> QED BY <3>1, <4>1, JoinedStep DEF Sound
    <3>3. buffered' = Buffered(buffered, q, u, z)
      BY <1>4, <2>1, <2>2, <2>4, <3>1 DEF Passes
    <3>4. CASE t = k[2]
      <4>1. x \in Text
        BY <3>1, Texted1
      <4>2. Buffers(k, v) = v.said /\ Buffers(k, w) = v.said \o x
        <5>1. v.said \o x \in Text
          BY <1>v, <4>1, ConcatProperties DEF Text
        <5>2. v.said \o <<>> = v.said /\ (v.said \o x) \o <<>> = v.said \o x
          BY <1>v, <5>1, ConcatEmptySeq DEF Text
        <5> QED BY <3>1, <3>2, <3>4, <5>2 DEF Buffers
      <4>3. <<q, u>> = k
        BY <1>0, <1>6, <2>2, <3>4
      <4>4. buffered'[k] = buffered[k] \o z
        BY <1>3, <3>3, <4>3 DEF Buffered
      <4> QED BY <1>3, <2>2, <4>2, <4>4
    <3>5. CASE t # k[2]
      <4>1. Buffers(k, w) = Buffers(k, v)
        BY <3>1, <3>5 DEF Buffers
      <4>2. buffered'[k] = buffered[k]
        BY <2>2, <2>3, <3>3, <3>5
      <4> QED BY <1>3, <4>1, <4>2
    <3> QED BY <3>4, <3>5
  <2>5. CASE HearPanic(k, ev, v, w)
    <3>1. /\ w.pan = v.pan + 1 /\ x = Panic[w.pan] /\ w.who = t /\ w.said = v.said
          /\ w.kept = IF Complete(w.pan) THEN v.kept ELSE Joined(w.pan)
          /\ v.pan # 0 => t = v.who
      BY <2>5 DEF HearPanic
    <3>2. Buffers(k, v) = v.said \o (IF t = k[2] /\ ~Complete(v.pan) THEN v.kept ELSE <<>>)
      BY <2>5, BuffersInPanic
    <3>3. Buffers(k, w) = v.said \o (IF t = k[2] /\ ~Complete(w.pan) THEN w.kept ELSE <<>>)
      BY <3>1 DEF Buffers
    <3>4. /\ x \in Seq(STRING) /\ x # <<>> /\ Joined(w.pan) = Joined(v.pan) \o x
          /\ Complete(v.pan) => Complete(w.pan)
      BY <1>v, <3>1, Fragments
    <3>5. x \in Text
      BY <3>4, Texted1
    <3>6. CASE Passes(r, ev, w)
      <4>1. ~Complete(w.pan) /\ ~Complete(v.pan) /\ r.dump = <<>>
        BY <3>4, <3>6 DEF Passes
      <4>2. buffered' = IF u # NoTest THEN Buffered(buffered, q, u, z) ELSE buffered
        BY <1>4, <2>2, <4>1
      <4>3. CASE t # k[2]
        BY <1>3, <2>2, <2>3, <3>2, <3>3, <4>2, <4>3
      <4>4. CASE t = k[2]
        <5>1. <<q, u>> = k /\ u # NoTest
          BY <1>0, <1>6, <2>2, <4>4
        <5>2. buffered'[k] = buffered[k] \o z
          BY <1>3, <4>2, <5>1 DEF Buffered
        <5>3. w.kept = v.kept \o x
          BY <3>1, <3>4, <4>1 DEF Sound
        <5>4. PICK a \in Seq(Lump), b \in Seq(Lump), c \in Seq(Lump) :
                a = v.said /\ b = v.kept /\ c = x
          BY <1>v, <3>5 DEF Text
        <5>5. (a \o b) \o c = a \o (b \o c)
          BY Regroup, SMTT(30)
        <5> QED BY <1>3, <2>2, <3>2, <3>3, <4>1, <4>4, <5>2, <5>3, <5>4, <5>5
      <4> QED BY <4>3, <4>4
    <3>7. CASE Dumps(r, ev, v, w)
      <4>1. /\ Complete(w.pan) /\ r.dump # <<>> /\ r.before = <<>>
            /\ r.carried = IF Complete(v.pan) THEN <<>> ELSE v.kept
            /\ r.carried # <<>> => r.carriedTest = v.who
        BY <3>7 DEF Dumps
      <4> DEFINE f == Trimmed(p, r)
      <4>2. buffered' = IF u # NoTest THEN Buffered(f, q, u, <<>>) ELSE f
        BY <1>4, <2>2, <4>1
      <4>3. Buffers(k, w) = v.said
        <5>1. v.said \o <<>> = v.said
          BY <1>v, ConcatEmptySeq DEF Text
        <5> QED BY <3>3, <4>1, <5>1
      <4>4. v.kept # <<>> /\ ~Complete(v.pan) => t = v.who
        <5>1. v.pan = 0 /\ ~Complete(v.pan) => v.kept = <<>>
          BY JoinedStep DEF Sound
        <5> QED BY <3>1, <5>1
      <4>5. f[k] = v.said /\ k \in DOMAIN f
        <5>1. CASE r.carried = <<>>
          <6>1. f = buffered
            BY <5>1 DEF Trimmed
          <6>2. Buffers(k, v) = v.said
            <7>1. v.said \o <<>> = v.said
              BY <1>v, ConcatEmptySeq DEF Text
            <7>2. ~Complete(v.pan) => v.kept = <<>>
              BY <4>1, <5>1
            <7> QED BY <3>2, <7>1, <7>2
          <6> QED BY <1>3, <6>1, <6>2
        <5>2. CASE r.carried # <<>>
          <6>1. r.carried = v.kept /\ r.carriedTest = t /\ ~Complete(v.pan)
            BY <4>1, <4>4, <5>2
          <6>2. f = IF u # NoTest THEN Unbuffered(buffered, q, u, v.kept) ELSE buffered
            BY <2>2, <5>2, <6>1 DEF Trimmed
          <6>3. CASE t # k[2]
            <7>1. Buffers(k, v) = v.said
              <8>1. v.said \o <<>> = v.said
                BY <1>v, ConcatEmptySeq DEF Text
              <8> QED BY <3>2, <6>3, <8>1
            <7>2. f[k] = buffered[k]
              BY <2>2, <2>3, <6>2, <6>3
            <7>3. DOMAIN f = DOMAIN buffered
              BY <6>2 DEF Unbuffered
            <7> QED BY <1>3, <7>1, <7>2, <7>3
          <6>4. CASE t = k[2]
            <7>1. Buffers(k, v) = v.said \o v.kept
              BY <3>2, <6>1, <6>4
            <7>2. <<q, u>> = k /\ u # NoTest
              BY <1>0, <1>6, <2>2, <6>4
            <7> DEFINE b == v.said \o v.kept
            <7>3. IsSuffix(v.kept, b) /\ SubSeq(b, 1, Len(b) - Len(v.kept)) = v.said
              BY <1>v, SuffixOf
            <7> HIDE DEF b
            <7>4. buffered[k] = b
              BY <1>3, <7>1 DEF b
            <7>5. f = Unbuffered(buffered, q, u, v.kept)
              BY <6>2, <7>2
            <7>6. f[k] = SubSeq(b, 1, Len(b) - Len(v.kept)) /\ k \in DOMAIN f
              BY <1>3, <7>2, <7>3, <7>4, <7>5 DEF Unbuffered
            <7> QED BY <7>3, <7>6
          <6> QED BY <6>3, <6>4
        <5> QED BY <5>1, <5>2
      <4> HIDE DEF f
      <4>6. buffered'[k] = v.said
        <5>1. CASE t # k[2]
          BY <2>2, <2>3, <4>2, <4>5, <5>1
        <5>2. CASE t = k[2]
          <6>1. <<q, u>> = k /\ u # NoTest
            BY <1>0, <1>6, <2>2, <5>2
          <6>2. buffered'[k] = v.said \o <<>>
            BY <4>2, <4>5, <6>1 DEF Buffered
          <6>3. v.said \o <<>> = v.said
            BY <1>v, ConcatEmptySeq DEF Text
          <6> QED BY <6>2, <6>3
        <5> QED BY <5>1, <5>2
      <4> QED BY <4>3, <4>6
    <3> QED BY <2>1, <2>5, <3>6, <3>7
  <2> QED BY <2>1, <2>4, <2>5
<1> QED BY <1>5, <1>6
----------------------------------------------------------------------------
(* What is printed for a test.                                             *)

LEMMA AddsNothing ==
    ASSUME NEW o, NEW k, Rows(o, k), NEW w, Adds(w, k, <<>>)
    PROVE  Rows(o \o w, k) /\ TextOf(o \o w, k) = TextOf(o, k)
<1>1. Rows(o \o w, k) /\ TextOf(o \o w, k) = TextOf(o, k) \o <<>>
  <2>1. PICK x \in Text : x = <<>>
    BY Texted1
  <2>2. Adds(w, k, x)
    BY <2>1
  <2>3. Rows(o \o w, k) /\ TextOf(o \o w, k) = TextOf(o, k) \o x
    BY <2>2, RowAdds
  <2> QED BY <2>1, <2>3
<1>2. TextOf(o, k) \o <<>> = TextOf(o, k)
  BY RowsTexts, ConcatEmptySeq DEF Text
<1> QED BY <1>1, <1>2

LEMMA CalmBuffers ==
    ASSUME Orderly, NEW k \in Keys, NEW v, Sound(v), Calm(v)
    PROVE  /\ Buffers(k, v) = v.said /\ v.said \in Text /\ Terminated(v.said) = v.said
<1>1. v.said \in Text /\ v.pan \in 0..Len(Panic) /\ Len(Panic) \in Nat
  BY SessionAssumption, LenProperties DEF Sound, Voice
<1>2. v.said \o <<>> = v.said
  BY <1>1, ConcatEmptySeq DEF Text
<1>3. Complete(v.pan) \/ v.kept = <<>>
  <2>1. CASE v.pan = 0
    <3>1. ~Complete(0)
      BY <1>1, Fragments
    <3> QED BY <2>1, <3>1, JoinedStep DEF Sound
  <2>2. CASE v.pan # 0
    <3>1. v.pan = Len(Panic)
      BY <2>2 DEF Calm
    <3> QED BY <1>1, <2>2, <3>1, Fragments
  <2> QED BY <2>1, <2>2
<1>4. Terminated(v.said) = v.said
  BY DEF Sound, Terminated
<1>5. Buffers(k, v) = v.said
  BY <1>2, <1>3 DEF Buffers
<1> QED BY <1>1, <1>4, <1>5

\* An unfinished test is printed with its buffer, in the turn of its name.
LEMMA UnfinishedPrinted ==
    ASSUME NEW o, NEW k \in Keys, Rows(o, k), NEW p, NEW x \in Text,
           p = k[1] /\ k \in DOMAIN spans => Terminated(buffered[k]) = x,
           ~(p = k[1] /\ k \in DOMAIN spans) => x = <<>>
    PROVE  /\ Rows(o \o UnfinishedOutput(p), k)
           /\ TextOf(o \o UnfinishedOutput(p), k) = TextOf(o, k) \o x
<1> DEFINE row(n) == [what |-> "unfinished", pkg |-> p, test |-> NameOrder[n],
                      text |-> Terminated(buffered[<<p, NameOrder[n]>>])]
           on(n) == <<p, NameOrder[n]>> \in DOMAIN spans
           S == {row(n) : n \in DOMAIN NameOrder}
           w == [n \in DOMAIN NameOrder |-> IF on(n) THEN <<row(n)>> ELSE <<>>]
<1>0. /\ NameOrder \in Seq(Names) /\ Len(NameOrder) \in Nat
      /\ DOMAIN NameOrder = 1..Len(NameOrder)
  BY OrderAssumption, LenProperties
<1>1. UnfinishedOutput(p) = FlattenSeq(w)
  BY DEF UnfinishedOutput, Write
<1>2. \A n \in DOMAIN NameOrder : w[n] = IF on(n) THEN <<row(n)>> ELSE <<>>
  OBVIOUS
<1>3. w \in Seq(Seq(S)) /\ Len(w) = Len(NameOrder)
  <2>1. ASSUME NEW n \in DOMAIN NameOrder PROVE w[n] \in Seq(S)
    <3>1. row(n) \in S
      OBVIOUS
    <3> HIDE DEF row, S
    <3>2. <<row(n)>> \in Seq(S) /\ <<>> \in Seq(S)
      BY <3>1
    <3> HIDE DEF w, on
    <3> QED BY <1>2, <3>2
  <2>2. w = [n \in 1..Len(NameOrder) |-> w[n]] /\ DOMAIN w = 1..Len(NameOrder)
    BY <1>0
  <2>3. PICK m \in Nat : m = Len(NameOrder)
    BY <1>0
  <2> HIDE DEF w, S
  <2>4. w \in [1..m -> Seq(S)] /\ DOMAIN w = 1..m
    BY <1>0, <2>1, <2>2, <2>3
  <2>5. w \in Seq(Seq(S))
    BY <2>4
  <2>6. DOMAIN w = 1..Len(w) /\ Len(w) \in Nat
    BY <2>5, LenProperties
  <2> QED BY <2>3, <2>4, <2>5, <2>6
<1> HIDE DEF w, S
<1>4. PICK at : /\ at \in 0..Len(w) /\ (at = 0 => x = <<>>)
                /\ \A n \in 1..Len(w) : Adds(w[n], k, IF n = at THEN x ELSE <<>>)
  <2>0. k[1] \in Pkgs /\ k[2] \in Names /\ k = <<k[1], k[2]>>
    BY DEF Keys
  <2>1. ASSUME NEW n \in DOMAIN NameOrder
        PROVE  /\ <<p, NameOrder[n]>> # k \/ ~on(n) => Adds(w[n], k, <<>>)
               /\ <<p, NameOrder[n]>> = k /\ on(n) => Adds(w[n], k, x)
    <3>1. Adds(<<>>, k, <<>>)
      BY DEF Adds
    <3>2. w[n] = IF on(n) THEN <<row(n)>> ELSE <<>>
      BY <1>2
    <3>3. Part(row(n), k) = IF <<p, NameOrder[n]>> = k
                            THEN Terminated(buffered[<<p, NameOrder[n]>>]) ELSE <<>>
      BY DEF Part, Matches
    <3>4. <<p, NameOrder[n]>> = k => p = k[1]
      OBVIOUS
    <3> HIDE DEF row
    <3>5. <<p, NameOrder[n]>> # k => Adds(<<row(n)>>, k, <<>>)
      BY <3>3 DEF Adds
    <3>6. <<p, NameOrder[n]>> = k /\ on(n) => Adds(<<row(n)>>, k, x)
      BY <3>3, <3>4 DEF Adds
    <3> HIDE DEF on
    <3> QED BY <3>1, <3>2, <3>5, <3>6
  <2>2. CASE p = k[1] /\ k \in DOMAIN spans
    <3>1. PICK at \in DOMAIN NameOrder : NameOrder[at] = k[2]
      BY <2>0 DEF Names, Range
    <3>2. /\ \A n \in DOMAIN NameOrder : <<p, NameOrder[n]>> = k => n = at
          /\ <<p, NameOrder[at]>> = k /\ on(at)
      BY <2>0, <2>2, <3>1, OrderAssumption
    <3> HIDE DEF on, row
    <3>3. \A n \in 1..Len(w) : Adds(w[n], k, IF n = at THEN x ELSE <<>>)
      <4> TAKE n \in 1..Len(w)
      <4>1. n \in DOMAIN NameOrder
        BY <1>0, <1>3
      <4>2. CASE n = at
        BY <2>1, <3>2, <4>1, <4>2
      <4>3. CASE n # at
        <5>1. <<p, NameOrder[n]>> # k
          BY <3>2, <4>1, <4>3
        <5> QED BY <2>1, <4>1, <4>3, <5>1
      <4> QED BY <4>2, <4>3
    <3>4. at \in 0..Len(w) /\ at # 0
      BY <1>0, <1>3, <3>1
    <3> QED BY <3>3, <3>4
  <2>3. CASE ~(p = k[1] /\ k \in DOMAIN spans)
    <3>1. \A n \in DOMAIN NameOrder : <<p, NameOrder[n]>> # k \/ ~on(n)
      BY <2>3
    <3> HIDE DEF on, row
    <3>2. x = <<>> /\ \A n \in 1..Len(w) : Adds(w[n], k, IF n = 0 THEN x ELSE <<>>)
      BY <1>0, <1>3, <2>1, <2>3, <3>1
    <3>3. 0 \in 0..Len(w)
      BY <1>0, <1>3
    <3> QED BY <3>2, <3>3
  <2> QED BY <2>2, <2>3
<1>5. InTurn(w, k, at, x)
  BY <1>4 DEF InTurn
<1> HIDE DEF on, row
<1>6. PICK T : w \in Seq(Seq(T))
  BY <1>3
<1>7. Rows(o \o FlattenSeq(w), k) /\ TextOf(o \o FlattenSeq(w), k) = TextOf(o, k) \o x
  BY <1>5, <1>6, RowsInTurn
<1> QED BY <1>1, <1>7

\* What no output, result or failure of the package prints.
LEMMA OutUnchanged ==
    ASSUME NEW ev \in Event, Handle(ev)
    PROVE  \/ UNCHANGED out /\ ev.action # "fail"
           \/ ev.action = "output" /\ Output(ev.pkg, ev.test, ev.text)
           \/ /\ ev.test # NoTest /\ ev.action \in Verdicts
              /\ TestResult(ev.pkg, ev.test, ev.action)
           \/ ev.test = NoTest /\ ev.action = "fail" /\ PackageFail(ev.pkg)
<1> DEFINE p == ev.pkg
           t == ev.test
<1>1. PackageStart(p) \/ PackagePass(p) \/ PackageSkip(p) \/ Run(p, t) \/ Pause(p, t)
        \/ Cont(p, t) => UNCHANGED out
  BY DEF PackageStart, PackagePass, PackageSkip, Run, Pause, Cont
<1>2. ev.action # "line"
  BY DEF Event, Actions
<1> QED BY <1>1, <1>2 DEF Handle, Verdicts

\* Output is never printed as a test's own.
LEMMA OutputRows ==
    ASSUME NEW k, Rows(out, k), NEW p, NEW t, NEW x, Output(p, t, x)
    PROVE  Rows(out', k) /\ TextOf(out', k) = TextOf(out, k)
<1> DEFINE r == Routed(p, t, x)
<1>1. \A y, q, u : /\ Adds(Write("output", q, u, y), k, <<>>)
                   /\ Adds(Write("dump", q, u, y), k, <<>>)
  <2> TAKE y, q, u
  <2>1. Adds(Write("output", q, u, y), k, <<>>)
    BY WriteAdds
  <2>2. Adds(Write("dump", q, u, y), k, <<>>)
    BY WriteAdds
  <2> QED BY <2>1, <2>2
<1>2. Adds(<<>>, k, <<>>)
  BY DEF Adds
<1>3. \/ UNCHANGED out
      \/ out' = out \o Write("output", p, t, x)
      \/ \E c, e, y : /\ out' = (out \o c) \o Write("dump", p, NoTest, y)
                      /\ c = <<>> \/ c = Write("output", p, t, e)
  <2>1. CASE OutputPlain(p, t, x)
    BY <2>1 DEF OutputPlain
  <2>2. CASE OutputDump(p, t, x)
    <3>1. CASE BufferOutput
      BY <2>2, <3>1 DEF OutputDump
    <3>2. CASE ~BufferOutput
      BY <2>2, <3>2 DEF OutputDump
    <3> QED BY <3>1, <3>2
  <2> QED BY <2>1, <2>2 DEF Output
<1>4. ASSUME NEW w, Adds(w, k, <<>>), out' = out \o w
      PROVE  Rows(out', k) /\ TextOf(out', k) = TextOf(out, k)
  <2>1. PICK o : o = out
    OBVIOUS
  <2>2. Rows(o \o w, k) /\ TextOf(o \o w, k) = TextOf(o, k)
    BY <1>4, <2>1, AddsNothing
  <2> QED BY <1>4, <2>1, <2>2
<1>5. ASSUME NEW c, NEW w, Adds(c, k, <<>>), Adds(w, k, <<>>), out' = (out \o c) \o w
      PROVE  Rows(out', k) /\ TextOf(out', k) = TextOf(out, k)
  <2>1. PICK o : o = out
    OBVIOUS
  <2>2. Rows(o \o c, k) /\ TextOf(o \o c, k) = TextOf(o, k)
    BY <1>5, <2>1, AddsNothing
  <2>3. PICK q : q = o \o c
    OBVIOUS
  <2>4. Rows(q \o w, k) /\ TextOf(q \o w, k) = TextOf(q, k)
    BY <1>5, <2>2, <2>3, AddsNothing
  <2> QED BY <1>5, <2>1, <2>2, <2>3, <2>4
<1>6. CASE \E c, e, y : /\ out' = (out \o c) \o Write("dump", p, NoTest, y)
                        /\ c = <<>> \/ c = Write("output", p, t, e)
  <2>1. PICK c, e, y : /\ out' = (out \o c) \o Write("dump", p, NoTest, y)
                       /\ c = <<>> \/ c = Write("output", p, t, e)
    BY <1>6
  <2>2. Adds(c, k, <<>>)
    BY <1>1, <1>2, <2>1
  <2>3. PICK w : w = Write("dump", p, NoTest, y) /\ Adds(w, k, <<>>)
    BY <1>1
  <2> QED BY <1>5, <2>1, <2>2, <2>3
<1>7. CASE out' = out \o Write("output", p, t, x)
  <2>1. PICK w : w = Write("output", p, t, x) /\ Adds(w, k, <<>>)
    BY <1>1
  <2> QED BY <1>4, <1>7, <2>1
<1>8. UNCHANGED out => Rows(out', k) /\ TextOf(out', k) = TextOf(out, k)
  OBVIOUS
<1> QED BY <1>3, <1>6, <1>7, <1>8

LEMMA HearsOut ==
    ASSUME Orderly, RunInv, NEW k \in Keys, NEW v, Sound(v), HeardOn(k, v), HeardBuffer(k, v),
           HeardOut(k, v), NEW ev \in Event, Handle(ev), NEW w \in Voice, Hear(k, v, ev, w)
    PROVE  HeardOut(k, w)'
<1> DEFINE p == ev.pkg
           t == ev.test
<1>0. /\ k[1] \in Pkgs /\ k[2] \in Names /\ k[2] # NoTest /\ k = <<k[1], k[2]>>
      /\ p \in Pkgs /\ t \in Names \cup {NoTest}
      /\ <<p, t>> = k <=> p = k[1] /\ t = k[2]
      /\ v.on \in BOOLEAN /\ v.said \in Text /\ v.owed \in Text
  BY HearsKey DEF Sound, Voice
<1> SUFFICES ASSUME BufferOutput PROVE Rows(out', k) /\ TextOf(out', k) = w.owed
  BY DEF HeardOut
<1>1. Rows(out, k) /\ TextOf(out, k) = v.owed
  BY DEF HeardOut
<1>2. CASE UNCHANGED out /\ ev.action # "fail"
  <2>1. w.owed = v.owed
    BY <1>0, <1>2 DEF Hear, HearAside, HearRun, HearResult, HearSpeech, HearPanic, HearOver
  <2> QED BY <1>1, <1>2, <2>1
<1>3. CASE ev.action = "output" /\ Output(p, t, ev.text)
  <2>1. w.owed = v.owed
    BY <1>3 DEF Hear, HearAside, HearRun, HearResult, HearSpeech, HearPanic, HearOver, Verdicts
  <2>2. PICK q, u, z : q = p /\ u = t /\ z = ev.text
    OBVIOUS
  <2>3. Rows(out', k) /\ TextOf(out', k) = TextOf(out, k)
    BY <1>1, <1>3, <2>2, OutputRows
  <2> QED BY <1>1, <2>1, <2>3
<1>c. v.on => k \in DOMAIN spans /\ buffered[k] = Buffers(k, v)
  BY DEF HeardOn, HeardBuffer
<1>4. CASE t # NoTest /\ ev.action \in Verdicts /\ TestResult(p, t, ev.action)
  <2>1. \/ UNCHANGED out /\ (ev.action # "fail" \/ <<p, t>> \notin DOMAIN spans)
        \/ ev.action = "fail" /\ out' = out \o Write("buffered", p, t, buffered[<<p, t>>])
    <3>1. WithOutput /\ ~Verbose
      BY DEF BufferOutput
    <3> QED BY <1>4, <3>1 DEF TestResult
  <2>2. CASE <<p, t>> = k
    <3>1. HearResult(k, ev, v, w)
      BY <1>0, <1>4, <2>2 DEF Hear, HearAside, HearRun, HearSpeech, HearPanic, HearOver, Verdicts
    <3>2. v.on /\ Calm(v) /\ w.owed = IF ev.action = "fail" THEN v.owed \o v.said ELSE v.owed
      BY <3>1 DEF HearResult
    <3>3. buffered[k] = v.said /\ k \in DOMAIN spans
      BY <1>c, <3>2, CalmBuffers
    <3>4. CASE ev.action # "fail"
      BY <1>1, <2>1, <3>2, <3>4
    <3>5. CASE ev.action = "fail"
      <4>1. out' = out \o Write("buffered", k[1], k[2], v.said)
        BY <1>0, <2>1, <2>2, <3>3, <3>5
      <4>2. PICK o, z : o = out /\ z = Write("buffered", k[1], k[2], v.said)
        OBVIOUS
      <4>3. Adds(z, k, v.said)
        BY <1>0, <4>2, WriteAdds
      <4>a. PICK x \in Text : x = v.said
        BY <1>0
      <4>b. Rows(o, k) /\ Adds(z, k, x)
        BY <1>1, <4>2, <4>3, <4>a
      <4>4. Rows(o \o z, k) /\ TextOf(o \o z, k) = TextOf(o, k) \o x
        BY <4>b, RowAdds
      <4> QED BY <1>1, <3>2, <3>5, <4>1, <4>2, <4>4, <4>a
    <3> QED BY <3>4, <3>5
  <2>3. CASE <<p, t>> # k
    <3>1. w.owed = v.owed
      BY <1>0, <1>4, <2>3 DEF Hear, HearAside, HearRun, HearResult, HearSpeech, HearPanic, HearOver, Verdicts
    <3>2. PICK q, u, x : q = p /\ u = t /\ x = buffered[<<p, t>>]
      OBVIOUS
    <3>3. PICK o, z : o = out /\ z = Write("buffered", q, u, x)
      OBVIOUS
    <3>4. Adds(z, k, <<>>)
      BY <2>3, <3>2, <3>3, WriteAdds
    <3>5. Rows(o \o z, k) /\ TextOf(o \o z, k) = TextOf(o, k)
      BY <1>1, <3>3, <3>4, AddsNothing
    <3> QED BY <1>1, <2>1, <3>1, <3>2, <3>3, <3>5
  <2> QED BY <2>2, <2>3
<1>5. CASE t = NoTest /\ ev.action = "fail" /\ PackageFail(p)
  <2>1. out' = (out \o Write("dump", p, NoTest, Flush(dumps[p]).out)) \o UnfinishedOutput(p)
    BY <1>5 DEF PackageFail
  <2>2. PICK o, z : o = out /\ z = Write("dump", p, NoTest, Flush(dumps[p]).out)
    OBVIOUS
  <2>3. Adds(z, k, <<>>)
    BY <2>2, WriteAdds
  <2>4. PICK y : y = o \o z /\ Rows(y, k) /\ TextOf(y, k) = v.owed
    BY <1>1, <2>2, <2>3, AddsNothing
  <2>5. out' = y \o UnfinishedOutput(p)
    BY <2>1, <2>2, <2>4
  <2>6. PICK q : q = p
    OBVIOUS
  <2>7. CASE p = k[1] /\ v.on
    <3>1. HearOver(k, ev, v, w)
      BY <1>0, <1>5, <2>7 DEF Hear, HearAside, HearRun, HearResult, HearSpeech, HearPanic, Verdicts
    <3>2. Calm(v) /\ w.owed = v.owed \o v.said
      BY <1>5, <2>7, <3>1 DEF HearOver
    <3>3. Terminated(buffered[k]) = v.said /\ k \in DOMAIN spans
      BY <1>c, <2>7, <3>2, CalmBuffers
    <3>4. /\ Rows(y \o UnfinishedOutput(q), k)
          /\ TextOf(y \o UnfinishedOutput(q), k) = TextOf(y, k) \o v.said
      BY <1>0, <2>4, <2>6, <2>7, <3>3, UnfinishedPrinted
    <3> QED BY <2>4, <2>5, <2>6, <3>2, <3>4
  <2>8. CASE ~(p = k[1] /\ v.on)
    <3>1. w.owed = v.owed
      BY <1>0, <1>5, <2>8 DEF Hear, HearAside, HearRun, HearResult, HearSpeech, HearPanic, HearOver, Verdicts
    <3>2. ~(q = k[1] /\ k \in DOMAIN spans)
      BY <2>6, <2>8 DEF HeardOn
    <3>3. PICK x \in Text : x = <<>>
      BY Texted1
    <3>4. /\ Rows(y \o UnfinishedOutput(q), k)
          /\ TextOf(y \o UnfinishedOutput(q), k) = TextOf(y, k) \o x
      BY <2>4, <3>2, <3>3, UnfinishedPrinted
    <3>5. v.owed \o <<>> = v.owed
      BY <1>0, ConcatEmptySeq DEF Text
    <3> QED BY <2>4, <2>5, <2>6, <3>1, <3>3, <3>4, <3>5
  <2> QED BY <2>7, <2>8, SMTT(30)
<1> QED BY <1>2, <1>3, <1>4, <1>5, OutUnchanged
----------------------------------------------------------------------------
(* The package's dump.                                                     *)

DumpsTotal == DOMAIN dumps = Pkgs

LEMMA DumpsStep ==
    ASSUME NEW ev \in Event, Handle(ev)
    PROVE  /\ DumpsTotal => DumpsTotal'
           /\ returned' = returned /\ ~returned
           /\ \A p \in Pkgs : p # ev.pkg => dumps'[p] = dumps[p]
           /\ \/ UNCHANGED dumps
              \/ ev.action = "output" /\ Output(ev.pkg, ev.test, ev.text)
              \/ ev.test = NoTest /\ ev.action \in Verdicts
<1> DEFINE p == ev.pkg
           t == ev.test
           others == \A q \in Pkgs : q # p => dumps'[q] = dumps[q]
<1>1. PackageStart(p) \/ Run(p, t) \/ Pause(p, t) \/ Cont(p, t) => UNCHANGED <<dumps, returned>>
  BY DEF PackageStart, Run, Pause, Cont
<1>2. \A result : TestResult(p, t, result) => UNCHANGED <<dumps, returned>>
  BY DEF TestResult
<1>3. PackagePass(p) \/ PackageSkip(p) \/ PackageFail(p) =>
        dumps' = [dumps EXCEPT ![p] = NewDump] /\ UNCHANGED returned
  BY DEF PackagePass, PackageSkip, PackageFail, ForgetPackage
<1>4. Output(p, t, ev.text) => (\E r : dumps' = [dumps EXCEPT ![p] = r]) /\ UNCHANGED returned
  <2>1. OutputPlain(p, t, ev.text) =>
          (\E r : dumps' = [dumps EXCEPT ![p] = r]) /\ UNCHANGED returned
    BY Zenon DEF OutputPlain
  <2>2. OutputDump(p, t, ev.text) =>
          (\E r : dumps' = [dumps EXCEPT ![p] = r]) /\ UNCHANGED returned
    BY Zenon DEF OutputDump
  <2> QED BY <2>1, <2>2 DEF Output
<1>5. ev.action # "line" /\ ~returned
  BY DEF Event, Actions, Handle
<1>6. (\E r : dumps' = [dumps EXCEPT ![p] = r]) => (DumpsTotal => DumpsTotal') /\ others
  BY DEF DumpsTotal
<1>7. UNCHANGED dumps => (DumpsTotal => DumpsTotal') /\ others
  BY DEF DumpsTotal
<1> HIDE DEF others
<1>8. (DumpsTotal => DumpsTotal') /\ others /\ returned' = returned
      /\ (UNCHANGED dumps \/ (ev.action = "output" /\ Output(ev.pkg, ev.test, ev.text))
            \/ (ev.test = NoTest /\ ev.action \in Verdicts))
  BY <1>1, <1>2, <1>3, <1>4, <1>5, <1>6, <1>7 DEF Handle, Verdicts
<1> QED BY <1>5, <1>8 DEF others

LEMMA OutputDumps ==
    ASSUME NEW p \in Pkgs, NEW t, NEW x, DumpsTotal, Output(p, t, x)
    PROVE  LET r == Routed(p, t, x) IN
           \/ r.dump = <<>> /\ dumps'[p] = r.d
           \/ /\ r.dump # <<>>
              /\ \/ dumps'[p] = r.d
                 \/ \E a : dumps'[p] = CopyTo(r.d, a).d /\ a \in {r.dump, r.carried \o r.dump}
<1> DEFINE r == Routed(p, t, x)
<1>1. CASE OutputPlain(p, t, x)
  BY <1>1 DEF OutputPlain, DumpsTotal
<1>2. CASE OutputDump(p, t, x)
  <2>1. r.dump # <<>>
    BY <1>2 DEF OutputDump
  <2>2. CASE BufferOutput
    <3>1. PICK a : dumps' = [dumps EXCEPT ![p] = CopyTo(r.d, a).d]
                   /\ a = IF r.carried # <<>> /\ r.carriedTest # NoTest
                          THEN r.carried \o r.dump ELSE r.dump
      BY <1>2, <2>2 DEF OutputDump
    <3> HIDE DEF r
    <3>2. dumps'[p] = CopyTo(r.d, a).d
      BY <3>1 DEF DumpsTotal
    <3> QED BY <2>1, <3>1, <3>2 DEF r
  <2>3. CASE ~BufferOutput
    <3>1. dumps' = [dumps EXCEPT ![p] = r.d]
      BY <1>2, <2>3 DEF OutputDump
    <3> HIDE DEF r
    <3>2. dumps'[p] = r.d
      BY <3>1 DEF DumpsTotal
    <3> QED BY <2>1, <3>2 DEF r
  <2> QED BY <2>2, <2>3
<1> QED BY <1>1, <1>2 DEF Output

LEMMA HearsDump ==
    ASSUME Orderly, RunInv, DumpsTotal, NEW k \in Keys, NEW v, Sound(v), HeardDump(k, v),
           NEW ev \in Event, Handle(ev), NEW w \in Voice, Hear(k, v, ev, w)
    PROVE  HeardDump(k, w)'
<1> DEFINE p == ev.pkg
           t == ev.test
           x == ev.text
<1>0. /\ k[1] \in Pkgs /\ k[2] \in Names /\ k[2] # NoTest /\ k = <<k[1], k[2]>>
      /\ p \in Pkgs /\ t \in Names \cup {NoTest}
      /\ w.over \in BOOLEAN /\ v.over \in BOOLEAN
  BY HearsKey DEF Sound, Voice
<1>v. /\ v \in Voice /\ v.said \in Text /\ v.kept \in Text /\ w.kept \in Text
      /\ v.pan \in 0..Len(Panic) /\ w.pan \in 0..Len(Panic) /\ Len(Panic) \in Nat
  BY SessionAssumption, LenProperties DEF Sound, Voice
<1> SUFFICES ASSUME ~w.over PROVE Waiting(dumps'[k[1]], w)
  BY DEF HeardDump
<1>1. /\ ~returned /\ (p # k[1] => dumps'[k[1]] = dumps[k[1]])
      /\ \/ UNCHANGED dumps
         \/ ev.action = "output" /\ Output(p, t, x)
         \/ t = NoTest /\ ev.action \in Verdicts
  BY <1>0, DumpsStep
<1>2. ~v.over
  BY <1>0 DEF Hear, HearAside, HearRun, HearResult, HearSpeech, HearPanic, HearOver
<1>3. Waiting(dumps[k[1]], v)
  BY <1>1, <1>2 DEF HeardDump
<1>4. CASE p # k[1]
  BY <1>1, <1>3, <1>4 DEF Hear
<1>5. CASE p = k[1] /\ ev.action # "output"
  <2>1. w.pan = v.pan /\ w.kept = v.kept /\ w.who = v.who
    BY <1>5 DEF Hear, HearAside, HearRun, HearResult, HearSpeech, HearPanic, HearOver
  <2>2. ~(t = NoTest /\ ev.action \in Verdicts)
    BY <1>0, <1>5 DEF Hear, HearAside, HearRun, HearResult, HearSpeech, HearPanic, HearOver, Verdicts
  <2>3. UNCHANGED dumps
    BY <1>1, <1>5, <2>2
  <2> QED BY <1>3, <2>1, <2>3 DEF Waiting
<1>6. CASE p = k[1] /\ ev.action = "output"
  <2> DEFINE r == Routed(p, t, x)
  <2>0. Output(p, t, x)
    BY <1>6 DEF Handle
  <2>1. \/ r.dump = <<>> /\ dumps'[p] = r.d
        \/ /\ r.dump # <<>>
           /\ \/ dumps'[p] = r.d
              \/ \E a : dumps'[p] = CopyTo(r.d, a).d /\ a \in {r.dump, r.carried \o r.dump}
    <3>1. PICK q, u, z : q = p /\ u = t /\ z = x /\ q \in Pkgs
      BY <1>0
    <3> QED BY <2>0, <3>1, OutputDumps
  <2>2. /\ HearSpeech(k, ev, v, w) => Passes(r, ev, w)
        /\ HearPanic(k, ev, v, w) => Passes(r, ev, w) \/ Dumps(r, ev, v, w)
        /\ HearSpeech(k, ev, v, w) \/ HearPanic(k, ev, v, w)
    <3> DEFINE keep == WithLogs /\ p \in DOMAIN pkgSpans
    <3>1. r = Route(dumps[k[1]], x, t, keep)
      BY <1>6 DEF Routed, r
    <3> QED BY <1>1, <1>6, <3>1, OutputRouted
  <2> HIDE DEF r
  <2>3. CASE Passes(r, ev, w)
    BY <1>6, <2>1, <2>3 DEF Passes, Waiting
  <2>4. CASE Dumps(r, ev, v, w)
    <3>1. /\ Complete(w.pan) /\ r.dump # <<>> /\ r.dump \in Text /\ r.carried \in Text
          /\ Shaped(r.d) /\ r.d.active
      BY <1>v, <2>4, Texted1 DEF Dumps
    <3>2. CASE dumps'[p] = r.d
      BY <1>6, <3>1, <3>2 DEF Waiting
    <3>3. CASE \E a : dumps'[p] = CopyTo(r.d, a).d /\ a \in {r.dump, r.carried \o r.dump}
      <4>1. PICK a : dumps'[p] = CopyTo(r.d, a).d /\ a \in {r.dump, r.carried \o r.dump}
        BY <3>3
      <4>2. a \in Text
        BY <3>1, <4>1, ConcatProperties DEF Text
      <4>3. PICK d : d = r.d
        OBVIOUS
      <4>4. Shaped(CopyTo(d, a).d) /\ CopyTo(d, a).d.active
        BY <3>1, <4>2, <4>3, CopyKeeps
      <4> QED BY <1>6, <3>1, <4>1, <4>3, <4>4 DEF Waiting
    <3> QED BY <2>1, <3>1, <3>2, <3>3
  <2> QED BY <2>2, <2>3, <2>4
<1> QED BY <1>4, <1>5, <1>6

\* Run keeps up with what it hears.
LEMMA HandleHeard ==
    ASSUME Orderly, RunInv, EntriesLast, DumpsTotal, NEW k \in Keys, NEW v, Heard(k, v),
           NEW ev \in Event, Handle(ev), NEW w \in Voice, Hear(k, v, ev, w)
    PROVE  Heard(k, w)'
<1>1. /\ Sound(v) /\ HeardOn(k, v) /\ HeardBuffer(k, v) /\ HeardOut(k, v)
      /\ HeardDump(k, v) /\ HeardLog(k, v) /\ HeardStart(k, v)
  BY DEF Heard
<1>2. Sound(w)
  BY <1>1, HearSound
<1>3. HeardOn(k, w)'
  BY <1>1, HearsOn
<1>4. HeardBuffer(k, w)'
  BY <1>1, HearsBuffer
<1>5. HeardOut(k, w)'
  BY <1>1, HearsOut
<1>6. HeardDump(k, w)'
  BY <1>1, HearsDump
<1>7. HeardLog(k, w)'
  BY <1>1, HearsLog
<1>8. HeardStart(k, w)'
  BY <1>1, HearsStart
<1> QED BY <1>2, <1>3, <1>4, <1>5, <1>6, <1>7, <1>8 DEF Heard

LEMMA HeardKept ==
    ASSUME NEW k, NEW v, Heard(k, v), UNCHANGED runVars
    PROVE  Heard(k, v)'
BY DEF runVars, Heard, HeardOn, HeardBuffer, HeardOut, HeardDump, HeardLog, HeardStart, LastOf,
   Of

\* What is copied of partial dumps is no test's own.
LEMMA ReturnHeard ==
    ASSUME NEW k \in Keys, NEW v, Heard(k, v), RunInv, Return
    PROVE  Heard(k, v)'
<1>1. UNCHANGED <<spans, buffered, pkgSpans, lastSpan, logged>> /\ returned'
  BY DEF Return
<1>2. \A i \in 1..lastSpan : /\ spanTab'[i].kind = spanTab[i].kind
                             /\ spanTab'[i].pkg = spanTab[i].pkg
                             /\ spanTab'[i].test = spanTab[i].test
  <2>1. PICK S : spanTab' = CloseStreams(spanTab, S)
    BY DEF Return
  <2>2. spanTab \in [1..lastSpan -> Span]
    BY DEF RunInv, RunTypeOK
  <2> QED BY <2>1, <2>2 DEF CloseStreams, Span
<1>3. HeardOut(k, v)'
  <2> SUFFICES ASSUME BufferOutput PROVE Rows(out', k) /\ TextOf(out', k) = v.owed
    BY DEF HeardOut
  <2>1. Rows(out, k) /\ TextOf(out, k) = v.owed
    BY DEF Heard, HeardOut
  <2>2. PICK order \in SetToSeqs(Active) :
          out' = out \o FlattenSeq([n \in DOMAIN order |->
                          Write("dump", order[n], NoTest, Flush(dumps[order[n]]).out)])
    BY DEF Return
  <2> DEFINE row(n) == Write("dump", order[n], NoTest, Flush(dumps[order[n]]).out)
             S == {[what |-> "dump", pkg |-> order[n], test |-> NoTest,
                    text |-> Flush(dumps[order[n]]).out] : n \in DOMAIN order}
             w == [n \in DOMAIN order |-> row(n)]
  <2>3. PICK m \in Nat : DOMAIN order = 1..m
    <3>1. IsFiniteSet(Active)
      BY RunAssumption, FS_Subset DEF Active
    <3>2. Cardinality(Active) \in Nat
      BY <3>1, FS_CardinalityType
    <3> QED BY <3>2 DEF SetToSeqs
  <2>4. ASSUME NEW n \in DOMAIN order PROVE row(n) \in Seq(S) /\ Adds(row(n), k, <<>>)
    <3> DEFINE x == Flush(dumps[order[n]]).out
               e == [what |-> "dump", pkg |-> order[n], test |-> NoTest, text |-> x]
    <3>1. e \in S
      OBVIOUS
    <3>2. row(n) = <<e>> \/ row(n) = <<>>
      BY DEF Write
    <3>3. PICK q : q = order[n]
      OBVIOUS
    <3>4. PICK y : y = x
      OBVIOUS
    <3>5. Adds(Write("dump", q, NoTest, y), k, <<>>)
      BY WriteAdds
    <3>6. row(n) = Write("dump", q, NoTest, y)
      BY <3>3, <3>4
    <3> HIDE DEF e, S, row
    <3>7. <<e>> \in Seq(S) /\ <<>> \in Seq(S)
      BY <3>1
    <3>8. row(n) \in Seq(S)
      BY <3>2, <3>7
    <3> QED BY <3>5, <3>6, <3>8
  <2>5. \A n \in DOMAIN order : w[n] = row(n)
    OBVIOUS
  <2>6. w \in Seq(Seq(S)) /\ Len(w) = m
    <3> HIDE DEF row, S
    <3>1. w \in [1..m -> Seq(S)] /\ DOMAIN w = 1..m
      BY <2>3, <2>4
    <3> HIDE DEF w
    <3>2. w \in Seq(Seq(S))
      BY <3>1
    <3>3. DOMAIN w = 1..Len(w) /\ Len(w) \in Nat
      BY <3>2, LenProperties
    <3> QED BY <3>1, <3>2, <3>3
  <2>7. out' = out \o FlattenSeq(w)
    BY <2>2
  <2> HIDE DEF w, row, S
  <2>8. PICK x \in Text : x = <<>>
    BY Texted1
  <2>9. InTurn(w, k, 0, x)
    <3>1. \A n \in 1..Len(w) : Adds(w[n], k, IF n = 0 THEN x ELSE <<>>)
      BY <2>3, <2>4, <2>5, <2>6, <2>8
    <3>2. 0 \in 0..Len(w)
      BY <2>6
    <3> QED BY <2>8, <3>1, <3>2 DEF InTurn
  <2>10. PICK T : w \in Seq(Seq(T))
    BY <2>6
  <2>11. PICK o : o = out
    OBVIOUS
  <2>12. Rows(o \o FlattenSeq(w), k) /\ TextOf(o \o FlattenSeq(w), k) = TextOf(o, k) \o x
    BY <2>1, <2>9, <2>10, <2>11, RowsInTurn
  <2>13. TextOf(o, k) \o x = TextOf(o, k)
    BY <2>1, <2>8, <2>11, RowsTexts, ConcatEmptySeq DEF Text
  <2> QED BY <2>1, <2>7, <2>11, <2>12, <2>13
<1>4. HeardLog(k, v)'
  BY <1>1, <1>2 DEF Heard, HeardLog, LastOf, Of
<1>5. HeardStart(k, v)'
  BY <1>1, <1>2 DEF Heard, HeardStart
<1>6. HeardDump(k, v)'
  BY <1>1 DEF HeardDump
<1> QED BY <1>1, <1>3, <1>4, <1>5, <1>6 DEF Heard, HeardOn, HeardBuffer
============================================================================
