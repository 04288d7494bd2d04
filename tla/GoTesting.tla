----------------------------- MODULE GoTesting -----------------------------
(***************************************************************************)
(* External: what `go test -json` sends to Run. It is modelled from what   *)
(* gotest.go, internal/test2json and their tests take for granted: a       *)
(* caller is blocked in t.Run while a subtest runs, until it ends or calls *)
(* t.Parallel; parallel subtests go on once their caller's body has        *)
(* returned; a test ends after its subtests; the result of a test is held  *)
(* back until the next line that names a test, and without                 *)
(* -test.v=test2json until its top-level test ends; output is attributed   *)
(* to the test named last; a binary that dies leaves tests without result. *)
(***************************************************************************)
EXTENDS Integers, Sequences, SequencesExt

CONSTANTS Pkgs, Names, NoTest, Texts,
          Streaming, \* -test.v=test2json: results are printed as tests end
          MaxRound,  \* -count
          MaxBegun,  \* bounds the runs of tests
          MaxStream, \* events that fit in the pipe
          MaxPrint,  \* bounds what is printed
          MayDie,    \* test binaries may exit or time out
          MayKill,   \* go test may be killed
          Panic      \* the fragments of the output of a timeout

Keys == Pkgs \X Names

VARIABLES phase,    \* new, running, paused, returned, finished (printed its
                    \* result), done (the result was sent)
          parallel, \* the tests that have called t.Parallel in this round
          begun,    \* for each test, its runs: the caller, and which run of it
          verdict,  \* the result of each finished test
          failed,   \* the packages in which a test has failed
          root,     \* new, running, returned, panicking, dead, over
          round,    \* rounds of -count
          speaker,  \* the test output is attributed to
          said,     \* the output attributed to each test's last run
          owed,     \* the output of the runs that did not pass
          asking,   \* the tests blocked in a request for their span context
          stream,   \* the events Run has not read
          eof       \* no event will follow

gvars == <<phase, parallel, begun, verdict, failed, root, round, speaker, said, owed, asking,
           stream, eof>>

GoInit ==
    /\ phase = [k \in Keys |-> "new"]
    /\ parallel = {}
    /\ begun = [k \in Keys |-> <<>>]
    /\ verdict = [k \in Keys |-> "pass"]
    /\ failed = {}
    /\ root = [p \in Pkgs |-> "new"]
    /\ round = [p \in Pkgs |-> 1]
    /\ speaker = [p \in Pkgs |-> NoTest]
    /\ said = [k \in Keys |-> <<>>]
    /\ owed = [k \in Keys |-> <<>>]
    /\ asking = {}
    /\ stream = <<>>
    /\ eof = FALSE

Of(p) == {k \in Keys : k[1] = p}

Emit(action, p, t, text) ==
    /\ Len(stream) < MaxStream
    /\ stream' = Append(stream, [action |-> action, pkg |-> p, test |-> t, text |-> text])

CallerOf(k) == Last(begun[k])[1]
Started(p) == {k \in Of(p) : phase[k] # "new"}
Children(k) == {j \in Started(k[1]) : CallerOf(j) = k[2]}
TopLevel(p) == {j \in Started(p) : CallerOf(j) = NoTest}

\* The subtests that keep their caller in t.Run.
Blocking(S) == {j \in S : j \notin parallel /\ phase[j] \in {"running", "returned"}}
Free(k) == phase[k] = "running" /\ k \notin asking /\ Blocking(Children(k)) = {}
RootFree(p) == root[p] = "running" /\ Blocking(TopLevel(p)) = {}
Ended(k) == phase[k] \in {"finished", "done"}

\* Results that were printed and not sent: the next naming line sends them.
TopOf(k) == {j \in TopLevel(k[1]) : IsPrefix(j[2], k[2])}
Due(p) == {k \in Of(p) : /\ phase[k] = "finished"
                         /\ Streaming \/ \A j \in TopOf(k) : Ended(j)}
MayName(p) == root[p] \in {"running", "returned"} /\ Due(p) = {}
----------------------------------------------------------------------------
StartPackage(p) ==
    /\ root[p] = "new"
    /\ root' = [root EXCEPT ![p] = "running"]
    /\ Emit("start", p, NoTest, <<>>)
    /\ UNCHANGED <<phase, parallel, begun, verdict, failed, round, speaker, said, owed, asking,
                   eof>>

Runs == FoldFunction(LAMBDA calls, n : Len(calls) + n, 0, begun)

\* t.Run, or the next top-level test; a leaf name may hold '/'.
Begin(k, c) ==
    /\ phase[k] = "new"
    /\ Runs < MaxBegun
    /\ MayName(k[1])
    /\ IF c = NoTest THEN Len(k[2]) = 1 /\ RootFree(k[1])
       ELSE IsStrictPrefix(c, k[2]) /\ Free(<<k[1], c>>)
    /\ phase' = [phase EXCEPT ![k] = "running"]
    /\ begun' = [begun EXCEPT ![k] =
                   Append(@, <<c, IF c = NoTest THEN 0 ELSE Len(begun[<<k[1], c>>])>>)]
    /\ said' = [said EXCEPT ![k] = <<>>]
    /\ speaker' = [speaker EXCEPT ![k[1]] = k[2]]
    /\ Emit("run", k[1], k[2], <<>>)
    /\ UNCHANGED <<parallel, verdict, failed, root, round, owed, asking,
                   eof>>

Pause(k) ==
    /\ Free(k)
    /\ k \notin parallel
    /\ MayName(k[1])
    /\ phase' = [phase EXCEPT ![k] = "paused"]
    /\ parallel' = parallel \cup {k}
    /\ speaker' = [speaker EXCEPT ![k[1]] = k[2]]
    /\ Emit("pause", k[1], k[2], <<>>)
    /\ UNCHANGED <<begun, verdict, failed, root, round, said, owed, asking,
                   eof>>

Cont(k) ==
    /\ phase[k] = "paused"
    /\ MayName(k[1])
    /\ IF CallerOf(k) = NoTest THEN root[k[1]] = "returned"
       ELSE phase[<<k[1], CallerOf(k)>>] = "returned"
    /\ phase' = [phase EXCEPT ![k] = "running"]
    /\ speaker' = [speaker EXCEPT ![k[1]] = k[2]]
    /\ Emit("cont", k[1], k[2], <<>>)
    /\ UNCHANGED <<parallel, begun, verdict, failed, root, round, said, owed, asking,
                   eof>>

BodyReturn(k) ==
    /\ Free(k)
    /\ root[k[1]] \in {"running", "returned"}
    /\ phase' = [phase EXCEPT ![k] = "returned"]
    /\ UNCHANGED <<parallel, begun, verdict, failed, root, round, speaker, said, owed, asking,
                   stream, eof>>

\* The "--- PASS" line; a test whose subtest failed has failed.
Finish(k, v) ==
    /\ phase[k] = "returned"
    /\ \A j \in Children(k) : Ended(j)
    /\ (\E j \in Children(k) : verdict[j] = "fail") => v = "fail"
    /\ MayName(k[1])
    /\ phase' = [phase EXCEPT ![k] = "finished"]
    /\ verdict' = [verdict EXCEPT ![k] = v]
    /\ failed' = IF v = "fail" THEN failed \cup {k[1]} ELSE failed
    /\ speaker' = [speaker EXCEPT ![k[1]] = k[2]]
    /\ UNCHANGED <<parallel, begun, root, round, said, owed, asking, stream, eof>>

\* The result event, subtests before their caller.
Report(k) ==
    /\ k \in Due(k[1])
    /\ Children(k) \cap Due(k[1]) = {}
    /\ root[k[1]] # "panicking"
    /\ phase' = [phase EXCEPT ![k] = "done"]
    /\ owed' = IF verdict[k] = "fail" THEN [owed EXCEPT ![k] = @ \o said[k]] ELSE owed
    /\ speaker' = [speaker EXCEPT ![k[1]] = NoTest]
    /\ Emit(verdict[k], k[1], k[2], <<>>)
    /\ UNCHANGED <<parallel, begun, verdict, failed, root, round, said, asking, eof>>

Printed == FoldFunction(LAMBDA texts, n : Len(texts) + n, 0, said)
             + FoldFunction(LAMBDA texts, n : Len(texts) + n, 0, owed)

\* Output, of the test named last or of a running test, which it then names.
Say(p, t, text) ==
    /\ Printed < MaxPrint
    /\ root[p] \in {"running", "returned"}
    /\ \/ t = speaker[p]
       \/ MayName(p) /\ phase[<<p, t>>] = "running"
    /\ speaker' = [speaker EXCEPT ![p] = t]
    /\ said' = [said EXCEPT ![<<p, t>>] = @ \o text]
    /\ Emit("output", p, t, text)
    /\ UNCHANGED <<phase, parallel, begun, verdict, failed, root, round, owed, asking,
                   eof>>

RootReturn(p) ==
    /\ RootFree(p)
    /\ root' = [root EXCEPT ![p] = "returned"]
    /\ UNCHANGED <<phase, parallel, begun, verdict, failed, round, speaker, said, owed, asking,
                   stream, eof>>

\* All tests that began in this round have ended.
RoundOver(p) == /\ root[p] = "returned"
                /\ \A k \in Of(p) : phase[k] \in {"new", "done"}

NextRound(p) ==
    /\ RoundOver(p)
    /\ round[p] < MaxRound
    /\ round' = [round EXCEPT ![p] = @ + 1]
    /\ root' = [root EXCEPT ![p] = "running"]
    /\ phase' = [k \in Keys |-> IF k[1] = p THEN "new" ELSE phase[k]]
    /\ parallel' = parallel \ Of(p)
    /\ UNCHANGED <<begun, verdict, failed, speaker, said, owed, asking, stream, eof>>

\* "skip" is the result of a package without test files.
PackageResult(p) ==
    /\ RoundOver(p)
    /\ root' = [root EXCEPT ![p] = "over"]
    /\ \/ p \notin failed /\ Emit("pass", p, NoTest, <<>>)
       \/ p \in failed /\ Emit("fail", p, NoTest, <<>>)
       \/ (\A k \in Of(p) : begun[k] = <<>>) /\ Emit("skip", p, NoTest, <<>>)
    /\ UNCHANGED <<phase, parallel, begun, verdict, failed, round, speaker, said, owed, asking,
                   eof>>

\* os.Exit, a fatal signal or the -timeout panic: the tests stop where they are.
Die(p) ==
    /\ MayDie
    /\ root[p] \in {"running", "returned"}
    /\ root' \in {[root EXCEPT ![p] = "panicking"], [root EXCEPT ![p] = "dead"]}
    /\ asking' = asking \ Of(p)
    /\ UNCHANGED <<phase, parallel, begun, verdict, failed, round, speaker, said, owed, stream,
                   eof>>

\* The timeout's panic, attributed like any output, in as many events as it
\* has fragments.
PrintPanic(p) ==
    /\ root[p] = "panicking"
    /\ root' = [root EXCEPT ![p] = "dead"]
    /\ Len(stream) < MaxStream
    /\ stream' = stream \o [i \in DOMAIN Panic |-> [action |-> "output", pkg |-> p,
                                                    test |-> speaker[p], text |-> Panic[i]]]
    /\ UNCHANGED <<phase, parallel, begun, verdict, failed, round, speaker, said, owed, asking,
                   eof>>

PackageDied(p) ==
    /\ root[p] = "dead"
    /\ Due(p) = {}
    /\ root' = [root EXCEPT ![p] = "over"]
    /\ owed' = [k \in Keys |-> IF k \in Started(p) /\ phase[k] # "done"
                               THEN owed[k] \o said[k] ELSE owed[k]]
    /\ Emit("fail", p, NoTest, <<>>)
    /\ UNCHANGED <<phase, parallel, begun, verdict, failed, round, speaker, said, asking, eof>>

EndOfStream ==
    /\ ~eof
    /\ eof' = TRUE
    /\ \/ \A p \in Pkgs : root[p] = "over"
       \/ MayKill
    /\ asking' = {}
    /\ UNCHANGED <<phase, parallel, begun, verdict, failed, root, round, speaker, said, owed,
                   stream>>

GoNext ==
    \/ EndOfStream
    \/ ~eof /\ \E p \in Pkgs :
         \/ StartPackage(p) \/ RootReturn(p) \/ NextRound(p)
         \/ PackageResult(p) \/ Die(p) \/ PrintPanic(p) \/ PackageDied(p)
         \/ \E t \in Names, text \in Texts : Say(p, t, text)
    \/ ~eof /\ \E k \in Keys :
         \/ Pause(k) \/ Cont(k) \/ BodyReturn(k) \/ Report(k)
         \/ \E c \in Names \cup {NoTest} : Begin(k, c)
         \/ \E v \in {"pass", "fail", "skip"} : Finish(k, v)
============================================================================
