----------------------------- MODULE DumpStream ----------------------------
(***************************************************************************)
(* One package's output fed to timeoutDump in events that cut it anywhere, *)
(* and compared with what is true of the text as a whole. The dump is      *)
(* copied as Run does without -v. So that TLC's texts are finite, up to    *)
(* MaxBefore lumps come before the signature is complete, and the dump has *)
(* up to MaxDump lumps in all.                                             *)
(***************************************************************************)
EXTENDS TimeoutDump, FiniteSets

CONSTANTS Fragments, \* the texts an event may have
          Tests,     \* the tests it may be attributed to
          MaxBefore, MaxDump

\* Run does not look at an event without output.
ASSUME StreamAssumption == Fragments \subseteq Seq(STRING) \ {<<>>}

VARIABLES d,       \* the package's timeoutDump
          text,    \* the output so far; from the signature on, once it is there
          owner,   \* the test each lump was attributed to; then the signature's
          carried, \* the carried text, with its test, when the dump was found
          log,     \* what Run wrote to the package span's log stream
          out,     \* what Run copied to the human-readable output
          retains, \* whether the package span has log streams
          flushed  \* the package has failed
vars == <<d, text, owner, carried, log, out, retains, flushed>>

\* Where a line of the whole text starts with the signature.
Signatures(t) == {i \in LineStarts(t) : IsPrefix(Signature, SubSeq(t, i, Len(t)))}

Init ==
    /\ d = NewDump
    /\ text = <<>> /\ owner = <<>> /\ carried = <<>>
    /\ log = <<>> /\ out = <<>>
    /\ retains \in BOOLEAN
    /\ flushed = FALSE

Before(f, t) ==
    LET r == Route(d, f, t, retains)
        all == text \o f
        owners == owner \o [i \in DOMAIN f |-> t]
        copied == CopyTo(r.d, r.carried \o r.dump)
    IN  /\ ~d.active
        /\ ~flushed
        /\ Len(all) <= MaxBefore + Len(Signature)
        /\ IF r.dump = <<>>
           THEN /\ d' = r.d /\ text' = all /\ owner' = owners
                /\ Len(all) <= MaxBefore
                /\ UNCHANGED <<carried, log, out>>
           ELSE /\ d' = copied.d
                /\ out' = copied.out
                /\ log' = r.carried \o r.dump
                /\ carried' = <<r.carried, r.carriedTest>>
                /\ LET at == Signatures(all)
                   IN  IF at = {} THEN text' = <<>> /\ owner' = <<>>
                       ELSE /\ text' = SubSeq(all, Min(at), Len(all))
                            /\ owner' = SubSeq(owners, Min(at), Min(at))
        /\ UNCHANGED <<retains, flushed>>

During(f) ==
    LET r == Route(d, f, NoTest, retains)
        copied == CopyTo(r.d, r.carried \o r.dump)
    IN  /\ d.active
        /\ ~flushed
        /\ Len(text) + Len(f) <= MaxDump
        /\ d' = copied.d
        /\ out' = out \o copied.out
        /\ log' = log \o r.carried \o r.dump
        /\ text' = text \o f
        /\ UNCHANGED <<owner, carried, retains, flushed>>

PackageFail ==
    /\ ~flushed
    /\ flushed' = TRUE
    /\ d' = Flush(d).d
    /\ out' = out \o Flush(d).out
    /\ text' = IF Partial(text) = <<>> THEN text ELSE Append(text, NL)
    /\ UNCHANGED <<owner, carried, log, retains>>

Next == \/ \E f \in Fragments : During(f) \/ \E t \in Tests : Before(f, t)
        \/ PackageFail

Spec == Init /\ [][Next]_vars
----------------------------------------------------------------------------
\* The dump is found with the event that completes its signature, wherever
\* test2json splits the line (gotest.go:79-80), and never elsewhere: in the
\* middle of a line, or from parts that are not adjacent.
DumpDetected == ~flushed => (d.active <=> Signatures(text) # {})

\* Every lump from the start of the signature's line on is logged, once and
\* in order: the fragments carried over, too (gotest.go:356-358), which are
\* taken from the test that was given the first of them.
DumpLoggedWhole ==
    d.active /\ ~flushed =>
        /\ log = text
        /\ carried[1] # <<>> => carried[2] = owner[1]

\* A line of the goroutine dump: from the first goroutine on, summaries aside.
InStacks(t, i) ==
    /\ \E j \in LineEnds(t) : j <= i /\ LineTo(t, j)[1] = Goroutine
    /\ ~IsPackageSummary(LineTo(t, i))

\* The lumps of the goroutine dump's lines up to the one that ends at i.
Stacks(t, i) ==
    UNION {LineStart(t, j)..j : j \in {k \in LineEnds(t) : k <= i /\ InStacks(t, k)}}

Fits(t, i) == Cardinality(Stacks(t, i)) <= StacksLimit

\* What is printed of the line that ends at i.
Printed(t, i, keep) ==
    IF t[i] # NL THEN <<>>
    ELSE IF ~InStacks(t, i) \/ ~keep \/ Fits(t, i) THEN LineTo(t, i)
    ELSE IF \A j \in LineEnds(t) : j < i /\ InStacks(t, j) => Fits(t, j)
         THEN <<Truncation, NL>>
    ELSE <<>>

PrintedOf(t, keep) == FlattenSeq([i \in DOMAIN t |-> Printed(t, i, keep)])

\* What is printed of the dump, whichever events it came in: every line once it
\* is complete, unless the package's log retains the dump; then the panic, its
\* running tests and the package summary lines whole, and of the stacks the
\* lines within the limit and one notice that they were cut (gotest.go:64-71,
\* 130-176).
CopyFaithful == d.active => out = PrintedOf(text, retains)
============================================================================
