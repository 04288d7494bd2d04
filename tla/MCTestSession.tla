--------------------------- MODULE MCTestSession ---------------------------
(* Small test suites: one package, or two that share the pipe.             *)
EXTENDS TestSession

\* A/B/C may be a subtest of A/B, or the subtest "B/C" of A.
Nested == << <<"A">>, <<"A", "B">>, <<"A", "B", "C">> >>
\* Four names on a path.
Deep == << <<"A">>, <<"A", "B">>, <<"A", "B", "C">>, <<"A", "B", "C", "D">> >>
Siblings == << <<"A">>, <<"A", "B">>, <<"A", "C">> >>
Pair == << <<"A">>, <<"A", "B">> >>
TwoTop == << <<"A">>, <<"D">> >>

Lines1 == { <<"x", NL>> }
NoTexts == {}

\* The signature and its line in three events, then the first stack.
SplitPanic == << <<"panic: ">>, <<"test timed out ", "after ">>, <<NL, Goroutine, NL>> >>

\* The texts and the panic above are what the proofs assume of a session's.
ASSUME SessionsOrderly == Orderly
============================================================================
