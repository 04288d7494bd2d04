--------------------------- MODULE MCTimeoutDump ---------------------------
(* Events of one or two lumps.                                             *)
EXTENDS DumpStream

Lumps == {"panic: ", "test timed out ", "after ", NL, Goroutine, "FAIL", "x"}
Short == UNION {[1..n -> Lumps] : n \in 1..2}
TwoTests == {<<"TestA">>, <<"TestB">>}
============================================================================
