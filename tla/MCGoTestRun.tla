---------------------------- MODULE MCGoTestRun ----------------------------
(* Run given any sequence of events on a small set of packages and tests.  *)
EXTENDS GoTestRun

CONSTANTS MaxSpans, \* spans started
          MaxText   \* what is written, buffered, logged and pending, in all

MCNameOrder == << <<"A">>, <<"A", "B">> >>
MCTexts == { <<"x", NL>>, Signature }

Volume == FoldFunction(LAMBDA w, n : n + Len(w), 0, logged) + Len(out)
            + FoldFunction(LAMBDA w, n : n + Len(w), 0, buffered)
            + FoldFunction(LAMBDA dump, n : n + Len(dump.pending), 0, dumps)

InBounds(ev) ==
    /\ ev.action \in {"start", "run", "cont"} => lastSpan < MaxSpans
    /\ ev.action \in {"output", "line"} => Volume < MaxText

MCNext == Return \/ \E ev \in Events : InBounds(ev) /\ Handle(ev)

MCSpec == RunInit /\ [][MCNext]_runVars
============================================================================
