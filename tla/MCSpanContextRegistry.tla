----------------------- MODULE MCSpanContextRegistry -----------------------
(* Two keys, two contexts (so that a key can be registered again with      *)
(* another one) and three calls, so that two share a key.                  *)
EXTENDS SpanContextRegistry

============================================================================
