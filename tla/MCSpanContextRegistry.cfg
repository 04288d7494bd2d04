SPECIFICATION RegFairSpec
CONSTANTS
    Keys = {k1, k2}
    Callers = {c1, c2, c3}
    SpanContexts = {s1, s2}
    NoContext = none
INVARIANTS SendNeverBlocks NoLostWakeup
PROPERTIES KeepsPromise
