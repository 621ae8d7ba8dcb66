\* No stop and no failing statement: only the handlers' own paths.
CONSTANTS
    s1 = s1  s2 = s2  w1 = w1  w2 = w2
    Shells = {s1}
    Webs = {w1}
    StoreMayFail = FALSE
    MayStop = FALSE
SPECIFICATION Spec
CHECK_DEADLOCK FALSE
INVARIANT ActiveSessionsAreServed
