\* A bastion shell and a web terminal on a server that stops, crashes and
\* restarts, over a database that may fail.  Every handler may have returned
\* and the server be up for good, so the system may stop.
CONSTANTS
    s1 = s1  s2 = s2  w1 = w1  w2 = w2
    Shells = {s1}
    Webs = {w1}
    StoreMayFail = TRUE
    MayStop = TRUE
SPECIFICATION FairSpec
CHECK_DEADLOCK FALSE
INVARIANTS
    TypeOK
    LiveTerminalsAreNotClosed
    TerminalsAreAccountedFor
    AuditTellsAPossibleStory
    LeftoversHaveACause
PROPERTIES
    
    LedgerIsKept
