\* Two processes and one command beside whoever runs serve by hand.  Every
\* process may have ended and every command returned: the system may stop.
CONSTANTS
    p1 = p1  p2 = p2  c1 = c1
    Pids = {p1, p2}
    Cmds = {c1}
    None = None
    Torn = Torn
SPECIFICATION FairSpec
CHECK_DEADLOCK FALSE
INVARIANTS
    TypeOK
    StopSucceedsOnItsTargetOnly
    LoneServerIsDiscoverable
PROPERTIES
    EveryServerServesOrEnds
    AskedServersEnd
