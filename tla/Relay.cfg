\* One connection of either kind, two pieces each way and one of stderr.  The
\* connection may be over: the system may stop.
CONSTANTS
    Pieces <- TwoAndOne
    Room = 1
SPECIFICATION FairSpec
CHECK_DEADLOCK FALSE
INVARIANTS
    TypeOK
    DataArrives
    
PROPERTIES
    StreamsAreKept
    
    
