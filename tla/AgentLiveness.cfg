\* One agent that may register twice, over twelve units of time: six
\* heartbeat TTLs.  Time ends at the horizon, so the system may stop.
CONSTANTS
    a1 = a1  a2 = a2  r1 = r1  r2 = r2
    Agents = {a1}
    Rows = {r1, r2}
    None = None
    TTL = 2
    Beat = 2
    Delay = 1
    Horizon = 12
SYMMETRY Interchangeable
SPECIFICATION Spec
CHECK_DEADLOCK FALSE
INVARIANTS
    TypeOK
    OfflineMeansSilent
    RegularAgentsAreOnline
    SilentAgentsAreNoticed
PROPERTY
    RowsAreDetectors
