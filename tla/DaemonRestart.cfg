\* One restart of a server that was started before it.
CONSTANTS
    p1 = p1  p2 = p2  c1 = c1
    Pids = {p1, p2}
    Cmds = {c1}
    None = None
    Torn = Torn
SPECIFICATION Spec
CHECK_DEADLOCK FALSE
INVARIANT RestartBringsUpTheBastion
