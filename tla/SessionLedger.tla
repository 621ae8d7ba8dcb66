--------------------------- MODULE SessionLedger ---------------------------
(***************************************************************************)
(* What the sessions table promises its readers (GetActiveSessions, the    *)
(* page of active sessions): a terminal is recorded at most once, its      *)
(* row never says "closed" while the terminal may still be in use, and a   *)
(* closed row stays closed.  It does not promise that every row is closed: *)
(* a handler may vanish with its row still active.                         *)
(***************************************************************************)
CONSTANT Handlers       \* the terminals ever requested

VARIABLES
    row,        \* the sessions table: "absent", "active" or "closed"
    live        \* handlers that may be serving a terminal

Init ==
    /\ row = [h \in Handlers |-> "absent"]
    /\ live = {}

(* A request is accepted; nothing is recorded yet.                          *)
Accept(h) ==
    /\ h \notin live /\ row[h] = "absent"
    /\ live' = live \cup {h}
    /\ UNCHANGED row

Record(h) ==
    /\ h \in live /\ row[h] = "absent"
    /\ row' = [row EXCEPT ![h] = "active"]
    /\ UNCHANGED live

Close(h) ==
    /\ h \notin live /\ row[h] = "active"
    /\ row' = [row EXCEPT ![h] = "closed"]
    /\ UNCHANGED live

(* Some handlers are over: one returns, or all vanish with their process.   *)
Over ==
    /\ live # {}
    /\ live' \in SUBSET live
    /\ UNCHANGED row

Next == Over \/ \E h \in Handlers : Accept(h) \/ Record(h) \/ Close(h)

Spec == Init /\ [][Next]_<<row, live>>
=============================================================================
