------------------------------ MODULE MCDaemon ------------------------------
(* Small instances of Daemon for TLC. *)
EXTENDS Daemon

CONSTANTS p1, p2, c1
=============================================================================
