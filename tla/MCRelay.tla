------------------------------ MODULE MCRelay ------------------------------
(* A small instance of Relay for TLC. *)
EXTENDS Relay

TwoAndOne == [in |-> 2, out |-> 2, err |-> 1]
=============================================================================
