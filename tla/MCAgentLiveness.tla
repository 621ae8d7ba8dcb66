-------------------------- MODULE MCAgentLiveness --------------------------
(* Small instances of AgentLiveness for TLC. *)
EXTENDS AgentLiveness, TLC

CONSTANTS a1, a2, r1, r2

Interchangeable == Permutations(Agents) \cup Permutations(Rows)
=============================================================================
