----------------------------- MODULE MCSessions -----------------------------
(* Small instances of Sessions for TLC. *)
EXTENDS Sessions, TLC

CONSTANTS s1, s2, w1, w2

Interchangeable == Permutations(Shells) \cup Permutations(Webs)
=============================================================================
