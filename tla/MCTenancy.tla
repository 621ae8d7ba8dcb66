----------------------------- MODULE MCTenancy -----------------------------
(* Small instances of Tenancy for TLC. *)
EXTENDS Tenancy, TLC

CONSTANTS t1, t2, u1, u2, u3, h1, h2, default, acme, n1, n2, m1, m2, a1, a2,
          s1, s2, c1, c2

Interchangeable ==
    Permutations(HostIds) \cup Permutations(Names) \cup Permutations(HostNames)
    \cup Permutations(Addresses) \cup Permutations(Starts) \cup Permutations(Clients)
=============================================================================
