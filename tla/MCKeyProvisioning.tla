------------------------ MODULE MCKeyProvisioning ------------------------
(* Small instances of KeyProvisioning for TLC. *)
EXTENDS KeyProvisioning, TLC

CONSTANTS u1, h1, h2, a1, a2, k1, k2, k3, c1, c2

LoginSymmetry ==
    Permutations(Logins) \cup Permutations(Keys) \cup Permutations(Accounts)
=============================================================================
