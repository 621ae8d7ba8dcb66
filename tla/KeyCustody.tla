----------------------------- MODULE KeyCustody -----------------------------
(***************************************************************************)
(* What the stored keys promise an operator, however logins race, hosts    *)
(* are edited and the server crashes: a key belongs to one user and one    *)
(* host; it goes to accounts that host has pointed at and nowhere else; it *)
(* is stored only for its owner and only after it reached such an account; *)
(* and what was installed or stored is never taken back, only replaced.    *)
(***************************************************************************)
CONSTANTS Users, Hosts, Accounts, Keys, None

VARIABLES
    home,       \* every account each host has pointed at
    keys,       \* the keys each account accepts
    pair        \* the key stored for a user and a host, or None

vars == <<home, keys, pair>>

Init ==
    /\ home \in [Hosts -> SUBSET Accounts]
    /\ keys = [a \in Accounts |-> {}]
    /\ pair = [u \in Users |-> [h \in Hosts |-> None]]

(* Nothing says that the key is another user's or another host's.           *)
Belongs(k, u, h) ==
    /\ \A v \in Users, g \in Hosts : pair[v][g] = k => v = u /\ g = h
    /\ \A a \in Accounts : k \in keys[a] => a \in home[h]

Install(k, u, h, a) ==
    /\ a \in home[h] /\ Belongs(k, u, h)
    /\ keys' = [keys EXCEPT ![a] = @ \cup {k}]
    /\ UNCHANGED <<home, pair>>

Store(k, u, h) ==
    /\ \E a \in home[h] : k \in keys[a]
    /\ Belongs(k, u, h)
    /\ pair' = [pair EXCEPT ![u][h] = k]
    /\ UNCHANGED <<home, keys>>

(* The host is edited to point at one more account.                         *)
Move(h, a) ==
    /\ home' = [home EXCEPT ![h] = @ \cup {a}]
    /\ UNCHANGED <<keys, pair>>

Next ==
    \/ \E k \in Keys, u \in Users, h \in Hosts :
          Store(k, u, h) \/ \E a \in Accounts : Install(k, u, h, a)
    \/ \E h \in Hosts, a \in Accounts : Move(h, a)

Spec == Init /\ [][Next]_vars
=============================================================================
