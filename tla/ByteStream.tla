----------------------------- MODULE ByteStream -----------------------------
(***************************************************************************)
(* What one direction of a connection promises the two ends: pieces arrive *)
(* in order, each once, and the end is seen after the last of them.  When  *)
(* the direction is broken, pieces may be missing, from some point on.     *)
(***************************************************************************)
EXTENDS Naturals

VARIABLES
    sent,       \* pieces the source has sent
    arrived,    \* pieces the destination was given
    over,       \* the destination is told that there are no more
    broken      \* an end has gone, or does not care any more

vars == <<sent, arrived, over, broken>>

(* A direction that nobody uses, or listens to, is so from the start.       *)
Init == sent = 0 /\ arrived = 0 /\ over \in BOOLEAN /\ broken \in BOOLEAN

Send ==
    /\ over => broken
    /\ sent' = sent + 1
    /\ UNCHANGED <<arrived, over, broken>>

(* The last piece may bring the end with it.                                *)
Arrive ==
    /\ arrived < sent
    /\ arrived' = arrived + 1
    /\ over' \in {over, TRUE} /\ (over' => arrived' = sent \/ broken)
    /\ UNCHANGED <<sent, broken>>

End ==
    /\ arrived = sent \/ broken
    /\ over' = TRUE
    /\ UNCHANGED <<sent, arrived, broken>>

Break ==
    /\ broken' = TRUE
    /\ UNCHANGED <<sent, arrived, over>>

Next == Send \/ Arrive \/ End \/ Break

Spec == Init /\ [][Next]_vars
=============================================================================
