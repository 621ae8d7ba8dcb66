-------------------------- MODULE FailureDetector --------------------------
(***************************************************************************)
(* What the agents table promises of one agent: a detector that hears it,  *)
(* looks at it once in a while, and by then suspects it if and only if it  *)
(* has been silent for too long.                                           *)
(***************************************************************************)
EXTENDS Integers

CONSTANTS
    Grace,      \* silence that is not suspicious
    Limit       \* silence that is not left unnoticed

VARIABLES
    verdict,    \* "absent", "online" or "offline"
    silence,    \* the time since it was heard
    watched     \* the latest look succeeded, and nothing failed since

vars == <<verdict, silence, watched>>

Init == verdict = "absent" /\ silence = 0 /\ watched = FALSE

Hear ==
    /\ verdict' = "online" /\ silence' = 0
    /\ UNCHANGED watched

(* Looking is atomic, and it is the only way to become suspected.           *)
Look ==
    /\ verdict' = IF verdict = "online" /\ silence > Grace THEN "offline" ELSE verdict
    /\ watched' = TRUE
    /\ UNCHANGED silence

Blink ==
    /\ watched' = FALSE
    /\ UNCHANGED <<verdict, silence>>

Pass ==
    /\ watched /\ verdict = "online" => silence < Limit
    /\ silence' = silence + 1
    /\ UNCHANGED <<verdict, watched>>

Next == Hear \/ Look \/ Blink \/ Pass

Spec == Init /\ [][Next]_vars
=============================================================================
