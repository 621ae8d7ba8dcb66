---------------------------- MODULE RetainedLog ----------------------------
(***************************************************************************)
(* What a reader of a rotated log relies on: records are appended, and the *)
(* ones that are given up are the oldest.  Damage, a fault of the file     *)
(* system that the logger does not notice, ends that promise.              *)
(***************************************************************************)
EXTENDS Naturals

VARIABLES
    written,    \* how many records have been written; they are 1 .. written
    kept,       \* the records that can still be read
    intact      \* whether no damage was done

Init == written = 0 /\ kept = {} /\ intact \in BOOLEAN

Append ==
    /\ written' = written + 1
    /\ kept' = kept \cup {written'}
    /\ UNCHANGED intact

(* What is left has everything that is newer than anything left.            *)
Discard ==
    /\ kept' \in SUBSET kept
    /\ \A a \in kept', b \in kept : a < b => b \in kept'
    /\ UNCHANGED <<written, intact>>

Damage ==
    /\ kept' \in SUBSET kept
    /\ intact' = FALSE
    /\ UNCHANGED written

Next == Append \/ Discard \/ Damage

Spec == Init /\ [][Next]_<<written, kept, intact>>
=============================================================================
