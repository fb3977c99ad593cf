----------------------------- MODULE LineFilter -----------------------------
(***************************************************************************)
(* What main.cpp promises to the process that reads its output: lines are  *)
(* taken in their order, each gets exactly one answer before the next is   *)
(* taken, and the program ends with no line open, at the end of its input  *)
(* or before the first line.                                               *)
(***************************************************************************)
EXTENDS Naturals

VARIABLES
    left,               \* lines not yet taken
    taken, answered,    \* lines taken, and answers given
    ended

vars == <<left, taken, answered, ended>>

Init == left \in Nat /\ taken = 0 /\ answered = 0 /\ ended = FALSE

Take ==
    /\ ~ended
    /\ answered = taken /\ left > 0
    /\ left' = left - 1
    /\ taken' = taken + 1
    /\ UNCHANGED <<answered, ended>>

Answer ==
    /\ ~ended
    /\ answered < taken
    /\ answered' = answered + 1
    /\ UNCHANGED <<left, taken, ended>>

End ==
    /\ answered = taken
    /\ left = 0 \/ taken = 0
    /\ ended' = TRUE
    /\ UNCHANGED <<left, taken, answered>>

Spec == Init /\ [][Take \/ Answer \/ End]_vars

=============================================================================
