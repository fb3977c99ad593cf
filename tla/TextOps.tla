------------------------------ MODULE TextOps ------------------------------
(***************************************************************************)
(* Texts taken apart character by character: the operators in which the    *)
(* properties say what a pass keeps, drops and puts in a place.  Both are  *)
(* concatenations, so that they split where the text does.                 *)
(***************************************************************************)
EXTENDS Naturals, Sequences, SequencesExt

\* t with f[c] in the place of every character c
Spread(f, t) == FlattenSeq([i \in 1 .. Len(t) |-> f[t[i]]])

\* the characters of t that are in S, in their order
Kept(S, t) == FlattenSeq([i \in 1 .. Len(t) |-> IF t[i] \in S THEN <<t[i]>> ELSE <<>>])

=============================================================================
