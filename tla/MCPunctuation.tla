--------------------------- MODULE MCPunctuation ---------------------------
(***************************************************************************)
(* Punctuation on every text of at most MaxLen characters, and of at most  *)
(* MaxLongLen over a few classes that need more room: runs of dots and     *)
(* ellipses next to each other and to full stops.                          *)
(***************************************************************************)
EXTENDS Punctuation, SequencesExt

CONSTANTS MaxLen, MaxLongLen

MCTexts == BoundedSeq(Char, MaxLen)
             \cup BoundedSeq({Dot, Ellipsis, Stop, Closing, Ink}, MaxLongLen)

=============================================================================
