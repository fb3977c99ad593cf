------------------------- MODULE MCNormalizeSpaces -------------------------
(***************************************************************************)
(* NormalizeSpaces on every text of less than MaxLen characters of the     *)
(* whole alphabet; of MaxLen characters, without the two classes that no   *)
(* test of this function tells apart from another (kana from Chinese,      *)
(* full-width from ASCII digits); and of up to MaxLongLen over the few     *)
(* characters that need more room: a protected token between Chinese or    *)
(* Latin characters with spaces on both sides.                             *)
(***************************************************************************)
EXTENDS NormalizeSpaces, SequencesExt

CONSTANTS MaxLen, MaxLongLen, LongAlphabet

MCTexts ==
    BoundedSeq(Char, MaxLen - 1)
      \cup BoundedSeq(Char \ {Kana, WideDigit}, MaxLen)
      \cup BoundedSeq(LongAlphabet, MaxLongLen)

Rules == INSTANCE SpacingRules
           WITH text     <- IF stage = "done" THEN s ELSE input,
                returned <- IF stage = "done" THEN calls ELSE calls - 1

(***************************************************************************)
(* The seven passes together do what SpacingRules says of one call: the    *)
(* text of the abstract specification is the argument until the call       *)
(* returns, and then the text it returns.                                  *)
(***************************************************************************)
Implements == Rules!Spec

=============================================================================
