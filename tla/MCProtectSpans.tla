--------------------------- MODULE MCProtectSpans ---------------------------
(***************************************************************************)
(* ProtectSpans on all texts made of a few fragments: whole tokens of each *)
(* kind and the characters that make two of them touch.                    *)
(***************************************************************************)
EXTENDS ProtectSpans

CONSTANTS MaxFragments

Fragments ==
    { <<"http", "sep", "letter">>, <<"letter", "at", "digit", "dot", "http">>,
      <<"at", "letter">>, <<"ur", "slash">>, <<"hash">>, <<"dot">>, <<"slash">>,
      <<"letter">>, <<"digit">>, <<"under">>, <<"wide">>, <<"stop">>, <<"space">> }

Itemise(cs) == [i \in DOMAIN cs |-> Ch(cs[i])]

MCTexts == { Itemise(FlattenSeq(f)) : f \in BoundedSeq(Fragments, MaxFragments) }

=============================================================================
