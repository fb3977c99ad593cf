------------------------- MODULE MCCollapseSpellout -------------------------
(***************************************************************************)
(* CollapseSpellout on every text of at most MaxLen characters.            *)
(***************************************************************************)
EXTENDS CollapseSpellout, SequencesExt

CONSTANT MaxLen

MCTexts == BoundedSeq(Char, MaxLen)

(***************************************************************************)
(* t without the spaces at the positions that Drop holds of.               *)
(***************************************************************************)
Without(t, Drop(_)) ==
    LET kept == SelectSeq([i \in 1 .. Len(t) |-> i], LAMBDA i : ~Drop(i))
    IN  [j \in DOMAIN kept |-> t[kept[j]]]

SingleAt(i) ==
    /\ VisibleAt(i)
    /\ i > 1 => ~VisibleAt(i - 1)
    /\ ~VisibleAt(i + 1)

(***************************************************************************)
(* The rule in the comment on CollapseSpellout: X, Y and Z in "X Y Z" are  *)
(* each a single ASCII character.  So no more spaces go than those between *)
(* two single-character words; one next to a longer word stays.            *)
(***************************************************************************)
OnlySingleCharactersMerged ==
    mode = "done" =>
        Len(result) >=
            Len(Without(text, LAMBDA i : /\ i > 1 /\ SpaceAt(i)
                                         /\ SingleAt(i - 1) /\ SingleAt(i + 1)))

=============================================================================
