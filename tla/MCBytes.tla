------------------------------ MODULE MCBytes ------------------------------
(***************************************************************************)
(* Bytes on texts of up to MaxFragments fragments: ASCII of each class,    *)
(* Chinese characters with and without a byte of the URL class, wide       *)
(* marks whose bytes the hyphen loops decode as something else, what       *)
(* BaseCleanup rewrites, and a character that the text ends within.        *)
(* MaxLong of the few that hyphens stand between, and of the ones that     *)
(* mislead a hyphen loop into a Chinese character.                         *)
(***************************************************************************)
EXTENDS Bytes

CONSTANTS MaxFragments, MaxLong

Letter  == <<97>>
Word    == <<71, 80, 85>>           \* GPU
Tu      == <<229, 144, 128>>        \* Chinese, its last byte a multiple of 8
Ba      == <<229, 144, 167>>        \* no byte of it is in the URL class
Kan     == <<231, 156, 139>>        \* its last byte is
Paren   == <<239, 188, 136>>        \* the full-width opening parenthesis
Close   == <<239, 188, 137>>        \* the closing one: no byte is a multiple of 8
Angle   == <<227, 128, 137>>        \* the closing angle bracket
FullStop == <<227, 128, 130>>       \* U+3002: one is, but nothing Chinese begins there
Quote   == <<226, 128, 156>>        \* shares two bytes with U+200B
ZWSpace == <<226, 128, 139>>
BOM     == <<239, 187, 191>>
Ideographic == <<227, 128, 128>>    \* the space U+3000
HalfBa  == <<229, 144>>

Hyphens == {Letter, Word, Ba, Tu, Paren, Close, Angle, FullStop, <<Hyphen>>, <<Blank>>, <<50>>}

Fragments ==
    Hyphens \cup {Kan, Quote, ZWSpace, BOM, Ideographic, <<13>>, <<10>>, <<1>>,
                  <<Under>>, <<Scheme>>, <<Scheme>> \o Letter}

MCTexts ==
    { FlattenSeq(f) : f \in BoundedSeq(Fragments, MaxFragments) \cup BoundedSeq(Hyphens, MaxLong) }
      \cup { <<Hyphen>> \o FlattenSeq(f) : f \in BoundedSeq({Paren, Tu, <<71>>}, MaxLong) }
      \cup { FlattenSeq(f) \o HalfBa : f \in BoundedSeq(Fragments, 2) }

-----------------------------------------------------------------------------
\* Every loop comes to the terminator, or passes it.
Terminates == <>(stage = "done" \/ Overrun)

(***************************************************************************)
(* The comment on the arrows: a class of wide characters would match by    *)
(* bytes and break the Chinese text.  So no expression leaves half a       *)
(* character.                                                              *)
(***************************************************************************)
WholeCharacters == Whole(input) => Whole(s)

=============================================================================
