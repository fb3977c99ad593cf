---------------------------- MODULE MCStructure ----------------------------
(***************************************************************************)
(* Structure on three families of texts: brackets within and across each   *)
(* other, arrows and dashes, and lines with prefixes and links.            *)
(***************************************************************************)
EXTENDS Structure

CONSTANTS MaxBrackets, MaxArrows, MaxLines

Brackets == {"[", "]", "{", "}", "L", "l", Ink, Space}
Arrows   == {Less, Greater, Hyphen, Equal, Arrow, Dash, Ink, Tab, "[", "]"}

\* six hashes are the longest heading mark
LineParts ==
    { <<Hash>>, <<Hash, Hash, Hash, Hash, Hash, Hash>>, <<Slashes>>, <<Greater, Space>>,
      <<Hyphen, Space>>, <<Number, Space>>, <<Space>>, <<Ink>>, <<Newline>>, <<"C">>, <<"c">>,
      <<"[", Ink, "]", LinkUrl>> }

MCTexts ==
    BoundedSeq(Brackets, MaxBrackets) \cup BoundedSeq(Arrows, MaxArrows)
      \cup { FlattenSeq(f) : f \in BoundedSeq(LineParts, MaxLines) }

=============================================================================
