---------------------------- MODULE SpacingRules ----------------------------
(***************************************************************************)
(* What NormalizeSpaces promises, with no pass, pointer or buffer in it: a *)
(* call keeps the characters that are not blanks and rewrites each gap of  *)
(* blanks by a rule that looks only at the gap and the two characters      *)
(* around it.  NormalizeSpaces implements this specification (Implements   *)
(* in MCNormalizeSpaces).                                                  *)
(***************************************************************************)
EXTENDS Chars, SequencesExt

CONSTANT Texts

VARIABLES
    text,       \* the argument, then what the last call returned
    returned    \* how many calls have returned

Cjk    == {Han, Kana}
Digits == {Digit, WideDigit}
Words  == {Latin, Tag}

Ink(t) == LET ink(c) == c \notin Blank IN SelectSeq(t, ink)

(***************************************************************************)
(* The blanks between the i-th and the next character of Ink(t).           *)
(***************************************************************************)
InkPos(t, i) ==
    CHOOSE q \in DOMAIN t :
        t[q] \notin Blank /\ Len(Ink(SubSeq(t, 1, q))) = i

Gap(t, i) == SubSeq(t, InkPos(t, i) + 1, InkPos(t, i + 1) - 1)

(***************************************************************************)
(* The rule for a gap g between a and b.  A gap with a tab in it is left   *)
(* alone by the rules on Chinese text, which only look past spaces.        *)
(***************************************************************************)
Squeeze(g) ==
    FoldLeft(LAMBDA acc, c : IF c = Space /\ acc # <<>> /\ Last(acc) = Space
                               THEN acc ELSE Append(acc, c),
             <<>>, g)

Tighten(a, g, b) ==
    LET h == IF a \in {Closer, Opener} /\ g # <<>> /\ Head(g) = Space
               THEN Tail(g) ELSE g
    IN  IF b = Closer /\ h # <<>> /\ Last(h) = Space THEN Front(h) ELSE h

GapRule(a, g, b) ==
    LET spaces == \A i \in DOMAIN g : g[i] = Space
    IN  CASE b = AsciiPunct -> <<>>
          [] /\ spaces
             /\ \/ a \in Cjk /\ b \in Cjk \cup Digits
                \/ a \in Digits /\ b \in Cjk              -> <<>>
          [] /\ spaces
             /\ \/ a \in Cjk /\ b \in Words
                \/ a \in Words /\ b \in Cjk               -> <<Space>>
          [] OTHER -> Tighten(a, Squeeze(g), b)

Respaced(t, u) ==
    LET ink == Ink(t)
    IN  /\ Ink(u) = ink
        /\ \A i \in 1 .. Len(ink) - 1 :
              Gap(u, i) = GapRule(ink[i], Gap(t, i), ink[i + 1])
        /\ u # <<>> => Head(u) \notin Blank /\ Last(u) \notin Blank

-----------------------------------------------------------------------------
Init == text \in Texts /\ returned = 0

Call ==
    /\ returned < 2
    /\ Respaced(text, text')
    /\ returned' = returned + 1

Spec == Init /\ [][Call]_<<text, returned>>

=============================================================================
