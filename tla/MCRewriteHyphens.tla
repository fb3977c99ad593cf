-------------------------- MODULE MCRewriteHyphens --------------------------
(***************************************************************************)
(* RewriteHyphens on every text of at most MaxLen characters, against a    *)
(* rule that decides about each hyphen on its own.                         *)
(***************************************************************************)
EXTENDS RewriteHyphens, SequencesExt

CONSTANTS MaxLen, MaxSpacedLen

MCTexts ==
    BoundedSeq(InputChar, MaxLen)
      \cup BoundedSeq(InputChar \ {HanD, Tab, Latin}, MaxSpacedLen)

(***************************************************************************)
(* The neighbours of the hyphen at i: the nearest characters that are not  *)
(* blanks, and whether only spaces lie between.                            *)
(***************************************************************************)
LeftOf(t, i) ==
    LET ink == {q \in 1 .. i - 1 : t[q] \notin Blank}
    IN  IF ink = {} THEN 0 ELSE CHOOSE q \in ink : \A o \in ink : o <= q

RightOf(t, i) ==
    LET ink == {q \in i + 1 .. Len(t) : t[q] \notin Blank}
    IN  IF ink = {} THEN 0 ELSE CHOOSE q \in ink : \A o \in ink : q <= o

NoTab(t, i, j) == \A q \in i .. j : t[q] # Tab

(***************************************************************************)
(* What becomes of the hyphen at i, from the rules in the header: "head"   *)
(* and "minus" stay, "pause" becomes a comma, "split" a space, "stay" is a *)
(* hyphen that joins nothing (at an end, or next to another hyphen).       *)
(***************************************************************************)
Fate(t, i) ==
    LET l == LeftOf(t, i)
        r == RightOf(t, i)
    IN  CASE r = 0 -> "stay"
          [] r > 0 /\ l = 0 -> IF t[r] = Digit THEN "head" ELSE "stay"
          [] OTHER ->
               LET a == t[l]
                   b == t[r]
               IN  CASE Hyphen \in {a, b} -> "stay"
                     [] b = Digit /\ a \in {Delim, HanD, Digit} -> "minus"
                     [] b = Digit /\ a = Han /\ NoTab(t, l, r) -> "minus"
                     [] {a, b} \subseteq Hans /\ NoTab(t, l, r) -> "pause"
                     [] OTHER -> "split"

Outcome(f) ==
    CASE f = "pause" -> <<Comma>> [] f = "split" -> <<Space>> [] OTHER -> <<Hyphen>>

\* the blanks around a hyphen that is rewritten go with it
Swallowed(t, i) ==
    \E h \in DOMAIN t :
        /\ t[h] = Hyphen /\ Fate(t, h) \in {"minus", "pause", "split"}
        /\ LeftOf(t, h) < i /\ i < RightOf(t, h)

RulePart(t, i) ==
    CASE t[i] = Hyphen -> Outcome(Fate(t, i))
      [] t[i] \in Blank /\ Swallowed(t, i) -> <<>>
      [] OTHER -> <<t[i]>>

Squeeze(t) ==
    FoldLeft(LAMBDA acc, c : IF c = Space /\ acc # <<>> /\ Last(acc) = Space
                               THEN acc ELSE Append(acc, c), <<>>, t)

TrimRight(t) ==
    LET ends == {n \in 0 .. Len(t) : n = 0 \/ t[n] \notin Blank}
    IN  SubSeq(t, 1, CHOOSE n \in ends : \A o \in ends : o <= n)

ByRule(t) ==
    IF \A i \in DOMAIN t : t[i] # Hyphen THEN t
    ELSE TrimRight(Squeeze(FlattenSeq([i \in DOMAIN t |-> RulePart(t, i)])))

(***************************************************************************)
(* The six rewriting steps, each of which reads what the earlier ones      *)
(* left, together decide about every hyphen as if it were alone.           *)
(***************************************************************************)
HyphensByRule == stage = "done" => s = ByRule(input)

=============================================================================
