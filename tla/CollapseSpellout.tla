-------------------------- MODULE CollapseSpellout --------------------------
(***************************************************************************)
(* CollapseSpellout of tts_robust_normalizer.cpp: after Sparrowhawk has    *)
(* spelled a word out character by character ("C h a o f a n") the         *)
(* characters are put together again.                                      *)
(*                                                                         *)
(* The outer loop copies; where a visible ASCII character, a space and     *)
(* another visible character follow each other it collects, in an inner    *)
(* loop, the single-character words behind the first one.                  *)
(***************************************************************************)
EXTENDS Naturals, Sequences, TextOps

Visible == {"x", "y"}       \* ASCII 33 .. 126; two of them, to see the order
Space   == "space"
Control == "control"        \* ASCII, neither visible nor a space
Wide    == "wide"           \* a character that is not ASCII

Char == Visible \cup {Space, Control, Wide}

CONSTANT Texts

ASSUME TextsAssumption == Texts \subseteq Seq(Char)

VARIABLES
    mode,                   \* "copy" (outer loop), "collect" (inner), "done"
    text,                   \* the argument
    p,                      \* position of the outer loop
    q,                      \* position of the inner loop
    collected,              \* the characters the inner loop has taken
    result

vars == <<mode, text, p, q, collected, result>>

Init ==
    /\ mode = "copy"
    /\ text \in Texts
    /\ p = 1 /\ q = 1
    /\ collected = <<>>
    /\ result = <<>>

-----------------------------------------------------------------------------
VisibleAt(i) == i <= Len(text) /\ text[i] \in Visible
SpaceAt(i)   == i <= Len(text) /\ text[i] = Space

\* Mutant: what follows the character is not looked at.
WordEndsAnywhere(i) == TRUE

\* what may follow a single-character word: a space, the end, a wide character
WordEndsAt(i) == i <= Len(text) => text[i] \in {Space, Wide}

StartsSpellout(i) == VisibleAt(i) /\ SpaceAt(i + 1) /\ VisibleAt(i + 2)

\* at the space at i: the next word is one visible character
SingleFollows(i) == SpaceAt(i) /\ VisibleAt(i + 1) /\ WordEndsAt(i + 2)

StartCollecting ==
    /\ mode = "copy"
    /\ p <= Len(text)
    /\ StartsSpellout(p)
    /\ mode' = "collect"
    /\ collected' = <<text[p]>>
    /\ q' = p + 1
    /\ UNCHANGED <<text, p, result>>

\* Mutant: one character too many is skipped.
CollectTooFar ==
    /\ mode = "collect"
    /\ SingleFollows(q)
    /\ collected' = Append(collected, text[q + 1])
    /\ q' = q + 3
    /\ UNCHANGED <<mode, text, p, result>>

Collect ==
    /\ mode = "collect"
    /\ SingleFollows(q)
    /\ collected' = Append(collected, text[q + 1])
    /\ q' = q + 2
    /\ UNCHANGED <<mode, text, p, result>>

\* Mutant: the outer loop goes on one character too late.
StopCollectingLate ==
    /\ mode = "collect"
    /\ ~SingleFollows(q)
    /\ IF Len(collected) > 1
         THEN result' = result \o collected /\ p' = q + 1
         ELSE result' = Append(result, text[p]) /\ p' = p + 1
    /\ mode' = "copy"
    /\ collected' = <<>>
    /\ UNCHANGED <<text, q>>

\* Mutant: with nothing collected the outer loop stays where it was.
StopCollectingStuck ==
    /\ mode = "collect"
    /\ ~SingleFollows(q)
    /\ IF Len(collected) > 1
         THEN result' = result \o collected /\ p' = q
         ELSE UNCHANGED <<result, p>>
    /\ mode' = "copy"
    /\ collected' = <<>>
    /\ UNCHANGED <<text, q>>

\* With nothing but the first character collected, it is copied after all.
StopCollecting ==
    /\ mode = "collect"
    /\ ~SingleFollows(q)
    /\ IF Len(collected) > 1
         THEN result' = result \o collected /\ p' = q
         ELSE result' = Append(result, text[p]) /\ p' = p + 1
    /\ mode' = "copy"
    /\ collected' = <<>>
    /\ UNCHANGED <<text, q>>

CopyChar ==
    /\ mode = "copy"
    /\ p <= Len(text)
    /\ ~StartsSpellout(p)
    /\ result' = Append(result, text[p])
    /\ p' = p + 1
    /\ UNCHANGED <<mode, text, q, collected>>

Return ==
    /\ mode = "copy"
    /\ p > Len(text)
    /\ mode' = "done"
    /\ UNCHANGED <<text, p, q, collected, result>>

Finished == mode = "done" /\ UNCHANGED vars

Next == \/ StartCollecting \/ Collect \/ StopCollecting \/ CopyChar
        \/ Return \/ Finished

Spec == Init /\ [][Next]_vars /\ WF_vars(Next)

-----------------------------------------------------------------------------
\* Both read positions stay inside the text (or at its terminator).
TypeOK ==
    /\ mode \in {"copy", "collect", "done"}
    /\ text \in Seq(Char)
    /\ p \in 1 .. Len(text) + 1
    /\ q \in 1 .. Len(text) + 1
    /\ collected \in Seq(Visible)
    /\ result \in Seq(Char)

SpaceGoes(i) ==
    /\ i \in 2 .. Len(text) - 1
    /\ text[i - 1] \in Visible /\ text[i] = Space /\ text[i + 1] \in Visible
    /\ i + 1 = Len(text) \/ text[i + 2] \in {Space, Wide}

\* what is left of the first k characters when every space that goes is gone
RulePart(i) == IF SpaceGoes(i) THEN <<>> ELSE <<text[i]>>
RuleTo(k)   == FlattenSeq([i \in 1 .. k |-> RulePart(i)])

(***************************************************************************)
(* What the loops compute is a rule on each space alone: it goes when a    *)
(* visible character is before it and a single-character word behind it.   *)
(* Where a collection starts or ends makes no difference.                  *)
(***************************************************************************)
SpacesByRule == mode = "done" => result = RuleTo(Len(text))

NonSpace(t) == Kept(Char \ {Space}, t)

(***************************************************************************)
(* No character other than a space is lost or moved, at any step.          *)
(***************************************************************************)
OnlySpacesDropped ==
    NonSpace(result) \o
        (IF Len(collected) > 1
           THEN collected \o NonSpace(SubSeq(text, q, Len(text)))
           ELSE NonSpace(SubSeq(text, p, Len(text))))
      = NonSpace(text)

(***************************************************************************)
(* A call returns: the inner loop advances and the outer one never returns *)
(* to the place where a collection with nothing in it began.               *)
(***************************************************************************)
Termination == <>(mode = "done")

=============================================================================
