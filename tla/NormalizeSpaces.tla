--------------------------- MODULE NormalizeSpaces ---------------------------
(***************************************************************************)
(* NormalizeSpaces of tts_robust_normalizer.cpp: seven rewriting passes    *)
(* over one text, each a left-to-right scan that builds result from s and  *)
(* then replaces s by it, followed by Strip.                               *)
(*                                                                         *)
(* One step is one iteration of a pass's loop.  The pipeline applies the   *)
(* function to its own output (NormalizeTtsText calls it twice, and        *)
(* NormalizeTtsTextPost runs the pipeline again), so a behaviour is two    *)
(* calls: the second one gets the text the first one returned.             *)
(***************************************************************************)
EXTENDS Chars, TextOps

CONSTANT Texts          \* the texts the first call may be given

ASSUME TextsAssumption == Texts \subseteq Seq(Char)

VARIABLES
    stage,              \* the pass that is running
    s,                  \* the text the pass reads
    p,                  \* its read position
    result,             \* the text the pass has written
    input,              \* the argument of the current call
    calls               \* which call this is

vars == <<stage, s, p, result, input, calls>>

(***************************************************************************)
(* The passes in the order of the code; Next stage after each.             *)
(***************************************************************************)
Collapsing == {"collapse1", "collapse2", "collapse3"}

Passes == Collapsing \cup {"cjk", "digit", "latin", "zhpunct", "asciipunct"}

NextStage == [ collapse1 |-> "cjk",       cjk        |-> "digit",
               digit     |-> "latin",     latin      |-> "collapse2",
               collapse2 |-> "zhpunct",   zhpunct    |-> "asciipunct",
               asciipunct |-> "collapse3", collapse3 |-> "strip" ]

Init ==
    /\ stage = "collapse1"
    /\ s \in Texts
    /\ p = 1
    /\ result = <<>>
    /\ input = s
    /\ calls = 1

-----------------------------------------------------------------------------
(***************************************************************************)
(* The forms of one loop iteration.                                        *)
(***************************************************************************)
Reading(name) == stage = name /\ p <= Len(s)

Emit(out, next) ==
    /\ result' = result \o out
    /\ p' = next
    /\ UNCHANGED <<stage, s, input, calls>>

Copy == Emit(<<s[p]>>, p + 1)

EndsIn(t, set) == t # <<>> /\ t[Len(t)] \in set

\* Mutant: the second space is not read past.
CollapseSpacesStuck ==
    /\ stage \in Collapsing
    /\ p <= Len(s)
    /\ IF s[p] = Space /\ EndsIn(result, {Space})
         THEN Emit(<<>>, p)
         ELSE Copy

(***************************************************************************)
(* Passes 1, 5 and the last: a run of two or more spaces becomes one.      *)
(***************************************************************************)
CollapseSpaces ==
    /\ stage \in Collapsing
    /\ p <= Len(s)
    /\ IF s[p] = Space /\ EndsIn(result, {Space})
         THEN Emit(<<>>, p + 1)
         ELSE Copy

\* Mutant: the second character is consumed and cannot begin the next pair.
JoinCjkConsuming ==
    /\ Reading("cjk")
    /\ \E next \in p + 1 .. Len(s) + 1 :
         /\ SkipRun({Space}, s, p + 1, next)
         /\ IF /\ next # p + 1 /\ next <= Len(s)
               /\ IsCjkOrKana(s[p]) /\ IsCjkOrKana(s[next])
              THEN Emit(<<s[p], s[next]>>, next + 1)
              ELSE Copy

(***************************************************************************)
(* Pass 2: the spaces between two CJK characters are dropped.              *)
(***************************************************************************)
JoinCjk ==
    /\ Reading("cjk")
    /\ \E next \in p + 1 .. Len(s) + 1 :
         /\ SkipRun({Space}, s, p + 1, next)
         /\ IF IsCjkOrKana(s[p]) /\ next <= Len(s) /\ IsCjkOrKana(s[next])
              THEN Emit(<<s[p]>>, next)
              ELSE Copy

\* Mutant: a digit before a Chinese character is forgotten.
DigitBoundaryOneWay(a, b) == IsCjkOrKana(a) /\ IsDigit(b)

(***************************************************************************)
(* Pass 3: so are the spaces between a CJK character and a digit.          *)
(***************************************************************************)
DigitBoundary(a, b) ==
    \/ IsCjkOrKana(a) /\ IsDigit(b)
    \/ IsDigit(a) /\ IsCjkOrKana(b)

JoinDigit ==
    /\ Reading("digit")
    /\ \E next \in p + 1 .. Len(s) + 1 :
         /\ SkipRun({Space}, s, p + 1, next)
         /\ IF next # p + 1 /\ next <= Len(s) /\ DigitBoundary(s[p], s[next])
              THEN Emit(<<s[p]>>, next)
              ELSE Copy

(***************************************************************************)
(* Pass 4: one space between a CJK character and a Latin letter or a       *)
(* protected token.  A token looks back at what was written and forward    *)
(* over all spaces; a letter looks forward over at most one.               *)
(***************************************************************************)
SpaceTag ==
    /\ Reading("latin")
    /\ s[p] = Tag
    /\ \E next \in p + 1 .. Len(s) + 1 :
         LET lead == IF EndsIn(result, {Han, Kana}) THEN <<Space>> ELSE <<>>
         IN  /\ SkipRun({Space}, s, p + 1, next)
             /\ IF next <= Len(s) /\ IsCjkOrKana(s[next])
                  THEN Emit(lead \o <<Tag, Space>>, next)
                  ELSE Emit(lead \o <<Tag>>, p + 1)

\* Mutant: a Latin letter before a Chinese character is forgotten.
LatinBoundaryOneWay(a, b) == IsCjkOrKana(a) /\ (IsLatin(b) \/ b = Tag)

LatinBoundary(a, b) ==
    \/ IsCjkOrKana(a) /\ (IsLatin(b) \/ b = Tag)
    \/ IsLatin(a) /\ IsCjkOrKana(b)

SpaceLatin ==
    /\ Reading("latin")
    /\ s[p] # Tag
    /\ \E next \in p + 1 .. Len(s) + 1 :
         LET look == IF p < Len(s) /\ s[p + 1] = Space THEN p + 2 ELSE p + 1
         IN  /\ SkipRun({Space}, s, p + 1, next)
             /\ IF look <= Len(s) /\ LatinBoundary(s[p], s[look])
                  THEN Emit(<<s[p], Space>>, next)
                  ELSE Copy

\* Mutant: the last character written goes without a look at what it is.
TrimmedToPop(t, n) == n = IF t = <<>> THEN 0 ELSE Len(t) - 1

(***************************************************************************)
(* Pass 6: a closing mark takes the spaces already written before it and   *)
(* the ones after it; an opening mark only the ones after it.              *)
(***************************************************************************)
TrimmedTo(t, n) ==
    /\ n \in 0 .. Len(t)
    /\ \A q \in n + 1 .. Len(t) : t[q] = Space
    /\ n > 0 => t[n] # Space

TightenZhPunct ==
    /\ Reading("zhpunct")
    /\ \E next \in p + 1 .. Len(s) + 1 :
         /\ SkipRun({Space}, s, p + 1, next)
         /\ \/ /\ s[p] = Closer
               /\ \E n \in 0 .. Len(result) :
                    /\ TrimmedTo(result, n)
                    /\ result' = Append(SubSeq(result, 1, n), Closer)
               /\ p' = next
               /\ UNCHANGED <<stage, s, input, calls>>
            \/ s[p] = Opener /\ Emit(<<Opener>>, next)
            \/ s[p] \notin {Closer, Opener} /\ Copy

(***************************************************************************)
(* Pass 7: the blanks before an ASCII mark are dropped.                    *)
(***************************************************************************)
TightenAsciiPunct ==
    /\ Reading("asciipunct")
    /\ \E next \in p .. Len(s) + 1 :
         /\ SkipRun(Blank, s, p, next)
         /\ IF next # p /\ next <= Len(s) /\ s[next] = AsciiPunct
              THEN Emit(<<AsciiPunct>>, next + 1)
              ELSE Copy

\* Mutant: the next pass starts where this one stopped.
EndPassNoReset ==
    /\ stage \in Passes
    /\ p > Len(s)
    /\ s' = result
    /\ result' = <<>>
    /\ stage' = NextStage[stage]
    /\ UNCHANGED <<p, input, calls>>

(***************************************************************************)
(* The end of a pass: s = result, and the next pass starts over.           *)
(***************************************************************************)
EndPass ==
    /\ stage \in Passes
    /\ p > Len(s)
    /\ s' = result
    /\ result' = <<>>
    /\ p' = 1
    /\ stage' = NextStage[stage]
    /\ UNCHANGED <<input, calls>>

(***************************************************************************)
(* Strip: blanks leave the front, then the back; then the call returns.    *)
(***************************************************************************)
StripFront ==
    /\ stage = "strip"
    /\ s # <<>>
    /\ s[1] \in Blank
    /\ s' = SubSeq(s, 2, Len(s))
    /\ UNCHANGED <<stage, p, result, input, calls>>

StripBack ==
    /\ stage = "strip"
    /\ s # <<>>
    /\ s[1] \notin Blank
    /\ s[Len(s)] \in Blank
    /\ s' = SubSeq(s, 1, Len(s) - 1)
    /\ UNCHANGED <<stage, p, result, input, calls>>

Return ==
    /\ stage = "strip"
    /\ s # <<>> => s[1] \notin Blank /\ s[Len(s)] \notin Blank
    /\ stage' = "done"
    /\ UNCHANGED <<s, p, result, input, calls>>

CallAgain ==
    /\ stage = "done"
    /\ calls = 1
    /\ stage' = "collapse1"
    /\ input' = s
    /\ calls' = 2
    /\ UNCHANGED <<s, p, result>>

Finished == stage = "done" /\ calls = 2 /\ UNCHANGED vars

Next ==
    \/ CollapseSpaces \/ JoinCjk \/ JoinDigit \/ SpaceTag \/ SpaceLatin
    \/ TightenZhPunct \/ TightenAsciiPunct \/ EndPass
    \/ StripFront \/ StripBack \/ Return
    \/ CallAgain \/ Finished

Spec == Init /\ [][Next]_vars

\* The function is sequential code: it never stops between two steps.
FairSpec == Spec /\ WF_vars(Next)

-----------------------------------------------------------------------------
(***************************************************************************)
(* Every variable holds what the code's variable can hold; in particular   *)
(* the read pointer never leaves the text it reads (at most one past its   *)
(* end, where the terminating NUL stops every loop).                       *)
(***************************************************************************)
TypeOK ==
    /\ stage \in Passes \cup {"strip", "done"}
    /\ s \in Seq(Char)
    /\ p \in 1 .. Len(s) + 1
    /\ result \in Seq(Char)
    /\ input \in Seq(Char)
    /\ calls \in {1, 2}
    /\ stage \in {"strip", "done"} => p = 1 /\ result = <<>>

(***************************************************************************)
(* What the passes establish, one after the other, as conditions on two or *)
(* three adjacent characters.  Level 1 is what collapse1 leaves, 2 cjk,    *)
(* 3 digit, 4 latin, 5 and 6 zhpunct, 7 asciipunct.                        *)
(***************************************************************************)
PairOK(k, a, b) ==
    /\ k >= 1 => ~(a = Space /\ b = Space)
    /\ k >= 4 => /\ ~(a \in {Han, Kana} /\ b \in {Latin, Tag})
                 /\ ~(a \in {Latin, Tag} /\ b \in {Han, Kana})
    /\ k >= 5 => ~(a \in {Closer, Opener} /\ b = Space)
    /\ k >= 6 => ~(a = Space /\ b = Closer)
    /\ k >= 7 => ~(a \in Blank /\ b = AsciiPunct)

TripleOK(k, a, b, c) ==
    /\ k >= 2 => ~(a \in {Han, Kana} /\ b = Space /\ c \in {Han, Kana})
    /\ k >= 3 =>
         /\ ~(a \in {Han, Kana} /\ b = Space /\ c \in {Digit, WideDigit})
         /\ ~(a \in {Digit, WideDigit} /\ b = Space /\ c \in {Han, Kana})

Spaced(k, t) ==
    /\ \A i \in 1 .. Len(t) - 1 : PairOK(k, t[i], t[i + 1])
    /\ \A i \in 1 .. Len(t) - 2 : TripleOK(k, t[i], t[i + 1], t[i + 2])

TidyText(t) ==
    /\ Spaced(7, t)
    /\ t # <<>> => t[1] \notin Blank /\ t[Len(t)] \notin Blank

(***************************************************************************)
(* The text a call returns obeys all the spacing rules at once: no later   *)
(* pass undoes what an earlier one established.  (No double space; no      *)
(* space inside Chinese or between Chinese and a digit; a space between    *)
(* Chinese and a Latin word or a protected token; none around a Chinese    *)
(* mark or before an ASCII mark; no blank at either end.)                  *)
(***************************************************************************)
OutputTidy == stage = "done" => TidyText(s)

NonBlank(t) == Kept(Char \ Blank, t)

(***************************************************************************)
(* No pass loses, invents or reorders a character that is not a blank: at  *)
(* every step what has been written and what is still to be read make up   *)
(* the argument of the call.                                               *)
(***************************************************************************)
ContentKept ==
    NonBlank(result) \o NonBlank(SubSeq(s, p, Len(s))) = NonBlank(input)

(***************************************************************************)
(* A second call changes nothing: the two calls in NormalizeTtsText and    *)
(* the second run of the pipeline see settled spacing.                     *)
(***************************************************************************)
Idempotent == stage = "done" /\ calls = 2 => s = input

(***************************************************************************)
(* Both calls return: every loop of every pass makes progress.             *)
(***************************************************************************)
Termination == <>(stage = "done" /\ calls = 2)

-----------------------------------------------------------------------------
(***************************************************************************)
(* The inductive invariant behind OutputTidy.  A pass reads a text of the  *)
(* level before it and writes one of the level after it, and the place     *)
(* where the two meet is already of the new level, except for the spaces   *)
(* a pass removes when it gets to them: CollapseSpaces drops one it reads  *)
(* after one it wrote, and TightenZhPunct takes back one it wrote.         *)
(***************************************************************************)
LevelBefore == [ collapse1 |-> 0, cjk |-> 1, digit |-> 2, latin |-> 3,
                 collapse2 |-> 4, zhpunct |-> 4, asciipunct |-> 6,
                 collapse3 |-> 7, strip |-> 7, done |-> 7 ]

LevelAfter == [ collapse1 |-> 1, cjk |-> 2, digit |-> 3, latin |-> 4,
                collapse2 |-> 4, zhpunct |-> 6, asciipunct |-> 7,
                collapse3 |-> 7, strip |-> 7, done |-> 7 ]

LevelJoint == [LevelAfter EXCEPT !["collapse1"] = 0, !["zhpunct"] = 5]

Joint(k, r, t, i) ==
    /\ r # <<>> /\ i <= Len(t) => PairOK(k, r[Len(r)], t[i])
    /\ Len(r) > 1 /\ i <= Len(t) => TripleOK(k, r[Len(r) - 1], r[Len(r)], t[i])
    /\ r # <<>> /\ i < Len(t) => TripleOK(k, r[Len(r)], t[i], t[i + 1])

\* In pass 7 a blank is only written when the run it is in ends elsewhere.
BlankRunKept(r, t, i) ==
    EndsIn(r, Blank) =>
        \A next \in i .. Len(t) : SkipRun(Blank, t, i, next) => t[next] # AsciiPunct

SpacingInv ==
    /\ TypeOK
    /\ Spaced(LevelBefore[stage], s)
    /\ Spaced(LevelAfter[stage], result)
    /\ Joint(LevelJoint[stage], result, s, p)
    /\ stage = "asciipunct" => BlankRunKept(result, s, p)
    /\ stage = "done" => TidyText(s)

(***************************************************************************)
(* The inductive invariant behind Idempotent: on a tidy text every pass    *)
(* writes exactly what it has read.                                        *)
(***************************************************************************)
SecondCallInv ==
    calls = 2 => /\ TidyText(s)
                 /\ s = input
                 /\ result = SubSeq(s, 1, p - 1)

=============================================================================
