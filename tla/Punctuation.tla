---------------------------- MODULE Punctuation ----------------------------
(***************************************************************************)
(* NormalizeRepeatedPunctuation, EnsureTerminalPunctuation and             *)
(* EnsureTerminalPunctuationByLine of tts_robust_normalizer.cpp, in the    *)
(* order NormalizeTtsText calls them: runs of marks are reduced to one,    *)
(* then the text is given a mark at its end.                               *)
(*                                                                         *)
(* The text goes through the two functions twice, because the tests        *)
(* require that a second run of NormalizeTtsText changes nothing.  The     *)
(* stages in between (NormalizeSpaces, RestoreSpans) have modules of their *)
(* own.  NormalizeMarkdownAndLines has joined the lines before, so ByLine  *)
(* always sees one line.                                                   *)
(***************************************************************************)
EXTENDS Naturals, Sequences

Stop     == "stop"      \* U+3002
WideDot  == "widedot"   \* U+FF0E
Dot      == "dot"       \* .
Ellipsis == "ellipsis"  \* U+2026
Comma    == "comma"     \* ,
WComma   == "wcomma"    \* U+FF0C
Bang     == "bang"      \* !
WBang    == "wbang"     \* U+FF01
Quest    == "quest"     \* ?
WQuest   == "wquest"    \* U+FF1F
Mark     == "mark"      \* any other mark a sentence may end with
Closing  == "closing"   \* quotes and brackets that close
Blank    == "blank"     \* ' ' or '\t'
Ink      == "ink"       \* anything else

Stops  == {Stop, WideDot}
Commas == {Comma, WComma}
Tones  == {Bang, WBang, Quest, WQuest}

Char == Stops \cup Commas \cup Tones
          \cup {Dot, Ellipsis, Mark, Closing, Blank, Ink}

CONSTANT Texts

ASSUME TextsAssumption == Texts \subseteq Seq(Char)

VARIABLES
    stage, s, p, result,    \* the loop, its text, its position, its output
    input,                  \* the text the current round began with
    calls                   \* which round this is

vars == <<stage, s, p, result, input, calls>>

Scans == {"ellipsis", "repeat"}

\* Mutant: runs are reduced before the ellipses have become full stops.
NextStageSwapped == [start |-> "repeat", repeat |-> "ellipsis",
                     ellipsis |-> "terminal"]

NextStage == [start |-> "ellipsis", ellipsis |-> "repeat", repeat |-> "terminal"]

Init ==
    /\ stage = NextStage["start"]
    /\ s \in Texts
    /\ p = 1
    /\ result = <<>>
    /\ input = s
    /\ calls = 1

-----------------------------------------------------------------------------
(***************************************************************************)
(* The run of members of set that begins at i ends before e.               *)
(***************************************************************************)
RunOf(set, t, i, e) ==
    /\ e \in i + 1 .. Len(t) + 1
    /\ \A q \in i .. e - 1 : t[q] \in set
    /\ e <= Len(t) => t[e] \notin set

Emit(out, next) ==
    /\ result' = result \o out
    /\ p' = next
    /\ UNCHANGED <<stage, s, input, calls>>

Reading(name) == stage = name /\ p <= Len(s)

(***************************************************************************)
(* Three dots or more, or two ellipses, become a full stop.  The           *)
(* expression is matched byte by byte: the + behind two ellipses repeats   *)
(* only the last byte, so exactly two are taken.                           *)
(***************************************************************************)
EllipsisPair == p < Len(s) /\ s[p] = Ellipsis /\ s[p + 1] = Ellipsis

DotsToStop ==
    /\ Reading("ellipsis")
    /\ \E e \in p + 3 .. Len(s) + 1 : RunOf({Dot}, s, p, e) /\ Emit(<<Stop>>, e)

EllipsesToStop ==
    /\ Reading("ellipsis")
    /\ EllipsisPair
    /\ Emit(<<Stop>>, p + 2)

CopyNoEllipsis ==
    /\ Reading("ellipsis")
    /\ ~EllipsisPair
    /\ ~ \E e \in p + 3 .. Len(s) + 1 : RunOf({Dot}, s, p, e)
    /\ Emit(<<s[p]>>, p + 1)

(***************************************************************************)
(* A run of full stops keeps its first, a run of commas becomes one        *)
(* full-width comma.                                                       *)
(***************************************************************************)
ReduceStops ==
    /\ Reading("repeat")
    /\ \E e \in p + 1 .. Len(s) + 1 : RunOf(Stops, s, p, e) /\ Emit(<<s[p]>>, e)

\* Mutant: the first comma of the run stays as it is.
ReduceCommasToFirst ==
    /\ Reading("repeat")
    /\ \E e \in p + 1 .. Len(s) + 1 : RunOf(Commas, s, p, e) /\ Emit(<<s[p]>>, e)

ReduceCommas ==
    /\ Reading("repeat")
    /\ \E e \in p + 1 .. Len(s) + 1 : RunOf(Commas, s, p, e) /\ Emit(<<WComma>>, e)

\* Mutant: only the first mark of the run counts.
ToneReadingFirst(t, i, e) ==
    IF t[i] \in {Quest, WQuest} THEN <<WQuest>> ELSE <<WBang>>

(***************************************************************************)
(* One exclamation or question mark stays; of several, a full-width one is *)
(* kept of each kind, the question mark first.                             *)
(***************************************************************************)
ToneReading(t, i, e) ==
    LET kinds == {t[q] : q \in i .. e - 1}
    IN  IF e = i + 1 THEN <<t[i]>>
        ELSE CASE kinds \cap {Quest, WQuest} = {} -> <<WBang>>
               [] kinds \cap {Bang, WBang} = {}   -> <<WQuest>>
               [] OTHER                           -> <<WQuest, WBang>>

ReduceTones ==
    /\ Reading("repeat")
    /\ \E e \in p + 1 .. Len(s) + 1 :
          RunOf(Tones, s, p, e) /\ Emit(ToneReading(s, p, e), e)

CopyOther ==
    /\ Reading("repeat")
    /\ s[p] \notin Stops \cup Commas \cup Tones
    /\ Emit(<<s[p]>>, p + 1)

\* Mutant: the next scan starts where this one stopped.
EndScanNoReset ==
    /\ stage \in Scans
    /\ p > Len(s)
    /\ s' = result
    /\ result' = <<>>
    /\ stage' = NextStage[stage]
    /\ UNCHANGED <<p, input, calls>>

EndScan ==
    /\ stage \in Scans
    /\ p > Len(s)
    /\ s' = result
    /\ result' = <<>>
    /\ p' = 1
    /\ stage' = NextStage[stage]
    /\ UNCHANGED <<input, calls>>

-----------------------------------------------------------------------------
(***************************************************************************)
(* EnsureTerminalPunctuation.  The backward loops skip the blanks at the   *)
(* end and then the closing quotes and brackets; 0 when nothing is left.   *)
(***************************************************************************)
LastOutside(set, t, top) ==
    CHOOSE n \in 0 .. top :
        /\ n > 0 => t[n] \notin set
        /\ \A q \in n + 1 .. top : t[q] \in set

LastMark(t) == LastOutside({Closing}, t, LastOutside({Blank}, t, Len(t)))

Terminal == Stops \cup Commas \cup Tones \cup {Ellipsis, Mark}

\* Mutant: a text of closing marks alone gets no full stop.
EnsureTerminalPunctuationNotBare(t) ==
    LET n == LastMark(t)
    IN  IF n = 0 \/ t[n] \in Terminal THEN t
        ELSE IF t[n] = Dot THEN [t EXCEPT ![n] = Stop] ELSE Append(t, Stop)

EnsureTerminalPunctuation(t) ==
    LET n == LastMark(t)
    IN  CASE t = <<>>                   -> t
          [] n > 0 /\ t[n] = Dot        -> [t EXCEPT ![n] = Stop]
          [] n > 0 /\ t[n] \in Terminal -> t
          [] OTHER                      -> Append(t, Stop)

Strip(t) ==
    LET inside == {i \in 1 .. Len(t) : t[i] # Blank}
        first  == CHOOSE i \in inside : \A j \in inside : i <= j
    IN  IF inside = {} THEN <<>>
        ELSE SubSeq(t, first, LastOutside({Blank}, t, Len(t)))

(***************************************************************************)
(* The Strip of NormalizeTtsText, and ByLine on the one line there is.     *)
(***************************************************************************)
EnsureTerminalPunctuationByLine ==
    /\ stage = "terminal"
    /\ s' = Strip(EnsureTerminalPunctuation(Strip(s)))
    /\ stage' = "done"
    /\ UNCHANGED <<p, result, input, calls>>

RunAgain ==
    /\ stage = "done"
    /\ calls = 1
    /\ stage' = NextStage["start"]
    /\ input' = s
    /\ calls' = 2
    /\ UNCHANGED <<s, p, result>>

Finished == stage = "done" /\ calls = 2 /\ UNCHANGED vars

Next ==
    \/ DotsToStop \/ EllipsesToStop \/ CopyNoEllipsis
    \/ ReduceStops \/ ReduceCommas \/ ReduceTones \/ CopyOther
    \/ EndScan \/ EnsureTerminalPunctuationByLine \/ RunAgain \/ Finished

Spec == Init /\ [][Next]_vars

-----------------------------------------------------------------------------
\* The read position stays inside the text or at its terminator.
TypeOK ==
    /\ stage \in Scans \cup {"terminal", "done"}
    /\ s \in Seq(Char)
    /\ p \in 1 .. Len(s) + 1
    /\ result \in Seq(Char)
    /\ input \in Seq(Char)
    /\ calls \in {1, 2}
    /\ stage \notin Scans => p = 1 /\ result = <<>>

PairReduced(a, b) ==
    /\ ~(a \in Stops /\ b \in Stops)
    /\ ~(a \in Commas /\ b \in Commas)
    /\ a \in Tones /\ b \in Tones => a = WQuest /\ b = WBang

Reduced(t) ==
    /\ \A i \in 1 .. Len(t) : t[i] # Comma
    /\ \A i \in 1 .. Len(t) - 1 : PairReduced(t[i], t[i + 1])

(***************************************************************************)
(* NormalizeRepeatedPunctuation leaves no repeated mark, wherever one run  *)
(* ends and the next begins: no two full stops or commas in a row, no      *)
(* ASCII comma at all, and two tone marks only as a full-width question    *)
(* mark before an exclamation mark.                                        *)
(***************************************************************************)
NoRepeatLeft == stage = "terminal" => Reduced(s)

(***************************************************************************)
(* A text that is not empty ends with a mark, before its closing quotes    *)
(* and brackets, when a round is over.                                     *)
(***************************************************************************)
EndsMarked ==
    stage = "done" /\ s # <<>> => LastMark(s) > 0 /\ s[LastMark(s)] \in Terminal

(***************************************************************************)
(* The idempotence check of the tests: the second round changes nothing.   *)
(***************************************************************************)
Idempotent == stage = "done" /\ calls = 2 => s = input

EndsInTwoStops(t) ==
    LET n == LastMark(t) IN n > 1 /\ t[n] = Stop /\ t[n - 1] \in Stops

(***************************************************************************)
(* The only text a second round changes is one the first round ended with  *)
(* two full stops: EnsureTerminalPunctuation turns a final dot into a full *)
(* stop without a look at what is before it.                               *)
(***************************************************************************)
ChangedOnlyAfterTwoStops ==
    stage = "done" /\ calls = 2 /\ s # input => EndsInTwoStops(input)

(***************************************************************************)
(* The inductive invariant behind NoRepeatLeft: what the second scan has   *)
(* written is reduced, and what it reads next does not continue the run    *)
(* that the last mark it wrote stands for.                                 *)
(***************************************************************************)
RunEnded(r, t, i) ==
    r # <<>> /\ i <= Len(t) =>
        \A f \in {Stops, Commas, Tones} : ~(r[Len(r)] \in f /\ t[i] \in f)

PunctuationInv ==
    /\ TypeOK
    /\ stage = "repeat" => Reduced(result) /\ RunEnded(result, s, p)
    /\ NoRepeatLeft

(***************************************************************************)
(* The inductive invariant behind ChangedOnlyAfterTwoStops.  The first     *)
(* scan leaves no ellipsis, and the second one cannot put one together,    *)
(* because what it writes last says what it has read last.  So the text of *)
(* a finished round is settled, and while it does not end with two full    *)
(* stops the second round writes exactly what it reads.                    *)
(***************************************************************************)
NoEllipses(t) ==
    /\ \A i \in 1 .. Len(t) - 2 : ~(t[i] = Dot /\ t[i + 1] = Dot /\ t[i + 2] = Dot)
    /\ \A i \in 1 .. Len(t) - 1 : ~(t[i] = Ellipsis /\ t[i + 1] = Ellipsis)

\* The dots and ellipses at the end of r and from i on in t are no ellipsis together.
NoneContinues(r, t, i) ==
    r # <<>> /\ i <= Len(t) =>
        /\ ~(r[Len(r)] = Ellipsis /\ t[i] = Ellipsis)
        /\ r[Len(r)] = Dot /\ t[i] = Dot =>
              /\ Len(r) > 1 => r[Len(r) - 1] # Dot
              /\ i < Len(t) => t[i + 1] # Dot

\* A dot or an ellipsis at the end of r is the one before i in t.
EndsAsRead(r, t, i) ==
    r # <<>> =>
        /\ r[Len(r)] \in {Dot, Ellipsis} => i > 1 /\ t[i - 1] = r[Len(r)]
        /\ Len(r) > 1 /\ r[Len(r) - 1] = Dot /\ r[Len(r)] = Dot => i > 2 /\ t[i - 2] = Dot

Stripped(t) == t # <<>> /\ t[1] # Blank /\ t[Len(t)] # Blank

Marked(t) == LastMark(t) > 0 /\ t[LastMark(t)] \in Terminal

Settled(t) ==
    /\ NoEllipses(t)
    /\ Reduced(t) \/ EndsInTwoStops(t)
    /\ t = <<>> \/ (Stripped(t) /\ Marked(t))

SettledInv ==
    /\ stage = "ellipsis" => NoEllipses(result) /\ NoneContinues(result, s, p)
    /\ stage = "repeat" => NoEllipses(s) /\ NoEllipses(result) /\ EndsAsRead(result, s, p)
    /\ stage = "terminal" => NoEllipses(s)
    /\ stage = "done" => Settled(s)
    /\ calls = 2 => /\ Settled(input)
                    /\ ~EndsInTwoStops(input) =>
                          s = input /\ result = SubSeq(s, 1, p - 1)

-----------------------------------------------------------------------------
(***************************************************************************)
(* NormalizeRepeatedPunctuation without scans: the text is cut into its    *)
(* longest runs of one family and each run is read on its own, once for    *)
(* the ellipses and once for the marks.                                    *)
(***************************************************************************)
Families == {Stops, Commas, Tones, {Dot}, {Ellipsis}}

SameFamily(a, b) == \E f \in Families : a \in f /\ b \in f

\* where the run that the character at i begins, or goes on with, is over
RunStop(t, i) ==
    CHOOSE e \in i + 1 .. Len(t) + 1 :
        /\ \A q \in i + 1 .. e - 1 : SameFamily(t[i], t[q])
        /\ e <= Len(t) => ~SameFamily(t[i], t[e])

RunAt(t, i) == SubSeq(t, i, RunStop(t, i) - 1)

EllipsisRun(r) ==
    CASE r[1] = Dot /\ Len(r) >= 3 -> <<Stop>>
      [] r[1] = Ellipsis ->
           [i \in 1 .. (Len(r) + 1) \div 2 |-> IF 2 * i <= Len(r) THEN Stop ELSE Ellipsis]
      [] OTHER -> r

MarkRun(r) ==
    LET Sounds(set, mark) == IF \E i \in 1 .. Len(r) : r[i] \in set THEN <<mark>> ELSE <<>>
    IN  CASE r[1] \in Stops  -> <<r[1]>>
          [] r[1] \in Commas -> <<WComma>>
          [] r[1] \in Tones /\ Len(r) > 1 ->
               Sounds({Quest, WQuest}, WQuest) \o Sounds({Bang, WBang}, WBang)
          [] OTHER -> r

ReadRun(scan, r) == IF scan = "ellipsis" THEN EllipsisRun(r) ELSE MarkRun(r)

\* the runs of t from the one at i on, read for the scan
RunsFrom(scan, t, i) ==
    LET from[j \in 1 .. Len(t) + 1] ==
            IF j > Len(t) THEN <<>>
            ELSE ReadRun(scan, RunAt(t, j)) \o from[RunStop(t, j)]
    IN  from[i]

EachRun(scan, t) == RunsFrom(scan, t, 1)

(***************************************************************************)
(* The two scans compute what the runs say: every run is read as a whole,  *)
(* and the full stops that ellipses became are reduced with their          *)
(* neighbours.                                                             *)
(***************************************************************************)
RepeatedByRule ==
    stage = "terminal" => s = EachRun("repeat", EachRun("ellipsis", input))

(***************************************************************************)
(* The inductive invariant behind it: what a scan has written, with the    *)
(* runs from its position on read by the rule, is the whole text read by   *)
(* the rule.  A position within a run is enough: what is left of the run   *)
(* is read as the scan goes on to read it.                                 *)
(***************************************************************************)
RuleInv ==
    /\ stage = "ellipsis" => s = input
    /\ stage = "repeat" => s = EachRun("ellipsis", input)
    /\ stage \in Scans => result \o RunsFrom(stage, s, p) = EachRun(stage, s)
    /\ RepeatedByRule

=============================================================================
