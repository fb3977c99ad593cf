--------------------------- MODULE RewriteHyphens ---------------------------
(***************************************************************************)
(* RewriteHyphensBeforeZhWetext of tts_robust_normalizer.cpp: before the   *)
(* text goes to Sparrowhawk, a hyphen that is a minus sign or stands       *)
(* between digits is hidden behind a placeholder, one between Chinese      *)
(* characters becomes a comma, any other joining hyphen a space; then the  *)
(* placeholders are turned back.                                           *)
(*                                                                         *)
(* Texts are ASCII and Chinese characters: on these the code's mixture of  *)
(* byte and character steps moves character by character.                  *)
(***************************************************************************)
EXTENDS Chars

Hyphen == "hyphen"
Keep   == "keep"        \* ___KEEP_HYPHEN_BEFORE_ZH_WETEXT___
Delim  == "delim"       \* = : + * / , ( ; [ {
Comma  == "comma"       \* the full-width comma the function inserts
HanD   == "hand"        \* a Chinese character whose last UTF-8 byte is one of
                        \* the bytes in the delimiters' character class
Hans   == {Han, HanD}

InputChar == {Han, HanD, Digit, Latin, Space, Tab, Hyphen, Delim}
HyphenChar == InputChar \cup {Keep, Comma}

CONSTANT Texts

ASSUME TextsAssumption == Texts \subseteq Seq(InputChar)

VARIABLES
    stage, s, p, result,    \* as in NormalizeSpaces
    input                   \* the argument

vars == <<stage, s, p, result, input>>

Scans == {"delimneg", "cjkneg", "numrange", "cjkcjk", "other", "collapse",
          "restore"}

\* Mutant: the catch-all for hyphens comes before the rule on Chinese words.
NextStageOtherFirst ==
    [ delimneg |-> "cjkneg", cjkneg |-> "numrange", numrange |-> "other",
      other |-> "cjkcjk", cjkcjk |-> "collapse", collapse |-> "rstrip",
      restore |-> "done" ]

NextStage == [ delimneg |-> "cjkneg", cjkneg |-> "numrange",
               numrange |-> "cjkcjk", cjkcjk |-> "other",
               other |-> "collapse", collapse |-> "rstrip",
               restore |-> "done" ]

Init ==
    /\ stage = "start"
    /\ s \in Texts
    /\ p = 1
    /\ result = <<>>
    /\ input = s

-----------------------------------------------------------------------------
(***************************************************************************)
(* From i: blanks, a hyphen at h, blanks, and something at r.  blank is    *)
(* what the loop or the expression skips.                                  *)
(***************************************************************************)
HyphenAhead(blank, t, i, h, r) ==
    /\ h \in i .. Len(t) /\ r \in h + 1 .. Len(t)
    /\ SkipRun(blank, t, i, h) /\ t[h] = Hyphen
    /\ SkipRun(blank, t, h + 1, r)

\* without a hyphen the argument is returned as it is
NothingToDo ==
    /\ stage = "start"
    /\ \A i \in 1 .. Len(s) : s[i] # Hyphen
    /\ stage' = "done"
    /\ UNCHANGED <<s, p, result, input>>

(***************************************************************************)
(* 1. A minus sign at the start; the blanks around it stay.                *)
(***************************************************************************)
HeadNegative ==
    /\ stage = "start"
    /\ \E i \in 1 .. Len(s) : s[i] = Hyphen
    /\ s' = [i \in 1 .. Len(s) |->
               IF \E r \in 1 .. Len(s) :
                     HyphenAhead(Blank, s, 1, i, r) /\ s[r] = Digit
                 THEN Keep ELSE s[i]]
    /\ stage' = "delimneg"
    /\ UNCHANGED <<p, result, input>>

(***************************************************************************)
(* One step of a scan that turns "a - b" into "a x b": at a, with b not    *)
(* consumed.  Elsewhere the character is copied.                           *)
(***************************************************************************)
Rewrite(name, blank, Applies(_, _), x) ==
    /\ stage = name
    /\ p <= Len(s)
    /\ \/ \E h, r \in p + 1 .. Len(s) :
            /\ HyphenAhead(blank, s, p + 1, h, r)
            /\ Applies(s[p], s[r])
            /\ result' = result \o <<s[p], x>>
            /\ p' = r
       \/ /\ ~ \E h, r \in p + 1 .. Len(s) :
                  HyphenAhead(blank, s, p + 1, h, r) /\ Applies(s[p], s[r])
          /\ result' = Append(result, s[p])
          /\ p' = p + 1
    /\ UNCHANGED <<stage, s, input>>

\* 2. a minus sign behind a delimiter
AfterDelim(a, b) == a \in {Delim, HanD} /\ b = Digit
DelimNegative == Rewrite("delimneg", Blank, AfterDelim, Keep)

\* 3. a minus sign in Chinese text
AfterHan(a, b) == a \in Hans /\ b = Digit
CjkNegative == Rewrite("cjkneg", {Space}, AfterHan, Keep)

\* 4. a range or a date
BetweenDigits(a, b) == a = Digit /\ b = Digit
NumRange == Rewrite("numrange", Blank, BetweenDigits, Keep)

\* 5. a pause between Chinese words
BetweenHans(a, b) == a \in Hans /\ b \in Hans
CjkPause == Rewrite("cjkcjk", {Space}, BetweenHans, Comma)

\* 6. every other hyphen that joins two words
JoinsWords(a, b) == {a, b} \cap {Space, Tab, Hyphen} = {}
OtherHyphen == Rewrite("other", Blank, JoinsWords, Space)

CollapseSpaces ==
    /\ stage = "collapse"
    /\ p <= Len(s)
    /\ result' = IF s[p] = Space /\ result # <<>> /\ result[Len(result)] = Space
                   THEN result ELSE Append(result, s[p])
    /\ p' = p + 1
    /\ UNCHANGED <<stage, s, input>>

RestorePlaceholder ==
    /\ stage = "restore"
    /\ p <= Len(s)
    /\ result' = Append(result, IF s[p] = Keep THEN Hyphen ELSE s[p])
    /\ p' = p + 1
    /\ UNCHANGED <<stage, s, input>>

\* Mutant: the next scan starts where this one stopped.
EndScanNoReset ==
    /\ stage \in Scans
    /\ p > Len(s)
    /\ s' = result
    /\ result' = <<>>
    /\ stage' = NextStage[stage]
    /\ UNCHANGED <<p, input>>

EndScan ==
    /\ stage \in Scans
    /\ p > Len(s)
    /\ s' = result
    /\ result' = <<>>
    /\ p' = 1
    /\ stage' = NextStage[stage]
    /\ UNCHANGED input

\* Mutant: the blank at the end is found but stays.
StripRightStuck ==
    /\ stage = "rstrip"
    /\ s' = s
    /\ stage' = IF s # <<>> /\ s[Len(s)] \in Blank THEN stage ELSE "restore"
    /\ UNCHANGED <<p, result, input>>

\* only the blanks at the end go
StripRight ==
    /\ stage = "rstrip"
    /\ IF s # <<>> /\ s[Len(s)] \in Blank
         THEN s' = SubSeq(s, 1, Len(s) - 1) /\ stage' = stage
         ELSE s' = s /\ stage' = "restore"
    /\ UNCHANGED <<p, result, input>>

Finished == stage = "done" /\ UNCHANGED vars

Next ==
    \/ NothingToDo \/ HeadNegative \/ DelimNegative \/ CjkNegative \/ NumRange
    \/ CjkPause \/ OtherHyphen \/ CollapseSpaces \/ EndScan \/ StripRight
    \/ RestorePlaceholder \/ Finished

Spec == Init /\ [][Next]_vars /\ WF_vars(Next)

-----------------------------------------------------------------------------
(***************************************************************************)
(* Every variable holds what the code's variable can hold: no scan of      *)
(* RewriteHyphensBeforeZhWetext leaves the text it reads.                  *)
(***************************************************************************)
TypeOK ==
    /\ stage \in Scans \cup {"start", "rstrip", "done"}
    /\ s \in Seq(HyphenChar)
    /\ p \in 1 .. Len(s) + 1
    /\ result \in Seq(HyphenChar)
    /\ input \in Seq(InputChar)

(***************************************************************************)
(* A call of RewriteHyphensBeforeZhWetext returns: each scan advances, and *)
(* the loop over the blanks at the end stops.                              *)
(***************************************************************************)
Termination == <>(stage = "done")

=============================================================================
