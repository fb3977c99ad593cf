----------------------------- MODULE Structure -----------------------------
(***************************************************************************)
(* NormalizeMarkdownAndLines, NormalizeFlowArrows and                      *)
(* NormalizeStructuralPunctuation of tts_robust_normalizer.cpp, in the     *)
(* order NormalizeTtsText calls them: links and line prefixes are removed  *)
(* and the lines joined, arrows become commas, brackets become quotation   *)
(* marks, long dashes become full stops.  The text goes through them       *)
(* twice, as it does in a call of the program (Pre, and Post).  The stages *)
(* in between have modules of their own.                                   *)
(***************************************************************************)
EXTENDS Naturals, Sequences, FiniteSets, SequencesExt, TextOps

Ink     == "ink"        \* a letter or a Chinese character
Space   == "space"      \* ' '
Tab     == "tab"        \* '\t'
Newline == "newline"
Hash    == "hash"       \* #
Slashes == "slashes"    \* //
Star    == "star"       \* * or +
Number  == "number"     \* digits and a closing parenthesis
Hyphen  == "hyphen"     \* -
Equal   == "equal"      \* =
Less    == "less"       \* <
Greater == "greater"    \* >
Arrow   == "arrow"      \* one of the sixteen Unicode arrows
Dash    == "dash"       \* U+2014, U+2013 or U+2015
LinkUrl == "linkurl"    \* (https?://...)
Url     == "url"        \* https?://...
Quote   == "quote"      \* "
Comma   == "comma"      \* U+FF0C
Stop    == "stop"       \* U+3002

\* Square and curly brackets; U+3010/3011 and U+300C/300D of the four wide pairs.
Opener == [square |-> "[", curly |-> "{", lenticular |-> "L", corner |-> "C"]
Closer == [square |-> "]", curly |-> "}", lenticular |-> "l", corner |-> "c"]

Blank   == {Space, Tab}
Shaft   == {Hyphen, Equal}
Dashes  == {Hyphen, Dash}
Openers == Range(Opener)
Closers == Range(Closer)

Symbol == {Ink, Newline, Hash, Slashes, Star, Number, Less, Greater, Arrow,
           LinkUrl, Url, Quote, Comma, Stop}
            \cup Blank \cup Shaft \cup Dashes \cup Openers \cup Closers

CONSTANT Texts

ASSUME TextsAssumption == Texts \subseteq Seq(Symbol)

VARIABLES
    stage,      \* the pass that comes next
    s,          \* the text
    todo,       \* in "lines": what std::getline has not read yet
    input,      \* the text this call began with
    calls       \* which call this is

vars == <<stage, s, todo, input, calls>>

Init ==
    /\ stage = "links"
    /\ s \in Texts
    /\ todo = <<>>
    /\ input = s
    /\ calls = 1

-----------------------------------------------------------------------------
\* the first position from i on that holds no member of set
RunEnd(set, t, i) == i + Cardinality({j \in i .. Len(t) : \A k \in i .. j : t[k] \in set})

Holds(t, i, set) == i \in DOMAIN t /\ t[i] \in set

\* the part of t from a to b without the members of set at its two ends
Trim(set, t, a, b) ==
    LET inside == {i \in a .. b : t[i] \notin set}
    IN  IF inside = {} THEN <<>> ELSE SubSeq(t, Min(inside), Max(inside))

Copy(t, i)          == [put |-> <<t[i]>>, next |-> i + 1]
Replaced(put, next) == [put |-> put, next |-> next]

(***************************************************************************)
(* A pair of ASCII brackets with something, but no bracket of the kind,    *)
(* between them; 0 when none begins at i.                                  *)
(***************************************************************************)
PairEnd(kind, t, i) ==
    LET next == {j \in i + 1 .. Len(t) : t[j] \in {Opener[kind], Closer[kind]}}
    IN  IF /\ t[i] = Opener[kind]
           /\ next # {}
           /\ Min(next) > i + 1
           /\ t[Min(next)] = Closer[kind]
        THEN Min(next) ELSE 0

Link(t, i) ==
    LET j == PairEnd("square", t, i)
    IN  IF j > 0 /\ Holds(t, j + 1, {LinkUrl})
        THEN Replaced(SubSeq(t, i + 1, j - 1) \o <<Space, Url>>, j + 2)
        ELSE Copy(t, i)

\* of blanks alone the lazy group keeps the last one
Bracket(kind, t, i) ==
    LET j     == PairEnd(kind, t, i)
        inner == Trim(Blank, t, i + 1, j - 1)
    IN  IF j = 0 THEN Copy(t, i)
        ELSE Replaced(<<Quote>> \o (IF inner = <<>> THEN <<t[j - 1]>> ELSE inner) \o <<Quote>>,
                      j + 1)

\* Mutant: the text up to the last closing bracket is put out.
WideBracketOuter(kind, t, i) ==
    LET start == RunEnd({Space}, t, i + 1)
        ends  == {j \in start .. Len(t) : t[j] = Closer[kind]}
    IN  IF t[i] = Opener[kind] /\ ends # {}
        THEN Replaced(<<Quote>> \o Trim({Space}, t, start, Max(ends) - 1) \o <<Quote>>,
                      Min(ends) + 1)
        ELSE Copy(t, i)

\* strstr finds the first closing bracket; blanks that are not spaces stay
WideBracket(kind, t, i) ==
    LET start == RunEnd({Space}, t, i + 1)
        ends  == {j \in start .. Len(t) : t[j] = Closer[kind]}
    IN  IF t[i] = Opener[kind] /\ ends # {}
        THEN Replaced(<<Quote>> \o Trim({Space}, t, start, Min(ends) - 1) \o <<Quote>>,
                      Min(ends) + 1)
        ELSE Copy(t, i)

\* Mutant: an arrow that has no head on the right is not one.
AsciiArrowEndRight(t, a) ==
    LET shaft == IF Holds(t, a, {Less}) THEN a + 1 ELSE a
        e     == RunEnd(Shaft, t, shaft)
    IN  IF e > shaft /\ Holds(t, e, {Greater}) THEN e + 1 ELSE 0

\* <-->, --> or <--; 0 when none begins at a
AsciiArrowEnd(t, a) ==
    LET shaft == IF Holds(t, a, {Less}) THEN a + 1 ELSE a
        e     == RunEnd(Shaft, t, shaft)
    IN  CASE e > shaft /\ Holds(t, e, {Greater}) -> e + 1
          [] e > shaft /\ ~Holds(t, e, {Greater}) /\ shaft > a -> e
          [] OTHER -> 0

AsciiArrow(t, i) ==
    LET e == AsciiArrowEnd(t, RunEnd(Blank, t, i))
    IN  IF e > 0 THEN Replaced(<<Comma>>, RunEnd(Blank, t, e)) ELSE Copy(t, i)

WideArrow(t, i) ==
    LET a == RunEnd({Space}, t, i)
    IN  IF Holds(t, a, {Arrow}) THEN Replaced(<<Comma>>, RunEnd({Space}, t, a + 1))
                                ELSE Copy(t, i)

LongDash(t, i) ==
    LET a == RunEnd(Blank, t, i)
        e == RunEnd(Dashes, t, a)
    IN  IF e >= a + 2 THEN Replaced(<<Stop>>, RunEnd(Blank, t, e)) ELSE Copy(t, i)

(***************************************************************************)
(* One pass of an expression or a loop over the text, left to right.       *)
(***************************************************************************)
Turn(name, t, i) ==
    CASE name = "links"                  -> Link(t, i)
      [] name \in {"arrows", "arrows2"}  -> AsciiArrow(t, i)
      [] name \in {"wide", "wide2"}      -> WideArrow(t, i)
      [] name \in {"square", "curly"}    -> Bracket(name, t, i)
      [] name \in {"lenticular", "corner"} -> WideBracket(name, t, i)
      [] name = "dashes"                 -> LongDash(t, i)

Pass(name, t) ==
    LET from[i \in 1 .. Len(t) + 1] ==
            IF i > Len(t) THEN <<>>
            ELSE Turn(name, t, i).put \o from[Turn(name, t, i).next]
    IN  from[1]

-----------------------------------------------------------------------------
(***************************************************************************)
(* The prefixes of a line, each removed once and in this order.            *)
(***************************************************************************)
\* Mutant: one blank behind the mark is removed.
DropMarkOneBlank(t, n) ==
    IF n \in 1 .. Len(t) - 1 /\ t[n + 1] \in Blank THEN SubSeq(t, n + 2, Len(t)) ELSE t

DropMark(t, n) ==
    IF n \in 1 .. Len(t) - 1 /\ t[n + 1] \in Blank
    THEN SubSeq(t, RunEnd(Blank, t, n + 1), Len(t)) ELSE t

DropHeading(t) ==
    LET n == RunEnd({Hash}, t, 1) - 1
    IN  CASE Holds(t, 1, {Slashes}) -> SubSeq(t, RunEnd(Blank, t, 2), Len(t))
          [] n \in 1 .. 6           -> DropMark(t, n)
          [] OTHER                  -> t

DropIf(t, set) == IF Holds(t, 1, set) THEN DropMark(t, 1) ELSE t

\* Mutant: the list mark is looked for before the quotation mark.
WithoutPrefixesSwapped(t) ==
    DropIf(DropIf(DropIf(DropHeading(t), {Hyphen, Star}), {Greater}), {Number})

WithoutPrefixes(t) ==
    DropIf(DropIf(DropIf(DropHeading(t), {Greater}), {Hyphen, Star}), {Number})

Punct == INSTANCE Punctuation
           WITH Texts <- {}, stage <- "", s <- <<>>, p <- 1, result <- <<>>,
                input <- <<>>, calls <- 1

\* what EnsureTerminalPunctuation tells apart; wide opening brackets are marks
KindOf(x) ==
    CASE x = Stop                           -> Punct!Stop
      [] x = Comma                          -> Punct!WComma
      [] x \in Closers \cup {Quote}         -> Punct!Closing
      [] x \in {Opener["lenticular"], Opener["corner"]} -> Punct!Mark
      [] x \in Blank                        -> Punct!Blank
      [] OTHER                              -> Punct!Ink

EnsureTerminalPunctuation(t) ==
    IF Len(Punct!EnsureTerminalPunctuation([i \in DOMAIN t |-> KindOf(t[i])])) > Len(t)
    THEN Append(t, Stop) ELSE t

\* Mutant: the lines are joined as they are.
MergedBare(text, line) == text \o line

Merged(text, line) == EnsureTerminalPunctuation(text) \o line

-----------------------------------------------------------------------------
\* the expression for links, before the text is read line by line
RewriteLinks ==
    /\ stage = "links"
    /\ stage' = "lines"
    /\ todo' = Pass("links", s)
    /\ s' = <<>>
    /\ UNCHANGED <<input, calls>>

LineEnd == RunEnd(Symbol \ {Newline}, todo, 1)

\* a line that is empty is skipped; one whose prefixes were all it had is not
TakeLine ==
    /\ stage = "lines"
    /\ todo # <<>>
    /\ LET line == Trim(Blank, todo, 1, LineEnd - 1)
       IN  s' = IF line = <<>> THEN s ELSE Merged(s, WithoutPrefixes(line))
    /\ todo' = SubSeq(todo, LineEnd + 1, Len(todo))
    /\ UNCHANGED <<stage, input, calls>>

\* Mutant: the reading may stop before the end.
EndOfLinesEarly ==
    /\ stage = "lines"
    /\ stage' = "arrows"
    /\ UNCHANGED <<s, todo, input, calls>>

EndOfLines ==
    /\ stage = "lines"
    /\ todo = <<>>
    /\ stage' = "arrows"
    /\ UNCHANGED <<s, todo, input, calls>>

Following ==
    [arrows |-> "wide", wide |-> "square", square |-> "curly", curly |-> "lenticular",
     lenticular |-> "corner", corner |-> "arrows2", arrows2 |-> "wide2",
     wide2 |-> "dashes", dashes |-> "done"]

Rewrite ==
    /\ stage \in DOMAIN Following
    /\ s' = Pass(stage, s)
    /\ stage' = Following[stage]
    /\ UNCHANGED <<todo, input, calls>>

RunAgain ==
    /\ stage = "done"
    /\ calls = 1
    /\ stage' = "links"
    /\ input' = s
    /\ calls' = 2
    /\ UNCHANGED <<s, todo>>

Finished == stage = "done" /\ calls = 2 /\ UNCHANGED vars

Next == RewriteLinks \/ TakeLine \/ EndOfLines \/ Rewrite \/ RunAgain \/ Finished

Spec == Init /\ [][Next]_vars

-----------------------------------------------------------------------------
TypeOK ==
    /\ stage \in {"links", "lines", "done"} \cup DOMAIN Following
    /\ s \in Seq(Symbol) /\ todo \in Seq(Symbol) /\ input \in Seq(Symbol)
    /\ calls \in {1, 2}
    /\ stage # "lines" => todo = <<>>

\* a word, an address, or nothing that is spoken
Meaning == [x \in Symbol |-> CASE x = Ink -> <<"word">>
                               [] x \in {Url, LinkUrl} -> <<"address">>
                               [] OTHER -> <<>>]

Content(t) == Spread(Meaning, t)

(***************************************************************************)
(* However brackets, links, arrows, prefixes and lines are mixed, no call  *)
(* loses, repeats or moves a word or an address.                           *)
(***************************************************************************)
ContentKept == stage = "done" => Content(s) = Content(input)

Adjacent(t, a, b) == \E i \in 1 .. Len(t) - 1 : t[i] \in a /\ t[i + 1] \in b

\* no arrow is left, and no two dashes next to each other
MarksGone(t) ==
    /\ Arrow \notin Range(t)
    /\ ~Adjacent(t, {Less}, Shaft) /\ ~Adjacent(t, Shaft, {Greater})
    /\ ~Adjacent(t, Dashes, Dashes)

(***************************************************************************)
(* A call leaves no arrow and no run of dashes: what the brackets that are *)
(* rewritten in between bring together is found by the second search for   *)
(* arrows, and neither it nor the dashes bring out another one.            *)
(***************************************************************************)
MarksRewritten == stage = "done" => MarksGone(s)

Pair(kind, t) ==
    \E i, j \in DOMAIN t :
        /\ i < j /\ t[i] = Opener[kind] /\ t[j] = Closer[kind]
        /\ kind \in {"square", "curly"} =>
              /\ j > i + 1
              /\ \A k \in i + 1 .. j - 1 : t[k] \notin {Opener[kind], Closer[kind]}

(***************************************************************************)
(* Two opening brackets of the kind come before one closing bracket.       *)
(***************************************************************************)
Nested(kind, t) ==
    \E i, j, k \in DOMAIN t :
        i < j /\ j < k /\ t[i] = Opener[kind] /\ t[j] = Opener[kind] /\ t[k] = Closer[kind]

(***************************************************************************)
(* One call leaves no arrow and no run of dashes, and no pair of brackets  *)
(* but one around or in another of its own kind, whatever other brackets   *)
(* it crosses: no pass brings out what an earlier one had to rewrite.      *)
(* Empty ASCII brackets stay.                                              *)
(***************************************************************************)
StructureRewritten ==
    /\ MarksRewritten
    /\ stage = "done" => \A kind \in DOMAIN Opener : Pair(kind, s) => Nested(kind, input)

\* what keeps the words of two lines apart
Marks == {Stop, Comma, Opener["lenticular"], Opener["corner"]}

\* behind how many words and addresses of t a member of set stands
Cuts(set, t) == {Len(Content(SubSeq(t, 1, i))) : i \in {j \in 1 .. Len(t) : t[j] \in set}}

(***************************************************************************)
(* Words on different lines are kept apart by a mark when the lines have   *)
(* been joined, through lines that are empty or hold nothing but prefixes  *)
(* or closing brackets.  What EnsureTerminalPunctuation accepts at the end *)
(* of a line is such a mark, a wide opening bracket too.                   *)
(***************************************************************************)
LinesKeptApart ==
    stage = "arrows" =>
        Cuts({Newline}, input) \subseteq Cuts(Marks, s) \cup {0, Len(Content(input))}

Rank == [hash |-> 1, slashes |-> 1, greater |-> 2, hyphen |-> 3, star |-> 3, number |-> 4]

Prefixed(t) ==
    /\ Holds(t, 1, DOMAIN Rank)
    /\ LET n == Cardinality({i \in DOMAIN t : \A k \in 1 .. i : t[k] = Hash})
       IN  n <= 6 /\ (t[1] = Slashes \/ Holds(t, IF n = 0 THEN 2 ELSE n + 1, Blank))

\* in front of some x in t there is a prefix that is looked for later, or the same one
Preceded(t, x) ==
    \E i, j \in DOMAIN t :
        i < j /\ t[j] = x /\ t[i] \in DOMAIN Rank /\ Rank[t[i]] >= Rank[x]

(***************************************************************************)
(* A prefix is left at the beginning of the text only if one that is       *)
(* looked for later, or the same one, came before it.                      *)
(***************************************************************************)
PrefixesRemoved == stage = "done" /\ Prefixed(s) => Preceded(input, s[1])

(***************************************************************************)
(* The second call, in Post, changes only a text that the first one left   *)
(* a prefix or a pair of brackets in.                                      *)
(***************************************************************************)
ChangedOnlyByRest ==
    stage = "done" /\ calls = 2 /\ s # input =>
        Prefixed(input) \/ \E kind \in DOMAIN Opener : Pair(kind, input)

=============================================================================
