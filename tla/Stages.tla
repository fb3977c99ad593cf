------------------------------- MODULE Stages -------------------------------
(***************************************************************************)
(* The stages of NormalizeTtsTextPre and NormalizeTtsTextPost, of          *)
(* RewriteHyphensBeforeZhWetext and of Sparrowhawk, each as one function   *)
(* on whole texts, and their order.  Where a stage has a module of its own *)
(* this one takes the rule that module is checked against.                 *)
(*                                                                         *)
(* A text is a sequence of the items of ProtectSpans: character classes,   *)
(* and placeholders with a number.  "stop" is the full stop U+3002.  The   *)
(* texts hold what protection is about: tokens, words, underscores, spaces *)
(* and full stops, and hyphens next to letters.  They are single lines     *)
(* without control characters, arrows, brackets, dashes and list marks:    *)
(* BaseCleanup, NormalizeFlowArrows and NormalizeStructuralPunctuation     *)
(* leave such a text as it is, and have the module Structure.              *)
(***************************************************************************)
EXTENDS Naturals, Sequences, SequencesExt

Spans == INSTANCE ProtectSpans
           WITH Texts <- {}, stage <- "", s <- <<>>, p <- 1, result <- <<>>,
                prot <- <<>>, idx <- 1, input <- <<>>

Spacing == INSTANCE SpacingRules
             WITH Texts <- {}, text <- <<>>, returned <- 0

Ch(c)      == Spans!Ch(c)
TagItem(k) == Spans!TagItem(k)
Item       == Spans!Item

Blank == Ch("space")
Stop  == Ch("stop")

-----------------------------------------------------------------------------
(***************************************************************************)
(* Strip, and the part of NormalizeMarkdownAndLines that one line of such  *)
(* text can meet: one heading prefix, #{1,6}\s+, is removed.               *)
(***************************************************************************)
Ink(t) == {i \in DOMAIN t : t[i] # Blank}

Strip(t) ==
    IF Ink(t) = {} THEN <<>>
    ELSE SubSeq(t, CHOOSE i \in Ink(t) : \A j \in Ink(t) : i <= j,
                   CHOOSE i \in Ink(t) : \A j \in Ink(t) : j <= i)

NormalizeMarkdownAndLines(text) ==
    LET line == Strip(text)
        heading == {h \in 1 .. 6 : /\ h < Len(line) /\ line[h + 1] = Blank
                                   /\ \A q \in 1 .. h : line[q] = Ch("hash")}
        rest == {i \in Ink(line) : \E h \in heading : i > h}
    IN  IF heading = {} THEN line
        ELSE SubSeq(line, CHOOSE i \in rest : \A j \in rest : i <= j, Len(line))

(***************************************************************************)
(* ProtectSpans: the seven expressions one after the other, each a pass    *)
(* over what the one before it left.                                       *)
(***************************************************************************)
\* Mutant: the placeholder gets its number after the span was added.
PlaceholderLate(prot) == TagItem(Len(prot) + 2)

\* MakeProtTag(prot.size())
Placeholder(prot) == TagItem(Len(prot) + 1)

Ends(name, t, i) == {e \in i + 1 .. Len(t) + 1 : Spans!Match(name, t, i, e)}

ProtectPass(st, name) ==
    LET t == st.text
        Step(acc, i) ==
            IF i < acc.next THEN acc
            ELSE IF Ends(name, t, i) = {}
              THEN [acc EXCEPT !.next = i + 1, !.text = Append(@, t[i])]
            ELSE LET e == CHOOSE e \in Ends(name, t, i) : TRUE
                 IN  IF Spans!FollowsWord(name, t, i)
                       THEN [acc EXCEPT !.next = e,
                                        !.text = @ \o SubSeq(t, i, e - 1)]
                       ELSE [next |-> e,
                             text |-> Append(acc.text, Placeholder(acc.prot)),
                             prot |-> Append(acc.prot, SubSeq(t, i, e - 1))]
    IN  FoldLeft(Step, [next |-> 1, text |-> <<>>, prot |-> st.prot],
                 [i \in 1 .. Len(t) |-> i])

ProtectSpans(t) ==
    FoldLeft(ProtectPass, [next |-> 1, text |-> t, prot |-> <<>>],
             <<"url", "email", "mention", "reddit", "hashtag", "filelike", "dot">>)

\* Mutant: the loop over the spans stops before the last one.
RestoreSpansButLast(t, spans) ==
    FoldLeft(LAMBDA acc, k :
                 FlattenSeq([i \in DOMAIN acc |->
                     IF acc[i] = TagItem(k) /\ k < Len(spans)
                       THEN spans[k] ELSE <<acc[i]>>]),
             t, [k \in DOMAIN spans |-> k])

(***************************************************************************)
(* RestoreSpans: index by index, every occurrence of its placeholder.      *)
(***************************************************************************)
RestoreSpans(t, spans) ==
    FoldLeft(LAMBDA acc, k :
                 FlattenSeq([i \in DOMAIN acc |->
                     IF acc[i] = TagItem(k) THEN spans[k] ELSE <<acc[i]>>]),
             t, [k \in DOMAIN spans |-> k])

NormalizeVisibleUnderscores(t) ==
    [i \in DOMAIN t |-> IF t[i] = Ch("under") THEN Blank ELSE t[i]]

(***************************************************************************)
(* NormalizeSpaces: every gap by the rule of SpacingRules.                 *)
(***************************************************************************)
ClassOf(x) ==
    CASE x.c = "wide"                   -> Spacing!Han
      [] x.c \in {"letter", "ur", "http"} -> Spacing!Latin
      [] x.c = "digit"                  -> Spacing!Digit
      [] x.c = "tag"                    -> Spacing!Tag
      [] x.c = "space"                  -> Spacing!Space
      [] x.c = "stop"                   -> Spacing!Closer
      [] x.c = "dot"                    -> Spacing!AsciiPunct
      [] OTHER                          -> Spacing!Other

NormalizeSpaces(text) ==
    LET t     == Strip(text)
        next(i) == CHOOSE j \in Ink(t) : j > i /\ \A q \in i + 1 .. j - 1 : q \notin Ink(t)
        gap(i)  == [q \in 1 .. next(i) - i - 1 |-> Spacing!Space]
        Part(i) ==
            IF i \notin Ink(t) THEN <<>>
            ELSE IF i = Len(t) THEN <<t[i]>>
            ELSE <<t[i]>> \o [q \in DOMAIN Spacing!GapRule(ClassOf(t[i]), gap(i),
                                                    ClassOf(t[next(i)])) |-> Blank]
    IN  FlattenSeq([i \in DOMAIN t |-> Part(i)])

(***************************************************************************)
(* NormalizeRepeatedPunctuation: a run of full stops keeps one.  Dots come *)
(* between letters in these texts, so there is never a run of dots.        *)
(***************************************************************************)
NormalizeRepeatedPunctuation(t) ==
    LET kept == SelectSeq([i \in DOMAIN t |-> i],
                          LAMBDA i : ~(i > 1 /\ t[i] = Stop /\ t[i - 1] = Stop))
    IN  [j \in DOMAIN kept |-> t[kept[j]]]

EnsureTerminalPunctuationByLine(t) ==
    CASE t = <<>> \/ Last(t) = Stop -> t
      [] Last(t) = Ch("dot")        -> Append(Front(t), Stop)
      [] OTHER                      -> Append(t, Stop)

-----------------------------------------------------------------------------
(***************************************************************************)
(* What Pre and NormalizeTtsText have in common, up to where one of them   *)
(* returns the spans and the other puts them back.                         *)
(***************************************************************************)
NormalizeTtsTextPre(text) ==
    LET st == ProtectSpans(NormalizeMarkdownAndLines(text))
        u  == NormalizeSpaces(NormalizeVisibleUnderscores(st.text))
    IN  [text  |-> Strip(NormalizeSpaces(NormalizeRepeatedPunctuation(u))),
         spans |-> st.prot]

NormalizeTtsText(text) ==
    LET pre == NormalizeTtsTextPre(text)
    IN  EnsureTerminalPunctuationByLine(Strip(RestoreSpans(pre.text, pre.spans)))

\* Mutant: the text is normalised with the placeholders still in it.
NormalizeTtsTextPostNoRestore(text, spans) == NormalizeTtsText(text)

NormalizeTtsTextPost(text, spans) == NormalizeTtsText(RestoreSpans(text, spans))

(***************************************************************************)
(* RewriteHyphensBeforeZhWetext: the hyphens of these texts stand next to  *)
(* a letter, so the one rule they can meet is the last, "every other       *)
(* hyphen becomes a space", which takes the blanks around it too.          *)
(***************************************************************************)
RewriteHyphens(t) ==
    LET Edge(i)   == t[i] \notin {Blank, Ch("dash")}
        before(i) == {q \in 1 .. i - 1 : t[q] # Blank}
        after(i)  == {q \in i + 1 .. Len(t) : t[q] # Blank}
        Joins(i)  == /\ t[i] = Ch("dash")
                     /\ before(i) # {} /\ Edge(Max(before(i)))
                     /\ after(i) # {} /\ Edge(Min(after(i)))
        Taken(i)  == /\ t[i] = Blank
                     /\ \E h \in DOMAIN t :
                           /\ Joins(h)
                           /\ Max(before(h)) < i /\ i < Min(after(h))
        Part(i)   == IF Joins(i) THEN <<Blank>>
                     ELSE IF Taken(i) THEN <<>> ELSE <<t[i]>>
    IN  IF Ch("dash") \in Range(t)
          THEN FlattenSeq([i \in DOMAIN t |-> Part(i)]) ELSE t

-----------------------------------------------------------------------------
(***************************************************************************)
(* Sparrowhawk (external).  SentenceSplitter cuts behind every full stop   *)
(* (sentence_boundary_regexp).  Normalize reads a sentence as the tokens   *)
(* of classify/char.grm, runs of word characters and single other ones,    *)
(* drops the blanks between them and writes them with one space between    *)
(* each two, which is what CollapseSpellout undoes.  "sep", "://", is      *)
(* three such tokens.                                                      *)
(***************************************************************************)
SentenceSplitter(t) ==
    FoldLeft(LAMBDA acc, x :
                 IF acc # <<>> /\ Last(Last(acc)) # Stop
                   THEN Append(Front(acc), Append(Last(acc), x))
                   ELSE Append(acc, <<x>>),
             <<>>, t)

WordChar == {"letter", "ur", "http", "digit", "dot", "under", "at", "hash",
             "dash", "tag"}

Verbalize(sentence) ==
    LET ink == SelectSeq([i \in DOMAIN sentence |-> i], LAMBDA i : sentence[i] # Blank)
        Part(j) ==
            LET i == ink[j]
            IN  IF j = 1 \/ /\ ink[j - 1] = i - 1
                            /\ {sentence[i - 1].c, sentence[i].c} \subseteq WordChar
                  THEN <<sentence[i]>> ELSE <<Blank, sentence[i]>>
    IN  FlattenSeq([j \in DOMAIN ink |-> Part(j)])

(***************************************************************************)
(* CollapseSpellout: a space goes when an ASCII character is before it and *)
(* a single-character word behind it.  A placeholder and a scheme are      *)
(* longer words; the characters of "sep" are three single ones.            *)
(***************************************************************************)
NotAscii == {"wide", "stop"}

CollapseSpellout(t) ==
    LET Goes(i) ==
            /\ i \in 2 .. Len(t) - 1
            /\ t[i] = Blank
            /\ t[i - 1].c \notin NotAscii \cup {"space"}
            /\ t[i + 1].c \notin NotAscii \cup {"space", "tag", "http"}
            /\ i + 1 = Len(t) \/ t[i + 2].c \in NotAscii \cup {"space"}
        kept == SelectSeq([i \in DOMAIN t |-> i], LAMBDA i : ~Goes(i))
    IN  [j \in DOMAIN kept |-> t[kept[j]]]

=============================================================================
