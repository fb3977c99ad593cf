------------------------------ MODULE Pipeline ------------------------------
(***************************************************************************)
(* main.cpp: the loop over the lines of standard input and NormalizeInput, *)
(* its five phases around Sparrowhawk.  Each phase is one step; the        *)
(* sentences are normalised one by one, and Normalize may fail for each of *)
(* them (its result is ignored, and output is then left empty).            *)
(***************************************************************************)
EXTENDS Stages

CONSTANT Inputs         \* the sequences of lines standard input may hold

ASSUME InputsAssumption == Inputs \subseteq Seq(Seq(Item))

VARIABLES
    lines,              \* standard input
    phase,              \* where main or NormalizeInput is
    line,               \* the number of the line that was read last
    text,               \* preText, actualInput, normalizedOutput, actualOutput
    spans,              \* the spans that Pre protected
    sentences,          \* what SentenceSplitter returned and is not yet done
    failed,             \* the sentences of this line that Normalize failed on
    answers             \* the answers printed so far

vars == <<lines, phase, line, text, spans, sentences, failed, answers>>

Init ==
    /\ lines \in Inputs
    /\ phase = "setup"
    /\ line = 0
    /\ text = <<>> /\ spans = <<>> /\ sentences = <<>> /\ failed = <<>>
    /\ answers = <<>>

-----------------------------------------------------------------------------
(***************************************************************************)
(* main: CHECK(normalizer->Setup(...)) goes on or ends the program; then   *)
(* one call of NormalizeInput for each line, until getline fails.          *)
(***************************************************************************)
Setup ==
    /\ phase = "setup"
    /\ phase' \in {"read", "aborted"}
    /\ UNCHANGED <<lines, line, text, spans, sentences, failed, answers>>

ReadLine ==
    /\ phase = "read"
    /\ line < Len(lines)
    /\ line' = line + 1
    /\ text' = lines[line + 1]
    /\ spans' = <<>> /\ sentences' = <<>> /\ failed' = <<>>
    /\ phase' = "pre"
    /\ UNCHANGED <<lines, answers>>

EndOfInput ==
    /\ phase = "read"
    /\ line = Len(lines)
    /\ phase' = "end"
    /\ UNCHANGED <<lines, line, text, spans, sentences, failed, answers>>

-----------------------------------------------------------------------------
Pre ==
    /\ phase = "pre"
    /\ LET pre == NormalizeTtsTextPre(text)
       IN  text' = pre.text /\ spans' = pre.spans
    /\ phase' = "hyphens"
    /\ UNCHANGED <<lines, line, sentences, failed, answers>>

Hyphens ==
    /\ phase = "hyphens"
    /\ text' = RewriteHyphens(text)
    /\ phase' = "split"
    /\ UNCHANGED <<lines, line, spans, sentences, failed, answers>>

\* Mutant: the output is collected behind the input.
SplitKeepsText ==
    /\ phase = "split"
    /\ sentences' = SentenceSplitter(text)
    /\ phase' = "normalize"
    /\ UNCHANGED <<lines, line, text, spans, failed, answers>>

\* normalizedOutput is a new string; text is it from here on
Split ==
    /\ phase = "split"
    /\ sentences' = SentenceSplitter(text)
    /\ text' = <<>>
    /\ phase' = "normalize"
    /\ UNCHANGED <<lines, line, spans, failed, answers>>

NormalizeSentence ==
    /\ phase = "normalize"
    /\ sentences # <<>>
    /\ text' = text \o Verbalize(Head(sentences))
    /\ sentences' = Tail(sentences)
    /\ UNCHANGED <<lines, phase, line, spans, failed, answers>>

\* Mutant: the first sentence that fails ends the call.
NormalizeFailsAndReturns ==
    /\ phase = "normalize"
    /\ sentences # <<>>
    /\ failed' = Append(failed, Head(sentences))
    /\ phase' = "read"
    /\ UNCHANGED <<lines, line, text, spans, sentences, answers>>

NormalizeFails ==
    /\ phase = "normalize"
    /\ sentences # <<>>
    /\ failed' = Append(failed, Head(sentences))
    /\ sentences' = Tail(sentences)
    /\ UNCHANGED <<lines, phase, line, text, spans, answers>>

Collapse ==
    /\ phase = "normalize"
    /\ sentences = <<>>
    /\ text' = CollapseSpellout(text)
    /\ phase' = "post"
    /\ UNCHANGED <<lines, line, spans, sentences, failed, answers>>

Post ==
    /\ phase = "post"
    /\ text' = NormalizeTtsTextPost(text, spans)
    /\ answers' = Append(answers, text')
    /\ phase' = "read"
    /\ UNCHANGED <<lines, line, spans, sentences, failed>>

Finished == phase \in {"end", "aborted"} /\ UNCHANGED vars

Next ==
    \/ Setup \/ ReadLine \/ EndOfInput
    \/ Pre \/ Hyphens \/ Split \/ NormalizeSentence \/ NormalizeFails
    \/ Collapse \/ Post
    \/ Finished

Spec == Init /\ [][Next]_vars

-----------------------------------------------------------------------------
Filter == INSTANCE LineFilter
            WITH left     <- Len(lines) - line,
                 taken    <- line,
                 answered <- Len(answers),
                 ended    <- phase \in {"end", "aborted"}

(***************************************************************************)
(* The program implements LineFilter: every line that is read gets its one *)
(* answer, in order, whatever sentences of it Sparrowhawk fails on.        *)
(***************************************************************************)
OneAnswerPerLine == Filter!Spec

=============================================================================
