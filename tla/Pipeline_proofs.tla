--------------------------- MODULE Pipeline_proofs ---------------------------
(***************************************************************************)
(* Proof that Pipeline implements LineFilter, whatever the lines are and   *)
(* whatever the stages do to them: the stages stay unexpanded.             *)
(***************************************************************************)
EXTENDS Pipeline, TLAPS

Busy == {"pre", "hyphens", "split", "normalize", "post"}

(***************************************************************************)
(* Nothing is known of an answer, so answers is a sequence of what it      *)
(* holds.                                                                  *)
(***************************************************************************)
Elements(a) == {a[i] : i \in 1 .. Len(a)}
IsSequence(a) == a \in Seq(Elements(a))

(***************************************************************************)
(* The inductive invariant: the answers are one behind the lines while a   *)
(* line is being worked on, level with them otherwise, and the program     *)
(* ends where there is nothing left to read or before the first line.      *)
(***************************************************************************)
FilterInv ==
    /\ lines \in Seq(Seq(Item))
    /\ line \in 0 .. Len(lines)
    /\ IsSequence(answers)
    /\ phase \in Busy \cup {"setup", "read", "end", "aborted"}
    /\ phase \in Busy => line = Len(answers) + 1
    /\ phase \notin Busy => line = Len(answers)
    /\ phase = "setup" => line = 0
    /\ phase = "end" => line = Len(lines)
    /\ phase = "aborted" => line = 0

-----------------------------------------------------------------------------
\* One more answer makes the sequence one longer.
LEMMA OneMore ==
  ASSUME NEW a, NEW x, IsSequence(a)
  PROVE  IsSequence(Append(a, x)) /\ Len(Append(a, x)) = Len(a) + 1 /\ Len(a) \in Nat
<1> DEFINE S == Elements(a) \cup {x}
<1>1. a \in Seq(S)
  BY DEF IsSequence
<1>2. Len(Append(a, x)) = Len(a) + 1 /\ Len(a) \in Nat
  BY <1>1
<1>3. /\ Append(a, x) \in Seq(S)
      /\ \A i \in 1 .. Len(a) : Append(a, x)[i] = a[i]
      /\ Append(a, x)[Len(a) + 1] = x
  BY <1>1
<1>4. S \subseteq Elements(Append(a, x))
  BY <1>2, <1>3 DEF Elements
<1> QED
  BY <1>2, <1>3, <1>4 DEF IsSequence

\* The program begins with the invariant.
LEMMA InitFilter == Init => FilterInv
<1> SUFFICES ASSUME Init PROVE FilterInv
  OBVIOUS
<1>1. answers = <<>> /\ Len(answers) = 0
  BY DEF Init
<1>2. IsSequence(answers)
  BY <1>1 DEF IsSequence
<1> QED
  BY <1>1, <1>2, InputsAssumption DEF Init, FilterInv, Busy

-----------------------------------------------------------------------------
(***************************************************************************)
(* The steps of main that change which line is worked on.                  *)
(***************************************************************************)
LEMMA MainSteps ==
  ASSUME FilterInv, Setup \/ ReadLine \/ EndOfInput
  PROVE  FilterInv' /\ [Filter!Take \/ Filter!Answer \/ Filter!End]_(Filter!vars)
<1>0. Len(answers) \in Nat /\ Len(lines) \in Nat
  BY DEF FilterInv, IsSequence
<1>1. CASE Setup
  <2>1. phase = "setup" /\ line = 0 /\ Len(answers) = 0
    BY <1>0, <1>1 DEF Setup, FilterInv, Busy
  <2>2. FilterInv'
    BY <1>1, <2>1 DEF Setup, FilterInv, Busy, IsSequence, Elements
  <2>3. CASE phase' = "read"
    BY <1>1, <2>1, <2>2, <2>3 DEF Setup, Filter!vars
  <2>4. CASE phase' = "aborted"
    BY <1>1, <2>1, <2>2, <2>4 DEF Setup, Filter!vars, Filter!End
  <2> QED
    BY <1>1, <2>2, <2>3, <2>4 DEF Setup
<1>2. CASE ReadLine
  <2>1. line = Len(answers)
    BY <1>2 DEF ReadLine, FilterInv, Busy
  <2>2. FilterInv'
    BY <1>0, <1>2, <2>1 DEF ReadLine, FilterInv, Busy, IsSequence, Elements
  <2>3. Filter!Take
    BY <1>0, <1>2, <2>1 DEF ReadLine, FilterInv, Filter!Take
  <2> QED
    BY <2>2, <2>3
<1>3. CASE EndOfInput
  <2>1. line = Len(answers)
    BY <1>3 DEF EndOfInput, FilterInv, Busy
  <2>2. FilterInv'
    BY <1>3, <2>1 DEF EndOfInput, FilterInv, Busy, IsSequence, Elements
  <2>3. Filter!End
    BY <1>0, <1>3, <2>1 DEF EndOfInput, FilterInv, Filter!End
  <2> QED
    BY <2>2, <2>3
<1> QED
  BY <1>1, <1>2, <1>3

(***************************************************************************)
(* The phases of NormalizeInput before its return: no line is taken and no *)
(* answer given, whatever sentence fails.                                  *)
(***************************************************************************)
LEMMA InnerSteps ==
  ASSUME FilterInv,
         Pre \/ Hyphens \/ Split \/ NormalizeSentence \/ NormalizeFails \/ Collapse
  PROVE  FilterInv' /\ UNCHANGED Filter!vars
<1>1. /\ UNCHANGED <<lines, line, answers>>
      /\ phase \in Busy /\ phase' \in Busy
  BY DEF Pre, Hyphens, Split, NormalizeSentence, NormalizeFails, Collapse, Busy
<1>2. FilterInv'
  BY <1>1 DEF FilterInv, Busy, IsSequence, Elements
<1>3. UNCHANGED Filter!vars
  BY <1>1 DEF Filter!vars, Busy
<1> QED
  BY <1>2, <1>3

\* The return of NormalizeInput gives the answer of the line being worked on.
LEMMA PostStep ==
  ASSUME FilterInv, Post
  PROVE  FilterInv' /\ Filter!Answer
<1>1. line = Len(answers) + 1 /\ line \in Nat /\ line \in 0 .. Len(lines)
  BY DEF FilterInv, Post, Busy
<1>2. IsSequence(answers') /\ Len(answers') = Len(answers) + 1 /\ Len(answers) \in Nat
  BY OneMore DEF FilterInv, Post
<1>3. UNCHANGED <<lines, line>> /\ phase = "post" /\ phase' = "read"
  BY DEF Post
<1>4. FilterInv'
  BY <1>1, <1>2, <1>3 DEF FilterInv, Busy
<1>5. Filter!Answer
  BY <1>1, <1>2, <1>3 DEF Filter!Answer
<1> QED
  BY <1>4, <1>5

\* Every step keeps it.
LEMMA FilterStep ==
  ASSUME FilterInv, [Next]_vars
  PROVE  FilterInv' /\ [Filter!Take \/ Filter!Answer \/ Filter!End]_(Filter!vars)
<1>1. CASE UNCHANGED vars
  BY <1>1 DEF vars, Filter!vars, FilterInv, Busy, IsSequence, Elements
<1>2. CASE Finished
  BY <1>1, <1>2 DEF Finished
<1>3. CASE Next /\ ~Finished
  BY <1>3, MainSteps, InnerSteps, PostStep DEF Next
<1> QED
  BY <1>1, <1>2, <1>3

-----------------------------------------------------------------------------
(***************************************************************************)
(* main.cpp answers every line once and in order, for all inputs and all   *)
(* behaviours of the stages and of Sparrowhawk.                            *)
(***************************************************************************)
THEOREM PipelineIsLineFilter == Spec => OneAnswerPerLine
<1>1. Init => FilterInv /\ Filter!Init
  <2> SUFFICES ASSUME Init PROVE FilterInv /\ Filter!Init
    OBVIOUS
  <2>1. FilterInv
    BY InitFilter
  <2>2. Len(lines) \in Nat /\ line = 0 /\ Len(answers) = 0 /\ phase = "setup"
    BY <2>1 DEF Init, FilterInv
  <2> QED
    BY <2>1, <2>2 DEF Filter!Init
<1>2. FilterInv /\ [Next]_vars
        => FilterInv' /\ [Filter!Take \/ Filter!Answer \/ Filter!End]_(Filter!vars)
  BY FilterStep
<1> QED
  BY <1>1, <1>2, PTL DEF Spec, OneAnswerPerLine, Filter!Spec

=============================================================================
