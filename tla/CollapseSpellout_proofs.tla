---------------------- MODULE CollapseSpellout_proofs ----------------------
(***************************************************************************)
(* Proofs about CollapseSpellout for every set of input texts.             *)
(***************************************************************************)
EXTENDS CollapseSpellout, TextOps_proofs

(***************************************************************************)
(* Where the loops stand in the rule: the result is the rule applied up to *)
(* the outer position, and with what is collected up to the inner one.     *)
(* The outer loop never stands on a space that goes.                       *)
(***************************************************************************)
Progress ==
    /\ result = RuleTo(p - 1)
    /\ mode = "copy" => ~SpaceGoes(p)
    /\ mode # "collect" => collected = <<>>
    /\ mode = "collect" =>
         /\ StartsSpellout(p)
         /\ p < q
         /\ text[q - 1] \in Visible
         /\ result \o collected = RuleTo(q - 1)
         /\ Len(collected) > 0
         /\ Len(collected) = 1 => q = p + 1 /\ collected = <<text[p]>>
    /\ mode = "done" => p = Len(text) + 1

Inv == TypeOK /\ Progress

\* The part of the rule for one character.
LEMMA RulePartType ==
    ASSUME text \in Seq(Char), NEW i \in 1 .. Len(text)
    PROVE  RulePart(i) \in Seq(Char)
<1>1. text[i] \in Char
  OBVIOUS
<1> QED
  BY <1>1 DEF RulePart

\* The rule goes on by one character.
LEMMA RuleStep ==
    ASSUME text \in Seq(Char), NEW k \in 1 .. Len(text)
    PROVE  /\ RuleTo(k) = RuleTo(k - 1) \o RulePart(k)
           /\ RuleTo(k) \in Seq(Char) /\ RuleTo(k - 1) \in Seq(Char)
<1>1. PICK X, a, b, e : /\ X = Seq(Char) /\ e = RulePart(k)
                        /\ a = [i \in 1 .. k - 1 |-> RulePart(i)]
                        /\ b = [i \in 1 .. k |-> RulePart(i)]
  OBVIOUS
<1>2. \A i \in 1 .. k : RulePart(i) \in X
  BY <1>1, RulePartType
<1>3. a \in Seq(X) /\ b \in Seq(X) /\ e \in X /\ Len(a) = k - 1 /\ Len(b) = k
  BY <1>1, <1>2
<1>4. b = Append(a, e)
  BY <1>1, <1>3
<1>5. a \in Parts(Char) /\ b \in Parts(Char) /\ e \in Seq(Char)
  BY <1>1, <1>3 DEF Parts
<1>6. FlattenSeq(Append(a, e)) = FlattenSeq(a) \o e
  BY <1>5, FlattenAppend
<1>7. FlattenSeq(a) \in Seq(Char) /\ FlattenSeq(b) \in Seq(Char)
  BY <1>5, FlattenType
<1> QED
  BY <1>1, <1>4, <1>6, <1>7 DEF RuleTo

\* Nothing is due before the first position.
LEMMA RuleStart == RuleTo(0) = <<>>
<1>1. [i \in 1 .. 0 |-> RulePart(i)] = <<>>
  OBVIOUS
<1> QED
  BY <1>1, FlattenEmpty DEF RuleTo

\* The rule depends on the argument alone.
LEMMA RuleUnchanged ==
    ASSUME text' = text
    PROVE  /\ \A k : RuleTo(k)' = RuleTo(k)
           /\ \A i : SpaceGoes(i)' = SpaceGoes(i) /\ StartsSpellout(i)' = StartsSpellout(i)
BY DEF RuleTo, RulePart, SpaceGoes, StartsSpellout, VisibleAt, SpaceAt

\* The loop begins with the invariant.
LEMMA InvInit == Init => Inv
<1> SUFFICES ASSUME Init PROVE Inv
  OBVIOUS
<1>1. TypeOK
  BY TextsAssumption DEF Init, TypeOK
<1>2. Progress
  <2>1. ~SpaceGoes(1)
    BY DEF SpaceGoes
  <2> QED
    BY <2>1, RuleStart DEF Init, Progress
<1> QED
  BY <1>1, <1>2 DEF Inv

-----------------------------------------------------------------------------
\* The positions and the texts keep their types.
LEMMA TypeNext == TypeOK /\ Progress /\ [Next]_vars => TypeOK'
<1> SUFFICES ASSUME TypeOK, Progress, [Next]_vars PROVE TypeOK'
  OBVIOUS
<1> USE DEF TypeOK
<1>0. Visible \subseteq Char
  BY DEF Char
<1>1. CASE StartCollecting
  BY <1>1 DEF StartCollecting, StartsSpellout, VisibleAt, SpaceAt
<1>2. CASE Collect
  BY <1>2 DEF Collect, SingleFollows, VisibleAt, SpaceAt
<1>3. CASE StopCollecting
  <2>1. collected \in Seq(Char)
    BY <1>0, SeqMonotonic
  <2>2. p <= Len(text)
    BY <1>3 DEF StopCollecting, Progress, StartsSpellout, VisibleAt
  <2>3. text[p] \in Char
    BY <2>2
  <2>4. result \o collected \in Seq(Char) /\ Append(result, text[p]) \in Seq(Char)
    BY <2>1, <2>3
  <2>5. /\ mode' = "copy" /\ text' = text /\ q' = q /\ collected' = <<>>
        /\ \/ result' = result \o collected /\ p' = q
           \/ result' = Append(result, text[p]) /\ p' = p + 1
    BY <1>3 DEF StopCollecting
  <2>6. p' \in 1 .. Len(text) + 1
    BY <2>2, <2>5
  <2>7. result' \in Seq(Char)
    BY <2>4, <2>5
  <2> QED
    BY <2>5, <2>6, <2>7
<1>4. CASE CopyChar
  BY <1>4 DEF CopyChar
<1>5. CASE Return
  BY <1>5 DEF Return
<1>6. CASE UNCHANGED vars
  BY <1>6 DEF vars
<1> QED
  BY <1>1, <1>2, <1>3, <1>4, <1>5, <1>6 DEF Next, Finished

\* Copying a character, from the loop or for want of a second one collected.
LEMMA CopyStep ==
    ASSUME TypeOK, ~SpaceGoes(p), p <= Len(text)
    PROVE  RuleTo(p) = Append(RuleTo(p - 1), text[p])
<1>1. p \in 1 .. Len(text) /\ text \in Seq(Char) /\ text[p] \in Char
  BY DEF TypeOK
<1>2. RuleTo(p) = RuleTo(p - 1) \o <<text[p]>> /\ RuleTo(p - 1) \in Seq(Char)
  BY <1>1, RuleStep DEF RulePart
<1> QED
  BY <1>1, <1>2, AppendIsConcat

\* A step keeps what the output owes to the rule.
LEMMA ProgressNext == TypeOK /\ Progress /\ [Next]_vars => Progress'
<1> SUFFICES ASSUME TypeOK, Progress, [Next]_vars PROVE Progress'
  OBVIOUS
<1>0. text' = text
  BY DEF Next, StartCollecting, Collect, StopCollecting, CopyChar, Return, Finished, vars
<1>r. /\ \A k : RuleTo(k)' = RuleTo(k)
      /\ \A i : SpaceGoes(i)' = SpaceGoes(i) /\ StartsSpellout(i)' = StartsSpellout(i)
  BY <1>0, RuleUnchanged
<1>1. CASE StartCollecting
  <2>1. p <= Len(text) /\ StartsSpellout(p) /\ mode = "copy"
    BY <1>1 DEF StartCollecting
  <2>2. RuleTo(p) = Append(RuleTo(p - 1), text[p])
    BY <2>1, CopyStep DEF Progress
  <2>3. result \in Seq(Char) /\ text[p] \in Char /\ text[p] \in Visible /\ p \in Nat
    BY <2>1 DEF TypeOK, StartsSpellout, VisibleAt
  <2>4. result \o <<text[p]>> = Append(result, text[p])
    BY <2>3
  <2>5. /\ mode' = "collect" /\ collected' = <<text[p]>> /\ q' = p + 1
        /\ result' = result /\ p' = p
    BY <1>1 DEF StartCollecting
  <2>6. (q' - 1) = p
    BY <2>3, <2>5
  <2>7. result' \o collected' = RuleTo(q' - 1)
    BY <2>2, <2>4, <2>5, <2>6 DEF Progress
  <2> QED
    BY <1>0, <1>r, <2>1, <2>3, <2>5, <2>6, <2>7 DEF Progress
<1>2. CASE Collect
  <2>1. /\ q \in 2 .. Len(text) - 1 /\ text[q] = Space /\ text[q + 1] \in Visible
        /\ WordEndsAt(q + 2) /\ mode = "collect" /\ text[q - 1] \in Visible
    BY <1>2 DEF Collect, SingleFollows, SpaceAt, VisibleAt, TypeOK, Progress
  <2>2. SpaceGoes(q)
    BY <2>1 DEF SpaceGoes, WordEndsAt, TypeOK
  <2>3. ~SpaceGoes(q + 1)
    BY <2>1 DEF SpaceGoes, Visible, Space
  <2>4. text \in Seq(Char) /\ q \in 1 .. Len(text) /\ q + 1 \in 1 .. Len(text)
    BY <2>1 DEF TypeOK
  <2>5. RuleTo(q) = RuleTo(q - 1) \o <<>> /\ RuleTo(q - 1) \in Seq(Char)
    BY <2>2, <2>4, RuleStep DEF RulePart
  <2>6. RuleTo(q + 1) = RuleTo((q + 1) - 1) \o <<text[q + 1]>>
    BY <2>3, <2>4, RuleStep DEF RulePart
  <2>7. RuleTo(q) = RuleTo(q - 1)
    BY <2>5, ConcatEmptySeq
  <2>8. RuleTo(q + 1) = (result \o collected) \o <<text[q + 1]>>
    BY <2>1, <2>4, <2>6, <2>7 DEF Progress
  <2>9. /\ mode' = mode /\ collected' = Append(collected, text[q + 1]) /\ q' = q + 2
        /\ result' = result /\ p' = p
    BY <1>2 DEF Collect
  <2>10. result \o Append(collected, text[q + 1]) = (result \o collected) \o <<text[q + 1]>>
    <3>1. PICK c : c = text[q + 1]
      OBVIOUS
    <3>2. result \in Seq(Char) /\ collected \in Seq(Char) /\ c \in Char
      BY <2>4, <3>1, SeqMonotonic DEF TypeOK, Char
    <3> QED
      BY <3>1, <3>2
  <2>11. q' - 1 = q + 1 /\ p' < q'
    BY <2>1, <2>9 DEF Progress, TypeOK
  <2>12. result' \o collected' = RuleTo(q' - 1)
    BY <2>8, <2>9, <2>10, <2>11
  <2>13. Len(collected') = Len(collected) + 1 /\ Len(collected) > 0 /\ Len(collected) \in Nat
    BY <2>1, <2>9 DEF Progress, TypeOK
  <2>14. Len(collected') > 0 /\ Len(collected') # 1
    BY <2>13
  <2> QED
    BY <1>0, <1>r, <2>1, <2>9, <2>11, <2>12, <2>14 DEF Progress
<1>3. CASE StopCollecting
  <2>1. /\ mode = "collect" /\ mode' = "copy" /\ collected' = <<>> /\ ~SingleFollows(q)
        /\ IF Len(collected) > 1 THEN result' = result \o collected /\ p' = q
           ELSE result' = Append(result, text[p]) /\ p' = p + 1
    BY <1>3 DEF StopCollecting
  <2>2. ~SpaceGoes(q)
    BY <2>1 DEF SpaceGoes, SingleFollows, SpaceAt, VisibleAt, WordEndsAt, TypeOK
  <2>3. Len(collected) \in Nat /\ Len(collected) > 0 /\ p \in Nat /\ q \in Nat
    BY <2>1 DEF Progress, TypeOK
  <2>n. Len(collected) > 1 \/ Len(collected) = 1
    <3>1. \A n \in Nat : n > 0 => n > 1 \/ n = 1
      OBVIOUS
    <3> QED
      BY <2>3, <3>1
  <2>o. Len(collected) = 1 => ~(Len(collected) > 1) /\ q = p + 1 /\ collected = <<text[p]>>
    BY <2>1, <2>3 DEF Progress
  <2>4. p' = q
    <3>1. CASE Len(collected) > 1
      BY <2>1, <3>1
    <3>2. CASE Len(collected) = 1
      BY <2>1, <2>o, <3>2
    <3> QED
      BY <2>n, <3>1, <3>2
  <2>5. result' = result \o collected
    <3>1. CASE Len(collected) > 1
      BY <2>1, <3>1
    <3>2. CASE Len(collected) = 1
      <4>1. collected = <<text[p]>> /\ result' = Append(result, text[p])
        BY <2>1, <2>o, <3>2
      <4>2. result \in Seq(Char) /\ text[p] \in Char
        BY <2>1 DEF Progress, StartsSpellout, VisibleAt, TypeOK
      <4> QED
        BY <4>1, <4>2
    <3> QED
      BY <2>n, <3>1, <3>2
  <2>6. result' = RuleTo(p' - 1)
    BY <2>1, <2>4, <2>5 DEF Progress
  <2> QED
    BY <1>r, <2>1, <2>2, <2>4, <2>6 DEF Progress
<1>4. CASE CopyChar
  <2>1. /\ mode = "copy" /\ mode' = mode /\ p <= Len(text) /\ ~StartsSpellout(p)
        /\ result' = Append(result, text[p]) /\ p' = p + 1 /\ collected' = collected
    BY <1>4 DEF CopyChar
  <2>2. RuleTo(p) = Append(RuleTo(p - 1), text[p])
    BY <2>1, CopyStep DEF Progress
  <2>3. p' - 1 = p
    BY <2>1 DEF TypeOK
  <2>4. result' = RuleTo(p' - 1)
    BY <2>1, <2>2, <2>3 DEF Progress
  <2>5. ~SpaceGoes(p + 1)
    BY <2>1 DEF SpaceGoes, StartsSpellout, VisibleAt, SpaceAt, TypeOK
  <2> QED
    BY <1>r, <2>1, <2>4, <2>5 DEF Progress
<1>5. CASE Return
  BY <1>5, <1>r DEF Return, Progress, TypeOK
<1>6. CASE UNCHANGED vars
  BY <1>6, <1>r DEF vars, Progress
<1> QED
  BY <1>1, <1>2, <1>3, <1>4, <1>5, <1>6 DEF Next, Finished

\* The inductive invariant: the output so far is what the rule says of the text so far.
THEOREM SpelloutInvariant == Spec => []Inv
<1>1. Inv /\ [Next]_vars => Inv'
  BY TypeNext, ProgressNext DEF Inv
<1> QED
  BY InvInit, <1>1, PTL DEF Spec

\* CollapseSpellout never reads outside the text, however the loops interleave.
THEOREM SpelloutTypeCorrect == Spec => []TypeOK
BY SpelloutInvariant, PTL DEF Inv

\* The two loops compute the rule on each space.
THEOREM SpacesGoByRule == Spec => []SpacesByRule
<1>1. Inv => SpacesByRule
  <2> SUFFICES ASSUME Inv, mode = "done" PROVE result = RuleTo(Len(text))
    BY DEF SpacesByRule
  <2>1. p - 1 = Len(text)
    BY DEF Inv, Progress, TypeOK
  <2> QED
    BY <2>1 DEF Inv, Progress
<1> QED
  BY SpelloutInvariant, <1>1, PTL

-----------------------------------------------------------------------------
\* The rule drops spaces only.
LEMMA RuleKeeps ==
    ASSUME text \in Seq(Char), NEW n \in 0 .. Len(text)
    PROVE  NonSpace(RuleTo(n)) = NonSpace(SubSeq(text, 1, n))
<1> DEFINE N == Char \ {Space}
           Good(k) == Kept(N, RuleTo(k)) = Kept(N, SubSeq(text, 1, k))
           T == {k \in 0 .. Len(text) : ~Good(k)}
<1>1. Good(0)
  <2>1. SubSeq(text, 1, 0) = <<>>
    OBVIOUS
  <2> QED
    BY <2>1, RuleStart
<1>2. ASSUME NEW k \in 1 .. Len(text), Good(k - 1)
      PROVE  Good(k)
  <2>1. PICK r, s, e, c : r = RuleTo(k - 1) /\ s = SubSeq(text, 1, k - 1) /\ e = RulePart(k) /\ c = text[k]
    OBVIOUS
  <2>2. r \in Seq(Char) /\ s \in Seq(Char) /\ c \in Char /\ e \in Seq(Char)
    BY <2>1, RuleStep, RulePartType
  <2>3. RuleTo(k) = r \o e
    BY <2>1, RuleStep
  <2>4. SubSeq(text, 1, k) = Append(s, c)
    BY <2>1
  <2>5. Kept(N, Append(s, c)) = IF c \in N THEN Append(Kept(N, s), c) ELSE Kept(N, s)
    BY <2>2, KeptAppend
  <2>6. Kept(N, r \o e) = IF c \in N THEN Append(Kept(N, r), c) ELSE Kept(N, r)
    <3>1. CASE SpaceGoes(k)
      <4>1. c \notin N /\ r \o e = r
        BY <2>1, <2>2, <3>1, ConcatEmptySeq DEF SpaceGoes, RulePart
      <4> QED
        BY <4>1
    <3>2. CASE ~SpaceGoes(k)
      <4>1. r \o e = Append(r, c)
        BY <2>1, <2>2, <3>2 DEF RulePart
      <4> QED
        BY <4>1, <2>2, KeptAppend
    <3> QED
      BY <3>1, <3>2
  <2> HIDE DEF N
  <2>7. Kept(N, r) = Kept(N, s)
    BY <1>2, <2>1
  <2> QED
    BY <2>3, <2>4, <2>5, <2>6, <2>7
<1>3. Good(n)
  <2> HIDE DEF Good
  <2> SUFFICES ASSUME T # {} PROVE FALSE
    OBVIOUS
  <2>1. PICK m \in T : \A y \in T : m <= y
    <3>1. T \subseteq Nat
      OBVIOUS
    <3> HIDE DEF T
    <3> QED
      BY <3>1, LeastNumber
  <2>2. m \in 0 .. Len(text) /\ ~Good(m)
    OBVIOUS
  <2>3. m # 0
    BY <1>1, <2>2
  <2>4. m - 1 \in 0 .. Len(text) /\ m - 1 \notin T
    <3>1. m - 1 \in 0 .. Len(text) /\ ~(m <= m - 1)
      BY <2>2, <2>3
    <3> HIDE DEF T
    <3> QED
      BY <2>1, <3>1
  <2>5. m \in 1 .. Len(text) /\ Good(m - 1)
    BY <2>2, <2>3, <2>4
  <2> QED
    BY <2>2, <2>5, <1>2
<1> QED
  BY <1>3 DEF NonSpace

\* A text is what is before a position and what is behind it.
LEMMA NonSpaceSplit ==
    ASSUME text \in Seq(Char), NEW k \in 1 .. Len(text) + 1
    PROVE  NonSpace(text) = NonSpace(RuleTo(k - 1)) \o NonSpace(SubSeq(text, k, Len(text)))
<1>1. PICK a, b : a = SubSeq(text, 1, k - 1) /\ b = SubSeq(text, k, Len(text))
  OBVIOUS
<1>2. text = a \o b /\ a \in Seq(Char) /\ b \in Seq(Char)
  BY <1>1, TextSplit
<1>3. Kept(Char \ {Space}, a \o b) = Kept(Char \ {Space}, a) \o Kept(Char \ {Space}, b)
  BY <1>2, KeptConcat
<1>4. NonSpace(RuleTo(k - 1)) = NonSpace(a)
  BY <1>1, RuleKeeps
<1> QED
  BY <1>1, <1>2, <1>3, <1>4 DEF NonSpace

\* Nothing but spaces is dropped, at any step of the two loops.
THEOREM SpelloutKeepsContent == Spec => []OnlySpacesDropped
<1>1. Inv => OnlySpacesDropped
  <2> SUFFICES ASSUME Inv PROVE OnlySpacesDropped
    OBVIOUS
  <2>1. TypeOK /\ Progress /\ text \in Seq(Char)
    BY DEF Inv, TypeOK
  <2>2. CASE Len(collected) > 1
    <3>1. mode = "collect" /\ q \in 1 .. Len(text) + 1
      BY <2>1, <2>2 DEF Progress, TypeOK
    <3>2. PICK r, c, s : r = result /\ c = collected /\ s = NonSpace(SubSeq(text, q, Len(text)))
      OBVIOUS
    <3>3. NonSpace(text) = NonSpace(r \o c) \o s
      BY <2>1, <3>1, <3>2, NonSpaceSplit DEF Progress
    <3>4. r \in Seq(Char) /\ c \in Seq(Char) /\ c \in Seq(Char \ {Space})
      BY <2>1, <3>2, SeqMonotonic DEF TypeOK, Char, Visible, Space
    <3>5. Kept(Char \ {Space}, r \o c) = Kept(Char \ {Space}, r) \o Kept(Char \ {Space}, c)
      BY <3>4, KeptConcat
    <3>6. Kept(Char \ {Space}, c) = c
      BY <3>4, KeptAll
    <3>7. PICK nr : nr = NonSpace(r)
      OBVIOUS
    <3>8. nr \in Seq(Char) /\ s \in Seq(Char)
      <4>1. SubSeq(text, q, Len(text)) \in Seq(Char)
        BY <2>1, <3>1
      <4> QED
        BY <3>2, <3>4, <3>7, <4>1, KeptType DEF NonSpace
    <3>9. (nr \o c) \o s = nr \o (c \o s)
      BY <3>4, <3>8, Associative
    <3> QED
      BY <2>2, <3>2, <3>3, <3>5, <3>6, <3>7, <3>9 DEF OnlySpacesDropped, NonSpace
  <2>3. CASE ~(Len(collected) > 1)
    <3>1. p \in 1 .. Len(text) + 1
      BY <2>1 DEF TypeOK
    <3>2. NonSpace(text) = NonSpace(RuleTo(p - 1)) \o NonSpace(SubSeq(text, p, Len(text)))
      BY <2>1, <3>1, NonSpaceSplit
    <3> QED
      BY <2>1, <2>3, <3>2 DEF OnlySpacesDropped, Progress
  <2> QED
    BY <2>2, <2>3
<1> QED
  BY SpelloutInvariant, <1>1, PTL
=============================================================================
