----------------------- MODULE NormalizeSpaces_proofs -----------------------
(***************************************************************************)
(* Proofs about NormalizeSpaces for every set of input texts.              *)
(***************************************************************************)
EXTENDS NormalizeSpaces, TextOps_proofs

(***************************************************************************)
(* Adding one character to a well-spaced text: only the two characters     *)
(* before it matter.                                                       *)
(***************************************************************************)
LEMMA SpacedAppend ==
    ASSUME NEW k, NEW t \in Seq(Char), NEW c \in Char,
           Spaced(k, t),
           t # <<>> => PairOK(k, t[Len(t)], c),
           Len(t) > 1 => TripleOK(k, t[Len(t) - 1], t[Len(t)], c)
    PROVE  Spaced(k, Append(t, c))
<1> DEFINE u == Append(t, c)
<1>1. /\ u \in Seq(Char)
      /\ Len(u) = Len(t) + 1
      /\ \A i \in 1 .. Len(t) : u[i] = t[i]
      /\ u[Len(t) + 1] = c
  OBVIOUS
<1>2. ASSUME NEW i \in 1 .. Len(u) - 1
      PROVE  PairOK(k, u[i], u[i + 1])
  <2>1. CASE i < Len(t)
    BY <1>1, <2>1 DEF Spaced
  <2>2. CASE i = Len(t)
    <3>1. t # <<>>
      BY <2>2
    <3> QED
      BY <1>1, <2>2, <3>1
  <2> QED
    BY <1>1, <2>1, <2>2
<1>3. ASSUME NEW i \in 1 .. Len(u) - 2
      PROVE  TripleOK(k, u[i], u[i + 1], u[i + 2])
  <2>1. CASE i < Len(t) - 1
    BY <1>1, <2>1 DEF Spaced
  <2>2. CASE i = Len(t) - 1
    BY <1>1, <2>2
  <2> QED
    BY <1>1, <2>1, <2>2
<1> QED
  BY <1>2, <1>3 DEF Spaced

(***************************************************************************)
(* Cutting characters off either end keeps a text well spaced.             *)
(***************************************************************************)
LEMMA SpacedSubSeq ==
    ASSUME NEW k, NEW t \in Seq(Char), Spaced(k, t),
           NEW m \in 1 .. Len(t) + 1, NEW n \in 0 .. Len(t)
    PROVE  /\ SubSeq(t, m, n) \in Seq(Char)
           /\ Spaced(k, SubSeq(t, m, n))
<1> DEFINE u == SubSeq(t, m, n)
<1>1. /\ u \in Seq(Char)
      /\ Len(u) = IF m <= n THEN n - m + 1 ELSE 0
      /\ \A i \in 1 .. Len(u) : u[i] = t[m + i - 1]
  OBVIOUS
<1>2. ASSUME NEW i \in 1 .. Len(u) - 1
      PROVE  PairOK(k, u[i], u[i + 1])
  <2>1. m + i - 1 \in 1 .. Len(t) - 1
    BY <1>1
  <2>2. PairOK(k, t[m + i - 1], t[(m + i - 1) + 1])
    BY <2>1 DEF Spaced
  <2> QED
    BY <1>1, <2>2
<1>3. ASSUME NEW i \in 1 .. Len(u) - 2
      PROVE  TripleOK(k, u[i], u[i + 1], u[i + 2])
  <2>1. m + i - 1 \in 1 .. Len(t) - 2
    BY <1>1
  <2>2. TripleOK(k, t[m + i - 1], t[(m + i - 1) + 1], t[(m + i - 1) + 2])
    BY <2>1 DEF Spaced
  <2> QED
    BY <1>1, <2>2
<1> QED
  BY <1>1, <1>2, <1>3 DEF Spaced

(***************************************************************************)
(* Where the writing and the reading meet after one character is written.  *)
(***************************************************************************)
LEMMA JointAppend ==
    ASSUME NEW k, NEW r \in Seq(Char), NEW c \in Char,
           NEW t \in Seq(Char), NEW j \in Nat,
           j <= Len(t) => PairOK(k, c, t[j]),
           r # <<>> /\ j <= Len(t) => TripleOK(k, r[Len(r)], c, t[j]),
           j < Len(t) => TripleOK(k, c, t[j], t[j + 1])
    PROVE  Joint(k, Append(r, c), t, j)
<1> DEFINE u == Append(r, c)
<1>1. /\ Len(u) = Len(r) + 1
      /\ u[Len(u)] = c
      /\ Len(r) > 0 => u[Len(u) - 1] = r[Len(r)]
      /\ Len(u) > 1 => r # <<>>
  OBVIOUS
<1> HIDE DEF u
<1> QED
  BY <1>1 DEF Joint, u

-----------------------------------------------------------------------------
(***************************************************************************)
(* The tests of the code as membership in sets of classes.                 *)
(***************************************************************************)
LEMMA Categories ==
    ASSUME NEW c \in Char
    PROVE  /\ IsCjkOrKana(c) <=> c \in {Han, Kana}
           /\ IsDigit(c) <=> c \in {Digit, WideDigit}
           /\ IsLatin(c) <=> c = Latin
BY DEF IsCjkOrKana, IsDigit, IsLatin, CharCategory, Char, Han, Kana, Digit,
       WideDigit, Latin, Tag, Space, Tab, Closer, Opener, AsciiPunct, Other

(***************************************************************************)
(* The levels of the passes, as numbers.                                   *)
(***************************************************************************)
LEMMA Levels ==
    /\ \A st \in Passes : NextStage[st] \in Passes \cup {"strip", "done"}
    /\ \A st \in Passes : LevelBefore[NextStage[st]] = LevelAfter[st]
    /\ LevelAfter["collapse1"] = 1 /\ LevelJoint["collapse1"] = 0
    /\ LevelBefore["collapse1"] = 0
    /\ \A st \in {"collapse2", "collapse3"} :
          /\ LevelBefore[st] = LevelAfter[st]
          /\ LevelJoint[st] = LevelAfter[st]
          /\ LevelAfter[st] \in {4, 7}
    /\ LevelBefore["cjk"] = 1 /\ LevelAfter["cjk"] = 2 /\ LevelJoint["cjk"] = 2
    /\ LevelBefore["digit"] = 2 /\ LevelAfter["digit"] = 3
    /\ LevelJoint["digit"] = 3
    /\ LevelBefore["latin"] = 3 /\ LevelAfter["latin"] = 4
    /\ LevelJoint["latin"] = 4
    /\ LevelBefore["zhpunct"] = 4 /\ LevelAfter["zhpunct"] = 6
    /\ LevelJoint["zhpunct"] = 5
    /\ LevelBefore["asciipunct"] = 6 /\ LevelAfter["asciipunct"] = 7
    /\ LevelJoint["asciipunct"] = 7
    /\ LevelBefore["strip"] = 7 /\ LevelAfter["strip"] = 7
    /\ LevelBefore["done"] = 7 /\ LevelAfter["done"] = 7
BY DEF Passes, Collapsing, NextStage, LevelBefore, LevelAfter, LevelJoint

(***************************************************************************)
(* Where a pointer that skips spaces stops.                                *)
(***************************************************************************)
LEMMA SkipSpaces ==
    ASSUME NEW t \in Seq(Char), NEW i \in 1 .. Len(t), NEW next \in Nat,
           SkipRun({Space}, t, i + 1, next)
    PROVE  /\ next \in i + 1 .. Len(t) + 1
           /\ next <= Len(t) => t[next] # Space
           /\ i + 1 <= Len(t) /\ t[i + 1] # Space => next = i + 1
           /\ i + 2 <= Len(t) /\ t[i + 1] = Space /\ t[i + 2] # Space
                => next = i + 2
BY DEF SkipRun

(***************************************************************************)
(* A pass whose two levels agree writes the character it reads and moves   *)
(* to j.                                                                   *)
(***************************************************************************)
LEMMA WriteOne ==
    ASSUME NEW k, NEW r \in Seq(Char), NEW t \in Seq(Char),
           NEW i \in 1 .. Len(t), NEW j \in i + 1 .. Len(t) + 1,
           Spaced(k, r), Joint(k, r, t, i),
           j <= Len(t) => PairOK(k, t[i], t[j]),
           r # <<>> /\ j <= Len(t) => TripleOK(k, r[Len(r)], t[i], t[j]),
           j < Len(t) => TripleOK(k, t[i], t[j], t[j + 1])
    PROVE  /\ Append(r, t[i]) \in Seq(Char)
           /\ Spaced(k, Append(r, t[i]))
           /\ Joint(k, Append(r, t[i]), t, j)
<1>1. Append(r, t[i]) \in Seq(Char) /\ t[i] \in Char /\ j \in Nat
  OBVIOUS
<1>2. Spaced(k, Append(r, t[i]))
  BY <1>1, SpacedAppend DEF Joint
<1>3. Joint(k, Append(r, t[i]), t, j)
  BY <1>1, JointAppend
<1> QED
  BY <1>1, <1>2, <1>3

\* Copying s[p] keeps the invariant when it may stand behind what was written.
LEMMA CopyOne ==
    ASSUME NEW k, NEW r \in Seq(Char), NEW t \in Seq(Char),
           NEW i \in 1 .. Len(t),
           Spaced(k, r), Joint(k, r, t, i),
           i + 1 <= Len(t) => PairOK(k, t[i], t[i + 1]),
           i + 2 <= Len(t) => TripleOK(k, t[i], t[i + 1], t[i + 2])
    PROVE  /\ Append(r, t[i]) \in Seq(Char)
           /\ Spaced(k, Append(r, t[i]))
           /\ Joint(k, Append(r, t[i]), t, i + 1)
<1>1. r # <<>> /\ i + 1 <= Len(t) => TripleOK(k, r[Len(r)], t[i], t[i + 1])
  BY DEF Joint
<1>2. i + 1 < Len(t) => TripleOK(k, t[i], t[i + 1], t[(i + 1) + 1])
  OBVIOUS
<1>3. i + 1 \in i + 1 .. Len(t) + 1
  OBVIOUS
<1> QED
  BY <1>1, <1>2, <1>3, WriteOne

(***************************************************************************)
(* What an iteration has to show for the invariant to survive it.          *)
(***************************************************************************)
LEMMA ScanStep ==
    ASSUME SpacingInv, stage \in Passes, UNCHANGED <<stage, s, input, calls>>,
           result' \in Seq(Char), p' \in 1 .. Len(s) + 1,
           Spaced(LevelAfter[stage], result'),
           Joint(LevelJoint[stage], result', s, p'),
           stage = "asciipunct" => BlankRunKept(result', s, p')
    PROVE  SpacingInv'
BY DEF SpacingInv, TypeOK, Passes, Collapsing, Spaced, Joint, BlankRunKept, EndsIn, SkipRun

-----------------------------------------------------------------------------
USE DEF Han, Kana, Digit, WideDigit, Latin, Tag, Space, Tab, Closer, Opener,
        AsciiPunct, Other, Blank

\* CollapseSpaces: a space is only written behind something else.
LEMMA CollapseSpacesStep ==
    ASSUME SpacingInv, CollapseSpaces
    PROVE  SpacingInv'
<1>1. /\ stage \in Passes
      /\ s \in Seq(Char) /\ result \in Seq(Char) /\ p \in 1 .. Len(s)
      /\ UNCHANGED <<stage, s, input, calls>>
      /\ p' = p + 1
  BY DEF SpacingInv, TypeOK, CollapseSpaces, Emit, Copy, Passes
<1>2. /\ Spaced(LevelAfter[stage], result)
      /\ Joint(LevelJoint[stage], result, s, p)
  BY DEF SpacingInv
<1>3. CASE stage = "collapse1"
  <2>1. LevelAfter[stage] = 1 /\ LevelJoint[stage] = 0
    BY <1>3, Levels
  <2>2. \A r, i : Joint(0, r, s, i)
    BY DEF Joint, PairOK, TripleOK
  <2>3. CASE s[p] = Space /\ EndsIn(result, {Space})
    <3>1. result' = result
      BY <1>1, <2>3 DEF CollapseSpaces, Emit
    <3> QED
      BY <1>1, <1>2, <1>3, <2>1, <2>2, <3>1, ScanStep
  <2>4. CASE ~(s[p] = Space /\ EndsIn(result, {Space}))
    <3>1. result' = Append(result, s[p]) /\ s[p] \in Char
      BY <1>1, <2>4 DEF CollapseSpaces, Emit, Copy
    <3>2. result # <<>> => PairOK(1, result[Len(result)], s[p])
      BY <2>4 DEF PairOK, EndsIn
    <3>3. Len(result) > 1
            => TripleOK(1, result[Len(result) - 1], result[Len(result)], s[p])
      BY DEF TripleOK
    <3>4. Spaced(1, result') /\ result' \in Seq(Char)
      BY <1>1, <1>2, <2>1, <3>1, <3>2, <3>3, SpacedAppend
    <3> QED
      BY <1>1, <1>3, <2>1, <2>2, <3>4, ScanStep
  <2> QED
    BY <2>3, <2>4
<1>4. CASE stage \in {"collapse2", "collapse3"}
  <2> DEFINE k == LevelAfter[stage]
  <2>1. k \in {4, 7} /\ LevelJoint[stage] = k /\ Spaced(k, s)
    BY <1>4, Levels DEF SpacingInv
  <2>2. ~(s[p] = Space /\ EndsIn(result, {Space}))
    <3>1. result # <<>> => PairOK(k, result[Len(result)], s[p])
      BY <1>1, <1>2, <2>1 DEF Joint
    <3> QED
      BY <2>1, <3>1 DEF PairOK, EndsIn
  <2>3. result' = Append(result, s[p])
    BY <1>1, <2>2 DEF CollapseSpaces, Emit, Copy
  <2>4. /\ p + 1 <= Len(s) => PairOK(k, s[p], s[p + 1])
        /\ p + 2 <= Len(s) => TripleOK(k, s[p], s[p + 1], s[p + 2])
    BY <1>1, <2>1 DEF Spaced
  <2> HIDE DEF k
  <2>5. /\ result' \in Seq(Char)
        /\ Spaced(k, result')
        /\ Joint(k, result', s, p')
    BY <1>1, <1>2, <2>1, <2>3, <2>4, CopyOne DEF k
  <2> QED
    BY <1>1, <1>4, <2>1, <2>5, ScanStep DEF k
<1> QED
  BY <1>3, <1>4 DEF CollapseSpaces, Collapsing

\* JoinCjk: behind a Chinese character the spaces before another are skipped.
LEMMA JoinCjkStep ==
    ASSUME SpacingInv, JoinCjk
    PROVE  SpacingInv'
<1>1. /\ stage = "cjk"
      /\ s \in Seq(Char) /\ result \in Seq(Char) /\ p \in 1 .. Len(s)
      /\ UNCHANGED <<stage, s, input, calls>>
  BY DEF SpacingInv, TypeOK, JoinCjk, Reading, Emit, Copy
<1>2. /\ Spaced(1, s) /\ Spaced(2, result) /\ Joint(2, result, s, p)
      /\ LevelAfter[stage] = 2 /\ LevelJoint[stage] = 2
  BY <1>1, Levels DEF SpacingInv
<1>3. PICK next \in p + 1 .. Len(s) + 1 :
        /\ SkipRun({Space}, s, p + 1, next)
        /\ IF IsCjkOrKana(s[p]) /\ next <= Len(s) /\ IsCjkOrKana(s[next])
             THEN Emit(<<s[p]>>, next)
             ELSE Copy
  BY DEF JoinCjk
<1>4. /\ next <= Len(s) => s[next] # Space /\ s[next] \in Char
      /\ p + 1 <= Len(s) /\ s[p + 1] # Space => next = p + 1
      /\ p + 2 <= Len(s) /\ s[p + 1] = Space /\ s[p + 2] # Space
           => next = p + 2
      /\ s[p] \in Char
  BY <1>1, <1>3, SkipSpaces
<1>5. CASE IsCjkOrKana(s[p]) /\ next <= Len(s) /\ IsCjkOrKana(s[next])
  <2>1. s[p] \in {Han, Kana} /\ s[next] \in {Han, Kana}
    BY <1>4, <1>5, Categories
  <2>2. /\ PairOK(2, s[p], s[next])
        /\ result # <<>> => TripleOK(2, result[Len(result)], s[p], s[next])
        /\ next < Len(s) => TripleOK(2, s[p], s[next], s[next + 1])
    BY <2>1 DEF PairOK, TripleOK
  <2>3. result' = Append(result, s[p]) /\ p' = next
    BY <1>3, <1>5 DEF Emit
  <2>4. result' \in Seq(Char) /\ Spaced(2, result') /\ Joint(2, result', s, p')
    BY <1>1, <1>2, <2>2, <2>3, WriteOne
  <2> QED
    BY <1>1, <1>2, <2>3, <2>4, ScanStep DEF Passes
<1>6. CASE ~(IsCjkOrKana(s[p]) /\ next <= Len(s) /\ IsCjkOrKana(s[next]))
  <2>1. p + 1 <= Len(s) => PairOK(2, s[p], s[p + 1])
    BY <1>1, <1>2 DEF Spaced, PairOK
  <2>2. p + 2 <= Len(s) => TripleOK(2, s[p], s[p + 1], s[p + 2])
    BY <1>1, <1>4, <1>6, Categories DEF TripleOK
  <2>3. result' = Append(result, s[p]) /\ p' = p + 1
    BY <1>3, <1>6 DEF Emit, Copy
  <2>4. result' \in Seq(Char) /\ Spaced(2, result') /\ Joint(2, result', s, p')
    BY <1>1, <1>2, <2>1, <2>2, <2>3, CopyOne
  <2> QED
    BY <1>1, <1>2, <2>3, <2>4, ScanStep DEF Passes
<1> QED
  BY <1>5, <1>6

\* JoinDigit: the same between Chinese characters and digits.
LEMMA JoinDigitStep ==
    ASSUME SpacingInv, JoinDigit
    PROVE  SpacingInv'
<1>1. /\ stage = "digit"
      /\ s \in Seq(Char) /\ result \in Seq(Char) /\ p \in 1 .. Len(s)
      /\ UNCHANGED <<stage, s, input, calls>>
  BY DEF SpacingInv, TypeOK, JoinDigit, Reading, Emit, Copy
<1>2. /\ Spaced(2, s) /\ Spaced(3, result) /\ Joint(3, result, s, p)
      /\ LevelAfter[stage] = 3 /\ LevelJoint[stage] = 3
  BY <1>1, Levels DEF SpacingInv
<1>3. PICK next \in p + 1 .. Len(s) + 1 :
        /\ SkipRun({Space}, s, p + 1, next)
        /\ IF next # p + 1 /\ next <= Len(s) /\ DigitBoundary(s[p], s[next])
             THEN Emit(<<s[p]>>, next)
             ELSE Copy
  BY DEF JoinDigit
<1>4. /\ next <= Len(s) => s[next] # Space /\ s[next] \in Char
      /\ p + 2 <= Len(s) /\ s[p + 1] = Space /\ s[p + 2] # Space
           => next = p + 2
      /\ s[p] \in Char
  BY <1>1, <1>3, SkipSpaces
<1>5. CASE next # p + 1 /\ next <= Len(s) /\ DigitBoundary(s[p], s[next])
  <2>1. s[p] # Space /\ s[next] # Space
    BY <1>4, <1>5, Categories DEF DigitBoundary
  <2>2. DigitBoundary(s[p], s[next])
          => \/ s[p] \in {Han, Kana} /\ s[next] \in {Digit, WideDigit}
             \/ s[p] \in {Digit, WideDigit} /\ s[next] \in {Han, Kana}
    BY <1>4, <1>5, Categories DEF DigitBoundary
  <2>3. /\ PairOK(3, s[p], s[next])
        /\ result # <<>> => TripleOK(3, result[Len(result)], s[p], s[next])
        /\ next < Len(s) => TripleOK(3, s[p], s[next], s[next + 1])
    BY <1>5, <2>1, <2>2 DEF PairOK, TripleOK
  <2>4. result' = Append(result, s[p]) /\ p' = next
    BY <1>3, <1>5 DEF Emit
  <2>5. result' \in Seq(Char) /\ Spaced(3, result') /\ Joint(3, result', s, p')
    BY <1>1, <1>2, <2>3, <2>4, WriteOne
  <2> QED
    BY <1>1, <1>2, <2>4, <2>5, ScanStep DEF Passes
<1>6. CASE ~(next # p + 1 /\ next <= Len(s) /\ DigitBoundary(s[p], s[next]))
  <2>1. /\ p + 1 <= Len(s) => PairOK(3, s[p], s[p + 1])
        /\ p + 2 <= Len(s) => TripleOK(2, s[p], s[p + 1], s[p + 2])
    BY <1>1, <1>2 DEF Spaced, PairOK
  <2>2. p + 2 <= Len(s) => TripleOK(3, s[p], s[p + 1], s[p + 2])
    BY <1>1, <1>4, <1>6, <2>1, Categories DEF TripleOK, DigitBoundary
  <2>3. result' = Append(result, s[p]) /\ p' = p + 1
    BY <1>3, <1>6 DEF Emit, Copy
  <2>4. result' \in Seq(Char) /\ Spaced(3, result') /\ Joint(3, result', s, p')
    BY <1>1, <1>2, <2>1, <2>2, <2>3, CopyOne
  <2> QED
    BY <1>1, <1>2, <2>3, <2>4, ScanStep DEF Passes
<1> QED
  BY <1>5, <1>6

(***************************************************************************)
(* When the token pass reaches a token the space before it is there: the   *)
(* Chinese character wrote it.  The look back in result finds nothing to   *)
(* do.                                                                     *)
(***************************************************************************)
LEMMA SpaceTagStep ==
    ASSUME SpacingInv, SpaceTag
    PROVE  SpacingInv'
<1>1. /\ stage = "latin"
      /\ s \in Seq(Char) /\ result \in Seq(Char) /\ p \in 1 .. Len(s)
      /\ s[p] = Tag /\ Tag \in Char /\ Space \in Char
      /\ UNCHANGED <<stage, s, input, calls>>
  BY DEF SpacingInv, TypeOK, SpaceTag, Reading, Emit, Char
<1>2. /\ Spaced(3, s) /\ Spaced(4, result) /\ Joint(4, result, s, p)
      /\ LevelAfter[stage] = 4 /\ LevelJoint[stage] = 4
  BY <1>1, Levels DEF SpacingInv
<1>3. ~EndsIn(result, {Han, Kana})
  BY <1>1, <1>2 DEF Joint, PairOK, EndsIn
<1>4. PICK next \in p + 1 .. Len(s) + 1 :
        /\ SkipRun({Space}, s, p + 1, next)
        /\ IF next <= Len(s) /\ IsCjkOrKana(s[next])
             THEN Emit(<<>> \o <<Tag, Space>>, next)
             ELSE Emit(<<>> \o <<Tag>>, p + 1)
  BY <1>3 DEF SpaceTag
<1>5. /\ next <= Len(s) => s[next] # Space /\ s[next] \in Char
      /\ p + 1 <= Len(s) /\ s[p + 1] # Space => next = p + 1
  BY <1>1, <1>4, SkipSpaces
<1> DEFINE r == Append(result, Tag)
<1>6. r \in Seq(Char) /\ Spaced(4, r) /\ Len(r) > 0 /\ r[Len(r)] = Tag
  BY <1>1, <1>2, SpacedAppend DEF Joint
<1>7. CASE next <= Len(s) /\ IsCjkOrKana(s[next])
  <2>1. result' = Append(r, Space) /\ p' = next
    BY <1>1, <1>4, <1>7 DEF Emit
  <2>2. s[next] \in {Han, Kana}
    BY <1>5, <1>7, Categories
  <2> HIDE DEF r
  <2>3. Spaced(4, result') /\ result' \in Seq(Char)
    <3>1. /\ PairOK(4, r[Len(r)], Space)
          /\ Len(r) > 1 => TripleOK(4, r[Len(r) - 1], r[Len(r)], Space)
      BY <1>6 DEF PairOK, TripleOK
    <3> QED
      BY <1>1, <1>6, <2>1, <3>1, SpacedAppend
  <2>4. Joint(4, result', s, p')
    <3>1. /\ PairOK(4, Space, s[next])
          /\ TripleOK(4, r[Len(r)], Space, s[next])
          /\ next < Len(s) => TripleOK(4, Space, s[next], s[next + 1])
      BY <1>6, <2>2 DEF PairOK, TripleOK
    <3> QED
      BY <1>1, <1>6, <2>1, <3>1, JointAppend
  <2> QED
    BY <1>1, <1>2, <2>1, <2>3, <2>4, ScanStep DEF Passes
<1>8. CASE ~(next <= Len(s) /\ IsCjkOrKana(s[next]))
  <2>1. result' = Append(result, s[p]) /\ p' = p + 1
    BY <1>1, <1>4, <1>8 DEF Emit
  <2>2. p + 1 <= Len(s) => PairOK(4, s[p], s[p + 1])
    BY <1>1, <1>5, <1>8, Categories DEF PairOK
  <2>3. p + 2 <= Len(s) => TripleOK(4, s[p], s[p + 1], s[p + 2])
    BY <1>1 DEF TripleOK
  <2>4. result' \in Seq(Char) /\ Spaced(4, result') /\ Joint(4, result', s, p')
    BY <1>1, <1>2, <2>1, <2>2, <2>3, CopyOne
  <2> QED
    BY <1>1, <1>2, <2>1, <2>4, ScanStep DEF Passes
<1> QED
  BY <1>7, <1>8

\* SpaceLatin: a space is written between a Chinese character and a word.
LEMMA SpaceLatinStep ==
    ASSUME SpacingInv, SpaceLatin
    PROVE  SpacingInv'
<1>1. /\ stage = "latin"
      /\ s \in Seq(Char) /\ result \in Seq(Char) /\ p \in 1 .. Len(s)
      /\ s[p] # Tag /\ s[p] \in Char /\ Space \in Char
      /\ UNCHANGED <<stage, s, input, calls>>
  BY DEF SpacingInv, TypeOK, SpaceLatin, Reading, Emit, Copy, Char
<1>2. /\ Spaced(3, s) /\ Spaced(4, result) /\ Joint(4, result, s, p)
      /\ LevelAfter[stage] = 4 /\ LevelJoint[stage] = 4
  BY <1>1, Levels DEF SpacingInv
<1> DEFINE look == IF p < Len(s) /\ s[p + 1] = Space THEN p + 2 ELSE p + 1
<1>3. PICK next \in p + 1 .. Len(s) + 1 :
        /\ SkipRun({Space}, s, p + 1, next)
        /\ IF look <= Len(s) /\ LatinBoundary(s[p], s[look])
             THEN Emit(<<s[p], Space>>, next)
             ELSE Copy
  BY DEF SpaceLatin
<1>4. /\ next <= Len(s) => s[next] # Space /\ s[next] \in Char
      /\ p + 1 <= Len(s) /\ s[p + 1] # Space => next = p + 1
      /\ p + 2 <= Len(s) /\ s[p + 1] = Space /\ s[p + 2] # Space
           => next = p + 2
      /\ p + 1 <= Len(s) => s[p + 1] \in Char
      /\ p + 2 <= Len(s) => s[p + 2] \in Char
  BY <1>1, <1>3, SkipSpaces
<1>5. CASE look <= Len(s) /\ LatinBoundary(s[p], s[look])
  <2>1. /\ s[look] # Space
        /\ \/ s[p] \in {Han, Kana} /\ s[look] \in {Latin, Tag}
           \/ s[p] = Latin /\ s[look] \in {Han, Kana}
    BY <1>1, <1>4, <1>5, Categories DEF LatinBoundary
  <2>2. next = look
    BY <1>1, <1>4, <1>5, <2>1
  <2> HIDE DEF look
  <2> DEFINE r == Append(result, s[p])
  <2>3. /\ r \in Seq(Char) /\ Spaced(4, r) /\ Len(r) > 0
        /\ r[Len(r)] = s[p]
    BY <1>1, <1>2, SpacedAppend DEF Joint
  <2>4. result' = Append(r, Space) /\ p' = next
    <3>1. result' = result \o <<s[p], Space>> /\ p' = next
      BY <1>3, <1>5 DEF Emit
    <3>2. result \o <<s[p], Space>> = Append(Append(result, s[p]), Space)
      BY <1>1
    <3> QED
      BY <3>1, <3>2
  <2> HIDE DEF r
  <2>5. Spaced(4, result') /\ result' \in Seq(Char)
    <3>1. /\ PairOK(4, r[Len(r)], Space)
          /\ Len(r) > 1 => TripleOK(4, r[Len(r) - 1], r[Len(r)], Space)
      BY <2>1, <2>3 DEF PairOK, TripleOK
    <3> QED
      BY <1>1, <2>3, <2>4, <3>1, SpacedAppend
  <2>6. Joint(4, result', s, p')
    <3>1. /\ PairOK(4, Space, s[next])
          /\ TripleOK(4, r[Len(r)], Space, s[next])
          /\ next < Len(s) => TripleOK(4, Space, s[next], s[next + 1])
      BY <2>1, <2>2, <2>3 DEF PairOK, TripleOK
    <3> QED
      BY <1>1, <2>3, <2>4, <3>1, JointAppend, SMTT(30)
  <2> QED
    BY <1>1, <1>2, <2>4, <2>5, <2>6, ScanStep DEF Passes
<1>6. CASE ~(look <= Len(s) /\ LatinBoundary(s[p], s[look]))
  <2>1. result' = Append(result, s[p]) /\ p' = p + 1
    BY <1>1, <1>3, <1>6 DEF Emit, Copy
  <2>2. /\ p + 1 <= Len(s) => PairOK(3, s[p], s[p + 1])
        /\ p + 2 <= Len(s) => TripleOK(4, s[p], s[p + 1], s[p + 2])
    BY <1>1, <1>2 DEF Spaced, TripleOK
  <2>3. p + 1 <= Len(s) => PairOK(4, s[p], s[p + 1])
    BY <1>1, <1>4, <1>6, <2>2, Categories DEF PairOK, LatinBoundary
  <2>4. result' \in Seq(Char) /\ Spaced(4, result') /\ Joint(4, result', s, p')
    BY <1>1, <1>2, <2>1, <2>2, <2>3, CopyOne
  <2> QED
    BY <1>1, <1>2, <2>1, <2>4, ScanStep DEF Passes
<1> QED
  BY <1>5, <1>6

(***************************************************************************)
(* Pass 6 is the only one that takes back what it wrote; the text it       *)
(* leaves is a prefix, so nothing established before is lost.              *)
(***************************************************************************)
LEMMA TightenZhPunctStep ==
    ASSUME SpacingInv, TightenZhPunct
    PROVE  SpacingInv'
<1>1. /\ stage = "zhpunct"
      /\ s \in Seq(Char) /\ result \in Seq(Char) /\ p \in 1 .. Len(s)
      /\ s[p] \in Char
      /\ UNCHANGED <<stage, s, input, calls>>
  BY DEF SpacingInv, TypeOK, TightenZhPunct, Reading, Emit, Copy
<1>2. /\ Spaced(4, s) /\ Spaced(6, result) /\ Joint(5, result, s, p)
      /\ LevelAfter[stage] = 6 /\ LevelJoint[stage] = 5
  BY <1>1, Levels DEF SpacingInv
<1>3. PICK next \in p + 1 .. Len(s) + 1 :
        /\ SkipRun({Space}, s, p + 1, next)
        /\ \/ /\ s[p] = Closer
              /\ \E n \in 0 .. Len(result) :
                   /\ TrimmedTo(result, n)
                   /\ result' = Append(SubSeq(result, 1, n), Closer)
              /\ p' = next
           \/ s[p] = Opener /\ Emit(<<Opener>>, next)
           \/ s[p] \notin {Closer, Opener} /\ Copy
  BY DEF TightenZhPunct
<1>4. next <= Len(s) => s[next] # Space
  BY <1>1, <1>3, SkipSpaces
<1>5. CASE s[p] = Closer
  <2>1. p' = next
    BY <1>3, <1>5
  <2>2. PICK n \in 0 .. Len(result) :
          /\ TrimmedTo(result, n)
          /\ result' = Append(SubSeq(result, 1, n), Closer)
    BY <1>3, <1>5
  <2> DEFINE r == SubSeq(result, 1, n)
  <2>3. r \in Seq(Char) /\ Spaced(6, r)
    BY <1>1, <1>2, SpacedSubSeq
  <2>4. r # <<>> => r[Len(r)] # Space
    BY <1>1, <2>2 DEF TrimmedTo
  <2>5. result' = Append(r, s[p])
    BY <1>5, <2>2
  <2> HIDE DEF r
  <2>6. Spaced(6, result') /\ result' \in Seq(Char)
    <3>1. /\ r # <<>> => PairOK(6, r[Len(r)], s[p])
          /\ Len(r) > 1 => TripleOK(6, r[Len(r) - 1], r[Len(r)], s[p])
      BY <1>5, <2>3, <2>4 DEF PairOK, TripleOK
    <3> QED
      BY <1>1, <2>3, <2>5, <3>1, SpacedAppend
  <2>7. Joint(5, result', s, p')
    <3>1. /\ next <= Len(s) => PairOK(5, s[p], s[next])
          /\ r # <<>> /\ next <= Len(s) => TripleOK(5, r[Len(r)], s[p], s[next])
          /\ next < Len(s) => TripleOK(5, s[p], s[next], s[next + 1])
      BY <1>4, <1>5 DEF PairOK, TripleOK
    <3> QED
      BY <1>1, <2>1, <2>3, <2>5, <3>1, JointAppend
  <2> QED
    BY <1>1, <1>2, <2>1, <2>6, <2>7, ScanStep DEF Passes
<1>6. CASE s[p] # Closer
  <2>1. result' = Append(result, s[p]) /\ p' \in p + 1 .. Len(s) + 1
    BY <1>1, <1>3, <1>6 DEF Emit, Copy
  <2>2. Spaced(6, result') /\ result' \in Seq(Char)
    <3>1. /\ result # <<>> => PairOK(6, result[Len(result)], s[p])
          /\ Len(result) > 1
               => TripleOK(6, result[Len(result) - 1], result[Len(result)], s[p])
      BY <1>1, <1>2, <1>6 DEF Joint, PairOK, TripleOK
    <3> QED
      BY <1>1, <1>2, <2>1, <3>1, SpacedAppend
  <2>3. Joint(5, result', s, p')
    <3>1. CASE s[p] = Opener
      <4>1. /\ p' <= Len(s) => PairOK(5, s[p], s[p'])
            /\ result # <<>> /\ p' <= Len(s)
                 => TripleOK(5, result[Len(result)], s[p], s[p'])
            /\ p' < Len(s) => TripleOK(5, s[p], s[p'], s[p' + 1])
        BY <1>3, <1>4, <3>1 DEF PairOK, TripleOK, Emit
      <4> QED
        BY <1>1, <2>1, <4>1, JointAppend
    <3>2. CASE s[p] # Opener
      <4>1. p' = p + 1
        BY <1>3, <1>6, <3>2 DEF Copy, Emit
      <4>2. /\ p + 1 <= Len(s) => PairOK(4, s[p], s[p + 1])
            /\ p + 2 <= Len(s) => TripleOK(4, s[p], s[p + 1], s[p + 2])
        BY <1>1, <1>2 DEF Spaced
      <4>3. /\ p + 1 <= Len(s) => PairOK(5, s[p], s[p + 1])
            /\ p + 1 < Len(s) => TripleOK(5, s[p], s[p + 1], s[(p + 1) + 1])
            /\ result # <<>> /\ p + 1 <= Len(s)
                 => TripleOK(5, result[Len(result)], s[p], s[p + 1])
        BY <1>1, <1>2, <1>6, <3>2, <4>2 DEF PairOK, TripleOK, Joint
      <4> QED
        BY <1>1, <2>1, <4>1, <4>3, JointAppend
    <3> QED
      BY <3>1, <3>2
  <2> QED
    BY <1>1, <1>2, <2>1, <2>2, <2>3, ScanStep DEF Passes
<1> QED
  BY <1>5, <1>6

\* TightenAsciiPunct: a blank is written only if its run ends elsewhere.
LEMMA TightenAsciiPunctStep ==
    ASSUME SpacingInv, TightenAsciiPunct
    PROVE  SpacingInv'
<1>1. /\ stage = "asciipunct"
      /\ s \in Seq(Char) /\ result \in Seq(Char) /\ p \in 1 .. Len(s)
      /\ s[p] \in Char /\ AsciiPunct \in Char
      /\ UNCHANGED <<stage, s, input, calls>>
  BY DEF SpacingInv, TypeOK, TightenAsciiPunct, Reading, Emit, Copy, Char
<1>2. /\ Spaced(6, s) /\ Spaced(7, result) /\ Joint(7, result, s, p)
      /\ LevelAfter[stage] = 7 /\ LevelJoint[stage] = 7
      /\ BlankRunKept(result, s, p)
  BY <1>1, Levels DEF SpacingInv
<1>3. PICK next \in p .. Len(s) + 1 :
        /\ SkipRun(Blank, s, p, next)
        /\ IF next # p /\ next <= Len(s) /\ s[next] = AsciiPunct
             THEN Emit(<<AsciiPunct>>, next + 1)
             ELSE Copy
  BY DEF TightenAsciiPunct
<1>4. CASE next # p /\ next <= Len(s) /\ s[next] = AsciiPunct
  <2>1. result' = Append(result, AsciiPunct) /\ p' = next + 1
    BY <1>1, <1>3, <1>4 DEF Emit
  <2>2. ~EndsIn(result, Blank)
    BY <1>2, <1>3, <1>4 DEF BlankRunKept
  <2>3. Spaced(7, result') /\ result' \in Seq(Char)
    <3>1. /\ result # <<>> => PairOK(7, result[Len(result)], AsciiPunct)
          /\ Len(result) > 1 => TripleOK(7, result[Len(result) - 1],
                                         result[Len(result)], AsciiPunct)
      BY <2>2 DEF PairOK, TripleOK, EndsIn
    <3> QED
      BY <1>1, <1>2, <2>1, <3>1, SpacedAppend
  <2>4. Joint(7, result', s, p')
    <3>1. \A a, b : /\ PairOK(7, AsciiPunct, a)
                    /\ TripleOK(7, AsciiPunct, a, b)
                    /\ TripleOK(7, a, AsciiPunct, b)
      BY DEF PairOK, TripleOK
    <3>2. next + 1 \in Nat
      BY <1>1, <1>3
    <3> QED
      BY <1>1, <2>1, <3>1, <3>2, JointAppend
  <2>5. BlankRunKept(result', s, p')
    BY <1>1, <2>1 DEF BlankRunKept, EndsIn
  <2>6. p' \in 1 .. Len(s) + 1
    BY <1>1, <1>3, <1>4, <2>1
  <2> QED
    BY <1>1, <1>2, <2>3, <2>4, <2>5, <2>6, ScanStep DEF Passes
<1>5. CASE ~(next # p /\ next <= Len(s) /\ s[next] = AsciiPunct)
  <2>1. result' = Append(result, s[p]) /\ p' = p + 1
    BY <1>1, <1>3, <1>5 DEF Emit, Copy
  <2>2. /\ p + 1 <= Len(s) => PairOK(6, s[p], s[p + 1])
        /\ p + 2 <= Len(s) => TripleOK(6, s[p], s[p + 1], s[p + 2])
    BY <1>1, <1>2 DEF Spaced
  <2>3. BlankRunKept(result', s, p')
    <3>1. SUFFICES ASSUME s[p] \in Blank,
                          NEW n \in p + 1 .. Len(s), SkipRun(Blank, s, p + 1, n)
                   PROVE  s[n] # AsciiPunct
      BY <1>1, <2>1 DEF BlankRunKept, EndsIn
    <3>2. n = next
      BY <1>1, <1>3, <3>1 DEF SkipRun
    <3> QED
      BY <1>5, <3>2
  <2>4. p + 1 <= Len(s) => PairOK(7, s[p], s[p + 1])
    <3>1. p + 1 <= Len(s) /\ s[p] \in Blank /\ s[p + 1] = AsciiPunct
            => next = p + 1
      BY <1>1, <1>3 DEF SkipRun
    <3> QED
      BY <1>1, <1>5, <2>2, <3>1 DEF PairOK
  <2>5. p + 2 <= Len(s) => TripleOK(7, s[p], s[p + 1], s[p + 2])
    BY <2>2 DEF TripleOK
  <2>6. result' \in Seq(Char) /\ Spaced(7, result') /\ Joint(7, result', s, p')
    BY <1>1, <1>2, <2>1, <2>4, <2>5, CopyOne
  <2> QED
    BY <1>1, <1>2, <2>1, <2>3, <2>6, ScanStep DEF Passes
<1> QED
  BY <1>4, <1>5

-----------------------------------------------------------------------------
\* An empty output is tidy and meets any text.
LEMMA EmptyFacts ==
    \A k, t, i : /\ Spaced(k, <<>>) /\ Joint(k, <<>>, t, i)
                 /\ BlankRunKept(<<>>, t, i)
BY DEF Spaced, Joint, BlankRunKept, EndsIn

\* EndPass: the output of one pass is what the next one expects.
LEMMA EndPassStep ==
    ASSUME SpacingInv, EndPass
    PROVE  SpacingInv'
<1>1. /\ s' = result /\ result' = <<>> /\ p' = 1
      /\ stage' = NextStage[stage] /\ stage \in Passes
      /\ UNCHANGED <<input, calls>>
      /\ TypeOK /\ Spaced(LevelAfter[stage], result)
  BY DEF EndPass, SpacingInv
<1>2. stage' \in Passes \cup {"strip"}
  BY <1>1 DEF NextStage, Passes, Collapsing
<1>3. Spaced(LevelBefore[stage'], s')
  BY <1>1, Levels
<1>4. TypeOK'
  BY <1>1, <1>2 DEF TypeOK
<1> QED
  BY <1>1, <1>2, <1>3, <1>4, EmptyFacts DEF SpacingInv, Passes, Collapsing

\* Strip: a piece of a tidy text is tidy.
LEMMA StripStep ==
    ASSUME SpacingInv, StripFront \/ StripBack
    PROVE  SpacingInv'
<1>1. /\ stage = "strip" /\ p = 1 /\ result = <<>> /\ s \in Seq(Char)
      /\ UNCHANGED <<stage, p, result, input, calls>>
      /\ s # <<>> /\ TypeOK /\ Spaced(7, s)
  BY Levels DEF SpacingInv, TypeOK, StripFront, StripBack
<1>2. \/ s' = SubSeq(s, 2, Len(s))
      \/ s' = SubSeq(s, 1, Len(s) - 1)
  BY DEF StripFront, StripBack
<1>3. s' \in Seq(Char) /\ Spaced(7, s')
  <2>1. /\ 2 \in 1 .. Len(s) + 1 /\ Len(s) \in 0 .. Len(s)
        /\ 1 \in 1 .. Len(s) + 1 /\ Len(s) - 1 \in 0 .. Len(s)
    BY <1>1
  <2> QED
    BY <1>1, <1>2, <2>1, SpacedSubSeq
<1>4. TypeOK'
  BY <1>1, <1>3 DEF TypeOK
<1> QED
  BY <1>1, <1>3, <1>4, Levels, EmptyFacts DEF SpacingInv

\* Return: the stripped text has no blank at either end.
LEMMA ReturnStep ==
    ASSUME SpacingInv, Return
    PROVE  SpacingInv'
<1>1. Spaced(7, s) /\ stage' = "done" /\ UNCHANGED <<s, p, result, input, calls>>
  BY Levels DEF SpacingInv, Return
<1>2. TidyText(s)'
  BY <1>1 DEF TidyText, Return
<1> QED
  BY <1>1, <1>2, Levels, EmptyFacts DEF SpacingInv, TypeOK, Return

\* CallAgain: the second call starts with an empty output.
LEMMA CallAgainStep ==
    ASSUME SpacingInv, CallAgain
    PROVE  SpacingInv'
<1>1. Spaced(0, s)
  BY DEF Spaced, PairOK, TripleOK
<1> QED
  BY <1>1, Levels, EmptyFacts
  DEF SpacingInv, TypeOK, CallAgain, Passes, Collapsing

(***************************************************************************)
(* The invariant holds initially and every step of NormalizeSpaces keeps   *)
(* it.                                                                     *)
(***************************************************************************)
THEOREM SpacingInvariant == Spec => []SpacingInv
<1>1. Init => SpacingInv
  <2> SUFFICES ASSUME Init PROVE SpacingInv
    OBVIOUS
  <2>1. s \in Seq(Char)
    BY TextsAssumption DEF Init
  <2>2. Spaced(0, s)
    BY DEF Spaced, PairOK, TripleOK
  <2>3. TypeOK
    BY <2>1 DEF Init, TypeOK, Passes, Collapsing
  <2> QED
    BY <2>2, <2>3, Levels, EmptyFacts DEF Init, SpacingInv
<1>2. SpacingInv /\ [Next]_vars => SpacingInv'
  <2> SUFFICES ASSUME SpacingInv, [Next]_vars PROVE SpacingInv'
    OBVIOUS
  <2>1. CASE UNCHANGED vars
    BY <2>1 DEF vars, SpacingInv, TypeOK, Spaced, Joint, BlankRunKept, EndsIn,
                SkipRun
  <2>2. CASE Finished
    BY <2>1, <2>2 DEF Finished
  <2>3. CASE Next /\ ~Finished
    BY <2>3, CollapseSpacesStep, JoinCjkStep, JoinDigitStep, SpaceTagStep,
       SpaceLatinStep, TightenZhPunctStep, TightenAsciiPunctStep, EndPassStep,
       StripStep, ReturnStep, CallAgainStep
    DEF Next
  <2> QED
    BY <2>1, <2>2, <2>3
<1> QED
  BY <1>1, <1>2, PTL DEF Spec

(***************************************************************************)
(* Every pass stays inside its text, and every buffer holds a text.        *)
(***************************************************************************)
THEOREM TypeCorrect == Spec => []TypeOK
<1>1. SpacingInv => TypeOK
  BY DEF SpacingInv
<1> QED
  BY <1>1, SpacingInvariant, PTL

(***************************************************************************)
(* Whatever text NormalizeSpaces is given, the text it returns obeys all   *)
(* its spacing rules: no pass undoes the work of an earlier one.           *)
(***************************************************************************)
THEOREM OutputIsTidy == Spec => []OutputTidy
<1>1. SpacingInv => OutputTidy
  BY DEF SpacingInv, OutputTidy
<1> QED
  BY <1>1, SpacingInvariant, PTL

-----------------------------------------------------------------------------
(***************************************************************************)
(* Idempotence.  In the second call every step writes what it reads.       *)
(***************************************************************************)
LEMMA PrefixFacts ==
    ASSUME NEW t \in Seq(Char), NEW i \in 1 .. Len(t)
    PROVE  /\ SubSeq(t, 1, i - 1) \in Seq(Char)
           /\ Len(SubSeq(t, 1, i - 1)) = i - 1
           /\ SubSeq(t, 1, i - 1) # <<>> => i > 1
           /\ i > 1 => SubSeq(t, 1, i - 1)[i - 1] = t[i - 1]
OBVIOUS

\* A prefix and the next character make the next prefix.
LEMMA PrefixAppend ==
    ASSUME NEW t \in Seq(Char), NEW i \in 1 .. Len(t)
    PROVE  Append(SubSeq(t, 1, i - 1), t[i]) = SubSeq(t, 1, (i + 1) - 1)
<1> DEFINE u == Append(SubSeq(t, 1, i - 1), t[i])
           v == SubSeq(t, 1, (i + 1) - 1)
<1>1. u \in Seq(Char) /\ v \in Seq(Char) /\ Len(u) = i /\ Len(v) = i
  OBVIOUS
<1>2. \A j \in 1 .. i : u[j] = v[j]
  OBVIOUS
<1> HIDE DEF u, v
<1>3. u = v
  BY <1>1, <1>2, SeqEqual
<1> QED
  BY <1>3 DEF u, v

\* The same for the next two characters.
LEMMA PrefixAppendTwo ==
    ASSUME NEW t \in Seq(Char), NEW i \in 1 .. Len(t), i + 1 <= Len(t)
    PROVE  SubSeq(t, 1, i - 1) \o <<t[i], t[i + 1]>> = SubSeq(t, 1, (i + 2) - 1)
<1> DEFINE u == SubSeq(t, 1, i - 1) \o <<t[i], t[i + 1]>>
           v == SubSeq(t, 1, (i + 2) - 1)
<1>1. u \in Seq(Char) /\ v \in Seq(Char) /\ Len(u) = i + 1 /\ Len(v) = i + 1
  OBVIOUS
<1>2. \A j \in 1 .. i + 1 : u[j] = v[j]
  OBVIOUS
<1> HIDE DEF u, v
<1>3. u = v
  BY <1>1, <1>2, SeqEqual
<1> QED
  BY <1>3 DEF u, v

\* At the end of a pass the prefix is the whole text.
LEMMA WholePrefix ==
    ASSUME NEW t \in Seq(Char), NEW i \in Nat, i = Len(t) + 1
    PROVE  SubSeq(t, 1, i - 1) = t
<1>1. i - 1 = Len(t)
  OBVIOUS
<1> QED
  BY <1>1, SubSeqFull

(***************************************************************************)
(* A tidy text has no gap that a pass would touch.                         *)
(***************************************************************************)
LEMMA TidyAt ==
    ASSUME NEW t \in Seq(Char), TidyText(t), NEW i \in 1 .. Len(t)
    PROVE  /\ i + 1 <= Len(t) => PairOK(7, t[i], t[i + 1])
           /\ i + 2 <= Len(t) => TripleOK(7, t[i], t[i + 1], t[i + 2])
           /\ i > 1 => PairOK(7, t[i - 1], t[i])
<1>1. i > 1 => PairOK(7, t[i - 1], t[(i - 1) + 1])
  BY DEF TidyText, Spaced
<1> QED
  BY <1>1 DEF TidyText, Spaced

\* At most one space follows a character, and one at the end of the text none.
LEMMA TidySkip ==
    ASSUME NEW t \in Seq(Char), TidyText(t), NEW i \in 1 .. Len(t),
           NEW next \in Nat, SkipRun({Space}, t, i + 1, next)
    PROVE  \/ next = i + 1 /\ (i + 1 <= Len(t) => t[i + 1] # Space)
           \/ /\ next = i + 2 /\ i + 2 <= Len(t)
              /\ t[i + 1] = Space /\ t[i + 2] # Space
<1>1. CASE i + 1 <= Len(t) /\ t[i + 1] = Space
  <2>1. i + 2 <= Len(t)
    BY <1>1 DEF TidyText
  <2>2. t[i + 2] # Space
    <3>1. PairOK(7, t[i + 1], t[(i + 1) + 1])
      BY <2>1, TidyAt
    <3> QED
      BY <1>1, <3>1 DEF PairOK
  <2> QED
    BY <1>1, <2>1, <2>2, SkipSpaces
<1>2. CASE ~(i + 1 <= Len(t) /\ t[i + 1] = Space)
  BY <1>2 DEF SkipRun
<1> QED
  BY <1>1, <1>2

(***************************************************************************)
(* The two ways a step of the second call keeps its invariant: it writes   *)
(* the character it reads, or that character and the space behind it.      *)
(***************************************************************************)
LEMMA SecondCopy ==
    ASSUME SpacingInv, SecondCallInv, calls = 2, p <= Len(s),
           UNCHANGED <<stage, s, input, calls>>,
           \/ p' = p + 1 /\ result' = Append(result, s[p])
           \/ /\ p + 1 <= Len(s) /\ s[p + 1] = Space
              /\ p' = p + 2 /\ result' = result \o <<s[p], Space>>
    PROVE  SecondCallInv'
<1>1. s \in Seq(Char) /\ p \in 1 .. Len(s) /\ result = SubSeq(s, 1, p - 1)
      /\ TidyText(s) /\ s = input
  BY DEF SpacingInv, TypeOK, SecondCallInv
<1>2. result' = SubSeq(s, 1, p' - 1)
  <2>1. CASE p' = p + 1 /\ result' = Append(result, s[p])
    BY <1>1, <2>1, PrefixAppend
  <2>2. CASE /\ p + 1 <= Len(s) /\ s[p + 1] = Space
             /\ p' = p + 2 /\ result' = result \o <<s[p], Space>>
    <3>1. SubSeq(s, 1, p - 1) \o <<s[p], s[p + 1]>> = SubSeq(s, 1, (p + 2) - 1)
      BY <1>1, <2>2, PrefixAppendTwo
    <3> QED
      BY <1>1, <2>2, <3>1
  <2> QED
    BY <2>1, <2>2
<1> QED
  BY <1>1, <1>2 DEF SecondCallInv

\* In the second call CollapseSpaces copies.
LEMMA SecondCollapse ==
    ASSUME SpacingInv, SecondCallInv, calls = 2, CollapseSpaces
    PROVE  SecondCallInv'
<1>1. /\ s \in Seq(Char) /\ p \in 1 .. Len(s)
      /\ result = SubSeq(s, 1, p - 1) /\ TidyText(s)
      /\ UNCHANGED <<stage, s, input, calls>>
  BY DEF SpacingInv, TypeOK, SecondCallInv, CollapseSpaces, Emit, Copy
<1>2. ~(s[p] = Space /\ EndsIn(result, {Space}))
  BY <1>1, PrefixFacts, TidyAt DEF EndsIn, PairOK
<1>3. result' = Append(result, s[p]) /\ p' = p + 1
  BY <1>1, <1>2, PrefixFacts DEF CollapseSpaces, Copy, Emit
<1> QED
  BY <1>1, <1>3, SecondCopy

\* In the second call JoinCjk and JoinDigit copy.
LEMMA SecondJoin ==
    ASSUME SpacingInv, SecondCallInv, calls = 2, JoinCjk \/ JoinDigit
    PROVE  SecondCallInv'
<1>1. /\ s \in Seq(Char) /\ result \in Seq(Char) /\ p \in 1 .. Len(s)
      /\ TidyText(s) /\ UNCHANGED <<stage, s, input, calls>>
  BY DEF SpacingInv, TypeOK, SecondCallInv, JoinCjk, JoinDigit, Reading, Emit,
         Copy
<1>2. PICK next \in p + 1 .. Len(s) + 1 :
        /\ SkipRun({Space}, s, p + 1, next)
        /\ \/ /\ next <= Len(s)
              /\ \/ IsCjkOrKana(s[p]) /\ IsCjkOrKana(s[next])
                 \/ DigitBoundary(s[p], s[next])
              /\ Emit(<<s[p]>>, next)
           \/ Copy
  BY DEF JoinCjk, JoinDigit
<1>3. CASE Copy
  <2>1. result' = Append(result, s[p]) /\ p' = p + 1
    BY <1>1, <1>3 DEF Copy, Emit
  <2> QED
    BY <1>1, <2>1, SecondCopy
<1>4. CASE /\ next <= Len(s)
           /\ \/ IsCjkOrKana(s[p]) /\ IsCjkOrKana(s[next])
              \/ DigitBoundary(s[p], s[next])
           /\ Emit(<<s[p]>>, next)
  <2>1. s[p] \in Char /\ s[next] \in Char
    BY <1>1, <1>4
  <2>2. \/ s[p] \in {Han, Kana} /\ s[next] \in {Han, Kana, Digit, WideDigit}
        \/ s[p] \in {Digit, WideDigit} /\ s[next] \in {Han, Kana}
    BY <1>4, <2>1, Categories DEF DigitBoundary
  <2>3. next = p + 1
    <3>1. p + 2 <= Len(s) => TripleOK(7, s[p], s[p + 1], s[p + 2])
      BY <1>1, TidyAt
    <3>2. ~(/\ next = p + 2 /\ p + 2 <= Len(s) /\ s[p + 1] = Space)
      BY <2>2, <3>1 DEF TripleOK
    <3> QED
      BY <1>1, <1>2, <3>2, TidySkip
  <2>4. result' = Append(result, s[p]) /\ p' = p + 1
    BY <1>1, <1>4, <2>3 DEF Emit
  <2> QED
    BY <1>1, <2>4, SecondCopy
<1> QED
  BY <1>2, <1>3, <1>4

\* In the second call SpaceTag writes what it reads.
LEMMA SecondSpaceTag ==
    ASSUME SpacingInv, SecondCallInv, calls = 2, SpaceTag
    PROVE  SecondCallInv'
<1>1. /\ s \in Seq(Char) /\ result \in Seq(Char) /\ p \in 1 .. Len(s)
      /\ result = SubSeq(s, 1, p - 1) /\ TidyText(s) /\ s[p] = Tag
      /\ UNCHANGED <<stage, s, input, calls>>
  BY DEF SpacingInv, TypeOK, SecondCallInv, SpaceTag, Reading, Emit
<1>2. ~EndsIn(result, {Han, Kana})
  BY <1>1, PrefixFacts, TidyAt DEF EndsIn, PairOK
<1>3. PICK next \in p + 1 .. Len(s) + 1 :
        /\ SkipRun({Space}, s, p + 1, next)
        /\ IF next <= Len(s) /\ IsCjkOrKana(s[next])
             THEN Emit(<<>> \o <<Tag, Space>>, next)
             ELSE Emit(<<>> \o <<Tag>>, p + 1)
  BY <1>2 DEF SpaceTag
<1>4. CASE next <= Len(s) /\ IsCjkOrKana(s[next])
  <2>1. s[next] \in {Han, Kana}
    BY <1>1, <1>4, Categories
  <2>2. next = p + 2 /\ p + 1 <= Len(s) /\ s[p + 1] = Space
    <3>1. next # p + 1
      BY <1>1, <1>4, <2>1, TidyAt DEF PairOK
    <3> QED
      BY <1>1, <1>3, <3>1, TidySkip
  <2>3. result' = result \o <<s[p], Space>> /\ p' = p + 2
    BY <1>1, <1>3, <1>4, <2>2 DEF Emit
  <2> QED
    BY <1>1, <2>2, <2>3, SecondCopy
<1>5. CASE ~(next <= Len(s) /\ IsCjkOrKana(s[next]))
  <2>1. result' = Append(result, s[p]) /\ p' = p + 1
    BY <1>1, <1>3, <1>5 DEF Emit
  <2> QED
    BY <1>1, <2>1, SecondCopy
<1> QED
  BY <1>4, <1>5

\* In the second call SpaceLatin writes what it reads.
LEMMA SecondSpaceLatin ==
    ASSUME SpacingInv, SecondCallInv, calls = 2, SpaceLatin
    PROVE  SecondCallInv'
<1>1. /\ s \in Seq(Char) /\ result \in Seq(Char) /\ p \in 1 .. Len(s)
      /\ TidyText(s) /\ s[p] \in Char
      /\ UNCHANGED <<stage, s, input, calls>>
  BY DEF SpacingInv, TypeOK, SecondCallInv, SpaceLatin, Reading, Emit, Copy
<1> DEFINE look == IF p < Len(s) /\ s[p + 1] = Space THEN p + 2 ELSE p + 1
<1>2. PICK next \in p + 1 .. Len(s) + 1 :
        /\ SkipRun({Space}, s, p + 1, next)
        /\ IF look <= Len(s) /\ LatinBoundary(s[p], s[look])
             THEN Emit(<<s[p], Space>>, next)
             ELSE Copy
  BY DEF SpaceLatin
<1>3. CASE look <= Len(s) /\ LatinBoundary(s[p], s[look])
  <2>1. s[look] \in Char
    BY <1>1, <1>3
  <2>2. \/ s[p] \in {Han, Kana} /\ s[look] \in {Latin, Tag}
        \/ s[p] = Latin /\ s[look] \in {Han, Kana}
    BY <1>1, <1>3, <2>1, Categories DEF LatinBoundary
  <2>3. look = p + 2 /\ p + 1 <= Len(s) /\ s[p + 1] = Space
    <3>1. look # p + 1
      BY <1>1, <1>3, <2>2, TidyAt DEF PairOK
    <3> QED
      BY <1>1, <3>1
  <2>4. next = p + 2
    BY <1>1, <1>2, <2>3, TidySkip
  <2>5. result' = result \o <<s[p], Space>> /\ p' = p + 2
    BY <1>2, <1>3, <2>4 DEF Emit
  <2> QED
    BY <1>1, <2>3, <2>5, SecondCopy
<1>4. CASE ~(look <= Len(s) /\ LatinBoundary(s[p], s[look]))
  <2>1. result' = Append(result, s[p]) /\ p' = p + 1
    BY <1>1, <1>2, <1>4 DEF Emit, Copy
  <2> QED
    BY <1>1, <2>1, SecondCopy
<1> QED
  BY <1>3, <1>4

\* In the second call TightenZhPunct copies.
LEMMA SecondZhPunct ==
    ASSUME SpacingInv, SecondCallInv, calls = 2, TightenZhPunct
    PROVE  SecondCallInv'
<1>1. /\ s \in Seq(Char) /\ result \in Seq(Char) /\ p \in 1 .. Len(s)
      /\ result = SubSeq(s, 1, p - 1) /\ TidyText(s)
      /\ UNCHANGED <<stage, s, input, calls>>
  BY DEF SpacingInv, TypeOK, SecondCallInv, TightenZhPunct, Reading, Emit, Copy
<1>2. PICK next \in p + 1 .. Len(s) + 1 :
        /\ SkipRun({Space}, s, p + 1, next)
        /\ \/ /\ s[p] = Closer
              /\ \E n \in 0 .. Len(result) :
                   /\ TrimmedTo(result, n)
                   /\ result' = Append(SubSeq(result, 1, n), Closer)
              /\ p' = next
           \/ s[p] = Opener /\ Emit(<<Opener>>, next)
           \/ s[p] \notin {Closer, Opener} /\ Copy
  BY DEF TightenZhPunct
<1>3. s[p] \in {Closer, Opener} => next = p + 1
  <2>1. s[p] \in {Closer, Opener} /\ p + 1 <= Len(s) => s[p + 1] # Space
    BY <1>1, TidyAt DEF PairOK
  <2> QED
    BY <1>1, <1>2, <2>1, TidySkip
<1>4. CASE s[p] = Closer
  <2>1. PICK n \in 0 .. Len(result) :
          /\ TrimmedTo(result, n)
          /\ result' = Append(SubSeq(result, 1, n), Closer)
    BY <1>2, <1>4
  <2>2. result # <<>> => result[Len(result)] # Space
    BY <1>1, <1>4, PrefixFacts, TidyAt DEF PairOK
  <2>3. n = Len(result)
    BY <1>1, <2>1, <2>2, SMTT(30) DEF TrimmedTo
  <2>4. SubSeq(result, 1, n) = result
    BY <1>1, <2>3, SubSeqFull
  <2>5. result' = Append(result, s[p]) /\ p' = p + 1
    BY <1>2, <1>3, <1>4, <2>1, <2>4
  <2> QED
    BY <1>1, <2>5, SecondCopy
<1>5. CASE s[p] # Closer
  <2>1. result' = Append(result, s[p]) /\ p' = p + 1
    BY <1>1, <1>2, <1>3, <1>5 DEF Emit, Copy
  <2> QED
    BY <1>1, <2>1, SecondCopy
<1> QED
  BY <1>4, <1>5

\* In the second call TightenAsciiPunct copies.
LEMMA SecondAsciiPunct ==
    ASSUME SpacingInv, SecondCallInv, calls = 2, TightenAsciiPunct
    PROVE  SecondCallInv'
<1>1. /\ s \in Seq(Char) /\ result \in Seq(Char) /\ p \in 1 .. Len(s)
      /\ TidyText(s) /\ UNCHANGED <<stage, s, input, calls>>
  BY DEF SpacingInv, TypeOK, SecondCallInv, TightenAsciiPunct, Reading, Emit,
         Copy
<1>2. PICK next \in p .. Len(s) + 1 :
        /\ SkipRun(Blank, s, p, next)
        /\ IF next # p /\ next <= Len(s) /\ s[next] = AsciiPunct
             THEN Emit(<<AsciiPunct>>, next + 1)
             ELSE Copy
  BY DEF TightenAsciiPunct
<1>3. ~(next # p /\ next <= Len(s) /\ s[next] = AsciiPunct)
  <2> SUFFICES ASSUME next # p, next <= Len(s), s[next] = AsciiPunct
               PROVE  FALSE
    OBVIOUS
  <2>1. next \in 1 .. Len(s) /\ next > 1 /\ s[next - 1] \in Blank
    BY <1>1, <1>2 DEF SkipRun
  <2>2. PairOK(7, s[next - 1], s[next])
    BY <1>1, <2>1, TidyAt
  <2> QED
    BY <2>1, <2>2 DEF PairOK
<1>4. result' = Append(result, s[p]) /\ p' = p + 1
  BY <1>1, <1>2, <1>3 DEF Emit, Copy
<1> QED
  BY <1>1, <1>4, SecondCopy

\* In the second call EndPass hands on the same text.
LEMMA SecondEndPass ==
    ASSUME SpacingInv, SecondCallInv, calls = 2, EndPass
    PROVE  SecondCallInv'
<1>1. /\ s \in Seq(Char) /\ p \in Nat /\ p = Len(s) + 1
      /\ result = SubSeq(s, 1, p - 1) /\ TidyText(s) /\ s = input
      /\ s' = result /\ result' = <<>> /\ p' = 1 /\ UNCHANGED <<input, calls>>
  BY DEF SpacingInv, TypeOK, SecondCallInv, EndPass
<1>2. s' = s
  BY <1>1, WholePrefix
<1>3. SubSeq(s', 1, p' - 1) = <<>>
  BY <1>1, <1>2
<1> QED
  BY <1>1, <1>2, <1>3 DEF SecondCallInv

\* In the second call Strip finds nothing to remove.
LEMMA SecondReturn ==
    ASSUME SpacingInv, SecondCallInv, calls = 2,
           StripFront \/ StripBack \/ Return
    PROVE  SecondCallInv'
<1>1. ~StripFront /\ ~StripBack
  BY DEF SecondCallInv, TidyText, StripFront, StripBack
<1> QED
  BY <1>1 DEF SecondCallInv, Return

\* The second call starts with the tidy text the first returned.
LEMMA SecondStart ==
    ASSUME SpacingInv, CallAgain
    PROVE  SecondCallInv'
<1>1. /\ s \in Seq(Char) /\ TidyText(s) /\ p = 1 /\ result = <<>>
      /\ UNCHANGED <<s, p, result>> /\ input' = s
  BY DEF SpacingInv, TypeOK, CallAgain
<1>2. SubSeq(s', 1, p' - 1) = <<>>
  BY <1>1
<1> QED
  BY <1>1, <1>2 DEF SecondCallInv

(***************************************************************************)
(* A second call of NormalizeSpaces returns its argument, whatever the     *)
(* text the first one was given.                                           *)
(***************************************************************************)
THEOREM SecondCallChangesNothing == Spec => []Idempotent
<1>1. Init => SecondCallInv
  BY DEF Init, SecondCallInv
<1>2. SpacingInv /\ SecondCallInv /\ [Next]_vars => SecondCallInv'
  <2> SUFFICES ASSUME SpacingInv, SecondCallInv, [Next]_vars
               PROVE  SecondCallInv'
    OBVIOUS
  <2>1. CASE UNCHANGED vars
    BY <2>1 DEF vars, SecondCallInv
  <2>2. CASE CallAgain
    BY <2>2, SecondStart
  <2>3. CASE Next /\ calls = 2 /\ ~CallAgain
    <3>1. CASE Finished
      BY <2>1, <3>1 DEF Finished
    <3>2. CASE ~Finished
      BY <2>3, <3>2, SecondCollapse, SecondJoin, SecondSpaceTag,
         SecondSpaceLatin, SecondZhPunct, SecondAsciiPunct, SecondEndPass,
         SecondReturn
      DEF Next
    <3> QED
      BY <3>1, <3>2
  <2>4. CASE Next /\ calls # 2 /\ ~CallAgain
    <3>1. calls' = calls
      BY <2>4 DEF Next, CollapseSpaces, JoinCjk, JoinDigit, SpaceTag,
                  SpaceLatin, TightenZhPunct, TightenAsciiPunct, EndPass,
                  StripFront, StripBack, Return, Finished, Emit, Copy, vars
    <3> QED
      BY <2>4, <3>1 DEF SecondCallInv
  <2> QED
    BY <2>1, <2>2, <2>3, <2>4
<1>3. SecondCallInv => Idempotent
  BY DEF SecondCallInv, Idempotent
<1> QED
  BY <1>1, <1>2, <1>3, SpacingInvariant, PTL DEF Spec

-----------------------------------------------------------------------------
(***************************************************************************)
(* The ink of a text, its characters that are not blanks: ContentKept is   *)
(* inductive by itself once the type invariant is known, since what a step *)
(* writes has the ink of what it reads.                                    *)
(***************************************************************************)
HIDE DEF Han, Kana, Digit, WideDigit, Latin, Tag, Space, Tab, Closer, Opener,
        AsciiPunct, Other, Blank

\* The ink of two texts one after the other.
LEMMA InkConcat ==
    ASSUME NEW a, NEW b, a \in Seq(Char) /\ b \in Seq(Char)
    PROVE  /\ NonBlank(a \o b) = NonBlank(a) \o NonBlank(b)
           /\ NonBlank(a) \in Seq(Char) /\ NonBlank(b) \in Seq(Char)
BY KeptConcat, KeptType DEF NonBlank

\* Blanks have none.
LEMMA InkOfBlanks ==
    ASSUME NEW b, b \in Seq(Blank)
    PROVE  NonBlank(b) = <<>> /\ b \in Seq(Char)
<1>1. Blank \subseteq Char
  BY DEF Char, Blank
<1>0. Blank \cap (Char \ Blank) = {}
  OBVIOUS
<1>2. b \in Seq(Char)
  BY <1>1, SeqMonotonic
<1>3. Kept(Char \ Blank, b) = <<>>
  <2> HIDE DEF Blank
  <2> QED
    BY <1>0, KeptNone
<1> QED
  BY <1>2, <1>3 DEF NonBlank

\* A stretch of a text of which all is blank is a text of blanks.
LEMMA BlankStretch ==
    ASSUME NEW t \in Seq(Char), NEW i \in 1 .. Len(t) + 1, NEW j \in 0 .. Len(t),
           \A q \in i .. j : t[q] \in Blank
    PROVE  NonBlank(SubSeq(t, i, j)) = <<>>
<1>1. SubSeq(t, i, j) \in Seq(Blank)
  <2> HIDE DEF Blank
  <2> QED
    BY SubSeqProperties
<1> QED
  BY <1>1, InkOfBlanks

\* A stretch of a text whose first character only is not known to be blank.
LEMMA InkOfRun ==
    ASSUME NEW t \in Seq(Char), NEW i \in 1 .. Len(t), NEW j \in i .. Len(t),
           \A q \in i + 1 .. j : t[q] \in Blank
    PROVE  NonBlank(SubSeq(t, i, j)) = NonBlank(<<t[i]>>)
<1>1. PICK a, b : a = <<t[i]>> /\ b = SubSeq(t, i + 1, j)
  OBVIOUS
<1>2. a \in Seq(Char) /\ b \in Seq(Char)
  BY <1>1
<1>3. SubSeq(t, i, j) = a \o b
  BY <1>1, SubSeqRecursiveFirst
<1>4. NonBlank(b) = <<>>
  BY <1>1, BlankStretch
<1>5. NonBlank(a \o b) = NonBlank(a) \o NonBlank(b) /\ NonBlank(a) \in Seq(Char)
  BY <1>2, InkConcat
<1>6. NonBlank(a) \o <<>> = NonBlank(a)
  BY <1>5, ConcatEmptySeq
<1> QED
  BY <1>1, <1>3, <1>4, <1>5, <1>6

\* Two adjacent stretches of a text.
LEMMA Stretches ==
    ASSUME NEW t \in Seq(Char), NEW i \in 1 .. Len(t) + 1, NEW j \in i .. Len(t) + 1
    PROVE  /\ SubSeq(t, i, Len(t)) = SubSeq(t, i, j - 1) \o SubSeq(t, j, Len(t))
           /\ SubSeq(t, i, j - 1) \in Seq(Char) /\ SubSeq(t, j, Len(t)) \in Seq(Char)
<1>1. PICK k, n : k = j - 1 /\ n = Len(t)
  OBVIOUS
<1>2. i \in 1 .. Len(t) + 1 /\ k \in i - 1 .. Len(t) /\ n \in k .. Len(t) /\ k + 1 = j
  BY <1>1
<1>3. SubSeq(t, i, k) \o SubSeq(t, k + 1, n) = SubSeq(t, i, n)
  BY <1>2, ConcatAdjacentSubSeq
<1>4. SubSeq(t, i, j - 1) \in Seq(Char) /\ SubSeq(t, j, Len(t)) \in Seq(Char)
  OBVIOUS
<1> QED
  BY <1>1, <1>2, <1>3, <1>4

\* An iteration that writes the ink of what it reads keeps the content.
LEMMA EmitKeeps ==
    ASSUME TypeOK, ContentKept, NEW out, NEW j, Emit(out, j),
           out \in Seq(Char) /\ j \in p .. Len(s) + 1
             /\ NonBlank(out) = NonBlank(SubSeq(s, p, j - 1))
    PROVE  ContentKept'
<1>1. s \in Seq(Char) /\ p \in 1 .. Len(s) + 1 /\ j \in p .. Len(s) + 1 /\ result \in Seq(Char)
  BY DEF TypeOK
<1>2. PICK r, a, b : r = result /\ a = SubSeq(s, p, j - 1) /\ b = SubSeq(s, j, Len(s))
  OBVIOUS
<1>3. a \in Seq(Char) /\ b \in Seq(Char) /\ SubSeq(s, p, Len(s)) = a \o b
  BY <1>1, <1>2, Stretches
<1>4. r \in Seq(Char) /\ out \in Seq(Char) /\ NonBlank(out) = NonBlank(a)
  BY <1>1, <1>2
<1>5. NonBlank(r \o out) \o NonBlank(b) = NonBlank(r) \o NonBlank(a \o b)
  <2>1. PICK nr, na, nb : nr = NonBlank(r) /\ na = NonBlank(a) /\ nb = NonBlank(b)
    OBVIOUS
  <2>2. nr \in Seq(Char) /\ na \in Seq(Char) /\ nb \in Seq(Char)
    BY <1>3, <1>4, <2>1, InkConcat
  <2>3. NonBlank(r \o out) = NonBlank(r) \o NonBlank(out)
    BY <1>4, InkConcat
  <2>4. NonBlank(a \o b) = NonBlank(a) \o NonBlank(b)
    BY <1>3, InkConcat
  <2>5. (nr \o na) \o nb = nr \o (na \o nb)
    BY <2>2, SMTT(30)
  <2> QED
    BY <1>4, <2>1, <2>3, <2>4, <2>5
<1>6. result' = result \o out /\ p' = j /\ s' = s /\ input' = input
  BY DEF Emit
<1> QED
  BY <1>2, <1>3, <1>5, <1>6 DEF ContentKept, NonBlank

\* Writing the character that is read, and skipping the blanks behind it.
LEMMA EmitCharKeeps ==
    ASSUME TypeOK, ContentKept, p <= Len(s), NEW out, NEW j, Emit(out, j),
           out \in Seq(Char), j \in p + 1 .. Len(s) + 1,
           \A q \in p + 1 .. j - 1 : s[q] \in Blank,
           NonBlank(out) = NonBlank(<<s[p]>>)
    PROVE  ContentKept'
<1>1. s \in Seq(Char) /\ p \in 1 .. Len(s) /\ j - 1 \in p .. Len(s) /\ j \in p .. Len(s) + 1
  BY DEF TypeOK
<1>2. NonBlank(SubSeq(s, p, j - 1)) = NonBlank(<<s[p]>>)
  BY <1>1, InkOfRun
<1> QED
  BY <1>1, <1>2, EmitKeeps

\* Copying a character.
LEMMA CopyKeeps ==
    ASSUME TypeOK, ContentKept, p <= Len(s), Copy
    PROVE  ContentKept'
<1>1. <<s[p]>> \in Seq(Char) /\ p + 1 \in p + 1 .. Len(s) + 1
  BY DEF TypeOK
<1>2. \A q \in p + 1 .. (p + 1) - 1 : s[q] \in Blank
  BY DEF TypeOK
<1>3. Emit(<<s[p]>>, p + 1)
  BY DEF Copy
<1> QED
  BY <1>1, <1>2, <1>3, EmitCharKeeps

\* A character and spaces around it have the ink of the character.
LEMMA InkOfChar ==
    ASSUME NEW c \in Char
    PROVE  /\ NonBlank(<<c, Space>>) = NonBlank(<<c>>)
           /\ NonBlank(<<Space, c>>) = NonBlank(<<c>>)
           /\ NonBlank(<<Space, c, Space>>) = NonBlank(<<c>>)
<1>1. Space \in Char /\ <<Space>> \in Seq(Blank)
  BY DEF Char, Blank
<1>2. PICK u, v, b : u = <<c>> /\ v = <<c, Space>> /\ b = <<Space>>
  OBVIOUS
<1>3. u \in Seq(Char) /\ v \in Seq(Char) /\ b \in Seq(Char) /\ NonBlank(b) = <<>>
  <2>1. u \in Seq(Char) /\ v \in Seq(Char)
    BY <1>1, <1>2
  <2>2. b \in Seq(Blank)
    BY <1>1, <1>2
  <2>3. b \in Seq(Char) /\ NonBlank(b) = <<>>
    BY <2>2, InkOfBlanks
  <2> QED
    BY <2>1, <2>3
<1>4. v = u \o b /\ <<Space, c>> = b \o u /\ <<Space, c, Space>> = b \o v
  BY <1>1, <1>2
<1>5. NonBlank(u) \in Seq(Char) /\ NonBlank(v) \in Seq(Char)
  BY <1>3, InkConcat
<1>6. NonBlank(u \o b) = NonBlank(u) \o <<>>
  BY <1>3, InkConcat
<1>7. NonBlank(b \o u) = <<>> \o NonBlank(u)
  BY <1>3, InkConcat
<1>8. NonBlank(b \o v) = <<>> \o NonBlank(v)
  BY <1>3, InkConcat
<1>9. NonBlank(u) \o <<>> = NonBlank(u) /\ <<>> \o NonBlank(u) = NonBlank(u)
      /\ <<>> \o NonBlank(v) = NonBlank(v)
  BY <1>5, ConcatEmptySeq
<1> QED
  BY <1>2, <1>4, <1>6, <1>7, <1>8, <1>9

\* CollapseSpaces drops a space or copies.
LEMMA CollapseKeeps ==
    ASSUME TypeOK, ContentKept, CollapseSpaces
    PROVE  ContentKept'
<1>1. p <= Len(s) /\ s \in Seq(Char) /\ p \in 1 .. Len(s)
  BY DEF CollapseSpaces, TypeOK
<1>2. CASE s[p] = Space /\ EndsIn(result, {Space})
  <2>1. Emit(<<>>, p + 1)
    BY <1>2 DEF CollapseSpaces
  <2>2. PICK j, out : j = p + 1 /\ out = <<>>
    OBVIOUS
  <2>3. NonBlank(SubSeq(s, p, j - 1)) = <<>>
    <3>1. j - 1 \in 0 .. Len(s) /\ \A q \in p .. j - 1 : s[q] \in Blank
      BY <1>1, <1>2, <2>2 DEF Blank
    <3> QED
      BY <1>1, <3>1, BlankStretch
  <2>4. NonBlank(<<>>) = <<>>
    BY KeptEmpty DEF NonBlank
  <2>5. out \in Seq(Char) /\ j \in p .. Len(s) + 1
    BY <1>1, <2>2, EmptySeq
  <2>6. NonBlank(out) = NonBlank(SubSeq(s, p, j - 1))
    BY <2>2, <2>3, <2>4
  <2> QED
    BY <2>1, <2>2, <2>5, <2>6, EmitKeeps
<1>3. CASE ~(s[p] = Space /\ EndsIn(result, {Space}))
  BY <1>1, <1>3, CopyKeeps DEF CollapseSpaces
<1> QED
  BY <1>2, <1>3

\* JoinCjk, JoinDigit and SpaceLatin write the character and skip spaces.
LEMMA JoinKeeps ==
    ASSUME TypeOK, ContentKept, JoinCjk \/ JoinDigit \/ SpaceLatin
    PROVE  ContentKept'
<1>1. p <= Len(s) /\ s \in Seq(Char) /\ p \in 1 .. Len(s) /\ s[p] \in Char /\ Space \in Char
  BY DEF JoinCjk, JoinDigit, SpaceLatin, Reading, TypeOK, Char
<1>2. PICK next \in p + 1 .. Len(s) + 1 :
        /\ SkipRun({Space}, s, p + 1, next)
        /\ Emit(<<s[p]>>, next) \/ Emit(<<s[p], Space>>, next) \/ Copy
  BY DEF JoinCjk, JoinDigit, SpaceLatin
<1>3. \A q \in p + 1 .. next - 1 : s[q] \in Blank
  BY <1>2 DEF SkipRun, Blank
<1>4. <<s[p]>> \in Seq(Char) /\ <<s[p], Space>> \in Seq(Char)
  BY <1>1
<1>5. CASE Emit(<<s[p]>>, next)
  BY <1>1, <1>3, <1>4, <1>5, EmitCharKeeps
<1>6. CASE Emit(<<s[p], Space>>, next)
  <2>1. NonBlank(<<s[p], Space>>) = NonBlank(<<s[p]>>)
    BY <1>1, InkOfChar
  <2> QED
    BY <1>1, <1>3, <1>4, <1>6, <2>1, EmitCharKeeps
<1>7. CASE Copy
  BY <1>1, <1>7, CopyKeeps
<1> QED
  BY <1>2, <1>5, <1>6, <1>7

\* A space in front of a character, and of a character and a space.
LEMMA SpaceBefore ==
    ASSUME NEW c \in Char
    PROVE  /\ <<Space>> \o <<c>> = <<Space, c>>
           /\ <<Space>> \o <<c, Space>> = <<Space, c, Space>>
<1>1. Space \in Char
  BY DEF Char
<1>2. PICK u, v, b : u = <<c>> /\ v = <<c, Space>> /\ b = <<Space>>
  OBVIOUS
<1>3. <<Space, c>> = b \o u /\ <<Space, c, Space>> = b \o v
  BY <1>1, <1>2
<1> QED
  BY <1>2, <1>3

\* SpaceTag writes the token and at most a space on either side.
LEMMA SpaceTagKeeps ==
    ASSUME TypeOK, ContentKept, SpaceTag
    PROVE  ContentKept'
<1>1. p <= Len(s) /\ s \in Seq(Char) /\ p \in 1 .. Len(s) /\ s[p] = Tag
      /\ Tag \in Char /\ Space \in Char
  BY DEF SpaceTag, Reading, TypeOK, Char
<1>2. PICK next \in p + 1 .. Len(s) + 1, lead \in {<<Space>>, <<>>} :
        /\ SkipRun({Space}, s, p + 1, next)
        /\ Emit(lead \o <<Tag, Space>>, next) \/ Emit(lead \o <<Tag>>, p + 1)
  BY DEF SpaceTag
<1>3. PICK out, j : /\ Emit(out, j)
                    /\ \/ out = lead \o <<Tag, Space>> /\ j = next
                       \/ out = lead \o <<Tag>> /\ j = p + 1
  BY <1>2
<1>4. out \in {<<Tag>>, <<Tag, Space>>, <<Space, Tag>>, <<Space, Tag, Space>>}
  <2>1. <<>> \o <<Tag>> = <<Tag>> /\ <<>> \o <<Tag, Space>> = <<Tag, Space>>
    BY <1>1
  <2>2. <<Space>> \o <<Tag>> = <<Space, Tag>>
    BY <1>1, SpaceBefore
  <2>3. <<Space>> \o <<Tag, Space>> = <<Space, Tag, Space>>
    BY <1>1, SpaceBefore
  <2>4. lead = <<Space>> \/ lead = <<>>
    BY <1>2
  <2> QED
    BY <1>3, <2>1, <2>2, <2>3, <2>4
<1>5. out \in Seq(Char)
  <2>1. <<Tag>> \in Seq(Char) /\ <<Tag, Space>> \in Seq(Char)
    BY <1>1
  <2>2. <<Space, Tag>> \in Seq(Char) /\ <<Space, Tag, Space>> \in Seq(Char)
    BY <1>1
  <2> QED
    BY <1>4, <2>1, <2>2
<1>6. NonBlank(out) = NonBlank(<<s[p]>>)
  BY <1>1, <1>4, InkOfChar
<1>7. j \in p + 1 .. Len(s) + 1 /\ \A q \in p + 1 .. j - 1 : s[q] \in Blank
  BY <1>1, <1>2, <1>3 DEF SkipRun, Blank
<1> QED
  BY <1>1, <1>3, <1>5, <1>6, <1>7, EmitCharKeeps

\* TightenZhPunct takes back spaces only.
LEMMA ZhPunctKeeps ==
    ASSUME TypeOK, ContentKept, TightenZhPunct
    PROVE  ContentKept'
<1>1. p <= Len(s) /\ s \in Seq(Char) /\ p \in 1 .. Len(s) /\ s[p] \in Char
      /\ result \in Seq(Char)
  BY DEF TightenZhPunct, Reading, TypeOK
<1>2. PICK next \in p + 1 .. Len(s) + 1 :
        /\ SkipRun({Space}, s, p + 1, next)
        /\ \/ /\ s[p] = Closer
              /\ \E n \in 0 .. Len(result) :
                   /\ TrimmedTo(result, n)
                   /\ result' = Append(SubSeq(result, 1, n), Closer)
              /\ p' = next
              /\ UNCHANGED <<stage, s, input, calls>>
           \/ s[p] = Opener /\ Emit(<<Opener>>, next)
           \/ s[p] \notin {Closer, Opener} /\ Copy
  BY DEF TightenZhPunct
<1>3. \A q \in p + 1 .. next - 1 : s[q] \in Blank
  BY <1>2 DEF SkipRun, Blank
<1>4. CASE s[p] = Closer
  <2>1. PICK n \in 0 .. Len(result) :
          /\ TrimmedTo(result, n)
          /\ result' = Append(SubSeq(result, 1, n), Closer)
    BY <1>2, <1>4 DEF Closer, Opener
  <2>2. p' = next /\ s' = s /\ input' = input
    BY <1>2, <1>4 DEF Closer, Opener
  <2>3. PICK r, e, a, b, u : /\ r = SubSeq(result, 1, n) /\ e = SubSeq(result, n + 1, Len(result))
                             /\ a = SubSeq(s, p, next - 1) /\ b = SubSeq(s, next, Len(s))
                             /\ u = <<s[p]>>
    OBVIOUS
  <2>4. result = r \o e /\ r \in Seq(Char) /\ e \in Seq(Char)
    <3>1. PICK k : k = n + 1
      OBVIOUS
    <3>2. k \in 1 .. Len(result) + 1 /\ k - 1 = n
      BY <1>1, <2>1, <3>1
    <3> QED
      BY <1>1, <2>3, <3>1, <3>2, TextSplit
  <2>5. NonBlank(e) = <<>>
    <3>1. n + 1 \in 1 .. Len(result) + 1 /\ Len(result) \in 0 .. Len(result)
      BY <1>1
    <3>2. \A q \in n + 1 .. Len(result) : result[q] \in Blank
      BY <2>1 DEF TrimmedTo, Blank
    <3> QED
      BY <1>1, <2>3, <3>1, <3>2, BlankStretch
  <2>6. NonBlank(result) = NonBlank(r)
    <3>1. NonBlank(r \o e) = NonBlank(r) \o NonBlank(e) /\ NonBlank(r) \in Seq(Char)
      BY <2>4, InkConcat
    <3>2. NonBlank(r) \o <<>> = NonBlank(r)
      BY <3>1, ConcatEmptySeq
    <3> QED
      BY <2>4, <2>5, <3>1, <3>2
  <2>7. a \in Seq(Char) /\ b \in Seq(Char) /\ SubSeq(s, p, Len(s)) = a \o b
    <3>1. p \in 1 .. Len(s) + 1 /\ next \in p .. Len(s) + 1
      BY <1>1
    <3> QED
      BY <1>1, <2>3, <3>1, Stretches
  <2>8. NonBlank(a) = NonBlank(u)
    <3>1. next - 1 \in p .. Len(s)
      BY <1>1
    <3> QED
      BY <1>1, <1>3, <2>3, <3>1, InkOfRun
  <2>9. u \in Seq(Char) /\ result' = r \o u
    <3>1. PICK c : c = s[p]
      OBVIOUS
    <3>2. c \in Char /\ u = <<c>> /\ result' = Append(r, c)
      BY <1>1, <1>4, <2>1, <2>3, <3>1
    <3>3. u \in Seq(Char)
      BY <3>2
    <3>4. Append(r, c) = r \o <<c>>
      BY <2>4, <3>2, AppendIsConcat
    <3> QED
      BY <3>2, <3>3, <3>4
  <2>10. PICK nr, nu, nb : nr = NonBlank(r) /\ nu = NonBlank(u) /\ nb = NonBlank(b)
    OBVIOUS
  <2>11. nr \in Seq(Char) /\ nu \in Seq(Char) /\ nb \in Seq(Char)
    BY <2>4, <2>7, <2>9, <2>10, InkConcat
  <2>12. NonBlank(r \o u) = nr \o nu
    BY <2>4, <2>9, <2>10, InkConcat
  <2>13. NonBlank(a \o b) = nu \o nb
    <3>1. NonBlank(a \o b) = NonBlank(a) \o NonBlank(b)
      BY <2>7, InkConcat
    <3> QED
      BY <2>8, <2>10, <3>1
  <2>14. (nr \o nu) \o nb = nr \o (nu \o nb)
    BY <2>11, SMTT(30)
  <2>15. NonBlank(input) = nr \o (nu \o nb)
    BY <2>6, <2>7, <2>10, <2>13 DEF ContentKept
  <2>16. NonBlank(result') \o NonBlank(SubSeq(s', p', Len(s'))) = (nr \o nu) \o nb
    BY <2>2, <2>3, <2>9, <2>10, <2>12
  <2> QED
    BY <2>2, <2>14, <2>15, <2>16 DEF ContentKept, NonBlank
<1>5. CASE s[p] = Opener
  <2>1. Emit(<<s[p]>>, next) /\ <<s[p]>> \in Seq(Char)
    BY <1>1, <1>2, <1>5 DEF Closer, Opener
  <2> QED
    BY <1>1, <1>3, <2>1, EmitCharKeeps
<1>6. CASE s[p] \notin {Closer, Opener}
  BY <1>1, <1>2, <1>6, CopyKeeps
<1> QED
  BY <1>4, <1>5, <1>6

\* TightenAsciiPunct drops the blanks before a mark.
LEMMA AsciiPunctKeeps ==
    ASSUME TypeOK, ContentKept, TightenAsciiPunct
    PROVE  ContentKept'
<1>1. p <= Len(s) /\ s \in Seq(Char) /\ p \in 1 .. Len(s) /\ AsciiPunct \in Char
  BY DEF TightenAsciiPunct, Reading, TypeOK, Char
<1>2. PICK next \in p .. Len(s) + 1 :
        /\ SkipRun(Blank, s, p, next)
        /\ IF next # p /\ next <= Len(s) /\ s[next] = AsciiPunct
             THEN Emit(<<AsciiPunct>>, next + 1)
             ELSE Copy
  BY DEF TightenAsciiPunct
<1>3. CASE next # p /\ next <= Len(s) /\ s[next] = AsciiPunct
  <2>1. PICK j, out, a : j = next + 1 /\ out = <<AsciiPunct>> /\ a = SubSeq(s, p, next - 1)
    OBVIOUS
  <2>2. Emit(out, j) /\ out \in Seq(Char) /\ j \in p .. Len(s) + 1 /\ j - 1 = next
    BY <1>1, <1>2, <1>3, <2>1
  <2>3. NonBlank(a) = <<>> /\ a \in Seq(Char)
    <3>1. p \in 1 .. Len(s) + 1 /\ next - 1 \in 0 .. Len(s)
          /\ \A q \in p .. next - 1 : s[q] \in Blank
      BY <1>1, <1>2 DEF SkipRun
    <3>2. SubSeq(s, p, next - 1) \in Seq(Char)
      BY <1>1, <3>1
    <3> QED
      BY <1>1, <2>1, <3>1, <3>2, BlankStretch
  <2>4. SubSeq(s, p, next) = a \o out
    <3>1. next \in p .. Len(s) /\ p \in 1 .. Len(s)
      BY <1>1, <1>3
    <3>2. SubSeq(s, p, next) = SubSeq(s, p, next - 1) \o <<s[next]>>
      BY <1>1, <3>1, SubSeqRecursiveSecond
    <3> QED
      BY <1>3, <2>1, <3>2
  <2>5. NonBlank(a \o out) = NonBlank(a) \o NonBlank(out) /\ NonBlank(out) \in Seq(Char)
    BY <2>2, <2>3, InkConcat
  <2>6. <<>> \o NonBlank(out) = NonBlank(out)
    BY <2>5, ConcatEmptySeq
  <2>7. NonBlank(out) = NonBlank(SubSeq(s, p, j - 1))
    BY <2>2, <2>3, <2>4, <2>5, <2>6
  <2> QED
    BY <2>2, <2>7, EmitKeeps
<1>4. CASE ~(next # p /\ next <= Len(s) /\ s[next] = AsciiPunct)
  BY <1>1, <1>2, <1>4, CopyKeeps
<1> QED
  BY <1>3, <1>4

\* The content of a text that has not been read yet.
LEMMA Unread ==
    ASSUME NEW t, t \in Seq(Char)
    PROVE  NonBlank(<<>>) \o NonBlank(SubSeq(t, 1, Len(t))) = NonBlank(t)
<1>1. NonBlank(<<>>) = <<>> /\ NonBlank(t) \in Seq(Char)
  BY KeptEmpty, KeptType DEF NonBlank
<1>2. SubSeq(t, 1, Len(t)) = t
  BY SubSeqFull
<1>3. <<>> \o NonBlank(t) = NonBlank(t)
  BY <1>1, ConcatEmptySeq
<1> QED
  BY <1>1, <1>2, <1>3

\* A pass hands on what it has written.
LEMMA EndPassKeeps ==
    ASSUME TypeOK, ContentKept, EndPass
    PROVE  ContentKept'
<1>1. s \in Seq(Char) /\ result \in Seq(Char) /\ s' = result /\ result' = <<>> /\ p' = 1
      /\ input' = input /\ p > Len(s) /\ p \in Nat
  BY DEF EndPass, TypeOK
<1>2. SubSeq(s, p, Len(s)) = <<>> /\ NonBlank(<<>>) = <<>> /\ NonBlank(result) \in Seq(Char)
  BY <1>1, KeptEmpty, KeptType DEF NonBlank
<1>3. NonBlank(result) \o <<>> = NonBlank(result)
  BY <1>2, ConcatEmptySeq
<1>4. NonBlank(input) = NonBlank(result)
  BY <1>2, <1>3 DEF ContentKept
<1>5. NonBlank(<<>>) \o NonBlank(SubSeq(result, 1, Len(result))) = NonBlank(result)
  BY <1>1, Unread
<1> QED
  BY <1>1, <1>4, <1>5 DEF ContentKept, NonBlank

\* Strip removes blanks, and a call starts with its argument unread.
LEMMA StripKeeps ==
    ASSUME TypeOK, ContentKept, StripFront \/ StripBack \/ CallAgain
    PROVE  ContentKept'
<1>1. s \in Seq(Char) /\ p = 1 /\ result = <<>> /\ p' = 1 /\ result' = <<>> /\ Len(s) \in Nat
  BY DEF TypeOK, StripFront, StripBack, CallAgain
<1>2. NonBlank(input) = NonBlank(s)
  BY <1>1, Unread DEF ContentKept
<1>3. NonBlank(input') = NonBlank(s') /\ s' \in Seq(Char)
  <2>1. CASE CallAgain
    BY <1>1, <2>1 DEF CallAgain
  <2>2. CASE StripFront
    <3>1. Len(s) > 0 /\ s[1] \in Blank /\ input' = input /\ s' = SubSeq(s, 2, Len(s))
      BY <1>1, <2>2 DEF StripFront
    <3>2. PICK a, b, k : a = SubSeq(s, 1, 1) /\ b = SubSeq(s, 2, Len(s)) /\ k = 2
      OBVIOUS
    <3>3. k \in 1 .. Len(s) + 1 /\ k - 1 = 1
      BY <1>1, <3>1, <3>2
    <3>4. s = a \o b /\ a \in Seq(Char) /\ b \in Seq(Char)
      BY <1>1, <3>2, <3>3, TextSplit
    <3>5. NonBlank(a) = <<>>
      <4>1. 1 \in 1 .. Len(s) + 1 /\ 1 \in 0 .. Len(s) /\ \A q \in 1 .. 1 : s[q] \in Blank
        BY <1>1, <3>1
      <4> QED
        BY <1>1, <3>2, <4>1, BlankStretch
    <3>6. NonBlank(a \o b) = NonBlank(a) \o NonBlank(b) /\ NonBlank(b) \in Seq(Char)
      BY <3>4, InkConcat
    <3>7. <<>> \o NonBlank(b) = NonBlank(b)
      BY <3>6, ConcatEmptySeq
    <3> QED
      BY <1>2, <3>1, <3>2, <3>4, <3>5, <3>6, <3>7
  <2>3. CASE StripBack
    <3>1. Len(s) > 0 /\ s[Len(s)] \in Blank /\ input' = input /\ s' = SubSeq(s, 1, Len(s) - 1)
      BY <1>1, <2>3 DEF StripBack
    <3>2. PICK a, b, k : a = SubSeq(s, 1, Len(s) - 1) /\ b = SubSeq(s, Len(s), Len(s)) /\ k = Len(s)
      OBVIOUS
    <3>3. k \in 1 .. Len(s) + 1
      BY <1>1, <3>1, <3>2
    <3>4. s = a \o b /\ a \in Seq(Char) /\ b \in Seq(Char)
      BY <1>1, <3>2, <3>3, TextSplit
    <3>5. NonBlank(b) = <<>>
      <4>1. k \in 1 .. Len(s) + 1 /\ k \in 0 .. Len(s) /\ \A q \in k .. k : s[q] \in Blank
        BY <1>1, <3>1, <3>2
      <4> QED
        BY <1>1, <3>2, <4>1, BlankStretch
    <3>6. NonBlank(a \o b) = NonBlank(a) \o NonBlank(b) /\ NonBlank(a) \in Seq(Char)
      BY <3>4, InkConcat
    <3>7. NonBlank(a) \o <<>> = NonBlank(a)
      BY <3>6, ConcatEmptySeq
    <3> QED
      BY <1>2, <3>1, <3>2, <3>4, <3>5, <3>6, <3>7
  <2> QED
    BY <2>1, <2>2, <2>3
<1>4. NonBlank(<<>>) \o NonBlank(SubSeq(s', 1, Len(s'))) = NonBlank(s')
  <2>1. PICK t : t = s'
    OBVIOUS
  <2>2. NonBlank(<<>>) \o NonBlank(SubSeq(t, 1, Len(t))) = NonBlank(t)
    BY <1>3, <2>1, Unread
  <2> QED
    BY <2>1, <2>2
<1> QED
  BY <1>1, <1>3, <1>4 DEF ContentKept, NonBlank

(***************************************************************************)
(* Through all passes of both calls no character that is not a blank is    *)
(* lost, invented or moved, for texts of any length.                       *)
(***************************************************************************)
THEOREM SpacingKeepsContent == Spec => []ContentKept
<1>1. Init => ContentKept
  <2> SUFFICES ASSUME Init PROVE ContentKept
    OBVIOUS
  <2>1. s \in Seq(Char) /\ p = 1 /\ result = <<>> /\ input = s
    BY TextsAssumption DEF Init
  <2> QED
    BY <2>1, Unread DEF ContentKept
<1>2. SpacingInv /\ ContentKept /\ [Next]_vars => ContentKept'
  <2> SUFFICES ASSUME SpacingInv, ContentKept, [Next]_vars PROVE ContentKept'
    OBVIOUS
  <2>1. TypeOK
    BY DEF SpacingInv
  <2>2. CASE UNCHANGED vars \/ Return \/ Finished
    BY <2>2 DEF vars, Return, Finished, ContentKept, NonBlank
  <2>3. CASE CollapseSpaces
    BY <2>1, <2>3, CollapseKeeps
  <2>4. CASE JoinCjk \/ JoinDigit \/ SpaceLatin
    BY <2>1, <2>4, JoinKeeps
  <2>5. CASE SpaceTag
    BY <2>1, <2>5, SpaceTagKeeps
  <2>6. CASE TightenZhPunct
    BY <2>1, <2>6, ZhPunctKeeps
  <2>7. CASE TightenAsciiPunct
    BY <2>1, <2>7, AsciiPunctKeeps
  <2>8. CASE EndPass
    BY <2>1, <2>8, EndPassKeeps
  <2>9. CASE StripFront \/ StripBack \/ CallAgain
    BY <2>1, <2>9, StripKeeps
  <2> QED
    BY <2>2, <2>3, <2>4, <2>5, <2>6, <2>7, <2>8, <2>9 DEF Next
<1> QED
  BY <1>1, <1>2, SpacingInvariant, PTL DEF Spec

=============================================================================
