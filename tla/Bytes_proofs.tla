---------------------------- MODULE Bytes_proofs ----------------------------
(***************************************************************************)
(* Proofs about Bytes for every set of input texts, whole or not.          *)
(***************************************************************************)
EXTENDS Bytes, TextOps_proofs, FiniteSetTheorems

\* A run of positions from i on ends where the text does, at the latest.
LEMMA RunLength ==
  ASSUME NEW n \in Nat, NEW i \in Nat, i >= 1, NEW run \in SUBSET (i .. n)
  PROVE  /\ Cardinality(run) \in Nat
         /\ i <= n + 1 => i + Cardinality(run) <= n + 1
         /\ i > n + 1 => Cardinality(run) = 0
<1>1. /\ IsFiniteSet(i .. n)
      /\ Cardinality(i .. n) = IF i > n THEN 0 ELSE n - i + 1
  BY FS_Interval
<1>2. /\ IsFiniteSet(run) /\ Cardinality(run) <= Cardinality(i .. n)
  BY <1>1, FS_Subset
<1>3. Cardinality(run) \in Nat
  BY <1>2, FS_CardinalityType
<1> QED
  BY <1>1, <1>2, <1>3

\* The pointer of SkipBlanks does not go back.
LEMMA SkipBlanksType ==
  ASSUME NEW t \in Seq(Byte), NEW i \in Nat, i >= 1
  PROVE  SkipBlanks(t, i) \in Nat /\ SkipBlanks(t, i) >= i
<1> DEFINE run == {j \in i .. Len(t) : \A k \in i .. j : t[k] = Blank}
<1>1. run \in SUBSET (i .. Len(t)) /\ Len(t) \in Nat
  OBVIOUS
<1>2. SkipBlanks(t, i) = i + Cardinality(run)
  BY DEF SkipBlanks
<1> HIDE DEF run
<1>3. Cardinality(run) \in Nat
  BY <1>1, RunLength
<1> QED
  BY <1>2, <1>3

\* Utf8CharLen of any byte is one to four.
LEMMA CharLen == ASSUME NEW b PROVE Utf8CharLen(b) \in 1 .. 4
  BY DEF Utf8CharLen

\* So is the length DecodeUtf8 reports.
LEMMA DecodeLen == ASSUME NEW t, NEW i PROVE DecodeUtf8(t, i).len \in 1 .. 4
  BY DEF DecodeUtf8

-----------------------------------------------------------------------------
\* A turn m of a loop puts out bytes and does not leave the text by more than over.
Fits(m, t, over) == m.put \in Seq(Byte) /\ m.next \in 1 .. Len(t) + 1 + over

\* The single bytes that the loops put out.
LEMMA SingleBytes ==
  /\ <<10>> \in Seq(Byte) /\ <<Blank>> \in Seq(Byte)
  /\ <<Tag>> \in Seq(Byte) /\ <<Keep>> \in Seq(Byte) /\ Comma \in Seq(Byte)
<1>1. \A b \in Byte : <<b>> \in Seq(Byte)
  OBVIOUS
<1>2. 10 \in Byte /\ Blank \in Byte /\ Tag \in Byte /\ Keep \in Byte
  BY DEF Byte, Blank, Tag, Keep
<1>3. Comma \in Seq(Byte)
  <2>1. 239 \in Byte /\ 188 \in Byte /\ 140 \in Byte
    BY DEF Byte
  <2>2. \A a, b, c \in Byte : <<a, b, c>> \in Seq(Byte)
    OBVIOUS
  <2> QED
    BY <2>1, <2>2 DEF Comma
<1> QED
  BY <1>1, <1>2, <1>3

\* The three passes of BaseCleanup stay inside the text.
LEMMA BreaksFits ==
  ASSUME NEW t \in Seq(Byte), NEW i \in 1 .. Len(t)
  PROVE  Fits(Breaks(t, i), t, 0)
<1>0. i \in Nat /\ i >= 1 /\ i <= Len(t) /\ Len(t) \in Nat
  OBVIOUS
<1>1. CASE t[i] = 13
  <2>1. Breaks(t, i) = [put |-> <<10>>, next |-> IF At(t, i + 1) = 10 THEN i + 2 ELSE i + 1]
    BY <1>1 DEF Breaks
  <2>2. At(t, i + 1) = 10 => i + 1 <= Len(t)
    BY <1>0 DEF At
  <2> QED
    BY <1>0, <2>1, <2>2, SingleBytes DEF Fits
<1>2. CASE t[i] = 227 /\ At(t, i + 1) = 128 /\ At(t, i + 2) = 128
  <2>1. Breaks(t, i) = [put |-> <<Blank>>, next |-> i + 3]
    BY <1>2 DEF Breaks
  <2>2. i + 2 <= Len(t)
    BY <1>0, <1>2 DEF At
  <2> QED
    BY <1>0, <2>1, <2>2, SingleBytes DEF Fits
<1>3. CASE t[i] # 13 /\ ~(t[i] = 227 /\ At(t, i + 1) = 128 /\ At(t, i + 2) = 128)
  <2>1. Breaks(t, i) = Copy(t, i, 1)
    BY <1>3 DEF Breaks
  <2> QED
    BY <1>0, <2>1 DEF Fits, Copy
<1> QED
  BY <1>1, <1>2, <1>3

\* The second pass: what it skips is there, since it has compared it.
LEMMA ZeroWidthFits ==
  ASSUME NEW t \in Seq(Byte), NEW i \in 1 .. Len(t)
  PROVE  Fits(ZeroWidth(t, i), t, 0)
<1>0. i \in Nat /\ i >= 1 /\ i <= Len(t) /\ Len(t) \in Nat
  OBVIOUS
<1>1. Fits(Copy(t, i, 1), t, 0)
  BY <1>0 DEF Fits, Copy
<1>2. At(t, i + 2) # 0 => Fits([put |-> <<>>, next |-> i + 3], t, 0)
  BY <1>0 DEF Fits, At
<1>3. \/ ZeroWidth(t, i) = Copy(t, i, 1)
      \/ ZeroWidth(t, i) = [put |-> <<>>, next |-> i + 3] /\ At(t, i + 2) # 0
  BY DEF ZeroWidth
<1> QED
  BY <1>1, <1>2, <1>3

\* The third pass: the index is compared with the size, not with the terminator.
LEMMA ControlFits ==
  ASSUME NEW t \in Seq(Byte), NEW i \in 1 .. Len(t)
  PROVE  Fits(Control(t, i), t, 0)
<1>1. CASE t[i] \in {9, 10} \/ t[i] >= 32
  <2> DEFINE c == Copy(t, i, Utf8CharLen(t[i]))
  <2>0. Utf8CharLen(t[i]) \in Nat /\ Utf8CharLen(t[i]) >= 1
    BY CharLen
  <2>1. c.put \in Seq(Byte) /\ c.next \in Nat /\ c.next >= 1
    BY <2>0 DEF Copy
  <2>2. /\ Control(t, i).put = c.put
        /\ Control(t, i).next = IF c.next > Len(t) THEN Len(t) + 1 ELSE c.next
    BY <1>1 DEF Control, Copy
  <2> HIDE DEF c
  <2> QED
    BY <2>1, <2>2 DEF Fits
<1>2. CASE ~(t[i] \in {9, 10} \/ t[i] >= 32)
  BY <1>2 DEF Control, Fits
<1> QED
  BY <1>1, <1>2

\* A match of the URL expression ends in the text.
LEMMA UrlFits ==
  ASSUME NEW t \in Seq(Byte), NEW i \in 1 .. Len(t)
  PROVE  Fits(Url(t, i), t, 0)
<1> DEFINE run == UrlRun(t, i)
           n   == 1 + Cardinality(run)
           k   == i + 1
<1>1. run \in SUBSET (k .. Len(t)) /\ Len(t) \in Nat /\ k \in Nat /\ k >= 1 /\ k <= Len(t) + 1
  BY DEF UrlRun
<1>2. Cardinality(run) \in Nat /\ k + Cardinality(run) <= Len(t) + 1
  <2> HIDE DEF run, k
  <2> QED
    BY <1>1, RunLength
<1>3. n \in Nat /\ n >= 1 /\ i + n <= Len(t) + 1 /\ i + n \in Nat /\ i + n >= 1
  BY <1>2
<1>4. Copy(t, i, 1).put \in Seq(Byte) /\ Copy(t, i, 1).next = i + 1
  BY DEF Copy
<1>5. Copy(t, i, n).put \in Seq(Byte) /\ Copy(t, i, n).next = i + n
  <2> HIDE DEF n
  <2> QED
    BY <1>3 DEF Copy
<1>6. \/ Url(t, i) = Copy(t, i, 1)
      \/ Url(t, i) = Copy(t, i, n)
      \/ Url(t, i) = [put |-> <<Tag>>, next |-> i + n]
  <2>1. CASE t[i] # Scheme \/ n = 1
    BY <2>1 DEF Url
  <2>2. CASE ~(t[i] # Scheme \/ n = 1) /\ i > 1 /\ (IsAlnum(t[i - 1]) \/ t[i - 1] = Under)
    BY <2>2 DEF Url
  <2>3. CASE ~(t[i] # Scheme \/ n = 1) /\ ~(i > 1 /\ (IsAlnum(t[i - 1]) \/ t[i - 1] = Under))
    BY <2>3 DEF Url
  <2> QED
    BY <2>1, <2>2, <2>3
<1> HIDE DEF n
<1>7. Fits(Copy(t, i, 1), t, 0) /\ Fits(Copy(t, i, n), t, 0)
  BY <1>3, <1>4, <1>5 DEF Fits
<1>8. Fits([put |-> <<Tag>>, next |-> i + n], t, 0)
  BY <1>3, SingleBytes DEF Fits
<1> QED
  BY <1>6, <1>7, <1>8

\* The copying loop of NormalizeVisibleUnderscores goes three bytes too far at most.
LEMMA VisibleUnderscoresFits ==
  ASSUME NEW t \in Seq(Byte), NEW i \in 1 .. Len(t)
  PROVE  Fits(VisibleUnderscores(t, i), t, 3)
<1>1. CASE t[i] = Under
  BY <1>1, SingleBytes DEF VisibleUnderscores, Fits
<1>2. CASE t[i] # Under
  <2>1. Utf8CharLen(t[i]) \in 1 .. 4
    BY CharLen
  <2>2. /\ Copy(t, i, Utf8CharLen(t[i])).put \in Seq(Byte)
        /\ Copy(t, i, Utf8CharLen(t[i])).next = i + Utf8CharLen(t[i])
    BY <2>1 DEF Copy
  <2> QED
    BY <1>2, <2>1, <2>2 DEF VisibleUnderscores, Fits
<1> QED
  BY <1>1, <1>2

\* So does the first loop of NormalizeSpaces.
LEMMA JoinCjkFits ==
  ASSUME NEW t \in Seq(Byte), NEW i \in 1 .. Len(t)
  PROVE  Fits(JoinCjk(t, i), t, 3)
<1> DEFINE here == DecodeUtf8(t, i)
           c    == Copy(t, i, here.len)
           next == SkipBlanks(t, i + here.len)
<1>1. here.len \in 1 .. 4
  BY DecodeLen
<1>2. c.put \in Seq(Byte) /\ c.next = i + here.len
  BY <1>1 DEF Copy
<1> DEFINE k == i + here.len
<1>3. next \in Nat /\ next >= 1
  <2>1. k \in Nat /\ k >= 1
    BY <1>1
  <2> HIDE DEF k
  <2>2. SkipBlanks(t, k) \in Nat /\ SkipBlanks(t, k) >= k
    BY <2>1, SkipBlanksType
  <2> QED
    BY <2>1, <2>2 DEF k
<1>4. \/ JoinCjk(t, i) = c
      \/ next <= Len(t) /\ JoinCjk(t, i).put = c.put /\ JoinCjk(t, i).next = next
  BY DEF JoinCjk, Copy
<1> HIDE DEF here, c, next
<1> QED
  BY <1>1, <1>2, <1>3, <1>4 DEF Fits

\* What the two loops on hyphens have in common.
LEMMA HyphenTurnFits ==
  ASSUME NEW t \in Seq(Byte), NEW i \in 1 .. Len(t)
  PROVE  /\ Fits(CopyChinese(t, i), t, 3)
         /\ \A put \in Seq(Byte) : HyphenFollows(t, i) => Fits(Rewritten(t, i, put), t, 3)
<1>1. DecodeUtf8(t, i).len \in 1 .. 4
  BY DecodeLen
<1>2. Fits(CopyChinese(t, i), t, 3)
  <2> DEFINE n == IF IsCjkChar(t, i) THEN DecodeUtf8(t, i).len ELSE 1
  <2>1. n \in 1 .. 4
    BY <1>1
  <2>2. CopyChinese(t, i) = Copy(t, i, n)
    BY DEF CopyChinese
  <2> HIDE DEF n
  <2> QED
    BY <2>1, <2>2 DEF Fits, Copy
<1>3. HyphenAt(t, i) \in Nat /\ HyphenAt(t, i) >= 1
  <2> DEFINE k == i + DecodeUtf8(t, i).len
  <2>1. k \in Nat /\ k >= 1
    BY <1>1
  <2>2. HyphenAt(t, i) = SkipBlanks(t, k)
    BY DEF HyphenAt
  <2> HIDE DEF k
  <2> QED
    BY <2>1, <2>2, SkipBlanksType
<1>4. BehindHyphen(t, i) \in Nat /\ BehindHyphen(t, i) >= 1
  <2> DEFINE k == HyphenAt(t, i) + 1
  <2>1. k \in Nat /\ k >= 1
    BY <1>3
  <2>2. BehindHyphen(t, i) = SkipBlanks(t, k)
    BY DEF BehindHyphen
  <2> HIDE DEF k
  <2> QED
    BY <2>1, <2>2, SkipBlanksType
<1> QED
  BY <1>2, <1>4 DEF HyphenFollows, Rewritten, Fits

\* And so do the loops on hyphens.
LEMMA HyphensFit ==
  ASSUME NEW t \in Seq(Byte), NEW i \in 1 .. Len(t)
  PROVE  Fits(CjkNeg(t, i), t, 3) /\ Fits(CjkCjk(t, i), t, 3)
  BY SingleBytes, HyphenTurnFits DEF CjkNeg, CjkCjk

-----------------------------------------------------------------------------
\* A turn of a loop keeps the types.
LEMMA StepType ==
  ASSUME TypeOK, Step
  PROVE  TypeOK'
<1>1. s \in Seq(Byte) /\ p \in 1 .. Len(s) /\ result \in Seq(Byte)
  BY DEF TypeOK, Step
<1>2. stage \in IndexLoops => Fits(Turn, s, 0)
  BY <1>1, BreaksFits, ZeroWidthFits, ControlFits, UrlFits DEF Turn, IndexLoops
<1>3. Fits(Turn, s, 3)
  <2>1. CASE stage \in IndexLoops
    BY <1>1, <1>2, <2>1 DEF Fits
  <2>2. CASE stage \notin IndexLoops
    <3>1. stage \in {"under", "cjk", "cjkneg", "cjkcjk"}
      BY <2>2 DEF TypeOK, Step, Following, IndexLoops
    <3> QED
      BY <1>1, <3>1, VisibleUnderscoresFits, JoinCjkFits, HyphensFit DEF Turn
  <2> QED
    BY <2>1, <2>2
<1>4. stage' = stage /\ s' = s /\ p' = Turn.next /\ result' = result \o Turn.put /\ stage # "done"
  BY DEF Step
<1> QED
  BY <1>1, <1>2, <1>3, <1>4 DEF TypeOK, Fits, Overrun

\* The end of a loop keeps the types.
LEMMA EndStageType ==
  ASSUME TypeOK, EndStage
  PROVE  TypeOK'
<1>1. stage' \in DOMAIN Following \cup {"done"}
  BY DEF TypeOK, EndStage, Following
<1>2. s' = result /\ p' = 1 /\ result' = <<>> /\ result \in Seq(Byte)
  BY DEF TypeOK, EndStage
<1> QED
  BY <1>1, <1>2 DEF TypeOK, Overrun

(***************************************************************************)
(* For every text, whole or not: BaseCleanup and the search for URLs never *)
(* read behind the end, and no loop goes further than three bytes behind   *)
(* the terminator before the first undefined read.                         *)
(***************************************************************************)
THEOREM BytesTypeCorrect == Spec => []TypeOK
<1>1. Init => TypeOK
  BY TextsAssumption DEF Init, TypeOK, Following, Overrun
<1>2. TypeOK /\ [Next]_vars => TypeOK'
  <2>1. TypeOK /\ UNCHANGED vars => TypeOK'
    BY DEF vars, TypeOK, Overrun
  <2> QED
    BY <2>1, StepType, EndStageType DEF Next, Finished
<1> QED
  BY <1>1, <1>2, PTL DEF Spec

-----------------------------------------------------------------------------
\* SkipBlanks passes the blanks and stops at the first byte that is none.
LEMMA SkipBlanksRun ==
  ASSUME NEW t \in Seq(Byte), NEW i \in Nat, i >= 1
  PROVE  LET e == SkipBlanks(t, i)
         IN  /\ i > Len(t) => e = i
             /\ i <= Len(t) => /\ e \in i .. Len(t) + 1
                               /\ \A q \in i .. e - 1 : t[q] = Blank
                               /\ e <= Len(t) => t[e] # Blank
<1> DEFINE run == {j \in i .. Len(t) : \A k \in i .. j : t[k] = Blank}
           T == {j \in i .. Len(t) + 1 : j = Len(t) + 1 \/ t[j] # Blank}
<1>0. Len(t) \in Nat
  OBVIOUS
<1>1. CASE i > Len(t)
  <2>1. run = {}
    BY <1>0, <1>1
  <2>2. Cardinality({}) = 0
    BY FS_EmptySet
  <2>3. SkipBlanks(t, i) = i + Cardinality(run)
    BY DEF SkipBlanks
  <2>4. SkipBlanks(t, i) = i
    <3> HIDE DEF run
    <3> QED
      BY <2>1, <2>2, <2>3
  <2> HIDE DEF run
  <2> QED
    BY <1>0, <1>1, <2>4
<1>2. CASE i <= Len(t)
  <2>1. Len(t) + 1 \in T /\ T \subseteq Nat
    BY <1>0, <1>2
  <2>2. PICK e \in T : \A y \in T : e <= y
    <3> HIDE DEF T
    <3> QED
      BY <2>1, LeastNumber
  <2>3. e \in i .. Len(t) + 1 /\ (e = Len(t) + 1 \/ t[e] # Blank)
    BY <2>2
  <2>4. ASSUME NEW q \in i .. e - 1 PROVE t[q] = Blank
    <3>1. q \in i .. Len(t) + 1 /\ q < e /\ q # Len(t) + 1 /\ q \in Nat /\ e \in Nat
      BY <1>0, <2>3
    <3>2. q \notin T
      <4> HIDE DEF T
      <4> QED
        BY <2>2, <3>1
    <3> QED
      BY <3>1, <3>2
  <2>5. run = i .. e - 1
    <3>1. ASSUME NEW j \in run PROVE j \in i .. e - 1
      <4>1. j \in i .. Len(t) /\ \A k \in i .. j : t[k] = Blank
        OBVIOUS
      <4>2. ~(e <= j)
        BY <1>0, <2>3, <4>1
      <4> QED
        BY <1>0, <2>3, <4>1, <4>2
    <3>2. ASSUME NEW j \in i .. e - 1 PROVE j \in run
      <4>1. j \in i .. Len(t) /\ \A k \in i .. j : k \in i .. e - 1
        BY <1>0, <2>3
      <4> QED
        BY <2>4, <4>1
    <3> HIDE DEF run
    <3> QED
      BY <3>1, <3>2
  <2>6. SkipBlanks(t, i) = i + Cardinality(run)
    BY DEF SkipBlanks
  <2>7. Cardinality(i .. e - 1) = IF i > e - 1 THEN 0 ELSE (e - 1) - i + 1
    <3>1. PICK m : m = e - 1
      OBVIOUS
    <3>2. m \in Int /\ i \in Int
      BY <1>0, <2>3, <3>1
    <3> QED
      BY <3>1, <3>2, FS_Interval
  <2>8. SkipBlanks(t, i) = e
    <3> HIDE DEF run, T
    <3> QED
      BY <1>0, <2>3, <2>5, <2>6, <2>7
  <2> HIDE DEF run, T
  <2> QED
    BY <1>0, <1>2, <2>3, <2>4, <2>8
<1> QED
  BY <1>0, <1>1, <1>2

\* It stops where the blanks do.
LEMMA SkipTo ==
  ASSUME NEW t, t \in Seq(Byte), NEW i, i \in Nat, i >= 1, NEW h, h \in i .. Len(t),
         \A q \in i .. h - 1 : t[q] = Blank, t[h] # Blank
  PROVE  SkipBlanks(t, i) = h
<1>1. PICK e : e = SkipBlanks(t, i)
  OBVIOUS
<1>2. Len(t) \in Nat /\ h \in Nat /\ i <= h /\ h <= Len(t)
  OBVIOUS
<1>3. /\ e \in i .. Len(t) + 1 /\ (\A q \in i .. e - 1 : t[q] = Blank)
      /\ e <= Len(t) => t[e] # Blank
  BY <1>1, <1>2, SkipBlanksRun
<1>4. ~(h < e)
  <2>1. h < e => h \in i .. e - 1
    BY <1>2, <1>3
  <2> QED
    BY <1>3, <2>1
<1>5. ~(e < h)
  <2>1. e < h => e \in i .. h - 1 /\ e <= Len(t)
    BY <1>2, <1>3
  <2> QED
    BY <1>3, <2>1
<1> QED
  BY <1>1, <1>2, <1>3, <1>4, <1>5

\* SkipBlanks moves only behind a blank.
LEMMA BehindBlank ==
  ASSUME NEW t \in Seq(Byte), NEW i \in Nat, i >= 1
  PROVE  LET e == SkipBlanks(t, i)
         IN  e = i \/ (e - 1 \in 1 .. Len(t) /\ t[e - 1] = Blank)
<1>1. PICK e : e = SkipBlanks(t, i)
  OBVIOUS
<1>2. Len(t) \in Nat /\ i \in Nat
  OBVIOUS
<1>3. CASE i > Len(t)
  BY <1>1, <1>3, SkipBlanksRun
<1>4. CASE i <= Len(t)
  <2>1. e \in i .. Len(t) + 1 /\ (\A q \in i .. e - 1 : t[q] = Blank)
    BY <1>1, <1>4, SkipBlanksRun
  <2>2. e = i \/ (e - 1 \in i .. e - 1 /\ e - 1 \in 1 .. Len(t))
    BY <1>2, <2>1
  <2> QED
    BY <1>1, <2>1, <2>2
<1> QED
  BY <1>2, <1>3, <1>4

\* The bytes of a text are bytes.
LEMMA ByteAt ==
  ASSUME NEW t \in Seq(Byte), NEW i \in 1 .. Len(t)
  PROVE  t[i] \in Byte /\ t[i] \in 1 .. 255 /\ At(t, i) = t[i] /\ i \in Nat /\ Len(t) \in Nat
<1>1. t[i] \in Byte /\ i \in Nat /\ Len(t) \in Nat /\ i <= Len(t)
  OBVIOUS
<1>2. At(t, i) = t[i]
  BY <1>1 DEF At
<1> QED
  BY <1>1, <1>2 DEF Byte

\* What Utf8CharLen makes of the first byte of a character.
LEMMA FirstByteLength ==
  ASSUME NEW c \in 1 .. 255
  PROVE  /\ c < 128 => Utf8CharLen(c) = 1
         /\ c >= 192 /\ c <= 223 => Utf8CharLen(c) = 2
         /\ c >= 224 /\ c <= 239 => Utf8CharLen(c) = 3
         /\ c >= 240 => Utf8CharLen(c) = 4
BY SMT DEF Utf8CharLen

\* The branches of DecodeUtf8.
LEMMA DecodeOne ==
  ASSUME NEW t, NEW i, At(t, i) < 128, At(t, i) \div 32 # 6, At(t, i) \div 16 # 14
  PROVE  DecodeUtf8(t, i) = [cp |-> At(t, i), len |-> 1]
BY SMT DEF DecodeUtf8

\* The branch of two bytes.
LEMMA DecodeTwo ==
  ASSUME NEW t, NEW i, ~(At(t, i) < 128), At(t, i) \div 32 = 6, At(t, i) \div 16 # 14
  PROVE  DecodeUtf8(t, i).len = 2
BY SMT DEF DecodeUtf8

\* The branch of three bytes.
LEMMA DecodeThree ==
  ASSUME NEW t, NEW i, ~(At(t, i) < 128), At(t, i) \div 32 # 6, At(t, i) \div 16 = 14
  PROVE  DecodeUtf8(t, i).len = 3
BY SMT DEF DecodeUtf8

\* The last branch, which a byte that continues a character falls into as well.
LEMMA DecodeFour ==
  ASSUME NEW t, NEW i, ~(At(t, i) < 128), At(t, i) \div 32 # 6, At(t, i) \div 16 # 14
  PROVE  DecodeUtf8(t, i).len = 4
BY SMT DEF DecodeUtf8

\* A character is as long as Utf8CharLen says, where one begins.
LEMMA DecodedLength ==
  ASSUME NEW t \in Seq(Byte), NEW i \in 1 .. Len(t), ~Continues(t[i])
  PROVE  DecodeUtf8(t, i).len = Utf8CharLen(t[i])
<1>1. PICK c \in 1 .. 255 : c = t[i]
  BY ByteAt
<1>2. At(t, i) = c /\ ~(c \in 128 .. 191)
  BY <1>1, ByteAt DEF Continues
<1>3. c \in Nat /\ c >= 1 /\ c <= 255 /\ (c < 128 \/ c >= 192)
  BY SMT, <1>2
<1>4. CASE c < 128
  <2>1. c \div 32 # 6 /\ c \div 16 # 14
    BY SMT, <1>3, <1>4
  <2>2. Utf8CharLen(c) = 1
    BY Zenon, <1>1, <1>4, FirstByteLength
  <2>3. DecodeUtf8(t, i) = [cp |-> At(t, i), len |-> 1]
    BY SMT, <1>2, <1>4, <2>1, DecodeOne
  <2> QED
    BY <1>1, <2>2, <2>3
<1>5. CASE c >= 192 /\ c <= 223
  <2>1. c \div 32 = 6 /\ c \div 16 # 14 /\ ~(c < 128)
    BY SMT, <1>3, <1>5
  <2>2. Utf8CharLen(c) = 2
    BY Zenon, <1>1, <1>5, FirstByteLength
  <2> QED
    BY SMT, <1>1, <1>2, <2>1, <2>2, DecodeTwo
<1>6. CASE c >= 224 /\ c <= 239
  <2>1. c \div 32 # 6 /\ c \div 16 = 14 /\ ~(c < 128)
    BY SMT, <1>3, <1>6
  <2>2. Utf8CharLen(c) = 3
    BY Zenon, <1>1, <1>6, FirstByteLength
  <2> QED
    BY SMT, <1>1, <1>2, <2>1, <2>2, DecodeThree
<1>7. CASE c >= 240
  <2>1. c \div 32 # 6 /\ c \div 16 # 14 /\ ~(c < 128)
    BY SMT, <1>3, <1>7
  <2>2. Utf8CharLen(c) = 4
    BY Zenon, <1>1, <1>7, FirstByteLength
  <2> QED
    BY SMT, <1>1, <1>2, <2>1, <2>2, DecodeFour
<1> QED
  BY SMT, <1>3, <1>4, <1>5, <1>6, <1>7

\* From a byte that continues a character four bytes are decoded.
LEMMA DecodedInside ==
  ASSUME NEW t \in Seq(Byte), NEW i \in 1 .. Len(t), Continues(t[i])
  PROVE  DecodeUtf8(t, i).len = 4
<1>1. PICK c : c = t[i] /\ c \in 128 .. 191 /\ At(t, i) = c
  BY ByteAt DEF Continues
<1>2. c \in Nat /\ c >= 128 /\ c <= 191
  <2>1. c \in 128 .. 191
    BY <1>1
  <2> QED
    BY SMT, <2>1
<1>3. ~(c < 128) /\ c \div 32 # 6 /\ c \div 16 # 14
  BY SMT, <1>2
<1> QED
  BY SMT, <1>1, <1>3, DecodeFour

-----------------------------------------------------------------------------
\* Behind a character of a whole text another one begins.
LEMMA NextCharacter ==
  ASSUME NEW t, t \in Seq(Byte), Whole(t), NEW i, i \in 1 .. Len(t), ~Continues(t[i]),
         NEW n, n = Utf8CharLen(t[i])
  PROVE  /\ n \in 1 .. 4 /\ i + n <= Len(t) + 1 /\ AtCharacter(t, i + n)
         /\ \A k \in i + 1 .. i + n - 1 : Continues(t[k])
<1>1. n \in 1 .. 4 /\ Len(t) \in Nat /\ i \in Nat /\ i >= 1 /\ i <= Len(t)
  BY CharLen
<1>2. \A k \in i + 1 .. i + n - 1 : k <= Len(t) /\ Continues(t[k])
  BY DEF Whole
<1>3. i + n <= Len(t) + 1
  <2>1. CASE n = 1
    BY <1>1, <2>1
  <2>2. CASE n # 1
    <3>1. i + n - 1 \in i + 1 .. i + n - 1
      BY <1>1, <2>2
    <3>2. i + n - 1 <= Len(t)
      BY <1>2, <3>1
    <3> QED
      BY <1>1, <3>2
  <2> QED
    BY <2>1, <2>2
<1>4. PICK j : j = i + n
  OBVIOUS
<1>5. ASSUME j \in 1 .. Len(t), Continues(t[j]) PROVE FALSE
  <2>1. PICK h \in 1 .. j - 1 : HeadOf(t, j, h)
    BY <1>5 DEF Whole
  <2>2. ~Continues(t[h]) /\ j < h + Utf8CharLen(t[h]) /\ \A k \in h + 1 .. j : Continues(t[k])
    BY <2>1 DEF HeadOf
  <2>3. h \in Nat /\ j \in Nat /\ h < j
    BY <1>1, <1>4, <2>1
  <2>4. ~(h < i)
    <3>1. h < i => i \in h + 1 .. j
      BY <1>1, <1>4, <2>3
    <3> QED
      BY <2>2, <3>1
  <2>5. ~(h > i)
    <3>1. h > i => h \in i + 1 .. i + n - 1
      BY <1>1, <1>4, <2>3
    <3> QED
      BY <1>2, <2>2, <3>1
  <2>6. h = i
    BY <1>1, <2>3, <2>4, <2>5
  <2> QED
    BY <1>1, <1>4, <2>2, <2>6
<1>6. AtCharacter(t, i + n)
  BY <1>4, <1>5 DEF AtCharacter
<1> QED
  BY <1>1, <1>2, <1>3, <1>6

\* Behind an ASCII character, too.
LEMMA BehindAscii ==
  ASSUME NEW t, t \in Seq(Byte), Whole(t), NEW i, i \in 1 .. Len(t), t[i] \in {Blank, Hyphen, Under}
  PROVE  AtCharacter(t, i + 1)
<1>1. PICK b : b = t[i]
  OBVIOUS
<1>2. Utf8CharLen(b) = 1 /\ ~Continues(b)
  <2>1. Utf8CharLen(32) = 1 /\ Utf8CharLen(45) = 1 /\ Utf8CharLen(95) = 1
    BY SMT DEF Utf8CharLen
  <2>2. 32 \notin 128 .. 191 /\ 45 \notin 128 .. 191 /\ 95 \notin 128 .. 191
    BY SMT
  <2> QED
    BY <1>1, <2>1, <2>2 DEF Continues, Blank, Hyphen, Under
<1>3. PICK n : n = Utf8CharLen(t[i])
  OBVIOUS
<1>4. AtCharacter(t, i + n) /\ n = 1
  BY <1>1, <1>2, <1>3, NextCharacter
<1> QED
  BY <1>4

\* A run of blanks leads from one character to another.
LEMMA BlanksLead ==
  ASSUME NEW t, t \in Seq(Byte), Whole(t), NEW i, i \in Nat /\ i >= 1, AtCharacter(t, i),
         NEW e, e = SkipBlanks(t, i)
  PROVE  AtCharacter(t, e)
<1>1. e = i \/ (e - 1 \in 1 .. Len(t) /\ t[e - 1] = Blank)
  BY BehindBlank
<1>2. CASE e = i
  BY <1>2
<1>3. CASE e - 1 \in 1 .. Len(t) /\ t[e - 1] = Blank
  <2>1. PICK j : j = e - 1
    OBVIOUS
  <2>2. AtCharacter(t, j + 1)
    BY <1>3, <2>1, BehindAscii
  <2>3. e \in Nat
    BY SkipBlanksType
  <2>4. j + 1 = e
    BY <2>1, <2>3
  <2> QED
    BY <2>2, <2>4
<1> QED
  BY <1>1, <1>2, <1>3

\* A byte further, inside of a character or behind it.
LEMMA ByteFurther ==
  ASSUME NEW t, t \in Seq(Byte), Whole(t), NEW i, i \in 1 .. Len(t),
         NEW h, h \in 1 .. i, HeadOf(t, i, h), ~IsCjkChar(t, h)
  PROVE  AtCharacter(t, i + 1) \/ InsideOther(t, i + 1)
<1>1. PICK n, j : n = Utf8CharLen(t[h]) /\ j = i + 1
  OBVIOUS
<1>2. h \in 1 .. Len(t) /\ ~Continues(t[h]) /\ i < h + n /\ i \in Nat /\ h \in Nat /\ h <= i
  BY <1>1 DEF HeadOf
<1>3. n \in 1 .. 4 /\ AtCharacter(t, h + n) /\ \A k \in h + 1 .. h + n - 1 : Continues(t[k])
  BY <1>1, <1>2, NextCharacter
<1>4. CASE j = h + n
  BY <1>1, <1>3, <1>4
<1>5. CASE j < h + n
  <2>1. \A k \in h + 1 .. j : k \in h + 1 .. h + n - 1
    BY <1>1, <1>2, <1>3, <1>5
  <2>2. HeadOf(t, j, h) /\ h \in 1 .. j - 1
    BY <1>1, <1>2, <1>3, <1>5, <2>1 DEF HeadOf
  <2> QED
    BY <1>1, <2>2 DEF InsideOther
<1> QED
  BY <1>1, <1>2, <1>3, <1>4, <1>5

\* A turn of a loop that goes by characters ends at one.
LEMMA CharacterTurns ==
  ASSUME NEW t, t \in Seq(Byte), Whole(t), NEW i, i \in 1 .. Len(t), ~Continues(t[i])
  PROVE  /\ VisibleUnderscores(t, i).next <= Len(t) + 1
         /\ AtCharacter(t, VisibleUnderscores(t, i).next)
         /\ JoinCjk(t, i).next <= Len(t) + 1
         /\ AtCharacter(t, JoinCjk(t, i).next)
<1>1. PICK n : n = Utf8CharLen(t[i])
  OBVIOUS
<1>2. /\ n \in 1 .. 4 /\ i + n <= Len(t) + 1 /\ AtCharacter(t, i + n)
      /\ DecodeUtf8(t, i).len = n /\ i \in Nat /\ i >= 1 /\ i <= Len(t) /\ Len(t) \in Nat
  BY <1>1, NextCharacter, DecodedLength
<1>3. VisibleUnderscores(t, i).next <= Len(t) + 1 /\ AtCharacter(t, VisibleUnderscores(t, i).next)
  <2>1. CASE t[i] = Under
    <3>1. VisibleUnderscores(t, i).next = i + 1
      BY <2>1 DEF VisibleUnderscores
    <3>2. AtCharacter(t, i + 1)
      BY <2>1, BehindAscii
    <3> QED
      BY <1>2, <3>1, <3>2
  <2>2. CASE t[i] # Under
    <3>1. VisibleUnderscores(t, i).next = i + n
      BY <1>1, <2>2 DEF VisibleUnderscores, Copy
    <3> QED
      BY <1>2, <3>1
  <2> QED
    BY <2>1, <2>2
<1>4. PICK k, e : k = i + n /\ e = SkipBlanks(t, k)
  OBVIOUS
<1>5. AtCharacter(t, e)
  <2>1. k \in Nat /\ k >= 1
    BY <1>2, <1>4
  <2> QED
    BY <1>2, <1>4, <2>1, BlanksLead
<1>6. JoinCjk(t, i).next = k \/ (JoinCjk(t, i).next = e /\ e <= Len(t))
  BY <1>2, <1>4 DEF JoinCjk, Copy
<1>7. e \in Nat
  <2>1. k \in Nat /\ k >= 1
    BY <1>2, <1>4
  <2> QED
    BY <1>4, <2>1, SkipBlanksType
<1>8. JoinCjk(t, i).next <= Len(t) + 1 /\ AtCharacter(t, JoinCjk(t, i).next)
  BY <1>2, <1>4, <1>5, <1>6, <1>7
<1> QED
  BY <1>3, <1>8

\* Behind a hyphen and its blanks a character begins.
LEMMA HyphenLeads ==
  ASSUME NEW t, t \in Seq(Byte), Whole(t), NEW i, i \in 1 .. Len(t), HyphenFollows(t, i)
  PROVE  AtCharacter(t, BehindHyphen(t, i)) /\ BehindHyphen(t, i) <= Len(t)
<1>1. PICK a, k, e : /\ a = i + DecodeUtf8(t, i).len /\ k = HyphenAt(t, i)
                     /\ e = BehindHyphen(t, i)
  OBVIOUS
<1>2. a \in Nat /\ a >= 1 /\ k = SkipBlanks(t, a) /\ e = SkipBlanks(t, k + 1)
  <2>1. DecodeUtf8(t, i).len \in 1 .. 4
    BY DecodeLen
  <2> QED
    BY <1>1, <2>1 DEF HyphenAt, BehindHyphen
<1>3. k \in Nat /\ k >= 1
  BY <1>2, SkipBlanksType
<1>4. k \in 1 .. Len(t) /\ t[k] = Hyphen
  <2>1. At(t, k) = Hyphen /\ Hyphen # 0
    BY <1>1 DEF HyphenFollows, Hyphen
  <2>2. k <= Len(t)
    BY <2>1 DEF At
  <2> QED
    BY <1>3, <2>1, <2>2 DEF At
<1>5. AtCharacter(t, k + 1)
  BY <1>4, BehindAscii
<1>6. PICK j : j = k + 1
  OBVIOUS
<1>7. j \in Nat /\ j >= 1 /\ e = SkipBlanks(t, j) /\ AtCharacter(t, j)
  BY <1>2, <1>3, <1>5, <1>6
<1>8. AtCharacter(t, e)
  BY <1>7, BlanksLead
<1> QED
  BY <1>1, <1>8 DEF HyphenFollows

-----------------------------------------------------------------------------
\* The pointer of a loop on hyphens stays where a character begins or inside
\* one that is not Chinese, unless a character misled it.
Guided(t, i) == AtCharacter(t, i) \/ InsideOther(t, i) \/ Misled(t)

\* A turn that copies a character or a byte.
LEMMA CopyGuided ==
  ASSUME NEW t, t \in Seq(Byte), Whole(t), NEW i, i \in 1 .. Len(t), Guided(t, i)
  PROVE  LET e == CopyChinese(t, i).next
         IN  \/ e <= Len(t) + 1 /\ Guided(t, e)
             \/ i > Len(t) - 3 /\ SeemsChinese(t, i) /\ Misled(t)
<1>1. i \in Nat /\ i >= 1 /\ i <= Len(t) /\ Len(t) \in Nat
  OBVIOUS
<1>2. CASE IsCjkChar(t, i) /\ ~Continues(t[i])
  <2>1. PICK n : n = Utf8CharLen(t[i])
    OBVIOUS
  <2>2. i + n <= Len(t) + 1 /\ AtCharacter(t, i + n) /\ DecodeUtf8(t, i).len = n
    BY <1>2, <2>1, NextCharacter, DecodedLength
  <2>3. CopyChinese(t, i).next = i + n
    BY <1>2, <2>2 DEF CopyChinese, Copy
  <2> QED
    BY <2>2, <2>3 DEF Guided
<1>3. CASE IsCjkChar(t, i) /\ Continues(t[i])
  <2>1. SeemsChinese(t, i) /\ DecodeUtf8(t, i).len = 4
    BY <1>3, DecodedInside DEF SeemsChinese
  <2>2. Misled(t)
    BY <1>3, <2>1 DEF Guided, AtCharacter, Misled
  <2>3. CopyChinese(t, i).next = i + 4
    BY <1>3, <2>1 DEF CopyChinese, Copy
  <2> QED
    BY <1>1, <2>1, <2>2, <2>3 DEF Guided
<1>4. CASE ~IsCjkChar(t, i)
  <2>1. CopyChinese(t, i).next = i + 1
    BY <1>4 DEF CopyChinese, Copy
  <2>2. Guided(t, i + 1)
    <3>1. CASE ~Continues(t[i])
      <4>1. HeadOf(t, i, i)
        <5>1. Utf8CharLen(t[i]) \in 1 .. 4
          BY CharLen
        <5> QED
          BY <1>1, <3>1, <5>1 DEF HeadOf
      <4>2. i \in 1 .. i
        BY <1>1
      <4> QED
        BY <1>4, <4>1, <4>2, ByteFurther DEF Guided
    <3>2. CASE InsideOther(t, i)
      <4>1. PICK h \in 1 .. i - 1 : HeadOf(t, i, h) /\ ~IsCjkChar(t, h)
        BY <3>2 DEF InsideOther
      <4>2. h \in 1 .. i
        BY <1>1, <4>1
      <4> QED
        BY <4>1, <4>2, ByteFurther DEF Guided
    <3>3. CASE Misled(t)
      BY <3>3 DEF Guided
    <3> QED
      BY <3>1, <3>2, <3>3 DEF Guided, AtCharacter
  <2> QED
    BY <1>1, <2>1, <2>2
<1> QED
  BY <1>2, <1>3, <1>4

\* A turn of a loop on hyphens.
LEMMA HyphenTurns ==
  ASSUME NEW t, t \in Seq(Byte), Whole(t), NEW i, i \in 1 .. Len(t), Guided(t, i),
         NEW m, m \in {CjkNeg(t, i), CjkCjk(t, i)}
  PROVE  \/ m.next <= Len(t) + 1 /\ Guided(t, m.next)
         \/ Misled(t) /\ \E k \in 1 .. Len(t) : k > Len(t) - 3 /\ SeemsChinese(t, k)
<1>1. \/ m = CopyChinese(t, i)
      \/ HyphenFollows(t, i) /\ \E put : m = Rewritten(t, i, put)
  BY DEF CjkNeg, CjkCjk
<1>2. CASE m = CopyChinese(t, i)
  BY <1>2, CopyGuided
<1>3. CASE HyphenFollows(t, i) /\ \E put : m = Rewritten(t, i, put)
  <2>1. m.next = BehindHyphen(t, i)
    BY <1>3 DEF Rewritten
  <2>2. AtCharacter(t, m.next) /\ m.next <= Len(t)
    BY <1>3, <2>1, HyphenLeads
  <2>3. m.next <= Len(t) + 1
    <3>1. Fits(m, t, 3)
      BY HyphensFit
    <3>2. m.next \in Nat /\ Len(t) \in Nat
      BY <3>1 DEF Fits
    <3> QED
      BY <2>2, <3>2
  <2> QED
    BY <2>2, <2>3 DEF Guided
<1> QED
  BY <1>1, <1>2, <1>3

-----------------------------------------------------------------------------
(***************************************************************************)
(* A loop on hyphens has a hyphen, or the placeholder of one, in its text: *)
(* the first one until it has put it out or replaced it.                   *)
(***************************************************************************)
HyphenInv ==
    /\ stage \in HyphenLoops => HasHyphen(s)
    /\ stage = "cjkneg" => HasHyphen(result) \/ \E k \in p .. Len(s) : s[k] = Hyphen

\* What a turn of the first loop moves over it puts out or replaces.
LEMMA HyphenPut ==
  ASSUME NEW t, t \in Seq(Byte), NEW i, i \in 1 .. Len(t), NEW k, k \in i .. Len(t), t[k] = Hyphen,
         NEW m, m = CjkNeg(t, i), m.put \in Seq(Byte), m.next \in Nat
  PROVE  HasHyphen(m.put) \/ k \in m.next .. Len(t)
<1>1. CASE m = CopyChinese(t, i)
  <2>1. PICK n : n = (IF IsCjkChar(t, i) THEN DecodeUtf8(t, i).len ELSE 1)
    OBVIOUS
  <2>2. n \in 1 .. 4
    BY <2>1, DecodeLen
  <2>3. m.next = i + n /\ m.put = SubSeq(t, i, IF i + n - 1 <= Len(t) THEN i + n - 1 ELSE Len(t))
    BY <1>1, <2>1 DEF CopyChinese, Copy
  <2>4. PICK e : e = (IF i + n - 1 <= Len(t) THEN i + n - 1 ELSE Len(t))
    OBVIOUS
  <2>5. e \in i .. Len(t) /\ m.put = SubSeq(t, i, e) /\ Len(t) \in Nat
    BY <2>2, <2>3, <2>4
  <2>6. CASE k <= e
    <3>1. k - i + 1 \in 1 .. Len(m.put) /\ m.put[k - i + 1] = t[k]
      BY <2>5, <2>6
    <3> QED
      BY <3>1 DEF HasHyphen
  <2>7. CASE ~(k <= e)
    BY <2>2, <2>3, <2>4, <2>7
  <2> QED
    BY <2>6, <2>7
<1>2. CASE m = Rewritten(t, i, <<Keep>>)
  <2>1. PICK a : a = CopyChinese(t, i).put
    OBVIOUS
  <2>2. a \in Seq(Byte) /\ m.put = a \o <<Keep>>
    BY <1>2, <2>1, HyphenTurnFits DEF Rewritten, Fits
  <2>3. Len(a) + 1 \in 1 .. Len(m.put) /\ m.put[Len(a) + 1] = Keep
    BY <2>2
  <2> QED
    BY <2>3 DEF HasHyphen
<1> QED
  BY <1>1, <1>2 DEF CjkNeg

\* A text that is put out behind another one brings its hyphens with it.
LEMMA HyphenConcat ==
  ASSUME NEW a, NEW b, a \in Seq(Byte), b \in Seq(Byte), HasHyphen(a) \/ HasHyphen(b)
  PROVE  HasHyphen(a \o b)
<1>1. Len(a) \in Nat /\ Len(b) \in Nat /\ Len(a \o b) = Len(a) + Len(b)
  OBVIOUS
<1>2. ASSUME NEW i \in 1 .. Len(a), a[i] \in {Hyphen, Keep} PROVE HasHyphen(a \o b)
  <2>1. i \in 1 .. Len(a \o b) /\ (a \o b)[i] = a[i]
    BY <1>1
  <2> QED
    BY <1>2, <2>1 DEF HasHyphen
<1>3. ASSUME NEW i \in 1 .. Len(b), b[i] \in {Hyphen, Keep} PROVE HasHyphen(a \o b)
  <2>1. Len(a) + i \in 1 .. Len(a \o b) /\ (a \o b)[Len(a) + i] = b[i]
    BY <1>1
  <2> QED
    BY <1>3, <2>1 DEF HasHyphen
<1> QED
  BY <1>2, <1>3 DEF HasHyphen

\* It holds in every state.
LEMMA HyphenInvariant == Spec => []HyphenInv
<1>1. Init => HyphenInv
  BY DEF Init, HyphenInv, HyphenLoops
<1>2. ASSUME TypeOK, HyphenInv, Step PROVE HyphenInv'
  <2>1. /\ stage' = stage /\ s' = s /\ p' = Turn.next /\ result' = result \o Turn.put
        /\ s \in Seq(Byte) /\ result \in Seq(Byte) /\ p \in 1 .. Len(s)
    BY <1>2 DEF Step, TypeOK
  <2>2. SUFFICES ASSUME stage = "cjkneg"
                 PROVE  HasHyphen(result') \/ \E k \in p' .. Len(s) : s[k] = Hyphen
    BY <1>2, <2>1 DEF HyphenInv
  <2>3. PICK m : m = Turn /\ m = CjkNeg(s, p)
    BY <2>2 DEF Turn
  <2>4. Fits(m, s, 3)
    BY <2>1, <2>3, HyphensFit
  <2>5. m.put \in Seq(Byte) /\ m.next \in Nat
    BY <2>4 DEF Fits
  <2>6. CASE HasHyphen(result)
    BY <2>1, <2>3, <2>5, <2>6, HyphenConcat
  <2>7. CASE \E k \in p .. Len(s) : s[k] = Hyphen
    <3>1. PICK k \in p .. Len(s) : s[k] = Hyphen
      BY <2>7
    <3>2. HasHyphen(m.put) \/ k \in m.next .. Len(s)
      BY <2>1, <2>3, <2>5, <3>1, HyphenPut
    <3>3. CASE HasHyphen(m.put)
      BY <2>1, <2>3, <2>5, <3>3, HyphenConcat
    <3>4. CASE k \in m.next .. Len(s)
      BY <2>1, <2>3, <3>1, <3>4
    <3> QED
      BY <3>2, <3>3, <3>4
  <2> QED
    BY <1>2, <2>2, <2>6, <2>7 DEF HyphenInv
<1>3. ASSUME TypeOK, HyphenInv, EndStage PROVE HyphenInv'
  <2>1. /\ s' = result /\ p' = 1 /\ p = Len(s) + 1 /\ Len(s) \in Nat /\ result \in Seq(Byte)
        /\ stage \in DOMAIN Following
    BY <1>3 DEF EndStage, TypeOK
  <2>2. CASE stage = "cjk"
    <3>1. stage' = "cjkneg" => \E k \in 1 .. Len(result) : result[k] = Hyphen
      BY <1>3, <2>1, <2>2 DEF EndStage, Range
    <3>2. stage' \in {"cjkneg", "done"}
      BY <1>3, <2>2 DEF EndStage, Following
    <3> QED
      BY <2>1, <3>1, <3>2 DEF HyphenInv, HasHyphen, HyphenLoops
  <2>3. CASE stage = "cjkneg"
    <3>1. HasHyphen(result)
      BY <1>3, <2>1, <2>3 DEF HyphenInv
    <3>2. stage' = "cjkcjk"
      BY <1>3, <2>3 DEF EndStage, Following
    <3> QED
      BY <2>1, <3>1, <3>2 DEF HyphenInv
  <2>4. CASE stage \notin {"cjk", "cjkneg"}
    <3>1. stage' \notin HyphenLoops
      BY <1>3, <2>1, <2>4 DEF EndStage, Following, HyphenLoops
    <3> QED
      BY <3>1 DEF HyphenInv, HyphenLoops
  <2> QED
    BY <2>2, <2>3, <2>4
<1>4. HyphenInv /\ UNCHANGED vars => HyphenInv'
  BY DEF vars, HyphenInv, HasHyphen
<1>5. TypeOK /\ HyphenInv /\ [Next]_vars => HyphenInv'
  BY <1>2, <1>3, <1>4 DEF Next, Finished
<1> QED
  BY <1>1, <1>5, BytesTypeCorrect, PTL DEF Spec

-----------------------------------------------------------------------------
\* A turn of a loop keeps the invariant.
LEMMA StepDecoding ==
  ASSUME TypeOK, HyphenInv, DecodingInv, Step
  PROVE  DecodingInv'
<1>1. /\ s \in Seq(Byte) /\ p \in 1 .. Len(s) /\ Len(s) \in Nat /\ ~Overrun
      /\ stage \in DOMAIN Following
  BY DEF TypeOK, Step, Overrun
<1>2. stage' = stage /\ s' = s /\ p' = Turn.next
  BY DEF Step
<1>3. TypeOK'
  BY StepType
<1>4. CASE stage \in IndexLoops
  BY <1>2, <1>3, <1>4 DEF TypeOK, IndexLoops, DecodingInv, OverrunOnlyByDecoding, HyphenLoops
<1>5. CASE ~Whole(s)
  BY <1>2, <1>5 DEF DecodingInv, OverrunOnlyByDecoding
<1>6. CASE Whole(s) /\ stage \in {"under", "cjk"}
  <2>1. ~Continues(s[p])
    BY <1>1, <1>6 DEF DecodingInv, AtCharacter
  <2>2. Turn = VisibleUnderscores(s, p) \/ Turn = JoinCjk(s, p)
    BY <1>6 DEF Turn
  <2>3. p' <= Len(s) + 1 /\ AtCharacter(s, p')
    BY <1>1, <1>2, <1>6, <2>1, <2>2, CharacterTurns
  <2>4. ~Overrun'
    BY <1>2, <1>3, <2>3 DEF Overrun, TypeOK
  <2> QED
    BY <1>2, <1>6, <2>3, <2>4 DEF DecodingInv, OverrunOnlyByDecoding, HyphenLoops
<1>7. CASE Whole(s) /\ stage \in HyphenLoops
  <2>1. Guided(s, p)
    BY <1>1, <1>7 DEF DecodingInv, Guided
  <2>2. PICK m : m = Turn /\ m \in {CjkNeg(s, p), CjkCjk(s, p)}
    BY <1>7 DEF Turn, HyphenLoops
  <2>3. \/ m.next <= Len(s) + 1 /\ Guided(s, m.next)
        \/ Misled(s) /\ \E k \in 1 .. Len(s) : k > Len(s) - 3 /\ SeemsChinese(s, k)
    BY <1>1, <1>7, <2>1, <2>2, HyphenTurns
  <2>4. CASE m.next <= Len(s) + 1 /\ Guided(s, m.next)
    <3>1. ~Overrun'
      BY <1>2, <1>3, <2>2, <2>4 DEF Overrun, TypeOK
    <3> QED
      BY <1>2, <1>7, <2>2, <2>4, <3>1
      DEF DecodingInv, OverrunOnlyByDecoding, Guided, HyphenLoops
  <2>5. CASE Misled(s) /\ \E k \in 1 .. Len(s) : k > Len(s) - 3 /\ SeemsChinese(s, k)
    BY <1>2, <1>7, <2>5 DEF HyphenInv, DecodingInv, OverrunOnlyByDecoding, HyphenLoops
  <2> QED
    BY <2>3, <2>4, <2>5
<1> QED
  BY <1>1, <1>4, <1>5, <1>6, <1>7 DEF Following, IndexLoops, HyphenLoops

\* The pointer of the next loop begins at a character.
LEMMA EndStageDecoding ==
  ASSUME TypeOK, DecodingInv, EndStage
  PROVE  DecodingInv'
<1>1. s' = result /\ p' = 1 /\ result \in Seq(Byte)
  BY DEF EndStage, TypeOK
<1>2. ~Overrun'
  BY <1>1 DEF Overrun
<1>3. Whole(s') => AtCharacter(s', 1)
  BY <1>1 DEF Whole, AtCharacter
<1> QED
  BY <1>1, <1>2, <1>3 DEF DecodingInv, OverrunOnlyByDecoding

\* The inductive invariant holds.
LEMMA DecodingInvariant == Spec => []DecodingInv
<1>1. Init => DecodingInv
  BY TextsAssumption DEF Init, DecodingInv, OverrunOnlyByDecoding, Overrun, HyphenLoops
<1>2. TypeOK /\ HyphenInv /\ DecodingInv /\ [Next]_vars => DecodingInv'
  <2>1. DecodingInv /\ UNCHANGED vars => DecodingInv'
    BY DEF vars, DecodingInv, OverrunOnlyByDecoding, Overrun
  <2> QED
    BY <2>1, StepDecoding, EndStageDecoding DEF Next, Finished
<1> QED
  BY <1>1, <1>2, BytesTypeCorrect, HyphenInvariant, PTL DEF Spec

(***************************************************************************)
(* For every text: a pointer passes the terminator only when the text of   *)
(* the stage is not whole, or in a loop on hyphens, on a text with one,    *)
(* that a character which is not Chinese has misled: one of the last three *)
(* bytes decodes to a Chinese character from inside another one.           *)
(***************************************************************************)
THEOREM OverrunsOnlyByDecoding == Spec => []OverrunOnlyByDecoding
<1>1. DecodingInv => OverrunOnlyByDecoding
  BY DEF DecodingInv
<1> QED
  BY <1>1, DecodingInvariant, PTL
-----------------------------------------------------------------------------
\* v is u with the c bytes behind the n-th replaced by y.
Swapped(u, v, n, c, y) ==
    /\ n + c <= Len(u) /\ Len(v) = Len(u) - c + Len(y)
    /\ \A k \in 1 .. n : v[k] = u[k]
    /\ \A k \in 1 .. Len(y) : v[n + k] = y[k]
    /\ \A k \in n + c + 1 .. Len(u) : v[k - c + Len(y)] = u[k]

\* A piece of one or more whole characters of u is replaced.
PieceSwapped(u, v, n, c, y) ==
    Swapped(u, v, n, c, y) /\ c >= 1 /\ AtCharacter(u, n + 1) /\ AtCharacter(u, n + c + 1)

\* What that says of the lengths.
LEMMA PieceBounds ==
  ASSUME NEW u, u \in Seq(Byte), NEW v, NEW y, NEW n \in Nat, NEW c \in Nat,
         PieceSwapped(u, v, n, c, y)
  PROVE  /\ Len(u) \in Nat /\ n + 1 <= Len(u) /\ n + c <= Len(u) /\ c >= 1
         /\ Swapped(u, v, n, c, y) /\ AtCharacter(u, n + 1) /\ AtCharacter(u, n + c + 1)
<1>1. Swapped(u, v, n, c, y) /\ c >= 1 /\ AtCharacter(u, n + 1) /\ AtCharacter(u, n + c + 1)
  BY Zenon DEF PieceSwapped
<1>2. n + c <= Len(u)
  BY Zenon, <1>1 DEF Swapped
<1>3. Len(u) \in Nat
  OBVIOUS
<1>4. n + 1 <= Len(u)
  BY <1>1, <1>2, <1>3
<1> QED
  BY <1>1, <1>2, <1>3, <1>4

\* A character in front of the piece ends in front of it.
LEMMA CharacterInFront ==
  ASSUME NEW u, u \in Seq(Byte), Whole(u), NEW n \in Nat, n + 1 <= Len(u), AtCharacter(u, n + 1),
         NEW i \in 1 .. n, ~Continues(u[i]), NEW k \in i + 1 .. i + Utf8CharLen(u[i]) - 1
  PROVE  k \in i + 1 .. n /\ Continues(u[k])
<1>1. PICK m \in 1 .. 4 : m = Utf8CharLen(u[i])
  BY CharLen
<1>2. i \in Nat /\ i >= 1 /\ i <= n /\ i \in 1 .. Len(u) /\ Len(u) \in Nat /\ k \in i + 1 .. i + m - 1
  BY <1>1
<1>3. \A q \in i + 1 .. i + m - 1 : Continues(u[q])
  BY <1>1, <1>2 DEF Whole
<1>4. n + 1 \notin i + 1 .. i + m - 1
  BY <1>2, <1>3 DEF AtCharacter
<1> QED
  BY <1>2, <1>3, <1>4

\* The byte behind the piece does not belong to a character in front of it.
LEMMA HeadBehind ==
  ASSUME NEW u, u \in Seq(Byte), NEW e \in Nat, e >= 1, AtCharacter(u, e),
         NEW i \in e .. Len(u), NEW h \in 1 .. i - 1, HeadOf(u, i, h)
  PROVE  h >= e
<1>1. \A k \in h + 1 .. i : Continues(u[k])
  BY DEF HeadOf
<1>2. h < e => e \in h + 1 .. i /\ e \in 1 .. Len(u)
  OBVIOUS
<1>3. ~(h < e)
  BY <1>1, <1>2 DEF AtCharacter
<1> QED
  BY <1>3

\* Whole characters for whole characters leave a whole text.
LEMMA SwapKeepsWhole ==
  ASSUME NEW u, u \in Seq(Byte), NEW v, v \in Seq(Byte), NEW y, y \in Seq(Byte),
         NEW n \in Nat, NEW c \in Nat, Whole(u), Whole(y), PieceSwapped(u, v, n, c, y)
  PROVE  Whole(v)
<1>0. PICK d : d = Len(y)
  OBVIOUS
<1>1. /\ d \in Nat /\ Len(u) \in Nat /\ Len(v) \in Nat /\ c >= 1
      /\ n + c <= Len(u) /\ Len(v) = Len(u) - c + d
  BY <1>0 DEF PieceSwapped, Swapped
<1>2. /\ \A k \in 1 .. n : v[k] = u[k]
      /\ \A k \in 1 .. d : v[n + k] = y[k]
      /\ \A k \in n + c + 1 .. Len(u) : v[k - c + d] = u[k]
  BY <1>0 DEF PieceSwapped, Swapped
<1>3. AtCharacter(u, n + 1) /\ AtCharacter(u, n + c + 1)
  BY DEF PieceSwapped
<1>4. SUFFICES ASSUME NEW i \in 1 .. Len(v)
               PROVE  IF Continues(v[i]) THEN \E h \in 1 .. i - 1 : HeadOf(v, i, h)
                      ELSE \A k \in i + 1 .. i + Utf8CharLen(v[i]) - 1 :
                             k <= Len(v) /\ Continues(v[k])
  BY DEF Whole
<1>5. CASE i <= n
  <2>1. v[i] = u[i] /\ i \in 1 .. n /\ i \in 1 .. Len(u)
    BY <1>1, <1>2, <1>5
  <2>2. CASE Continues(v[i])
    <3>1. PICK h \in 1 .. i - 1 : HeadOf(u, i, h)
      BY <2>1, <2>2 DEF Whole
    <3>2. \A k \in h .. i : v[k] = u[k]
      BY <1>2, <1>5, <3>1
    <3>3. h \in h .. i /\ \A k \in h + 1 .. i : k \in h .. i
      BY <3>1
    <3>4. HeadOf(v, i, h)
      BY <3>1, <3>2, <3>3 DEF HeadOf
    <3> QED
      BY <2>2, <3>1, <3>4
  <2>3. CASE ~Continues(v[i])
    <3>1. ASSUME NEW k \in i + 1 .. i + Utf8CharLen(v[i]) - 1 PROVE k <= Len(v) /\ Continues(v[k])
      <4>1. k \in i + 1 .. n /\ Continues(u[k])
        <5>1. i \in 1 .. n /\ ~Continues(u[i]) /\ k \in i + 1 .. i + Utf8CharLen(u[i]) - 1
          BY Zenon, <2>1, <2>3, <3>1
        <5>2. n + 1 <= Len(u) /\ AtCharacter(u, n + 1)
          BY PieceBounds
        <5> QED
          BY <5>1, <5>2, CharacterInFront
      <4>2. k \in 1 .. n /\ k <= Len(v)
        BY <1>1, <4>1
      <4> QED
        BY <1>2, <4>1, <4>2
    <3> QED
      BY <2>3, <3>1
  <2> QED
    BY <2>2, <2>3
<1>6. CASE i > n /\ i <= n + d
  <2>1. PICK j \in 1 .. d : i = n + j
    <3>1. i - n \in 1 .. d /\ i = n + (i - n)
      BY <1>1, <1>6
    <3> QED
      BY <3>1
  <2>2. v[i] = y[j] /\ j \in 1 .. Len(y)
    BY <1>0, <1>2, <2>1
  <2>3. CASE Continues(v[i])
    <3>1. PICK h \in 1 .. j - 1 : HeadOf(y, j, h)
      BY <2>2, <2>3 DEF Whole
    <3>2. ~Continues(y[h]) /\ j < h + Utf8CharLen(y[h]) /\ \A k \in h + 1 .. j : Continues(y[k])
      BY <3>1 DEF HeadOf
    <3>3. PICK g : g = n + h
      OBVIOUS
    <3>4. v[g] = y[h] /\ g \in 1 .. i - 1 /\ g \in Nat /\ h \in Nat /\ j \in Nat
      <4>1. h \in 1 .. d
        BY <1>1, <2>1, <3>1
      <4> QED
        BY <1>1, <1>2, <2>1, <3>1, <3>3, <4>1
    <3>5. ASSUME NEW k \in g + 1 .. i PROVE Continues(v[k])
      <4>1. PICK q \in h + 1 .. j : k = n + q
        <5>1. k - n \in h + 1 .. j /\ k = n + (k - n)
          BY <1>1, <2>1, <3>3, <3>4
        <5> QED
          BY <5>1
      <4>2. q \in 1 .. d
        BY <1>1, <2>1, <3>1, <4>1
      <4> QED
        BY <1>2, <3>2, <4>1, <4>2
    <3>6. i < g + Utf8CharLen(v[g])
      <4>1. Utf8CharLen(y[h]) \in 1 .. 4
        BY CharLen
      <4> QED
        BY <2>1, <3>2, <3>3, <3>4, <4>1
    <3>7. HeadOf(v, i, g)
      BY <3>2, <3>4, <3>5, <3>6 DEF HeadOf
    <3> QED
      BY <2>3, <3>4, <3>7
  <2>4. CASE ~Continues(v[i])
    <3>1. PICK m \in 1 .. 4 : m = Utf8CharLen(y[j])
      BY CharLen
    <3>2. \A k \in j + 1 .. j + m - 1 : k <= d /\ Continues(y[k])
      BY <1>0, <2>2, <2>4, <3>1 DEF Whole
    <3>3. ASSUME NEW k \in i + 1 .. i + m - 1 PROVE k <= Len(v) /\ Continues(v[k])
      <4>1. PICK q \in j + 1 .. j + m - 1 : k = n + q
        <5>1. k - n \in j + 1 .. j + m - 1 /\ k = n + (k - n)
          BY <1>1, <2>1, <3>1
        <5> QED
          BY <5>1
      <4>2. q <= d /\ Continues(y[q])
        BY <3>2, <4>1
      <4>3. q \in 1 .. d /\ k <= Len(v)
        BY <1>1, <2>1, <4>1, <4>2
      <4> QED
        BY <1>2, <4>1, <4>2, <4>3
    <3> QED
      BY <2>2, <2>4, <3>1, <3>3
  <2> QED
    BY <2>3, <2>4
<1>7. CASE i > n + d
  <2>1. PICK j \in n + c + 1 .. Len(u) : i = j - c + d
    <3>1. i - d + c \in n + c + 1 .. Len(u) /\ i = (i - d + c) - c + d
      BY <1>1, <1>7
    <3> QED
      BY <3>1
  <2>2. v[i] = u[j] /\ j \in 1 .. Len(u) /\ j \in Nat
    BY <1>1, <1>2, <2>1
  <2>3. CASE Continues(v[i])
    <3>1. PICK h \in 1 .. j - 1 : HeadOf(u, j, h)
      BY <2>2, <2>3 DEF Whole
    <3>2. ~Continues(u[h]) /\ j < h + Utf8CharLen(u[h]) /\ \A k \in h + 1 .. j : Continues(u[k])
      BY <3>1 DEF HeadOf
    <3>3. h >= n + c + 1
      <4>1. PICK e \in Nat : e = n + c + 1 /\ e >= 1
        BY <1>1
      <4>2. AtCharacter(u, e) /\ j \in e .. Len(u)
        BY <1>3, <2>1, <4>1
      <4> QED
        BY <3>1, <4>1, <4>2, HeadBehind
    <3>4. PICK g : g = h - c + d
      OBVIOUS
    <3>5. v[g] = u[h] /\ g \in 1 .. i - 1 /\ g \in Nat /\ h \in Nat
      <4>1. h \in n + c + 1 .. Len(u) /\ h \in Nat /\ h < j
        BY <1>1, <2>1, <3>1, <3>3
      <4>2. v[g] = u[h]
        BY <1>2, <3>4, <4>1
      <4>3. g \in Nat /\ g >= 1 /\ g < i
        BY SMT, <1>1, <2>1, <2>2, <3>3, <3>4, <4>1
      <4> QED
        BY <4>1, <4>2, <4>3
    <3>6. ASSUME NEW k \in g + 1 .. i PROVE Continues(v[k])
      <4>1. PICK q \in h + 1 .. j : k = q - c + d
        <5>1. k \in Nat /\ k >= g + 1 /\ k <= i /\ i \in Nat
          BY <3>5, <1>1
        <5>2. k - d + c \in h + 1 .. j /\ k = (k - d + c) - c + d
          BY SMT, <1>1, <2>1, <2>2, <3>4, <3>5, <5>1
        <5> QED
          BY <5>2
      <4>2. q \in n + c + 1 .. Len(u)
        BY <1>1, <2>1, <3>3, <3>5, <4>1
      <4> QED
        BY <1>2, <3>2, <4>1, <4>2
    <3>7. i < g + Utf8CharLen(v[g])
      <4>1. PICK m \in 1 .. 4 : m = Utf8CharLen(u[h])
        BY CharLen
      <4>2. j < h + m /\ m = Utf8CharLen(v[g])
        BY Zenon, <3>2, <3>5, <4>1
      <4>3. j \in Nat /\ h \in Nat /\ i \in Nat
        BY <1>1, <3>5
      <4>4. i < g + m
        BY ONLY SMT, <1>1, <2>1, <2>2, <3>4, <4>2, <4>3, c \in Nat, m \in 1 .. 4
      <4> QED
        BY <4>2, <4>4
    <3>8. HeadOf(v, i, g)
      BY <3>2, <3>5, <3>6, <3>7 DEF HeadOf
    <3> QED
      BY <2>3, <3>5, <3>8
  <2>4. CASE ~Continues(v[i])
    <3>1. PICK m \in 1 .. 4 : m = Utf8CharLen(u[j])
      BY CharLen
    <3>2. \A k \in j + 1 .. j + m - 1 : k <= Len(u) /\ Continues(u[k])
      BY <2>2, <2>4, <3>1 DEF Whole
    <3>3. ASSUME NEW k \in i + 1 .. i + m - 1 PROVE k <= Len(v) /\ Continues(v[k])
      <4>1. PICK q \in j + 1 .. j + m - 1 : k = q - c + d
        <5>1. k - d + c \in j + 1 .. j + m - 1 /\ k = (k - d + c) - c + d
          BY <1>1, <2>1, <2>2, <3>1
        <5> QED
          BY <5>1
      <4>2. q <= Len(u) /\ Continues(u[q])
        BY <3>2, <4>1
      <4>3. q \in n + c + 1 .. Len(u) /\ k <= Len(v)
        BY <1>1, <2>1, <2>2, <4>1, <4>2
      <4> QED
        BY <1>2, <4>1, <4>2, <4>3
    <3> QED
      BY <2>2, <2>4, <3>1, <3>3
  <2> QED
    BY <2>3, <2>4
<1> QED
  BY <1>1, <1>5, <1>6, <1>7

\* The bytes of Swapped texts, looked up as the code does.
LEMMA SwappedFront ==
  ASSUME NEW u, u \in Seq(Byte), NEW v, v \in Seq(Byte), NEW y, y \in Seq(Byte),
         NEW n \in Nat, NEW c \in Nat, Swapped(u, v, n, c, y)
  PROVE  \A k \in 1 .. n : v[k] = u[k] /\ At(v, k) = At(u, k)
<1>1. /\ Len(u) \in Nat /\ Len(v) \in Nat /\ Len(y) \in Nat
      /\ n + c <= Len(u) /\ Len(v) = Len(u) - c + Len(y)
  BY DEF Swapped
<1>2. \A q \in 1 .. n : v[q] = u[q]
  BY DEF Swapped
<1> QED
  BY <1>1, <1>2 DEF At

\* Behind the piece, at the distance that the lengths make.
SameBehind(u, v, e, g) ==
    /\ \A k \in Nat : k >= e => At(v, k + g) = At(u, k)
    /\ \A k \in e .. Len(u) : v[k + g] = u[k]

\* The bytes behind the piece are the same.
LEMMA SwappedBehind ==
  ASSUME NEW u, u \in Seq(Byte), NEW v, v \in Seq(Byte), NEW y, y \in Seq(Byte),
         NEW n \in Nat, NEW c \in Nat, Swapped(u, v, n, c, y)
  PROVE  SameBehind(u, v, n + c + 1, Len(y) - c)
<1>0. PICK d : d = Len(y)
  OBVIOUS
<1>1. /\ d \in Nat /\ Len(u) \in Nat /\ Len(v) \in Nat
      /\ n + c <= Len(u) /\ Len(v) = Len(u) - c + d
  BY <1>0 DEF Swapped
<1>2. \A q \in n + c + 1 .. Len(u) : v[q - c + d] = u[q]
  BY <1>0 DEF Swapped
<1>3. \A q \in Int : q - c + d = q + (d - c)
  BY <1>1
<1>4. \A q \in n + c + 1 .. Len(u) : v[q + (d - c)] = u[q]
  BY <1>1, <1>2, <1>3
<1>5. ASSUME NEW k \in Nat, k >= n + c + 1 PROVE At(v, k + (d - c)) = At(u, k)
  <2>1. CASE k <= Len(u)
    <3>1. k \in n + c + 1 .. Len(u) /\ k + (d - c) <= Len(v)
      BY <1>1, <1>5, <2>1
    <3> QED
      BY <1>4, <2>1, <3>1 DEF At
  <2>2. CASE ~(k <= Len(u))
    <3>1. ~(k + (d - c) <= Len(v))
      BY <1>1, <1>5, <2>2
    <3> QED
      BY <2>2, <3>1 DEF At
  <2> QED
    BY <2>1, <2>2
<1> QED
  BY <1>0, <1>4, <1>5 DEF SameBehind

\* What the URL pattern would be stopped by in front of the piece is still there.
LEMMA BreakInFront ==
  ASSUME NEW u, u \in Seq(Byte), NEW v, v \in Seq(Byte), NEW y, y \in Seq(Byte),
         NEW n \in Nat, NEW c \in Nat, PieceSwapped(u, v, n, c, y),
         NEW k \in 1 .. n, BreaksUrl(u, k)
  PROVE  BreaksUrl(v, k)
<1>1. Len(u) \in Nat /\ n + 1 <= Len(u) /\ Swapped(u, v, n, c, y)
  BY PieceBounds
<1>2. \A q \in 1 .. n : v[q] = u[q] /\ At(v, q) = At(u, q)
  BY <1>1, SwappedFront
<1>3. CASE u[k] \in {10, 13, Blank}
  BY <1>2, <1>3 DEF BreaksUrl
<1>4. CASE IdeographicAt(u, k)
  <2>1. u[k] = 227 /\ At(u, k + 1) = 128 /\ At(u, k + 2) = 128
    BY <1>4 DEF IdeographicAt
  <2>2. At(u, n + 1) # 128
    <3>1. At(u, n + 1) = u[n + 1] /\ ~Continues(u[n + 1])
      BY <1>1 DEF At, PieceSwapped, AtCharacter
    <3>2. Continues(128)
      BY DEF Continues
    <3> QED
      BY <3>1, <3>2
  <2>3. k + 1 # n + 1 /\ k + 2 # n + 1
    BY <2>1, <2>2
  <2>4. k + 1 \in 1 .. n /\ k + 2 \in 1 .. n
    BY <2>3
  <2> QED
    BY <1>2, <2>1, <2>4 DEF BreaksUrl, IdeographicAt
<1> QED
  BY <1>3, <1>4 DEF BreaksUrl

\* Behind it, too.
LEMMA BreakBehind ==
  ASSUME NEW u, u \in Seq(Byte), NEW v, NEW e \in Nat, NEW g \in Int, SameBehind(u, v, e, g),
         NEW k \in e .. Len(u), BreaksUrl(u, k)
  PROVE  BreaksUrl(v, k + g)
<1>1. Len(u) \in Nat /\ k \in Nat /\ k >= e /\ k <= Len(u)
  OBVIOUS
<1>2. PICK j : j = k + g
  OBVIOUS
<1>3. j + 1 = (k + 1) + g /\ j + 2 = (k + 2) + g /\ k + 1 \in Nat /\ k + 2 \in Nat
      /\ k + 1 >= e /\ k + 2 >= e
  BY <1>1, <1>2
<1>4. v[j] = u[k]
  BY <1>1, <1>2 DEF SameBehind
<1>5. At(v, j + 1) = At(u, k + 1) /\ At(v, j + 2) = At(u, k + 2)
  BY <1>3 DEF SameBehind
<1>6. BreaksUrl(v, j)
  BY <1>4, <1>5 DEF BreaksUrl, IdeographicAt
<1> QED
  BY <1>2, <1>6

\* A character of v at which the URL pattern would end was there before.
LEMMA CutInFront ==
  ASSUME NEW u, u \in Seq(Byte), NEW v, v \in Seq(Byte), NEW y, y \in Seq(Byte),
         NEW n \in Nat, NEW c \in Nat, Whole(u), PieceSwapped(u, v, n, c, y),
         NEW j \in 1 .. n, CutAt(v, j)
  PROVE  CutAt(u, j)
<1>1. Len(u) \in Nat /\ n + 1 <= Len(u) /\ Swapped(u, v, n, c, y)
  BY PieceBounds
<1>2. \A q \in 1 .. n : v[q] = u[q] /\ At(v, q) = At(u, q)
  BY <1>1, SwappedFront
<1>3. v[j] = u[j] /\ ~Continues(u[j]) /\ u[j] \notin UrlEnds
  BY <1>2 DEF CutAt
<1>4. PICK k \in j + 1 .. j + Utf8CharLen(u[j]) - 1 : At(v, k) \in UrlEnds
  BY <1>3 DEF CutAt
<1>5. AtCharacter(u, n + 1)
  BY DEF PieceSwapped
<1>6. k \in j + 1 .. n
  BY <1>1, <1>3, <1>4, <1>5, CharacterInFront
<1>7. k \in 1 .. n
  BY <1>6
<1> QED
  BY <1>2, <1>3, <1>4, <1>7 DEF CutAt

\* Behind the piece, too.
LEMMA CutBehind ==
  ASSUME NEW u, u \in Seq(Byte), NEW v, NEW e \in Nat, NEW g \in Int, SameBehind(u, v, e, g),
         NEW j \in e .. Len(u), CutAt(v, j + g)
  PROVE  CutAt(u, j)
<1>1. Len(u) \in Nat /\ j \in Nat /\ j >= e /\ j <= Len(u)
  OBVIOUS
<1>2. PICK a : a = j + g
  OBVIOUS
<1>3. v[a] = u[j]
  BY <1>1, <1>2 DEF SameBehind
<1>4. ~Continues(u[j]) /\ u[j] \notin UrlEnds
  BY <1>2, <1>3 DEF CutAt
<1>5. PICK m \in 1 .. 4 : m = Utf8CharLen(u[j])
  BY CharLen
<1>6. PICK k \in a + 1 .. a + m - 1 : At(v, k) \in UrlEnds
  BY <1>2, <1>3, <1>5 DEF CutAt
<1>7. PICK q \in j + 1 .. j + m - 1 : k = q + g
  <2>1. k \in Int /\ k >= a + 1 /\ k <= a + m - 1
    BY <1>1, <1>2, <1>5, <1>6
  <2>2. k - g \in j + 1 .. j + m - 1 /\ k = (k - g) + g
    BY <1>1, <1>2, <1>5, <2>1
  <2> QED
    BY <2>2
<1>8. q \in Nat /\ q >= e
  BY <1>1, <1>5, <1>7
<1>9. At(v, k) = At(u, q)
  BY <1>7, <1>8 DEF SameBehind
<1> QED
  BY <1>4, <1>5, <1>6, <1>7, <1>9 DEF CutAt

\* What BaseCleanup puts in place of a piece: a character that ends a URL, or
\* nothing for a piece that does not.
Cleans(u, n, c, y) ==
    \/ Len(y) = 1 /\ y[1] \in {10, Blank}
    \/ Len(y) = 0 /\ \A k \in n + 1 .. n + c : ~BreaksUrl(u, k)

\* A place behind a scheme with nothing between that ends a URL.
Reaches(t, i, j) == i < j /\ t[i] = Scheme /\ \A k \in i + 1 .. j : ~BreaksUrl(t, k)

\* In front of the piece.
LEMMA ReachesInFront ==
  ASSUME NEW u, u \in Seq(Byte), NEW v, v \in Seq(Byte), NEW y, y \in Seq(Byte),
         NEW n \in Nat, NEW c \in Nat, PieceSwapped(u, v, n, c, y),
         NEW i \in 1 .. n, NEW j \in 1 .. n, Reaches(v, i, j)
  PROVE  Reaches(u, i, j)
<1>1. Len(u) \in Nat /\ n + 1 <= Len(u) /\ Swapped(u, v, n, c, y)
  BY PieceBounds
<1>2. v[i] = u[i]
  <2>1. \A q \in 1 .. n : v[q] = u[q]
    BY Zenon, <1>1 DEF Swapped
  <2> QED
    BY <2>1
<1>3. ASSUME NEW k \in i + 1 .. j, BreaksUrl(u, k) PROVE FALSE
  <2>1. k \in 1 .. n
    OBVIOUS
  <2>2. BreaksUrl(v, k)
    BY <1>3, <2>1, BreakInFront
  <2> QED
    BY <1>3, <2>2 DEF Reaches
<1> QED
  BY <1>2, <1>3 DEF Reaches

\* Behind it.
LEMMA ReachesBehind ==
  ASSUME NEW u, u \in Seq(Byte), NEW v, NEW e \in Nat, NEW g \in Int, SameBehind(u, v, e, g),
         NEW i \in e .. Len(u), NEW j \in e .. Len(u), Reaches(v, i + g, j + g)
  PROVE  Reaches(u, i, j)
<1>1. Len(u) \in Nat /\ i \in Nat /\ j \in Nat /\ i >= e /\ j <= Len(u) /\ i <= Len(u)
  OBVIOUS
<1>2. PICK a, b : a = i + g /\ b = j + g
  OBVIOUS
<1>3. v[a] = u[i]
  BY <1>1, <1>2 DEF SameBehind
<1>4. a < b /\ v[a] = Scheme /\ \A k \in a + 1 .. b : ~BreaksUrl(v, k)
  BY <1>2 DEF Reaches
<1>5. ASSUME NEW k \in i + 1 .. j, BreaksUrl(u, k) PROVE FALSE
  <2>1. k \in e .. Len(u) /\ k \in Nat
    BY <1>1
  <2>2. BreaksUrl(v, k + g)
    BY <1>5, <2>1, BreakBehind
  <2>3. k + g \in a + 1 .. b
    BY <1>1, <1>2, <2>1
  <2> QED
    BY <1>4, <2>2, <2>3
<1>6. i < j
  BY <1>1, <1>2, <1>4
<1> QED
  BY <1>3, <1>4, <1>5, <1>6 DEF Reaches

\* Across a piece that is dropped.
LEMMA ReachesAcross ==
  ASSUME NEW u, u \in Seq(Byte), NEW v, v \in Seq(Byte), NEW y, y \in Seq(Byte),
         NEW n \in Nat, NEW c \in Nat, PieceSwapped(u, v, n, c, y), Len(y) = 0,
         \A k \in n + 1 .. n + c : ~BreaksUrl(u, k),
         NEW i \in 1 .. n, NEW j \in n + c + 1 .. Len(u), Reaches(v, i, j - c)
  PROVE  Reaches(u, i, j)
<1>1. Len(u) \in Nat /\ n + 1 <= Len(u) /\ n + c <= Len(u) /\ Swapped(u, v, n, c, y)
  BY PieceBounds
<1>2. v[i] = u[i]
  <2>1. \A q \in 1 .. n : v[q] = u[q]
    BY Zenon, <1>1 DEF Swapped
  <2> QED
    BY <2>1
<1>3. ASSUME NEW k \in i + 1 .. j, BreaksUrl(u, k) PROVE FALSE
  <2>1. CASE k <= n
    <3>1. k \in 1 .. n /\ k \in i + 1 .. j - c
      BY <1>1, <2>1
    <3>2. BreaksUrl(v, k)
      BY <1>3, <3>1, BreakInFront
    <3> QED
      BY <3>1, <3>2 DEF Reaches
  <2>2. CASE k > n /\ k <= n + c
    <3>1. k \in n + 1 .. n + c
      BY <1>1, <2>2
    <3> QED
      BY <1>3, <3>1
  <2>3. CASE k > n + c
    <3>1. PICK e \in Nat, g \in Int : e = n + c + 1 /\ g = 0 - c
      BY <1>1
    <3>2. k \in e .. Len(u) /\ k + g \in i + 1 .. j - c
      BY <1>1, <2>3, <3>1
    <3>3. SameBehind(u, v, e, g)
      BY <1>1, <3>1, SwappedBehind
    <3>4. BreaksUrl(v, k + g)
      BY <1>3, <3>2, <3>3, BreakBehind
    <3> QED
      BY <3>2, <3>4 DEF Reaches
  <2> QED
    BY <1>1, <2>1, <2>2, <2>3
<1>4. i < j
  BY <1>1
<1> QED
  BY <1>2, <1>3, <1>4 DEF Reaches

\* Cleaning a text makes no place where the URL pattern would end within a character.
LEMMA SwapKeepsUrls ==
  ASSUME NEW u, u \in Seq(Byte), NEW v, v \in Seq(Byte), NEW y, y \in Seq(Byte),
         NEW n \in Nat, NEW c \in Nat, Whole(u), PieceSwapped(u, v, n, c, y),
         Cleans(u, n, c, y), UrlCuts(v)
  PROVE  UrlCuts(u)
<1>0. PICK d : d = Len(y)
  OBVIOUS
<1>1. /\ d \in Nat /\ Len(u) \in Nat /\ Len(v) \in Nat /\ c >= 1
      /\ n + c <= Len(u) /\ Len(v) = Len(u) - c + d /\ Swapped(u, v, n, c, y)
  BY <1>0 DEF PieceSwapped, Swapped
<1>2. PICK i \in 1 .. Len(v), j \in 1 .. Len(v) : Reaches(v, i, j) /\ CutAt(v, j)
  BY DEF UrlCuts, Reaches
<1>3. i < j /\ v[i] = Scheme /\ \A k \in i + 1 .. j : ~BreaksUrl(v, k)
  BY <1>2 DEF Reaches
<1>4. SUFFICES \E a, b \in 1 .. Len(u) : Reaches(u, a, b) /\ CutAt(u, b)
  BY DEF UrlCuts, Reaches
<1>5. PICK e \in Nat, g \in Int : e = n + c + 1 /\ g = d - c
  BY <1>1
<1>6. SameBehind(u, v, e, g)
  BY <1>0, <1>1, <1>5, SwappedBehind
<1>7. CASE j <= n
  <2>1. i \in 1 .. n /\ j \in 1 .. n /\ i \in 1 .. Len(u) /\ j \in 1 .. Len(u)
    BY <1>1, <1>3, <1>7
  <2>2. Reaches(u, i, j) /\ CutAt(u, j)
    BY <1>2, <2>1, ReachesInFront, CutInFront
  <2> QED
    BY <2>1, <2>2
<1>8. CASE i > n + d
  <2>1. PICK a \in e .. Len(u), b \in e .. Len(u) : i = a + g /\ j = b + g
    <3>1. i - g \in e .. Len(u) /\ i = (i - g) + g
      BY <1>1, <1>8, <1>5
    <3>2. j - g \in e .. Len(u) /\ j = (j - g) + g
      BY <1>1, <1>3, <1>8, <1>5
    <3> QED
      BY <3>1, <3>2
  <2>2. Reaches(u, a, b) /\ CutAt(u, b)
    BY <1>2, <1>6, <2>1, ReachesBehind, CutBehind
  <2>3. a \in 1 .. Len(u) /\ b \in 1 .. Len(u)
    BY <1>1, <1>5, <2>1
  <2> QED
    BY <2>2, <2>3
<1>9. CASE i <= n + d /\ j > n
  <2>1. CASE d = 1 /\ y[1] \in {10, Blank}
    <3>1. v[n + 1] = y[1]
      BY <1>0, <1>1, <2>1 DEF Swapped
    <3>2. v[n + 1] # Scheme /\ BreaksUrl(v, n + 1)
      BY <2>1, <3>1 DEF Scheme, Blank, BreaksUrl
    <3>3. n + 1 \in i + 1 .. j
      <4>1. i # n + 1
        BY <1>3, <3>2
      <4> QED
        BY <1>1, <1>9, <2>1, <4>1
    <3> QED
      BY <1>3, <3>2, <3>3
  <2>2. CASE d = 0 /\ \A k \in n + 1 .. n + c : ~BreaksUrl(u, k)
    <3>1. PICK b \in n + c + 1 .. Len(u) : j = b - c
      <4>1. j + c \in n + c + 1 .. Len(u) /\ j = (j + c) - c
        BY <1>1, <1>9, <2>2
      <4> QED
        BY <4>1
    <3>2. i \in 1 .. n /\ i \in 1 .. Len(u) /\ b \in 1 .. Len(u)
      BY <1>1, <1>9, <2>2, <3>1
    <3>3. Reaches(u, i, b)
      BY <1>0, <1>2, <2>2, <3>1, <3>2, ReachesAcross
    <3>4. CutAt(u, b)
      <4>1. b + g = j /\ b \in e .. Len(u)
        BY <1>1, <1>5, <2>2, <3>1
      <4> QED
        BY <1>2, <1>6, <4>1, CutBehind
    <3> QED
      BY <3>2, <3>3, <3>4
  <2> QED
    BY <1>0, <2>1, <2>2 DEF Cleans
<1> QED
  BY <1>1, <1>7, <1>8, <1>9
-----------------------------------------------------------------------------
\* z has the bytes of a and behind them those of b.
JoinOf(z, a, b) ==
    /\ z \in Seq(Byte) /\ Len(z) = Len(a) + Len(b)
    /\ \A k \in 1 .. Len(a) : z[k] = a[k]
    /\ \A k \in 1 .. Len(b) : z[Len(a) + k] = b[k]

\* So has the concatenation.
LEMMA JoinedBytes ==
  ASSUME NEW a, a \in Seq(Byte), NEW b, b \in Seq(Byte)
  PROVE  JoinOf(a \o b, a, b)
<1>1. a \o b \in Seq(Byte) /\ Len(a \o b) = Len(a) + Len(b) /\ Len(a) \in Nat /\ Len(b) \in Nat
  OBVIOUS
<1>2. ASSUME NEW k \in 1 .. Len(a) PROVE (a \o b)[k] = a[k]
  BY <1>1
<1>3. ASSUME NEW k \in 1 .. Len(b) PROVE (a \o b)[Len(a) + k] = b[k]
  <2>1. PICK q : q = Len(a) + k
    OBVIOUS
  <2>2. q \in 1 .. Len(a) + Len(b) /\ q > Len(a) /\ q - Len(a) = k
    BY <1>1, <2>1
  <2>3. (a \o b)[q] = b[q - Len(a)]
    BY <2>2
  <2> QED
    BY <2>1, <2>2, <2>3
<1> QED
  BY <1>1, <1>2, <1>3 DEF JoinOf

\* Texts of the same bytes are the same.
LEMMA SameBytes ==
  ASSUME NEW a, a \in Seq(Byte), NEW b, b \in Seq(Byte), Len(a) = Len(b),
         \A k \in 1 .. Len(a) : a[k] = b[k]
  PROVE  a = b
BY SeqEqual

\* The text between two turns: what is put out and what is not yet read.
Rest(r, t, i) == r \o SubSeq(t, i, Len(t))

\* z has the bytes of r and behind them those of t from i on.
RestOf(z, r, t, i) ==
    /\ z \in Seq(Byte) /\ Len(z) = Len(r) + (Len(t) - i + 1)
    /\ \A k \in 1 .. Len(r) : z[k] = r[k]
    /\ \A k \in i .. Len(t) : z[Len(r) + (k - i + 1)] = t[k]

\* So has the text between two turns.
LEMMA RestBytes ==
  ASSUME NEW r, r \in Seq(Byte), NEW t, t \in Seq(Byte), NEW i, i \in 1 .. Len(t) + 1
  PROVE  RestOf(Rest(r, t, i), r, t, i)
<1>1. PICK x : x = SubSeq(t, i, Len(t))
  OBVIOUS
<1>2. x \in Seq(Byte) /\ Len(x) = Len(t) - i + 1 /\ \A k \in 1 .. Len(t) - i + 1 : x[k] = t[i + k - 1]
  <2>1. Len(t) \in Nat /\ i \in Nat /\ i >= 1 /\ i <= Len(t) + 1
    OBVIOUS
  <2> QED
    BY <1>1, <2>1
<1>3. \A k \in i .. Len(t) : x[k - i + 1] = t[k]
  BY <1>2
<1>4. PICK z : z = Rest(r, t, i)
  OBVIOUS
<1>5. /\ z \in Seq(Byte) /\ Len(z) = Len(r) + Len(x)
      /\ \A k \in 1 .. Len(r) : z[k] = r[k]
      /\ \A k \in 1 .. Len(x) : z[Len(r) + k] = x[k]
  <2>1. z = r \o x
    BY <1>1, <1>4 DEF Rest
  <2>2. JoinOf(r \o x, r, x)
    BY <1>2, JoinedBytes
  <2> QED
    BY Zenon, <1>2, <2>1, <2>2 DEF JoinOf
<1>6. ASSUME NEW k \in i .. Len(t) PROVE z[Len(r) + (k - i + 1)] = t[k]
  <2>1. k - i + 1 \in 1 .. Len(x)
    BY <1>2
  <2>2. PICK q : q = k - i + 1
    OBVIOUS
  <2> QED
    BY <1>3, <1>5, <2>1, <2>2
<1>7. RestOf(z, r, t, i)
  BY <1>2, <1>5, <1>6 DEF RestOf
<1> QED
  BY <1>4, <1>7

\* A turn that copies.
Copied(m, t, i) == m.next \in i .. Len(t) + 1 /\ m.put = SubSeq(t, i, m.next - 1)

\* A turn that copies w bytes and puts y in place of whole characters behind them.
Exchanged(m, t, i, w, y) ==
    /\ m.put = SubSeq(t, i, i + w - 1) \o y
    /\ i + w < m.next /\ m.next \in 1 .. Len(t) + 1
    /\ AtCharacter(t, i + w) /\ AtCharacter(t, m.next)

\* Copying leaves the text as it is.
LEMMA CopiedRest ==
  ASSUME NEW r, r \in Seq(Byte), NEW t, t \in Seq(Byte), NEW i, i \in 1 .. Len(t),
         NEW m, Copied(m, t, i)
  PROVE  Rest(r \o m.put, t, m.next) = Rest(r, t, i)
<1>1. PICK e, x : e = m.next /\ x = m.put
  OBVIOUS
<1>2. e \in i .. Len(t) + 1 /\ x = SubSeq(t, i, e - 1)
  BY <1>1 DEF Copied
<1>3. x \in Seq(Byte) /\ Len(x) = e - i /\ \A k \in 1 .. e - i : x[k] = t[i + k - 1]
  <2>1. Len(t) \in Nat /\ i \in Nat /\ i >= 1 /\ i <= e /\ e \in Nat /\ e - 1 <= Len(t)
    BY <1>2
  <2> QED
    BY <1>2, <2>1
<1>4. PICK z : z = r \o x
  OBVIOUS
<1>5. /\ z \in Seq(Byte) /\ Len(z) = Len(r) + (e - i)
      /\ \A k \in 1 .. Len(r) : z[k] = r[k]
      /\ \A k \in 1 .. e - i : z[Len(r) + k] = t[i + k - 1]
  <2>1. /\ z \in Seq(Byte) /\ Len(z) = Len(r) + Len(x)
        /\ \A k \in 1 .. Len(r) : z[k] = r[k]
        /\ \A k \in 1 .. Len(x) : z[Len(r) + k] = x[k]
    <3>1. JoinOf(r \o x, r, x)
      BY <1>3, JoinedBytes
    <3> QED
      BY Zenon, <1>4, <3>1 DEF JoinOf
  <2> QED
    BY Zenon, <1>3, <2>1
<1>6. PICK u, v : u = Rest(r, t, i) /\ v = Rest(z, t, e)
  OBVIOUS
<1>7. /\ u \in Seq(Byte) /\ Len(u) = Len(r) + (Len(t) - i + 1)
      /\ \A k \in 1 .. Len(r) : u[k] = r[k]
      /\ \A k \in i .. Len(t) : u[Len(r) + (k - i + 1)] = t[k]
  <2>1. i \in 1 .. Len(t) + 1
    OBVIOUS
  <2>2. RestOf(Rest(r, t, i), r, t, i)
    BY <2>1, RestBytes
  <2> QED
    BY Zenon, <1>6, <2>2 DEF RestOf
<1>8. /\ v \in Seq(Byte) /\ Len(v) = Len(z) + (Len(t) - e + 1)
      /\ \A k \in 1 .. Len(z) : v[k] = z[k]
      /\ \A k \in e .. Len(t) : v[Len(z) + (k - e + 1)] = t[k]
  <2>1. e \in 1 .. Len(t) + 1
    BY <1>2
  <2>2. RestOf(Rest(z, t, e), z, t, e)
    BY <1>5, <2>1, RestBytes
  <2> QED
    BY Zenon, <1>6, <2>2 DEF RestOf
<1>9. Len(r) \in Nat /\ Len(t) \in Nat /\ e \in Nat /\ i \in Nat /\ i >= 1 /\ e >= i /\ e <= Len(t) + 1
  BY <1>2
<1>10. Len(u) = Len(v)
  BY <1>5, <1>7, <1>8, <1>9
<1>11. ASSUME NEW k \in 1 .. Len(u) PROVE u[k] = v[k]
  <2>1. CASE k <= Len(r)
    <3>1. k \in 1 .. Len(r) /\ k \in 1 .. Len(z)
      BY <1>5, <1>9, <2>1
    <3> QED
      BY <1>5, <1>7, <1>8, <3>1
  <2>2. CASE k > Len(r) /\ k <= Len(z)
    <3>1. PICK q \in 1 .. e - i : k = Len(r) + q
      <4>1. k - Len(r) \in 1 .. e - i /\ k = Len(r) + (k - Len(r))
        BY <1>5, <1>9, <2>2
      <4> QED
        BY <4>1
    <3>2. i + q - 1 \in i .. Len(t) /\ Len(r) + ((i + q - 1) - i + 1) = k /\ k \in 1 .. Len(z)
      BY <1>5, <1>9, <2>2, <3>1
    <3>3. u[k] = t[i + q - 1]
      <4>1. PICK a \in i .. Len(t) : a = i + q - 1
        BY <3>2
      <4>2. u[Len(r) + (a - i + 1)] = t[a]
        BY <1>7
      <4> QED
        BY <3>2, <4>1, <4>2
    <3>4. v[k] = t[i + q - 1]
      BY <1>5, <1>8, <3>1, <3>2
    <3> QED
      BY <3>3, <3>4
  <2>3. CASE k > Len(z)
    <3>1. PICK a \in e .. Len(t) : k = Len(z) + (a - e + 1)
      <4>1. k - Len(z) + e - 1 \in e .. Len(t) /\ k = Len(z) + ((k - Len(z) + e - 1) - e + 1)
        BY <1>5, <1>7, <1>9, <2>3
      <4> QED
        BY <4>1
    <3>2. a \in i .. Len(t) /\ k = Len(r) + (a - i + 1)
      BY <1>5, <1>9, <3>1
    <3> QED
      BY <1>7, <1>8, <3>1, <3>2
  <2> QED
    BY <1>5, <1>7, <1>9, <2>1, <2>2, <2>3
<1>12. u = v
  BY <1>7, <1>8, <1>10, <1>11, SameBytes
<1> QED
  BY <1>1, <1>4, <1>6, <1>12

\* Putting y in place of characters does so in the text.
LEMMA ExchangedRest ==
  ASSUME NEW r, r \in Seq(Byte), NEW t, t \in Seq(Byte), NEW i, i \in 1 .. Len(t),
         NEW w \in Nat, NEW y, y \in Seq(Byte), NEW m, Exchanged(m, t, i, w, y)
  PROVE  PieceSwapped(Rest(r, t, i), Rest(r \o m.put, t, m.next), Len(r) + w, m.next - i - w, y)
<1>1. PICK e, x, d : e = m.next /\ x = m.put /\ d = Len(y)
  OBVIOUS
<1>2. /\ e \in 1 .. Len(t) + 1 /\ i + w < e /\ x = SubSeq(t, i, i + w - 1) \o y
      /\ AtCharacter(t, i + w) /\ AtCharacter(t, e)
  BY <1>1 DEF Exchanged
<1>3. /\ Len(r) \in Nat /\ Len(t) \in Nat /\ e \in Nat /\ i \in Nat /\ i >= 1 /\ e > i + w
      /\ e <= Len(t) + 1 /\ d \in Nat
  BY <1>1, <1>2
<1>4. PICK o : o = SubSeq(t, i, i + w - 1)
  OBVIOUS
<1>5. o \in Seq(Byte) /\ Len(o) = w /\ \A k \in 1 .. w : o[k] = t[i + k - 1]
  <2>1. i + w - 1 <= Len(t)
    BY <1>3
  <2> QED
    BY <1>3, <1>4, <2>1
<1>6. /\ x \in Seq(Byte) /\ Len(x) = w + d /\ \A k \in 1 .. w : x[k] = t[i + k - 1]
      /\ \A k \in 1 .. d : x[w + k] = y[k]
  <2>1. x = o \o y
    BY <1>2, <1>4
  <2>2. /\ x \in Seq(Byte) /\ Len(x) = Len(o) + Len(y)
        /\ \A k \in 1 .. Len(o) : x[k] = o[k]
        /\ \A k \in 1 .. Len(y) : x[Len(o) + k] = y[k]
    <3>1. JoinOf(o \o y, o, y)
      BY <1>5, JoinedBytes
    <3> QED
      BY Zenon, <2>1, <3>1 DEF JoinOf
  <2> QED
    BY Zenon, <1>1, <1>5, <2>2
<1>7. PICK z : z = r \o x
  OBVIOUS
<1>8. /\ z \in Seq(Byte) /\ Len(z) = Len(r) + (w + d)
      /\ \A k \in 1 .. Len(r) : z[k] = r[k]
      /\ \A k \in 1 .. w + d : z[Len(r) + k] = x[k]
  <2>1. /\ z \in Seq(Byte) /\ Len(z) = Len(r) + Len(x)
        /\ \A k \in 1 .. Len(r) : z[k] = r[k]
        /\ \A k \in 1 .. Len(x) : z[Len(r) + k] = x[k]
    <3>1. JoinOf(r \o x, r, x)
      BY <1>6, JoinedBytes
    <3> QED
      BY Zenon, <1>7, <3>1 DEF JoinOf
  <2> QED
    BY Zenon, <1>6, <2>1
<1>9. PICK u, v : u = Rest(r, t, i) /\ v = Rest(z, t, e)
  OBVIOUS
<1>10. /\ u \in Seq(Byte) /\ Len(u) = Len(r) + (Len(t) - i + 1)
       /\ \A k \in 1 .. Len(r) : u[k] = r[k]
       /\ \A k \in i .. Len(t) : u[Len(r) + (k - i + 1)] = t[k]
  <2>1. i \in 1 .. Len(t) + 1
    OBVIOUS
  <2>2. RestOf(Rest(r, t, i), r, t, i)
    BY <2>1, RestBytes
  <2> QED
    BY Zenon, <1>9, <2>2 DEF RestOf
<1>11. /\ v \in Seq(Byte) /\ Len(v) = Len(z) + (Len(t) - e + 1)
       /\ \A k \in 1 .. Len(z) : v[k] = z[k]
       /\ \A k \in e .. Len(t) : v[Len(z) + (k - e + 1)] = t[k]
  <2>1. RestOf(Rest(z, t, e), z, t, e)
    BY <1>2, <1>8, RestBytes
  <2> QED
    BY Zenon, <1>9, <2>1 DEF RestOf
<1>12. PICK n, c : n = Len(r) + w /\ c = e - i - w
  OBVIOUS
<1>13. n \in Nat /\ c \in Nat /\ c >= 1 /\ n + c <= Len(u) /\ Len(v) = Len(u) - c + d
  <2>1. PICK a, b : a = Len(r) /\ b = Len(t)
    OBVIOUS
  <2>2. Len(u) = a + (b - i + 1) /\ Len(v) = (a + (w + d)) + (b - e + 1) /\ n = a + w
    BY Zenon, <1>8, <1>10, <1>11, <1>12, <2>1
  <2>3. a \in Nat /\ b \in Nat /\ e <= b + 1
    BY Zenon, <1>3, <2>1
  <2> QED
    BY ONLY <1>3, <1>12, <2>2, <2>3, w \in Nat
<1>14. ASSUME NEW k \in 1 .. n PROVE v[k] = u[k]
  <2>0. k \in 1 .. Len(z)
    BY <1>3, <1>8, <1>12
  <2>1. CASE k <= Len(r)
    <3>1. k \in 1 .. Len(r)
      BY <1>3, <2>1
    <3> QED
      BY <1>8, <1>10, <1>11, <2>0, <3>1
  <2>2. CASE k > Len(r)
    <3>1. PICK q \in 1 .. w : k = Len(r) + q
      <4>1. k - Len(r) \in 1 .. w /\ k = Len(r) + (k - Len(r))
        BY <1>3, <1>12, <2>2
      <4> QED
        BY <4>1
    <3>2. PICK a \in i .. Len(t) : a = i + q - 1
      BY <1>3, <3>1
    <3>3. Len(r) + (a - i + 1) = k /\ q \in 1 .. w + d
      BY <1>3, <3>1, <3>2
    <3>4. u[k] = t[a]
      BY <1>10, <3>2, <3>3
    <3>5. v[k] = t[a]
      BY <1>6, <1>8, <1>11, <2>0, <3>1, <3>2, <3>3
    <3> QED
      BY <3>4, <3>5
  <2> QED
    BY <1>3, <2>1, <2>2
<1>15. ASSUME NEW k \in 1 .. d PROVE v[n + k] = y[k]
  <2>1. PICK q : q = w + k
    OBVIOUS
  <2>2. q \in 1 .. w + d /\ n + k = Len(r) + q /\ Len(r) + q \in 1 .. Len(z)
    BY <1>3, <1>8, <1>12, <2>1
  <2>3. v[n + k] = z[Len(r) + q]
    BY <1>11, <2>2
  <2>4. z[Len(r) + q] = x[q]
    BY <1>8, <2>2
  <2> QED
    BY <1>6, <2>1, <2>3, <2>4
<1>16. ASSUME NEW k \in n + c + 1 .. Len(u) PROVE v[k - c + d] = u[k]
  <2>1. PICK a \in e .. Len(t) : k = Len(r) + (a - i + 1)
    <3>1. k - Len(r) + i - 1 \in e .. Len(t) /\ k = Len(r) + ((k - Len(r) + i - 1) - i + 1)
      BY <1>3, <1>10, <1>12, <1>13
    <3> QED
      BY <3>1
  <2>2. a \in i .. Len(t) /\ k - c + d = Len(z) + (a - e + 1)
    BY <1>3, <1>8, <1>12, <2>1
  <2> QED
    BY <1>10, <1>11, <2>1, <2>2
<1>17. AtCharacter(u, n + 1)
  <2>1. PICK a \in i .. Len(t) : a = i + w
    BY <1>3
  <2>2. Len(r) + (a - i + 1) = n + 1 /\ a \in 1 .. Len(t)
    BY <1>3, <1>12, <2>1
  <2>3. u[n + 1] = t[a]
    BY <1>10, <2>1, <2>2
  <2> QED
    BY <1>2, <2>1, <2>2, <2>3 DEF AtCharacter
<1>18. AtCharacter(u, n + c + 1)
  <2>1. CASE e <= Len(t)
    <3>1. e \in i .. Len(t) /\ Len(r) + (e - i + 1) = n + c + 1 /\ e \in 1 .. Len(t)
      BY <1>3, <1>12, <2>1
    <3>2. u[n + c + 1] = t[e]
      BY <1>10, <3>1
    <3> QED
      BY <1>2, <3>1, <3>2 DEF AtCharacter
  <2>2. CASE e = Len(t) + 1
    <3>1. n + c + 1 > Len(u)
      BY <1>3, <1>10, <1>12, <2>2
    <3> QED
      BY <1>13, <3>1 DEF AtCharacter
  <2> QED
    BY <1>3, <2>1, <2>2
<1>19. PieceSwapped(u, v, n, c, y)
  BY <1>1, <1>13, <1>14, <1>15, <1>16, <1>17, <1>18 DEF PieceSwapped, Swapped
<1> QED
  BY <1>1, <1>7, <1>9, <1>12, <1>19
-----------------------------------------------------------------------------
\* What the loops put in place of characters.
Pieces == {<<>>, <<10>>, <<Blank>>, <<Tag>>, <<Keep>>, Comma}

\* An ASCII character is one byte.
LEMMA AsciiByte ==
  ASSUME NEW b \in 1 .. 127
  PROVE  Utf8CharLen(b) = 1 /\ ~Continues(b)
BY SMT DEF Utf8CharLen, Continues

\* They are whole.
LEMMA PiecesWhole ==
  ASSUME NEW y \in Pieces
  PROVE  y \in Seq(Byte) /\ Whole(y)
<1>1. y \in Seq(Byte)
  BY SingleBytes, EmptySeq DEF Pieces
<1>2. Whole(<<>>)
  BY DEF Whole
<1>3. ASSUME NEW b \in 1 .. 127 PROVE Whole(<<b>>)
  <2>1. Utf8CharLen(b) = 1 /\ ~Continues(b)
    BY AsciiByte
  <2>2. PICK t : t = <<b>>
    OBVIOUS
  <2>3. Len(t) = 1 /\ t[1] = b
    BY <2>2
  <2>4. \A i \in 1 .. Len(t) : i = 1
    BY <2>3
  <2>5. \A k : k \notin 1 + 1 .. 1 + 1 - 1
    OBVIOUS
  <2>6. Whole(t)
    BY <2>1, <2>3, <2>4, <2>5 DEF Whole
  <2> QED
    BY <2>2, <2>6
<1>4. Whole(Comma)
  <2>1. PICK t : t = Comma
    OBVIOUS
  <2>2. Len(t) = 3 /\ t[1] = 239 /\ t[2] = 188 /\ t[3] = 140
    BY <2>1 DEF Comma
  <2>3. Utf8CharLen(239) = 3 /\ ~Continues(239) /\ Continues(188) /\ Continues(140)
    BY SMT DEF Utf8CharLen, Continues
  <2>4. ASSUME NEW k \in 1 + 1 .. 1 + 3 - 1 PROVE k <= Len(t) /\ Continues(t[k])
    <3>1. k = 2 \/ k = 3
      OBVIOUS
    <3> QED
      BY <2>2, <2>3, <3>1
  <2>5. HeadOf(t, 2, 1) /\ HeadOf(t, 3, 1)
    <3>1. \A k \in 1 + 1 .. 2 : k \in 1 + 1 .. 1 + 3 - 1
      OBVIOUS
    <3>2. \A k \in 1 + 1 .. 3 : k \in 1 + 1 .. 1 + 3 - 1
      OBVIOUS
    <3>3. 2 < 1 + 3 /\ 3 < 1 + 3
      OBVIOUS
    <3> QED
      BY <2>2, <2>3, <2>4, <3>1, <3>2, <3>3 DEF HeadOf
  <2>6. ASSUME NEW i \in 1 .. Len(t)
        PROVE  IF Continues(t[i]) THEN \E h \in 1 .. i - 1 : HeadOf(t, i, h)
               ELSE \A k \in i + 1 .. i + Utf8CharLen(t[i]) - 1 : k <= Len(t) /\ Continues(t[k])
    <3>1. CASE i = 1
      BY <2>2, <2>3, <2>4, <3>1
    <3>2. CASE i = 2
      <4>1. 1 \in 1 .. i - 1 /\ HeadOf(t, i, 1) /\ Continues(t[i])
        BY <2>2, <2>3, <2>5, <3>2
      <4> QED
        BY <4>1
    <3>3. CASE i = 3
      <4>1. 1 \in 1 .. i - 1 /\ HeadOf(t, i, 1) /\ Continues(t[i])
        BY <2>2, <2>3, <2>5, <3>3
      <4> QED
        BY <4>1
    <3> QED
      BY <2>2, <3>1, <3>2, <3>3
  <2> QED
    BY <2>1, <2>6 DEF Whole
<1>5. 10 \in 1 .. 127 /\ Blank \in 1 .. 127 /\ Tag \in 1 .. 127 /\ Keep \in 1 .. 127
  BY DEF Blank, Tag, Keep
<1>6. Whole(<<10>>) /\ Whole(<<Blank>>) /\ Whole(<<Tag>>) /\ Whole(<<Keep>>)
  BY <1>3, <1>5
<1> QED
  BY <1>1, <1>2, <1>4, <1>6 DEF Pieces

\* A turn of a stage that is not lost in the text either copies or exchanges.
Turned(m, t, i) == Copied(m, t, i) \/ \E w \in Nat, y \in Pieces : Exchanged(m, t, i, w, y)

\* An exchange from the pointer on.
LEMMA ExchangedHere ==
  ASSUME NEW t, t \in Seq(Byte), NEW i, i \in 1 .. Len(t), NEW m, NEW y, y \in Pieces,
         m.put = y, i < m.next, m.next \in 1 .. Len(t) + 1,
         ~Continues(t[i]), AtCharacter(t, m.next)
  PROVE  Exchanged(m, t, i, 0, y)
<1>1. y \in Seq(Byte)
  BY PiecesWhole
<1>2. SubSeq(t, i, i + 0 - 1) = <<>>
  <2>1. PICK e : e = i + 0 - 1
    OBVIOUS
  <2>2. i > e /\ i \in Int /\ e \in Int
    BY <2>1
  <2> QED
    BY <2>1, <2>2
<1>3. <<>> \o y = y
  BY <1>1
<1>4. i + 0 = i
  OBVIOUS
<1> QED
  BY <1>2, <1>3, <1>4 DEF Exchanged, AtCharacter

\* Copy, where it stays in the text.
LEMMA CopyCopies ==
  ASSUME NEW t, t \in Seq(Byte), NEW i, i \in 1 .. Len(t), NEW n \in Nat, i + n <= Len(t) + 1
  PROVE  Copied(Copy(t, i, n), t, i)
<1>1. Copy(t, i, n).next = i + n
  BY DEF Copy
<1>2. i + n - 1 <= Len(t)
  OBVIOUS
<1>3. Copy(t, i, n).put = SubSeq(t, i, (i + n) - 1)
  BY <1>2 DEF Copy
<1>4. i + n \in i .. Len(t) + 1
  OBVIOUS
<1> QED
  BY <1>1, <1>3, <1>4 DEF Copied

\* Where a character of three bytes begins, the next one is three bytes further.
LEMMA BehindThree ==
  ASSUME NEW t, t \in Seq(Byte), Whole(t), NEW i, i \in 1 .. Len(t), t[i] \in 224 .. 239
  PROVE  AtCharacter(t, i + 3) /\ i + 3 \in 1 .. Len(t) + 1 /\ ~Continues(t[i])
<1>1. PICK b : b = t[i]
  OBVIOUS
<1>2. Utf8CharLen(b) = 3 /\ ~Continues(b)
  <2>1. b \in 224 .. 239
    BY <1>1
  <2>2. b \in Int /\ b >= 224 /\ b <= 239 /\ b \notin 128 .. 191
    BY SMT, <2>1
  <2>3. b \notin 192 .. 223 /\ ~(b < 192)
    BY SMT, <2>2
  <2>4. Utf8CharLen(b) = 3
    BY SMT, <2>1, <2>3 DEF Utf8CharLen
  <2> QED
    BY <2>2, <2>4 DEF Continues
<1>3. PICK n : n = Utf8CharLen(t[i])
  OBVIOUS
<1>4. AtCharacter(t, i + n) /\ i + n <= Len(t) + 1 /\ n = 3
  BY <1>1, <1>2, <1>3, NextCharacter
<1> QED
  BY <1>1, <1>2, <1>4

\* Behind any ASCII character one begins.
LEMMA BehindOne ==
  ASSUME NEW t, t \in Seq(Byte), Whole(t), NEW i, i \in 1 .. Len(t), t[i] < 128
  PROVE  AtCharacter(t, i + 1) /\ ~Continues(t[i])
<1>1. PICK b \in 1 .. 255 : b = t[i]
  BY ByteAt
<1>2. b \in 1 .. 127
  <2>1. b < 128
    BY <1>1
  <2> QED
    BY SMT, <2>1
<1>3. Utf8CharLen(b) = 1 /\ ~Continues(b)
  BY <1>2, AsciiByte
<1>4. PICK n : n = Utf8CharLen(t[i])
  OBVIOUS
<1>5. AtCharacter(t, i + n) /\ n = 1
  BY <1>1, <1>3, <1>4, NextCharacter
<1> QED
  BY <1>1, <1>3, <1>5

\* A turn over the line breaks.
LEMMA BreaksTurn ==
  ASSUME NEW t, t \in Seq(Byte), Whole(t), NEW i, i \in 1 .. Len(t), NEW m, m = Breaks(t, i)
  PROVE  /\ \A k \in 1 .. Len(m.put) : m.put[k] # 13
         /\ \/ Copied(m, t, i)
            \/ \E y \in {<<10>>, <<Blank>>} : Exchanged(m, t, i, 0, y)
<1>0. i \in Nat /\ i >= 1 /\ i <= Len(t) /\ Len(t) \in Nat
  OBVIOUS
<1>1. CASE t[i] = 13
  <2>1. m = [put |-> <<10>>, next |-> IF At(t, i + 1) = 10 THEN i + 2 ELSE i + 1]
    BY <1>1 DEF Breaks
  <2>2. m.put = <<10>> /\ m.next = IF At(t, i + 1) = 10 THEN i + 2 ELSE i + 1
    BY <2>1
  <2>3. AtCharacter(t, i + 1) /\ ~Continues(t[i])
    BY <1>1, BehindOne
  <2>4. At(t, i + 1) = 10 => AtCharacter(t, i + 2) /\ i + 2 <= Len(t) + 1
    <3>1. SUFFICES ASSUME At(t, i + 1) = 10 PROVE AtCharacter(t, i + 2) /\ i + 2 <= Len(t) + 1
      OBVIOUS
    <3>2. PICK j : j = i + 1
      OBVIOUS
    <3>3. j \in 1 .. Len(t) /\ t[j] < 128
      BY <1>0, <3>1, <3>2 DEF At
    <3>4. AtCharacter(t, j + 1)
      BY <3>3, BehindOne
    <3>5. j + 1 = i + 2
      BY <1>0, <3>2
    <3> QED
      BY <1>0, <3>2, <3>3, <3>4, <3>5
  <2>5. AtCharacter(t, m.next) /\ i < m.next /\ m.next \in 1 .. Len(t) + 1
    BY <1>0, <2>2, <2>3, <2>4
  <2>6. PICK y : y = <<10>>
    OBVIOUS
  <2>7. y \in Pieces /\ m.put = y
    BY <2>2, <2>6 DEF Pieces
  <2>8. Exchanged(m, t, i, 0, y)
    BY <2>3, <2>5, <2>7, ExchangedHere
  <2> QED
    BY <2>2, <2>6, <2>8
<1>2. CASE t[i] = 227 /\ At(t, i + 1) = 128 /\ At(t, i + 2) = 128
  <2>1. m = [put |-> <<Blank>>, next |-> i + 3]
    BY <1>2 DEF Breaks
  <2>2. m.put = <<Blank>> /\ m.next = i + 3
    BY <2>1
  <2>3. AtCharacter(t, m.next) /\ m.next \in 1 .. Len(t) + 1 /\ ~Continues(t[i]) /\ i < m.next
    BY <1>0, <1>2, <2>2, BehindThree
  <2>6. PICK y : y = <<Blank>>
    OBVIOUS
  <2>7. y \in Pieces /\ m.put = y
    BY <2>2, <2>6 DEF Pieces
  <2>8. Exchanged(m, t, i, 0, y)
    BY <2>3, <2>7, ExchangedHere
  <2>9. \A k \in 1 .. Len(m.put) : m.put[k] # 13
    BY <2>2 DEF Blank
  <2> QED
    BY <2>6, <2>8, <2>9
<1>3. CASE t[i] # 13 /\ ~(t[i] = 227 /\ At(t, i + 1) = 128 /\ At(t, i + 2) = 128)
  <2>1. m = Copy(t, i, 1)
    BY <1>3 DEF Breaks
  <2>2. Copied(m, t, i)
    BY <1>0, <2>1, CopyCopies
  <2>3. m.put = SubSeq(t, i, i)
    BY <1>0, <2>1 DEF Copy
  <2>4. \A k \in 1 .. Len(m.put) : m.put[k] # 13
    BY <1>0, <1>3, <2>3
  <2> QED
    BY <2>2, <2>4
<1> QED
  BY <1>1, <1>2, <1>3

\* The bytes that a turn drops do not end a URL.
Drops(m, t, i) ==
    Exchanged(m, t, i, 0, <<>>) /\ \A k \in i .. m.next - 1 : t[k] \notin {10, 13, Blank, 227}

\* A turn over the zero-width characters.
LEMMA ZeroWidthTurn ==
  ASSUME NEW t, t \in Seq(Byte), Whole(t), NEW i, i \in 1 .. Len(t), NEW m, m = ZeroWidth(t, i)
  PROVE  Copied(m, t, i) \/ Drops(m, t, i)
<1>0. i \in Nat /\ i >= 1 /\ i <= Len(t) /\ Len(t) \in Nat
  OBVIOUS
<1>1. CASE ~(\/ t[i] = 226 /\ At(t, i + 1) = 128 /\ At(t, i + 2) \in 139 .. 141
             \/ t[i] = 239 /\ At(t, i + 1) = 187 /\ At(t, i + 2) = 191)
  <2>1. m = Copy(t, i, 1)
    BY <1>1 DEF ZeroWidth
  <2> QED
    BY <1>0, <2>1, CopyCopies
<1>2. CASE \/ t[i] = 226 /\ At(t, i + 1) = 128 /\ At(t, i + 2) \in 139 .. 141
           \/ t[i] = 239 /\ At(t, i + 1) = 187 /\ At(t, i + 2) = 191
  <2>1. m = [put |-> <<>>, next |-> i + 3]
    BY <1>2 DEF ZeroWidth
  <2>2. m.put = <<>> /\ m.next = i + 3
    BY <2>1
  <2>3. AtCharacter(t, i + 3) /\ i + 3 \in 1 .. Len(t) + 1 /\ ~Continues(t[i])
    <3>1. t[i] \in 224 .. 239
      BY <1>2
    <3> QED
      BY <3>1, BehindThree
  <2>4. Exchanged(m, t, i, 0, <<>>)
    <3>1. PICK y : y = <<>>
      OBVIOUS
    <3>2. y \in Pieces /\ m.put = y
      BY <2>2, <3>1 DEF Pieces
    <3>3. AtCharacter(t, m.next) /\ m.next \in 1 .. Len(t) + 1 /\ i < m.next
      BY <1>0, <2>2, <2>3
    <3>4. Exchanged(m, t, i, 0, y)
      BY <2>3, <3>2, <3>3, ExchangedHere
    <3> QED
      BY <3>1, <3>4
  <2>5. ASSUME NEW k \in i .. m.next - 1 PROVE t[k] \notin {10, 13, Blank, 227}
    <3>1. k = i \/ k = i + 1 \/ k = i + 2
      BY <1>0, <2>2
    <3>2. i + 1 <= Len(t) /\ i + 2 <= Len(t)
      BY <1>0, <2>3
    <3>3. t[k] \in {226, 239, 128, 187, 191} \cup 139 .. 141
      BY <1>2, <3>1, <3>2 DEF At
    <3> QED
      BY <3>3 DEF Blank
  <2> QED
    BY <2>4, <2>5 DEF Drops
<1> QED
  BY <1>1, <1>2

\* A turn over the control characters.
LEMMA ControlTurn ==
  ASSUME NEW t, t \in Seq(Byte), Whole(t), NEW i, i \in 1 .. Len(t), t[i] # 13,
         NEW m, m = Control(t, i)
  PROVE  Copied(m, t, i) \/ Drops(m, t, i)
<1>0. i \in Nat /\ i >= 1 /\ i <= Len(t) /\ Len(t) \in Nat
  OBVIOUS
<1>1. CASE t[i] \in {9, 10} \/ t[i] >= 32
  <2>0. PICK n \in 1 .. 4 : n = Utf8CharLen(t[i])
    BY CharLen
  <2>1. m = [Copy(t, i, n) EXCEPT !.next = IF @ > Len(t) THEN Len(t) + 1 ELSE @]
    BY <1>1, <2>0 DEF Control
  <2>2. /\ m.put = SubSeq(t, i, IF i + n - 1 <= Len(t) THEN i + n - 1 ELSE Len(t))
        /\ m.next = IF i + n > Len(t) THEN Len(t) + 1 ELSE i + n
    BY <2>1 DEF Copy
  <2>3. (IF i + n - 1 <= Len(t) THEN i + n - 1 ELSE Len(t)) = m.next - 1
    BY <1>0, <2>2
  <2>4. m.next \in i .. Len(t) + 1
    BY <1>0, <2>2
  <2> QED
    BY <2>2, <2>3, <2>4 DEF Copied
<1>2. CASE ~(t[i] \in {9, 10} \/ t[i] >= 32)
  <2>1. m.put = <<>> /\ m.next = i + 1
    BY <1>2 DEF Control
  <2>2. PICK b \in 1 .. 255 : b = t[i]
    BY ByteAt
  <2>3. b < 32 /\ b # 10 /\ b # 13
    BY <1>2, <2>2
  <2>4. AtCharacter(t, i + 1) /\ ~Continues(t[i])
    BY <2>2, <2>3, BehindOne
  <2>5. Exchanged(m, t, i, 0, <<>>)
    <3>1. PICK y : y = <<>>
      OBVIOUS
    <3>2. y \in Pieces /\ m.put = y
      BY <2>1, <3>1 DEF Pieces
    <3>3. AtCharacter(t, m.next) /\ m.next \in 1 .. Len(t) + 1 /\ i < m.next
      BY <1>0, <2>1, <2>4
    <3>4. Exchanged(m, t, i, 0, y)
      BY <2>4, <3>2, <3>3, ExchangedHere
    <3> QED
      BY <3>1, <3>4
  <2>6. \A k \in i .. m.next - 1 : k = i
    BY <1>0, <2>1
  <2>7. t[i] \notin {10, 13, Blank, 227}
    BY <2>2, <2>3 DEF Blank
  <2> QED
    BY <2>5, <2>6, <2>7 DEF Drops
<1> QED
  BY <1>1, <1>2

\* A run of the URL pattern is the interval behind the scheme up to the first
\* byte that it does not match.
LEMMA UrlRunEnds ==
  ASSUME NEW t, t \in Seq(Byte), NEW i, i \in 1 .. Len(t), NEW n, n = 1 + Cardinality(UrlRun(t, i))
  PROVE  /\ n \in Nat /\ n >= 1 /\ i + n <= Len(t) + 1
         /\ \A k \in i + 1 .. i + n - 1 : ~IsSpace(t[k]) /\ t[k] \notin UrlEnds
         /\ i + n <= Len(t) => IsSpace(t[i + n]) \/ t[i + n] \in UrlEnds
<1> DEFINE Runs(k) == ~IsSpace(t[k]) /\ t[k] \notin UrlEnds
           T == {j \in i + 1 .. Len(t) + 1 : j = Len(t) + 1 \/ ~Runs(j)}
<1>0. Len(t) \in Nat /\ i \in Nat /\ i >= 1 /\ i <= Len(t)
  OBVIOUS
<1>1. Len(t) + 1 \in T /\ T \subseteq Nat
  BY <1>0
<1>2. PICK e \in T : \A y \in T : e <= y
  <2> HIDE DEF T
  <2> QED
    BY <1>1, LeastNumber
<1>3. e \in i + 1 .. Len(t) + 1 /\ (e = Len(t) + 1 \/ ~Runs(e))
  BY <1>2
<1>4. ASSUME NEW q \in i + 1 .. e - 1 PROVE Runs(q)
  <2>1. q \in i + 1 .. Len(t) + 1 /\ q < e /\ q # Len(t) + 1 /\ q \in Nat /\ e \in Nat
    BY <1>0, <1>3
  <2>2. q \notin T
    <3> HIDE DEF T
    <3> QED
      BY <1>2, <2>1
  <2> HIDE DEF Runs
  <2> QED
    BY <2>1, <2>2
<1> DEFINE run == UrlRun(t, i)
<1>5. run = i + 1 .. e - 1
  <2>1. ASSUME NEW j \in run PROVE j \in i + 1 .. e - 1
    <3>1. j \in i + 1 .. Len(t) /\ \A k \in i + 1 .. j : Runs(k)
      BY DEF UrlRun
    <3> HIDE DEF Runs
    <3>2. ~(e <= j)
      BY <1>0, <1>3, <3>1
    <3> QED
      BY <1>0, <1>3, <3>1, <3>2
  <2>2. ASSUME NEW j \in i + 1 .. e - 1 PROVE j \in run
    <3>1. j \in i + 1 .. Len(t) /\ \A k \in i + 1 .. j : k \in i + 1 .. e - 1
      BY <1>0, <1>3
    <3>2. \A k \in i + 1 .. j : Runs(k)
      BY <1>4, <3>1
    <3> QED
      BY <3>1, <3>2 DEF UrlRun
  <2> HIDE DEF run
  <2> QED
    BY <2>1, <2>2
<1>6. Cardinality(i + 1 .. e - 1) = e - 1 - i
  <2>1. PICK a, b : a = i + 1 /\ b = e - 1
    OBVIOUS
  <2>2. a \in Int /\ b \in Int
    BY <1>0, <1>3, <2>1
  <2>3. Cardinality(a .. b) = IF a > b THEN 0 ELSE b - a + 1
    BY <2>2, FS_Interval
  <2> QED
    BY <1>0, <1>3, <2>1, <2>3
<1>7. n = e - i
  <2> HIDE DEF run
  <2>1. n = 1 + Cardinality(run)
    BY DEF run
  <2> QED
    BY <1>0, <1>3, <1>5, <1>6, <2>1
<1>8. i + n = e /\ n \in Nat /\ n >= 1
  BY <1>0, <1>3, <1>7
<1>9. i + n <= Len(t) + 1
  BY <1>0, <1>3, <1>8
<1>10. i + n <= Len(t) => ~Runs(i + n)
  <2> HIDE DEF Runs
  <2> QED
    BY <1>0, <1>3, <1>8
<1>11. \A k \in i + 1 .. i + n - 1 : Runs(k)
  <2> HIDE DEF Runs
  <2> QED
    BY <1>4, <1>8
<1> QED
  BY <1>8, <1>9, <1>10, <1>11

\* Unless the text has a place where it would end within a character, the run
\* ends where a character does.
LEMMA UrlEndsWhole ==
  ASSUME NEW t, t \in Seq(Byte), Whole(t), ~UrlCuts(t), NEW i, i \in 1 .. Len(t), t[i] = Scheme,
         NEW n, n = 1 + Cardinality(UrlRun(t, i))
  PROVE  AtCharacter(t, i + n)
<1>0. Len(t) \in Nat /\ i \in Nat /\ i >= 1 /\ i <= Len(t)
  OBVIOUS
<1>1. /\ n \in Nat /\ n >= 1 /\ i + n <= Len(t) + 1
      /\ \A k \in i + 1 .. i + n - 1 : ~IsSpace(t[k]) /\ t[k] \notin UrlEnds
      /\ i + n <= Len(t) => IsSpace(t[i + n]) \/ t[i + n] \in UrlEnds
  BY UrlRunEnds
<1>2. PICK e : e = i + n
  OBVIOUS
<1>3. SUFFICES ASSUME e \in 1 .. Len(t), Continues(t[e]) PROVE FALSE
  BY <1>2 DEF AtCharacter
<1>4. PICK h \in 1 .. e - 1 : HeadOf(t, e, h)
  BY <1>3 DEF Whole
<1>5. ~Continues(t[h]) /\ e < h + Utf8CharLen(t[h]) /\ \A k \in h + 1 .. e : Continues(t[k])
  BY <1>4 DEF HeadOf
<1>6. Utf8CharLen(t[h]) \in 1 .. 4 /\ h \in Nat /\ h >= 1 /\ h < e /\ e \in Nat /\ e > i
  <2>1. Utf8CharLen(t[h]) \in 1 .. 4
    BY CharLen
  <2>2. e \in Nat /\ e > i
    <3>1. n \in Nat /\ n >= 1
      BY <1>1
    <3> QED
      BY ONLY <1>0, <1>2, <3>1
  <2> QED
    BY <1>4, <2>1, <2>2
<1>7. Utf8CharLen(Scheme) = 1 /\ ~Continues(Scheme)
  <2>1. Scheme \in 1 .. 127
    BY DEF Scheme
  <2> QED
    BY <2>1, AsciiByte
<1>8. h > i
  <2>1. ~(h < i)
    <3>1. h < i => i \in h + 1 .. e
      BY <1>0, <1>6
    <3> QED
      BY <1>5, <1>7, <3>1
  <2>2. h # i
    BY <1>0, <1>1, <1>2, <1>5, <1>7
  <2> QED
    BY <1>0, <1>6, <2>1, <2>2
<1>9. \A k \in i + 1 .. h : k \in i + 1 .. i + n - 1
  BY <1>0, <1>1, <1>2, <1>6
<1>10. ASSUME NEW k \in i + 1 .. h PROVE ~BreaksUrl(t, k)
  <2>1. ~IsSpace(t[k]) /\ t[k] \notin UrlEnds
    BY <1>1, <1>9
  <2>2. t[k] \notin {10, 13, Blank} /\ t[k] # 227
    BY <2>1 DEF IsSpace, UrlEnds
  <2> QED
    BY <2>2 DEF BreaksUrl, IdeographicAt
<1>11. t[h] \notin UrlEnds
  <2>1. h \in i + 1 .. i + n - 1
    BY <1>0, <1>1, <1>2, <1>6, <1>8
  <2> QED
    BY <1>1, <2>1
<1>12. At(t, e) \in UrlEnds
  <2>1. ~IsSpace(t[e])
    <3>1. PICK b : b = t[e] /\ b \in 128 .. 191
      BY <1>3 DEF Continues
    <3>2. b \notin {9, 10, 11, 12, 13, 32}
      <4>1. b \in 128 .. 191
        BY <3>1
      <4> QED
        BY SMT, <4>1
    <3> QED
      BY <3>1, <3>2 DEF IsSpace, Blank
  <2>2. e <= Len(t) /\ At(t, e) = t[e]
    BY <1>3 DEF At
  <2> QED
    BY <1>1, <1>2, <2>1, <2>2
<1>13. e \in h + 1 .. h + Utf8CharLen(t[h]) - 1
  BY <1>5, <1>6
<1>14. CutAt(t, h)
  BY <1>5, <1>11, <1>12, <1>13 DEF CutAt
<1>15. h \in 1 .. Len(t)
  BY <1>0, <1>3, <1>6
<1>16. UrlCuts(t)
  BY <1>8, <1>10, <1>14, <1>15 DEF UrlCuts
<1> QED
  BY <1>16

\* A turn of the search for URLs.
LEMMA UrlTurn ==
  ASSUME NEW t, t \in Seq(Byte), Whole(t), ~UrlCuts(t), NEW i, i \in 1 .. Len(t),
         NEW m, m = Url(t, i)
  PROVE  Turned(m, t, i)
<1>1. PICK n : n = 1 + Cardinality(UrlRun(t, i))
  OBVIOUS
<1>2. n \in Nat /\ n >= 1 /\ i + n <= Len(t) + 1
  BY Zenon, <1>1, UrlRunEnds
<1>3. Copied(Copy(t, i, 1), t, i) /\ Copied(Copy(t, i, n), t, i)
  <2>1. i + 1 <= Len(t) + 1
    OBVIOUS
  <2> QED
    BY <1>2, <2>1, CopyCopies
<1>4. \/ m = Copy(t, i, 1)
      \/ m = Copy(t, i, n)
      \/ m = [put |-> <<Tag>>, next |-> i + n] /\ t[i] = Scheme
  <2>1. CASE t[i] # Scheme \/ n = 1
    BY <1>1, <2>1 DEF Url
  <2>2. CASE ~(t[i] # Scheme \/ n = 1) /\ i > 1 /\ (IsAlnum(t[i - 1]) \/ t[i - 1] = Under)
    BY <1>1, <2>2 DEF Url
  <2>3. CASE ~(t[i] # Scheme \/ n = 1) /\ ~(i > 1 /\ (IsAlnum(t[i - 1]) \/ t[i - 1] = Under))
    BY <1>1, <2>3 DEF Url
  <2> QED
    BY <2>1, <2>2, <2>3
<1>5. CASE m = [put |-> <<Tag>>, next |-> i + n] /\ t[i] = Scheme
  <2>1. m.put = <<Tag>> /\ m.next = i + n
    BY <1>5
  <2>2. AtCharacter(t, i + n)
    BY Zenon, <1>1, <1>5, UrlEndsWhole
  <2>3. ~Continues(t[i])
    BY <1>5, AsciiByte DEF Scheme
  <2>4. PICK y : y = <<Tag>>
    OBVIOUS
  <2>5. y \in Pieces /\ m.put = y
    BY <2>1, <2>4 DEF Pieces
  <2>6. AtCharacter(t, m.next) /\ m.next \in 1 .. Len(t) + 1 /\ i < m.next
    BY <1>2, <2>1, <2>2
  <2>7. Exchanged(m, t, i, 0, y)
    BY <2>3, <2>5, <2>6, ExchangedHere
  <2> QED
    BY <2>5, <2>7 DEF Turned
<1> QED
  BY <1>3, <1>4, <1>5 DEF Turned

\* A turn over the underscores.
LEMMA UnderTurn ==
  ASSUME NEW t, t \in Seq(Byte), Whole(t), NEW i, i \in 1 .. Len(t),
         NEW m, m = VisibleUnderscores(t, i), m.next <= Len(t) + 1
  PROVE  Turned(m, t, i)
<1>1. CASE t[i] = Under
  <2>1. m.put = <<Blank>> /\ m.next = i + 1
    BY <1>1 DEF VisibleUnderscores
  <2>2. AtCharacter(t, i + 1) /\ ~Continues(t[i])
    BY <1>1, BehindOne DEF Under
  <2>3. PICK y : y = <<Blank>>
    OBVIOUS
  <2>4. y \in Pieces /\ m.put = y
    BY <2>1, <2>3 DEF Pieces
  <2>5. AtCharacter(t, m.next) /\ m.next \in 1 .. Len(t) + 1 /\ i < m.next
    BY <2>1, <2>2
  <2>6. Exchanged(m, t, i, 0, y)
    BY <2>2, <2>4, <2>5, ExchangedHere
  <2> QED
    BY <2>4, <2>6 DEF Turned
<1>2. CASE t[i] # Under
  <2>1. PICK n \in 1 .. 4 : n = Utf8CharLen(t[i])
    BY CharLen
  <2>2. m = Copy(t, i, n)
    BY <1>2, <2>1 DEF VisibleUnderscores
  <2>3. m.next = i + n
    BY <2>2 DEF Copy
  <2>4. n \in Nat /\ i + n <= Len(t) + 1
    BY <2>1, <2>3
  <2> QED
    BY <2>2, <2>4, CopyCopies DEF Turned
<1> QED
  BY <1>1, <1>2

\* Where SkipBlanks moves, there is a blank.
LEMMA FirstBlank ==
  ASSUME NEW t, t \in Seq(Byte), NEW i, i \in Nat, i >= 1, NEW e, e = SkipBlanks(t, i), e # i
  PROVE  i <= Len(t) /\ t[i] = Blank
<1> DEFINE run == {j \in i .. Len(t) : \A k \in i .. j : t[k] = Blank}
<1>1. e = i + Cardinality(run)
  BY DEF SkipBlanks
<1>2. run # {}
  <2>1. Cardinality({}) = 0
    BY FS_EmptySet
  <2>2. run = {} => e = i
    <3> HIDE DEF run
    <3>1. i + 0 = i
      OBVIOUS
    <3> QED
      BY <1>1, <2>1, <3>1
  <2> QED
    BY <2>2
<1>3. PICK j \in i .. Len(t) : \A k \in i .. j : t[k] = Blank
  BY <1>2
<1>4. i \in i .. j /\ i <= Len(t)
  BY <1>3
<1> QED
  BY <1>3, <1>4

\* A turn that copies a character and goes on behind ASCII characters.
LEMMA ExchangedBehind ==
  ASSUME NEW t, t \in Seq(Byte), NEW i, i \in 1 .. Len(t), NEW n \in 1 .. 4, NEW y, y \in Pieces,
         NEW m, m.put = Copy(t, i, n).put \o y, i + n < m.next, m.next \in 1 .. Len(t) + 1,
         t[i + n] \in {Blank, Hyphen}, AtCharacter(t, m.next)
  PROVE  Turned(m, t, i)
<1>1. i + n - 1 <= Len(t) /\ n \in Nat
  OBVIOUS
<1>2. Copy(t, i, n).put = SubSeq(t, i, i + n - 1)
  BY <1>1 DEF Copy
<1>3. ~Continues(t[i + n])
  <2>1. Blank \in 1 .. 127 /\ Hyphen \in 1 .. 127
    BY DEF Blank, Hyphen
  <2> QED
    BY <2>1, AsciiByte
<1>4. Exchanged(m, t, i, n, y)
  BY <1>2, <1>3 DEF Exchanged, AtCharacter
<1> QED
  BY <1>1, <1>4 DEF Turned

\* A turn of the first loop of NormalizeSpaces.
LEMMA JoinCjkTurn ==
  ASSUME NEW t, t \in Seq(Byte), Whole(t), NEW i, i \in 1 .. Len(t),
         NEW m, m = JoinCjk(t, i), m.next <= Len(t) + 1
  PROVE  Turned(m, t, i)
<1>1. PICK n \in 1 .. 4 : n = DecodeUtf8(t, i).len
  BY DecodeLen
<1>2. PICK k, e : k = i + n /\ e = SkipBlanks(t, k)
  OBVIOUS
<1>3. k \in Nat /\ k >= 1
  BY <1>1, <1>2
<1>4. e \in Nat /\ e >= k
  BY <1>2, <1>3, SkipBlanksType
<1>5. \/ m = Copy(t, i, n)
      \/ m.put = Copy(t, i, n).put /\ m.next = e /\ e <= Len(t)
  BY <1>1, <1>2 DEF JoinCjk, Copy
<1>6. CASE m = Copy(t, i, n)
  <2>1. n \in Nat /\ i + n <= Len(t) + 1
    BY <1>6 DEF Copy
  <2> QED
    BY <1>6, <2>1, CopyCopies DEF Turned
<1>7. CASE m.put = Copy(t, i, n).put /\ m.next = e /\ e <= Len(t) /\ e = k
  <2>1. n \in Nat /\ i + n <= Len(t) + 1
    BY <1>1, <1>2, <1>7
  <2>2. Copied(Copy(t, i, n), t, i) /\ Copy(t, i, n).next = i + n
    BY <2>1, CopyCopies DEF Copy
  <2>3. Copied(m, t, i)
    BY <1>2, <1>7, <2>2 DEF Copied
  <2> QED
    BY <2>3 DEF Turned
<1>8. CASE m.put = Copy(t, i, n).put /\ m.next = e /\ e <= Len(t) /\ e # k
  <2>1. k <= Len(t) /\ t[k] = Blank
    BY <1>2, <1>3, <1>8, FirstBlank
  <2>2. e - 1 \in 1 .. Len(t) /\ t[e - 1] = Blank
    BY <1>2, <1>3, <1>8, BehindBlank
  <2>3. AtCharacter(t, e)
    <3>1. PICK q : q = e - 1
      OBVIOUS
    <3>2. AtCharacter(t, q + 1)
      BY <2>2, <3>1, BehindAscii
    <3>3. q + 1 = e
      BY <1>4, <3>1
    <3> QED
      BY <3>2, <3>3
  <2>4. PICK y : y = <<>>
    OBVIOUS
  <2>5. y \in Pieces /\ m.put = Copy(t, i, n).put \o y
    <3>1. Copy(t, i, n).put \in Seq(Byte)
      BY DEF Copy
    <3>2. Copy(t, i, n).put \o <<>> = Copy(t, i, n).put
      BY <3>1
    <3> QED
      BY <1>8, <2>4, <3>2 DEF Pieces
  <2>6. i + n < m.next /\ m.next \in 1 .. Len(t) + 1 /\ t[i + n] \in {Blank, Hyphen}
    BY <1>2, <1>3, <1>4, <1>8, <2>1
  <2> QED
    BY <1>8, <2>3, <2>5, <2>6, ExchangedBehind
<1> QED
  BY <1>5, <1>6, <1>7, <1>8

\* A turn of a loop on hyphens.
LEMMA HyphenTurn ==
  ASSUME NEW t, t \in Seq(Byte), Whole(t), NEW i, i \in 1 .. Len(t),
         NEW m, m \in {CjkNeg(t, i), CjkCjk(t, i)}, m.next <= Len(t) + 1
  PROVE  Turned(m, t, i)
<1>1. \/ m = CopyChinese(t, i)
      \/ HyphenFollows(t, i) /\ \E y \in {<<Keep>>, Comma} : m = Rewritten(t, i, y)
  BY DEF CjkNeg, CjkCjk
<1>2. PICK n \in 1 .. 4 : CopyChinese(t, i) = Copy(t, i, n) /\ (IsCjkChar(t, i) => n = DecodeUtf8(t, i).len)
  <2>1. PICK n : n = IF IsCjkChar(t, i) THEN DecodeUtf8(t, i).len ELSE 1
    OBVIOUS
  <2>2. n \in 1 .. 4
    BY <2>1, DecodeLen
  <2>3. CopyChinese(t, i) = Copy(t, i, n) /\ (IsCjkChar(t, i) => n = DecodeUtf8(t, i).len)
    BY <2>1 DEF CopyChinese
  <2> QED
    BY <2>2, <2>3
<1>3. CASE m = CopyChinese(t, i)
  <2>1. n \in Nat /\ i + n <= Len(t) + 1
    BY <1>2, <1>3 DEF Copy
  <2> QED
    BY <1>2, <1>3, <2>1, CopyCopies DEF Turned
<1>4. CASE HyphenFollows(t, i) /\ \E y \in {<<Keep>>, Comma} : m = Rewritten(t, i, y)
  <2>1. PICK y \in {<<Keep>>, Comma} : m = Rewritten(t, i, y)
    BY <1>4
  <2>2. n = DecodeUtf8(t, i).len /\ At(t, HyphenAt(t, i)) = Hyphen
    BY <1>2, <1>4 DEF HyphenFollows
  <2>3. m.put = Copy(t, i, n).put \o y /\ m.next = BehindHyphen(t, i) /\ y \in Pieces
    BY <1>2, <2>1 DEF Rewritten, Pieces
  <2>4. PICK a, h, b, e : /\ a = i + n /\ h = HyphenAt(t, i) /\ b = h + 1
                          /\ e = BehindHyphen(t, i)
    OBVIOUS
  <2>5. a \in Nat /\ a >= 1 /\ h = SkipBlanks(t, a) /\ e = SkipBlanks(t, b)
    BY <1>2, <2>2, <2>4 DEF HyphenAt, BehindHyphen
  <2>6. h \in Nat /\ h >= a
    BY <2>5, SkipBlanksType
  <2>7. h <= Len(t) /\ t[h] = Hyphen
    <3>1. At(t, h) = Hyphen /\ Hyphen # 0
      BY <2>2, <2>4 DEF Hyphen
    <3> QED
      BY <3>1 DEF At
  <2>8. e \in Nat /\ e >= b
    <3>1. b \in Nat /\ b >= 1
      BY <2>4, <2>6
    <3> QED
      BY <2>5, <3>1, SkipBlanksType
  <2>9. t[a] \in {Blank, Hyphen}
    <3>1. CASE h = a
      BY <2>7, <3>1
    <3>2. CASE h # a
      BY <2>5, <3>2, FirstBlank
    <3> QED
      BY <3>1, <3>2
  <2>10. AtCharacter(t, m.next)
    BY <1>4, <2>3, HyphenLeads
  <2>11. i + n < m.next /\ m.next \in 1 .. Len(t) + 1 /\ t[i + n] \in {Blank, Hyphen}
    BY <2>3, <2>4, <2>5, <2>6, <2>8, <2>9
  <2> QED
    BY <2>3, <2>10, <2>11, ExchangedBehind
<1> QED
  BY <1>1, <1>3, <1>4
-----------------------------------------------------------------------------
\* Before and after a turn the text is one.
LEMMA RestTypes ==
  ASSUME NEW r, r \in Seq(Byte), NEW t, t \in Seq(Byte), NEW i, i \in 1 .. Len(t),
         NEW x, x \in Seq(Byte), NEW e, e \in 1 .. Len(t) + 1
  PROVE  Rest(r, t, i) \in Seq(Byte) /\ Rest(r \o x, t, e) \in Seq(Byte)
<1>1. i \in 1 .. Len(t) + 1
  OBVIOUS
<1>2. RestOf(Rest(r, t, i), r, t, i)
  BY <1>1, RestBytes
<1>3. PICK z : z = r \o x
  OBVIOUS
<1>4. z \in Seq(Byte)
  BY <1>3
<1>5. RestOf(Rest(z, t, e), z, t, e)
  BY <1>4, RestBytes
<1> QED
  BY Zenon, <1>2, <1>3, <1>5 DEF RestOf

\* A turn leaves a whole text.
LEMMA TurnKeepsWhole ==
  ASSUME NEW r, r \in Seq(Byte), NEW t, t \in Seq(Byte), NEW i, i \in 1 .. Len(t),
         NEW m, m.put \in Seq(Byte), m.next \in 1 .. Len(t) + 1, Turned(m, t, i), Whole(Rest(r, t, i))
  PROVE  Whole(Rest(r \o m.put, t, m.next))
<1>1. CASE Copied(m, t, i)
  BY <1>1, CopiedRest
<1>2. ASSUME NEW w \in Nat, NEW y \in Pieces, Exchanged(m, t, i, w, y)
      PROVE  Whole(Rest(r \o m.put, t, m.next))
  <2>1. y \in Seq(Byte) /\ Whole(y)
    BY PiecesWhole
  <2>2. PICK u, v, n, c : /\ u = Rest(r, t, i) /\ v = Rest(r \o m.put, t, m.next)
                          /\ n = Len(r) + w /\ c = m.next - i - w
    OBVIOUS
  <2>3. PieceSwapped(u, v, n, c, y)
    BY <1>2, <2>1, <2>2, ExchangedRest
  <2>4. u \in Seq(Byte) /\ v \in Seq(Byte)
    BY Zenon, <2>2, RestTypes
  <2>5. n \in Nat /\ c \in Nat
    <3>1. i + w < m.next
      BY <1>2 DEF Exchanged
    <3> QED
      BY <2>2, <3>1
  <2>6. Whole(v)
    BY <2>1, <2>2, <2>3, <2>4, <2>5, SwapKeepsWhole
  <2> QED
    BY <2>2, <2>6
<1> QED
  BY <1>1, <1>2 DEF Turned

\* What BaseCleanup puts in a place.
Whites == {<<10>>, <<Blank>>}

\* A turn of BaseCleanup.
Cleaned(m, t, i) ==
    \/ Copied(m, t, i)
    \/ \E y \in {<<10>>, <<Blank>>} : Exchanged(m, t, i, 0, y)
    \/ Drops(m, t, i)

\* It is a turn.
LEMMA CleanedTurned ==
  ASSUME NEW m, NEW t, NEW i, Cleaned(m, t, i)
  PROVE  Turned(m, t, i)
<1>1. 0 \in Nat /\ <<>> \in Pieces /\ \A y \in {<<10>>, <<Blank>>} : y \in Pieces
  BY DEF Pieces
<1> QED
  BY <1>1 DEF Cleaned, Drops, Turned

\* It makes no place where the URL pattern would end within a character.
LEMMA CleanedKeepsUrls ==
  ASSUME NEW r, r \in Seq(Byte), NEW t, t \in Seq(Byte), NEW i, i \in 1 .. Len(t),
         NEW m, m.put \in Seq(Byte), m.next \in 1 .. Len(t) + 1, Cleaned(m, t, i),
         Whole(Rest(r, t, i)), UrlCuts(Rest(r \o m.put, t, m.next))
  PROVE  UrlCuts(Rest(r, t, i))
<1>1. CASE Copied(m, t, i)
  BY <1>1, CopiedRest
<1>2. ASSUME NEW y \in Pieces, Exchanged(m, t, i, 0, y),
             y \in Whites \/ (y = <<>> /\ Drops(m, t, i))
      PROVE  UrlCuts(Rest(r, t, i))
  <2>1. y \in Seq(Byte)
    BY PiecesWhole
  <2>2. PICK w \in Nat : w = 0
    OBVIOUS
  <2>3. PICK u, v, n, c : /\ u = Rest(r, t, i) /\ v = Rest(r \o m.put, t, m.next)
                          /\ n = Len(r) + w /\ c = m.next - i - w
    OBVIOUS
  <2>4. PieceSwapped(u, v, n, c, y)
    BY <1>2, <2>1, <2>2, <2>3, ExchangedRest
  <2>5. u \in Seq(Byte) /\ v \in Seq(Byte)
    BY Zenon, <2>3, RestTypes
  <2>6. n \in Nat /\ c \in Nat /\ n = Len(r) /\ c = m.next - i
    <3>1. i + 0 < m.next
      BY <1>2 DEF Exchanged
    <3> QED
      BY <2>2, <2>3, <3>1
  <2>7. Cleans(u, n, c, y)
    <3>1. CASE y \in Whites
      BY <3>1 DEF Cleans, Whites
    <3>2. CASE y = <<>> /\ Drops(m, t, i)
      <4>1. \A k \in i .. m.next - 1 : t[k] \notin {10, 13, Blank, 227}
        BY <3>2 DEF Drops
      <4>2. RestOf(u, r, t, i)
        <5>1. i \in 1 .. Len(t) + 1
          OBVIOUS
        <5> QED
          BY <2>3, <5>1, RestBytes
      <4>3. \A k \in i .. Len(t) : u[Len(r) + (k - i + 1)] = t[k]
        BY <4>2 DEF RestOf
      <4>4. ASSUME NEW k \in n + 1 .. n + c PROVE ~BreaksUrl(u, k)
        <5>1. PICK q \in i .. m.next - 1 : k = Len(r) + (q - i + 1)
          <6>1. k - Len(r) + i - 1 \in i .. m.next - 1
            BY <2>6
          <6>2. k = Len(r) + ((k - Len(r) + i - 1) - i + 1)
            BY <2>6
          <6> QED
            BY <6>1, <6>2
        <5>2. q \in i .. Len(t)
          OBVIOUS
        <5>3. u[k] \notin {10, 13, Blank, 227}
          BY <4>1, <4>3, <5>1, <5>2
        <5> QED
          BY <5>3 DEF BreaksUrl, IdeographicAt
      <4>5. Len(y) = 0
        BY <3>2
      <4> QED
        BY <4>4, <4>5 DEF Cleans
    <3> QED
      BY <1>2, <3>1, <3>2
  <2>8. UrlCuts(u)
    BY <2>1, <2>3, <2>4, <2>5, <2>6, <2>7, SwapKeepsUrls
  <2> QED
    BY <2>3, <2>8
<1>3. <<>> \in Pieces /\ \A y \in Whites : y \in Pieces
  BY DEF Pieces, Whites
<1> QED
  BY <1>1, <1>2, <1>3 DEF Cleaned, Drops, Whites

\* No carriage return is left.
NoReturn(t) == \A k \in 1 .. Len(t) : t[k] # 13

\* A turn that copies or drops brings none back.
LEMMA DropsKeepReturns ==
  ASSUME NEW r, r \in Seq(Byte), NEW t, t \in Seq(Byte), NEW i, i \in 1 .. Len(t),
         NEW m, m.put \in Seq(Byte), m.next \in 1 .. Len(t) + 1,
         Copied(m, t, i) \/ Drops(m, t, i), NoReturn(Rest(r, t, i))
  PROVE  NoReturn(Rest(r \o m.put, t, m.next))
<1>1. CASE Copied(m, t, i)
  BY <1>1, CopiedRest
<1>2. CASE Drops(m, t, i)
  <2>1. PICK y \in Pieces, w \in Nat : y = <<>> /\ w = 0
    BY DEF Pieces
  <2>2. Exchanged(m, t, i, w, y) /\ y \in Seq(Byte)
    BY <1>2, <2>1, PiecesWhole DEF Drops
  <2>3. PICK u, v, n, c : /\ u = Rest(r, t, i) /\ v = Rest(r \o m.put, t, m.next)
                          /\ n = Len(r) + w /\ c = m.next - i - w
    OBVIOUS
  <2>4. Swapped(u, v, n, c, y)
    <3>1. PieceSwapped(u, v, n, c, y)
      BY <2>2, <2>3, ExchangedRest
    <3> QED
      BY <3>1 DEF PieceSwapped
  <2>5. u \in Seq(Byte) /\ v \in Seq(Byte)
    BY Zenon, <2>3, RestTypes
  <2>6. n \in Nat /\ c \in Nat
    <3>1. i + w < m.next
      BY <2>2 DEF Exchanged
    <3> QED
      BY <2>3, <3>1
  <2>7. Len(y) = 0
    BY <2>1
  <2>8. /\ n + c <= Len(u) /\ Len(v) = Len(u) - c + 0
        /\ \A k \in 1 .. n : v[k] = u[k]
        /\ \A k \in n + c + 1 .. Len(u) : v[k - c + 0] = u[k]
    BY <2>4, <2>7 DEF Swapped
  <2>9. Len(u) \in Nat /\ \A k \in 1 .. Len(u) : u[k] # 13
    BY <2>3, <2>5 DEF NoReturn
  <2>10. ASSUME NEW k \in 1 .. Len(v) PROVE v[k] # 13
    <3>1. CASE k <= n
      <4>1. k \in 1 .. n /\ k \in 1 .. Len(u)
        BY <2>6, <2>8, <2>9, <3>1
      <4> QED
        BY <2>8, <2>9, <4>1
    <3>2. CASE k > n
      <4>1. PICK q \in n + c + 1 .. Len(u) : k = q - c + 0
        <5>1. k + c \in n + c + 1 .. Len(u) /\ k = (k + c) - c + 0
          BY <2>6, <2>8, <2>9, <3>2
        <5> QED
          BY <5>1
      <4>2. q \in 1 .. Len(u)
        BY <2>6, <4>1
      <4> QED
        BY <2>8, <2>9, <4>1, <4>2
    <3> QED
      BY <2>6, <3>1, <3>2
  <2> QED
    BY <2>3, <2>10 DEF NoReturn
<1> QED
  BY <1>1, <1>2

(***************************************************************************)
(* The inductive invariant of CutOnlyByUrl, for a whole text on which the  *)
(* URL pattern never ends within a character: the text of the stage is     *)
(* whole, and so is what has been put out together with what is left, at   *)
(* every turn.  Until the search for URLs there is no place to end it      *)
(* within a character; the carriage returns, which would part a URL if     *)
(* they were dropped later, are gone after the first pass.                 *)
(***************************************************************************)
Pending == Rest(result, s, p)

Cutless ==
    /\ Whole(s)
    /\ ~Overrun => Whole(Pending)
    /\ stage \in {"breaks", "zerowidth", "control"} => ~UrlCuts(Pending)
    /\ stage = "url" => ~UrlCuts(s)
    /\ stage = "breaks" => NoReturn(result)
    /\ stage \in {"zerowidth", "control"} => NoReturn(Pending)

CutInv == Whole(input) /\ ~UrlCuts(input) => Cutless

\* The turns of BaseCleanup, each in its stage.
LEMMA CleaningTurn ==
  ASSUME TypeOK, Cutless, Step, stage \in {"breaks", "zerowidth", "control"}
  PROVE  /\ Cleaned(Turn, s, p)
         /\ stage = "breaks" => NoReturn(Turn.put)
         /\ stage # "breaks" => Copied(Turn, s, p) \/ Drops(Turn, s, p)
<1>1. s \in Seq(Byte) /\ p \in 1 .. Len(s) /\ result \in Seq(Byte) /\ Whole(s)
  BY DEF TypeOK, Step, Cutless
<1>2. PICK m : m = Turn
  OBVIOUS
<1>3. CASE stage = "breaks"
  <2>1. m = Breaks(s, p)
    BY <1>2, <1>3 DEF Turn
  <2>2. /\ \A k \in 1 .. Len(m.put) : m.put[k] # 13
        /\ \/ Copied(m, s, p)
           \/ \E y \in {<<10>>, <<Blank>>} : Exchanged(m, s, p, 0, y)
    BY Zenon, <1>1, <2>1, BreaksTurn
  <2> QED
    BY <1>2, <1>3, <2>2 DEF Cleaned, NoReturn
<1>4. CASE stage = "zerowidth"
  <2>1. m = ZeroWidth(s, p)
    BY <1>2, <1>4 DEF Turn
  <2>2. Copied(m, s, p) \/ Drops(m, s, p)
    BY <1>1, <2>1, ZeroWidthTurn
  <2> QED
    BY <1>2, <1>4, <2>2 DEF Cleaned
<1>5. CASE stage = "control"
  <2>1. m = Control(s, p)
    BY <1>2, <1>5 DEF Turn
  <2>2. s[p] # 13
    <3>1. PICK u : u = Rest(result, s, p)
      OBVIOUS
    <3>2. NoReturn(u)
      BY <1>5, <3>1 DEF Cutless, Pending
    <3>3. RestOf(u, result, s, p)
      <4>1. p \in 1 .. Len(s) + 1
        BY <1>1
      <4> QED
        BY <1>1, <3>1, <4>1, RestBytes
    <3>4. u[Len(result) + (p - p + 1)] = s[p] /\ Len(u) = Len(result) + (Len(s) - p + 1)
      <4>1. p \in p .. Len(s)
        BY <1>1
      <4> QED
        BY <3>3, <4>1 DEF RestOf
    <3>5. Len(result) + (p - p + 1) \in 1 .. Len(u)
      BY <1>1, <3>4
    <3> QED
      BY <3>2, <3>4, <3>5 DEF NoReturn
  <2>3. Copied(m, s, p) \/ Drops(m, s, p)
    BY <1>1, <2>1, <2>2, ControlTurn
  <2> QED
    BY <1>2, <1>5, <2>3 DEF Cleaned
<1> QED
  BY <1>3, <1>4, <1>5

\* Every turn that does not leave the text is one.
LEMMA EveryTurn ==
  ASSUME TypeOK, Cutless, Step, Turn.next <= Len(s) + 1
  PROVE  Turned(Turn, s, p)
<1>1. s \in Seq(Byte) /\ p \in 1 .. Len(s) /\ Whole(s) /\ stage \in DOMAIN Following
  BY DEF TypeOK, Step, Cutless
<1>2. PICK m : m = Turn
  OBVIOUS
<1>3. CASE stage \in {"breaks", "zerowidth", "control"}
  BY <1>3, CleaningTurn, CleanedTurned
<1>4. CASE stage = "url"
  <2>1. m = Url(s, p) /\ ~UrlCuts(s)
    BY <1>2, <1>4 DEF Turn, Cutless
  <2> QED
    BY Zenon, <1>1, <1>2, <2>1, UrlTurn
<1>5. CASE stage = "under"
  <2>1. m = VisibleUnderscores(s, p)
    BY <1>2, <1>5 DEF Turn
  <2> QED
    BY Zenon, <1>1, <1>2, <2>1, UnderTurn
<1>6. CASE stage = "cjk"
  <2>1. m = JoinCjk(s, p)
    BY <1>2, <1>6 DEF Turn
  <2> QED
    BY Zenon, <1>1, <1>2, <2>1, JoinCjkTurn
<1>7. CASE stage \in HyphenLoops
  <2>1. m \in {CjkNeg(s, p), CjkCjk(s, p)}
    BY <1>2, <1>7 DEF Turn, HyphenLoops
  <2> QED
    BY Zenon, <1>1, <1>2, <2>1, HyphenTurn
<1> QED
  BY <1>1, <1>3, <1>4, <1>5, <1>6, <1>7 DEF Following, HyphenLoops

\* A turn of a loop keeps the invariant.
LEMMA StepCut ==
  ASSUME TypeOK, CutInv, Step
  PROVE  CutInv'
<1>1. /\ s \in Seq(Byte) /\ p \in 1 .. Len(s) /\ result \in Seq(Byte) /\ Len(s) \in Nat
      /\ ~Overrun
  BY DEF TypeOK, Step, Overrun
<1>2. PICK m : m = Turn
  OBVIOUS
<1>3. /\ stage' = stage /\ s' = s /\ input' = input
      /\ p' = m.next /\ result' = result \o m.put
  BY <1>2 DEF Step
<1>4. TypeOK'
  BY StepType
<1>5. m.put \in Seq(Byte) /\ m.next \in 1 .. Len(s) + 4
  <2>1. m.next \in 1 .. Len(s) + 4
    BY <1>3, <1>4 DEF TypeOK
  <2>2. Fits(m, s, 3)
    <3>1. stage \in DOMAIN Following
      BY DEF TypeOK, Step
    <3>2. CASE stage = "breaks"
      BY <1>1, <1>2, <3>2, BreaksFits DEF Turn, Fits
    <3>3. CASE stage = "zerowidth"
      BY <1>1, <1>2, <3>3, ZeroWidthFits DEF Turn, Fits
    <3>4. CASE stage = "control"
      BY <1>1, <1>2, <3>4, ControlFits DEF Turn, Fits
    <3>5. CASE stage = "url"
      BY <1>1, <1>2, <3>5, UrlFits DEF Turn, Fits
    <3>6. CASE stage = "under"
      BY <1>1, <1>2, <3>6, VisibleUnderscoresFits DEF Turn
    <3>7. CASE stage = "cjk"
      BY <1>1, <1>2, <3>7, JoinCjkFits DEF Turn
    <3>8. CASE stage \in {"cjkneg", "cjkcjk"}
      BY <1>1, <1>2, <3>8, HyphensFit DEF Turn
    <3> QED
      BY <3>1, <3>2, <3>3, <3>4, <3>5, <3>6, <3>7, <3>8 DEF Following
  <2> QED
    BY <2>1, <2>2 DEF Fits
<1>6. SUFFICES ASSUME Whole(input), ~UrlCuts(input) PROVE Cutless'
  BY <1>3 DEF CutInv
<1>7. Cutless
  BY <1>6 DEF CutInv
<1>8. Whole(s) /\ Whole(Pending)
  BY <1>1, <1>7 DEF Cutless
<1>9. Pending' = Rest(result \o m.put, s, m.next)
  BY <1>3 DEF Pending
<1>10. ~Overrun' => m.next <= Len(s) + 1 /\ m.next \in 1 .. Len(s) + 1
  BY <1>1, <1>3, <1>5 DEF Overrun
<1>11. ASSUME ~Overrun' PROVE Whole(Pending')
  <2>1. m.next <= Len(s) + 1 /\ m.next \in 1 .. Len(s) + 1
    BY <1>10, <1>11
  <2>2. Turned(m, s, p)
    BY <1>2, <1>7, <2>1, EveryTurn
  <2>3. Whole(Rest(result, s, p))
    BY <1>8 DEF Pending
  <2> QED
    BY <1>1, <1>5, <1>9, <2>1, <2>2, <2>3, TurnKeepsWhole
<1>12. ASSUME stage \in {"breaks", "zerowidth", "control"}
       PROVE  /\ ~UrlCuts(Pending')
              /\ stage = "breaks" => NoReturn(result')
              /\ stage # "breaks" => NoReturn(Pending')
  <2>1. ~Overrun'
    BY <1>3, <1>4, <1>12 DEF TypeOK, IndexLoops
  <2>2. m.next \in 1 .. Len(s) + 1
    BY <1>10, <2>1
  <2>3. /\ Cleaned(m, s, p)
        /\ stage = "breaks" => NoReturn(m.put)
        /\ stage # "breaks" => Copied(m, s, p) \/ Drops(m, s, p)
    BY <1>2, <1>7, <1>12, CleaningTurn
  <2>4. Whole(Rest(result, s, p)) /\ ~UrlCuts(Rest(result, s, p))
    BY <1>7, <1>8, <1>12 DEF Pending, Cutless
  <2>5. ~UrlCuts(Pending')
    BY <1>1, <1>5, <1>9, <2>2, <2>3, <2>4, CleanedKeepsUrls
  <2>6. stage # "breaks" => NoReturn(Pending')
    <3>1. SUFFICES ASSUME stage # "breaks" PROVE NoReturn(Pending')
      OBVIOUS
    <3>2. NoReturn(Rest(result, s, p)) /\ (Copied(m, s, p) \/ Drops(m, s, p))
      BY <1>7, <1>12, <2>3, <3>1 DEF Pending, Cutless
    <3> QED
      BY <1>1, <1>5, <1>9, <2>2, <3>2, DropsKeepReturns
  <2>7. stage = "breaks" => NoReturn(result')
    <3>1. SUFFICES ASSUME stage = "breaks" PROVE NoReturn(result')
      OBVIOUS
    <3>2. PICK x, z : x = m.put /\ z = result \o x
      OBVIOUS
    <3>3. JoinOf(z, result, x)
      BY <1>1, <1>5, <3>2, JoinedBytes
    <3>4. /\ Len(z) = Len(result) + Len(x)
          /\ \A k \in 1 .. Len(result) : z[k] = result[k]
          /\ \A k \in 1 .. Len(x) : z[Len(result) + k] = x[k]
      BY <3>3 DEF JoinOf
    <3>5. /\ \A k \in 1 .. Len(result) : result[k] # 13
          /\ \A k \in 1 .. Len(x) : x[k] # 13
      BY <1>7, <2>3, <3>1, <3>2 DEF Cutless, NoReturn
    <3>6. Len(result) \in Nat /\ Len(x) \in Nat
      BY <1>1, <1>5, <3>2
    <3>7. ASSUME NEW k \in 1 .. Len(z) PROVE z[k] # 13
      <4>1. CASE k <= Len(result)
        <5>1. k \in 1 .. Len(result)
          BY <3>6, <4>1
        <5> QED
          BY <3>4, <3>5, <5>1
      <4>2. CASE k > Len(result)
        <5>1. PICK q \in 1 .. Len(x) : k = Len(result) + q
          <6>1. k - Len(result) \in 1 .. Len(x) /\ k = Len(result) + (k - Len(result))
            BY <3>4, <3>6, <4>2
          <6> QED
            BY <6>1
        <5> QED
          BY <3>4, <3>5, <5>1
      <4> QED
        BY <3>6, <4>1, <4>2
    <3>8. NoReturn(z)
      BY <3>7 DEF NoReturn
    <3> QED
      BY <1>3, <3>2, <3>8
  <2> QED
    BY <2>5, <2>6, <2>7
<1> QED
  BY <1>3, <1>7, <1>8, <1>11, <1>12 DEF Cutless

\* At the end of a loop nothing is left to read.
LEMMA EndStageCut ==
  ASSUME TypeOK, CutInv, EndStage
  PROVE  CutInv'
<1>1. /\ s \in Seq(Byte) /\ result \in Seq(Byte) /\ Len(s) \in Nat /\ p = Len(s) + 1
      /\ s' = result /\ p' = 1 /\ result' = <<>> /\ input' = input /\ ~Overrun
  BY DEF TypeOK, EndStage, Overrun
<1>2. SUFFICES ASSUME Whole(input), ~UrlCuts(input) PROVE Cutless'
  BY <1>1 DEF CutInv
<1>3. Cutless
  BY <1>2 DEF CutInv
<1>4. Pending = result
  <2>1. PICK e : e = Len(s) + 1
    OBVIOUS
  <2>2. SubSeq(s, e, Len(s)) = <<>>
    BY <1>1, <2>1
  <2>3. result \o <<>> = result
    BY <1>1
  <2> QED
    BY <1>1, <2>1, <2>2, <2>3 DEF Pending, Rest
<1>5. Pending' = result
  <2>1. SubSeq(result, 1, Len(result)) = result
    BY <1>1
  <2>2. <<>> \o result = result
    BY <1>1
  <2> QED
    BY <1>1, <2>1, <2>2 DEF Pending, Rest
<1>6. Whole(result)
  BY <1>1, <1>3, <1>4 DEF Cutless
<1>7. \/ stage = "breaks" /\ stage' = "zerowidth"
      \/ stage = "zerowidth" /\ stage' = "control"
      \/ stage = "control" /\ stage' = "url"
      \/ stage' \notin {"breaks", "zerowidth", "control", "url"}
  BY DEF TypeOK, EndStage, Following
<1>8. stage \in {"breaks", "zerowidth", "control"} => ~UrlCuts(result) /\ NoReturn(result)
  BY <1>3, <1>4 DEF Cutless
<1> QED
  BY <1>1, <1>5, <1>6, <1>7, <1>8 DEF Cutless

\* The inductive invariant holds.
LEMMA CutInvariant == Spec => []CutInv
<1>1. Init => CutInv
  <2>1. SUFFICES ASSUME Init, Whole(input), ~UrlCuts(input) PROVE Cutless
    BY DEF CutInv
  <2>2. s \in Seq(Byte) /\ input = s /\ p = 1 /\ result = <<>> /\ stage = "breaks"
    <3>1. s \in Seq(Byte \ {Tag, Keep})
      BY <2>1, TextsAssumption DEF Init
    <3>2. s \in Seq(Byte)
      BY <3>1
    <3> QED
      BY <2>1, <3>2 DEF Init
  <2>3. Pending = s
    <3>1. SubSeq(s, 1, Len(s)) = s
      BY <2>2
    <3>2. <<>> \o s = s
      BY <2>2
    <3> QED
      BY <2>2, <3>1, <3>2 DEF Pending, Rest
  <2>4. NoReturn(result)
    BY <2>2 DEF NoReturn
  <2> QED
    BY <2>1, <2>2, <2>3, <2>4 DEF Cutless
<1>2. TypeOK /\ CutInv /\ [Next]_vars => CutInv'
  <2>1. CutInv /\ UNCHANGED vars => CutInv'
    BY DEF vars, CutInv, Cutless, Overrun, Pending
  <2> QED
    BY <2>1, StepCut, EndStageCut DEF Next, Finished
<1> QED
  BY <1>1, <1>2, BytesTypeCorrect, PTL DEF Spec

(***************************************************************************)
(* For every text: no loop takes a whole text apart, unless the text has a *)
(* character behind a scheme within which the URL pattern, which matches   *)
(* bytes, can end.                                                         *)
(***************************************************************************)
THEOREM CutsOnlyByUrl == Spec => []CutOnlyByUrl
<1>1. CutInv => CutOnlyByUrl
  BY DEF CutInv, Cutless, CutOnlyByUrl
<1> QED
  BY <1>1, CutInvariant, PTL
-----------------------------------------------------------------------------
\* What is to become of the c bytes of t from i on.
CleanParts(t, i, c) == [k \in 1 .. c |-> CleanedByte(t, i + k - 1)]

\* The same, put together.
CleanPiece(t, i, c) == FlattenSeq(CleanParts(t, i, c))

\* It is a text.
LEMMA CleanPartsType ==
  ASSUME NEW t, t \in Seq(Byte), NEW i \in Nat, NEW c \in Nat, i >= 1, i + c <= Len(t) + 1
  PROVE  /\ CleanParts(t, i, c) \in Parts(Byte) /\ Len(CleanParts(t, i, c)) = c
         /\ CleanPiece(t, i, c) \in Seq(Byte)
<1>1. ASSUME NEW q \in 1 .. Len(t) PROVE CleanedByte(t, q) \in Seq(Byte)
  <2>1. t[q] \in Byte
    OBVIOUS
  <2>2. <<t[q]>> \in Seq(Byte) /\ <<>> \in Seq(Byte)
    BY <2>1, EmptySeq
  <2> QED
    BY <2>2, SingleBytes DEF CleanedByte
<1>2. PICK X : X = Seq(Byte)
  OBVIOUS
<1>3. ASSUME NEW k \in 1 .. c PROVE CleanedByte(t, i + k - 1) \in X
  <2>1. i + k - 1 \in 1 .. Len(t)
    OBVIOUS
  <2> QED
    BY <1>1, <1>2, <2>1
<1>4. CleanParts(t, i, c) \in Seq(X) /\ Len(CleanParts(t, i, c)) = c
  BY <1>3 DEF CleanParts
<1>5. CleanParts(t, i, c) \in Parts(Byte)
  BY <1>2, <1>4 DEF Parts
<1> QED
  BY <1>4, <1>5, FlattenType DEF CleanPiece

\* Pieces next to each other.
LEMMA CleanPieces ==
  ASSUME NEW t, t \in Seq(Byte), NEW i \in Nat, NEW a \in Nat, NEW b \in Nat, i >= 1,
         i + a + b <= Len(t) + 1
  PROVE  CleanPiece(t, i, a + b) = CleanPiece(t, i, a) \o CleanPiece(t, i + a, b)
<1>1. PICK P, Q, R, j, c : /\ P = CleanParts(t, i, a) /\ Q = CleanParts(t, j, b)
                           /\ R = CleanParts(t, i, c) /\ j = i + a /\ c = a + b
  OBVIOUS
<1>2. j \in Nat /\ j >= 1 /\ c \in Nat /\ i + c <= Len(t) + 1 /\ j + b <= Len(t) + 1 /\ i + a <= Len(t) + 1
  BY <1>1
<1>3. /\ P \in Parts(Byte) /\ Len(P) = a /\ Q \in Parts(Byte) /\ Len(Q) = b
      /\ R \in Parts(Byte) /\ Len(R) = c
  BY <1>1, <1>2, CleanPartsType
<1>4. PICK X : X = Seq(Byte)
  OBVIOUS
<1>5. P \in Seq(X) /\ Q \in Seq(X) /\ R \in Seq(X)
  BY <1>3, <1>4 DEF Parts
<1>6. /\ \A k \in 1 .. a : P[k] = CleanedByte(t, i + k - 1)
      /\ \A k \in 1 .. b : Q[k] = CleanedByte(t, j + k - 1)
      /\ \A k \in 1 .. c : R[k] = CleanedByte(t, i + k - 1)
  BY <1>1 DEF CleanParts
<1>7. PICK Z : Z = P \o Q
  OBVIOUS
<1>8. Z \in Seq(X) /\ Len(Z) = a + b
  <2>1. P \o Q \in Seq(X) /\ Len(P \o Q) = Len(P) + Len(Q)
    BY <1>5
  <2> QED
    BY Zenon, <1>3, <1>7, <2>1
<1>9. ASSUME NEW k \in 1 .. Len(R) PROVE R[k] = Z[k]
  <2>1. CASE k <= a
    <3>1. Z[k] = P[k] /\ k \in 1 .. a /\ k \in 1 .. c
      BY <1>1, <1>3, <1>5, <1>7, <2>1
    <3> QED
      BY <1>6, <3>1
  <2>2. CASE k > a
    <3>1. PICK q \in 1 .. b : k = a + q
      <4>1. k - a \in 1 .. b /\ k = a + (k - a)
        BY <1>1, <1>3, <2>2
      <4> QED
        BY <4>1
    <3>2. Z[k] = Q[k - a] /\ k - a = q
      BY <1>1, <1>3, <1>5, <1>7, <2>2, <3>1
    <3>3. j + q - 1 = i + k - 1 /\ k \in 1 .. c
      BY <1>1, <1>3, <3>1
    <3> QED
      BY <1>6, <3>1, <3>2, <3>3
  <2> QED
    BY <1>3, <2>1, <2>2
<1>10. R = Z
  <2>1. Len(R) = Len(Z)
    BY <1>1, <1>3, <1>8
  <2> QED
    BY <1>5, <1>8, <1>9, <2>1, SeqEqual
<1>11. FlattenSeq(R) = FlattenSeq(P) \o FlattenSeq(Q)
  BY <1>3, <1>7, <1>10, FlattenConcat
<1> QED
  BY <1>1, <1>11 DEF CleanPiece

\* A single byte.
LEMMA CleanSingle ==
  ASSUME NEW t, t \in Seq(Byte), NEW i, i \in 1 .. Len(t)
  PROVE  CleanPiece(t, i, 1) = CleanedByte(t, i)
<1>1. CleanParts(t, i, 1) \in Parts(Byte) /\ Len(CleanParts(t, i, 1)) = 1
  <2>1. PICK c \in Nat : c = 1
    OBVIOUS
  <2>2. i \in Nat /\ i >= 1 /\ i + c <= Len(t) + 1
    BY <2>1
  <2>3. CleanParts(t, i, c) \in Parts(Byte) /\ Len(CleanParts(t, i, c)) = c
    BY <2>2, CleanPartsType
  <2> QED
    BY <2>1, <2>3
<1>2. PICK x : x = CleanedByte(t, i)
  OBVIOUS
<1>3. CleanParts(t, i, 1) = <<x>>
  <2>1. i + 1 - 1 = i
    OBVIOUS
  <2>2. CleanParts(t, i, 1)[1] = x
    BY <1>2, <2>1 DEF CleanParts
  <2> QED
    BY <1>1, <2>2 DEF Parts
<1>4. x \in Seq(Byte)
  <2>1. CleanParts(t, i, 1)[1] \in Seq(Byte)
    BY <1>1 DEF Parts
  <2> QED
    BY <1>3, <2>1
<1> QED
  BY <1>2, <1>3, <1>4, FlattenSingle DEF CleanPiece

\* No byte.
LEMMA CleanNone ==
  ASSUME NEW t, NEW i
  PROVE  CleanPiece(t, i, 0) = <<>>
<1>1. CleanParts(t, i, 0) = <<>>
  BY DEF CleanParts
<1> QED
  BY <1>1, FlattenEmpty DEF CleanPiece

\* The cleaned text is that of all bytes, which may be split in three.
LEMMA CleanSplit ==
  ASSUME NEW t, t \in Seq(Byte), NEW n \in Nat, NEW c \in Nat, n + c <= Len(t)
  PROVE  CleanText(t) = CleanPiece(t, 1, n) \o CleanPiece(t, n + 1, c)
                          \o CleanPiece(t, n + c + 1, Len(t) - (n + c))
<1>1. CleanText(t) = CleanPiece(t, 1, Len(t))
  <2>1. [i \in 1 .. Len(t) |-> CleanedByte(t, i)] = CleanParts(t, 1, Len(t))
    <3>1. \A i \in 1 .. Len(t) : 1 + i - 1 = i
      OBVIOUS
    <3> QED
      BY <3>1 DEF CleanParts
  <2> QED
    BY <2>1 DEF CleanText, CleanPiece
<1>2. PICK a, b, m : a = n + c /\ b = Len(t) - a /\ m = 1
  OBVIOUS
<1>3. a \in Nat /\ b \in Nat /\ m \in Nat /\ m >= 1 /\ m + a + b <= Len(t) + 1 /\ a + b = Len(t)
      /\ m + n + c <= Len(t) + 1
  BY <1>2
<1>4. CleanPiece(t, m, a + b) = CleanPiece(t, m, a) \o CleanPiece(t, m + a, b)
  BY <1>3, CleanPieces
<1>5. CleanPiece(t, m, n + c) = CleanPiece(t, m, n) \o CleanPiece(t, m + n, c)
  BY <1>3, CleanPieces
<1>6. m + a = n + c + 1 /\ m + n = n + 1
  BY <1>2
<1> QED
  BY <1>1, <1>2, <1>3, <1>4, <1>5, <1>6

\* In front of a piece that is replaced the characters are the same.
LEMMA TriplesInFront ==
  ASSUME NEW u, u \in Seq(Byte), NEW v, v \in Seq(Byte), NEW y, y \in Seq(Byte),
         NEW n \in Nat, NEW c \in Nat, Whole(u), PieceSwapped(u, v, n, c, y), NEW k \in 1 .. n
  PROVE  /\ v[k] = u[k]
         /\ IdeographicAt(v, k) <=> IdeographicAt(u, k)
         /\ ZeroWidthAt(v, k) <=> ZeroWidthAt(u, k)
<1>1. Len(u) \in Nat /\ n + 1 <= Len(u) /\ Swapped(u, v, n, c, y) /\ AtCharacter(u, n + 1)
  BY PieceBounds
<1>2. \A q \in 1 .. n : v[q] = u[q] /\ At(v, q) = At(u, q)
  BY <1>1, SwappedFront
<1>3. PICK b : b = u[k]
  OBVIOUS
<1>4. CASE b \in {226, 227, 239}
  <2>1. Utf8CharLen(b) = 3 /\ ~Continues(b)
    <3>1. Utf8CharLen(226) = 3 /\ Utf8CharLen(227) = 3 /\ Utf8CharLen(239) = 3
      BY SMT DEF Utf8CharLen
    <3>2. ~Continues(226) /\ ~Continues(227) /\ ~Continues(239)
      BY SMT DEF Continues
    <3> QED
      BY <1>4, <3>1, <3>2
  <2>2. PICK a, d : a = k + 1 /\ d = k + 2
    OBVIOUS
  <2>3. a \in k + 1 .. k + 3 - 1 /\ d \in k + 1 .. k + 3 - 1
    BY <2>2
  <2>4. a \in k + 1 .. n /\ d \in k + 1 .. n
    <3>1. /\ ~Continues(u[k]) /\ a \in k + 1 .. k + Utf8CharLen(u[k]) - 1
          /\ d \in k + 1 .. k + Utf8CharLen(u[k]) - 1
      BY Zenon, <1>3, <2>1, <2>3
    <3> QED
      BY <1>1, <3>1, CharacterInFront
  <2>5. k + 1 \in 1 .. n /\ k + 2 \in 1 .. n
    BY <2>2, <2>4
  <2>6. v[k] = u[k] /\ At(v, k + 1) = At(u, k + 1) /\ At(v, k + 2) = At(u, k + 2)
    BY Zenon, <1>2, <2>5
  <2> QED
    BY <2>6 DEF IdeographicAt, ZeroWidthAt
<1>5. CASE b \notin {226, 227, 239}
  BY <1>2, <1>3, <1>5 DEF IdeographicAt, ZeroWidthAt
<1> QED
  BY <1>4, <1>5

\* Behind it, too.
LEMMA TriplesBehind ==
  ASSUME NEW u, u \in Seq(Byte), NEW v, NEW e \in Nat, NEW g \in Int, SameBehind(u, v, e, g),
         NEW k \in e .. Len(u)
  PROVE  /\ v[k + g] = u[k]
         /\ IdeographicAt(v, k + g) <=> IdeographicAt(u, k)
         /\ ZeroWidthAt(v, k + g) <=> ZeroWidthAt(u, k)
<1>1. Len(u) \in Nat /\ k \in Nat /\ k >= e /\ k <= Len(u)
  OBVIOUS
<1>2. PICK j : j = k + g
  OBVIOUS
<1>3. j + 1 = (k + 1) + g /\ j + 2 = (k + 2) + g /\ k + 1 \in Nat /\ k + 2 \in Nat
      /\ k + 1 >= e /\ k + 2 >= e
  BY <1>1, <1>2
<1>4. v[j] = u[k]
  BY <1>1, <1>2 DEF SameBehind
<1>5. At(v, j + 1) = At(u, k + 1) /\ At(v, j + 2) = At(u, k + 2)
  BY <1>3 DEF SameBehind
<1> QED
  BY <1>2, <1>4, <1>5 DEF IdeographicAt, ZeroWidthAt

\* What is to become of a byte in front of the piece.
LEMMA CleanedInFront ==
  ASSUME NEW u, u \in Seq(Byte), NEW v, v \in Seq(Byte), NEW y, y \in Seq(Byte),
         NEW n \in Nat, NEW c \in Nat, Whole(u), PieceSwapped(u, v, n, c, y),
         NEW k \in 1 .. n, u[k] # 13
  PROVE  CleanedByte(v, k) = CleanedByte(u, k)
<1>1. \A q \in 1 .. n : /\ v[q] = u[q]
                        /\ IdeographicAt(v, q) <=> IdeographicAt(u, q)
                        /\ ZeroWidthAt(v, q) <=> ZeroWidthAt(u, q)
  BY TriplesInFront
<1>2. \A q \in 1 .. k : q \in 1 .. n
  OBVIOUS
<1>3. ASSUME NEW h \in 1 .. k PROVE HeadOf(v, k, h) <=> HeadOf(u, k, h)
  <2>1. \A q \in h + 1 .. k : q \in 1 .. n
    OBVIOUS
  <2> QED
    BY <1>1, <1>2, <2>1 DEF HeadOf
<1>4. Gone(v, k) <=> Gone(u, k)
  BY <1>1, <1>2, <1>3 DEF Gone, ControlAt
<1> QED
  BY <1>1, <1>4 DEF CleanedByte

\* What is to become of a byte behind it.
LEMMA CleanedBehind ==
  ASSUME NEW u, u \in Seq(Byte), NEW v, v \in Seq(Byte), NEW e \in Nat, NEW g \in Int,
         SameBehind(u, v, e, g), e >= 1, e + g >= 1, AtCharacter(u, e), AtCharacter(v, e + g),
         Len(v) = Len(u) + g, NEW k \in e .. Len(u)
  PROVE  CleanedByte(v, k + g) = CleanedByte(u, k)
<1>0. PICK j, f : j = k + g /\ f = e + g
  OBVIOUS
<1>1. /\ Len(u) \in Nat /\ k \in Nat /\ k >= e /\ k <= Len(u) /\ Len(v) \in Nat
      /\ j \in Nat /\ f \in Nat /\ f >= 1 /\ j \in f .. Len(v)
  BY <1>0
<1>2. \A q \in e .. Len(u) : /\ v[q + g] = u[q]
                             /\ IdeographicAt(v, q + g) <=> IdeographicAt(u, q)
                             /\ ZeroWidthAt(v, q + g) <=> ZeroWidthAt(u, q)
  BY TriplesBehind
<1>3. ASSUME NEW h \in e .. k PROVE HeadOf(v, j, h + g) <=> HeadOf(u, k, h)
  <2>1. h \in e .. Len(u) /\ h \in Nat
    BY <1>1
  <2>2. v[h + g] = u[h]
    BY <1>2, <2>1
  <2>3. PICK m \in 1 .. 4 : m = Utf8CharLen(u[h])
    BY CharLen
  <2>4. j < h + g + m <=> k < h + m
    BY <1>0, <1>1, <2>1, <2>3
  <2>5. ASSUME \A q \in h + 1 .. k : Continues(u[q]), NEW r \in h + g + 1 .. j PROVE Continues(v[r])
    <3>1. PICK q \in h + 1 .. k : r = q + g
      <4>1. r - g \in h + 1 .. k /\ r = (r - g) + g
        BY <1>0, <1>1, <2>1
      <4> QED
        BY <4>1
    <3>2. q \in e .. Len(u)
      BY <1>1, <2>1
    <3> QED
      BY <1>2, <2>5, <3>1, <3>2
  <2>6. ASSUME \A r \in h + g + 1 .. j : Continues(v[r]), NEW q \in h + 1 .. k PROVE Continues(u[q])
    <3>1. q + g \in h + g + 1 .. j /\ q \in e .. Len(u)
      BY <1>0, <1>1, <2>1
    <3> QED
      BY <1>2, <2>6, <3>1
  <2> QED
    BY <2>2, <2>3, <2>4, <2>5, <2>6 DEF HeadOf
<1>4. ASSUME NEW h \in e .. k PROVE /\ v[h + g] = u[h]
                                    /\ IdeographicAt(v, h + g) <=> IdeographicAt(u, h)
                                    /\ ZeroWidthAt(v, h + g) <=> ZeroWidthAt(u, h)
                                    /\ h + g < j <=> h < k
                                    /\ h \in 1 .. k /\ h + g \in 1 .. j
  <2>1. h \in e .. Len(u) /\ h \in 1 .. k /\ h + g \in 1 .. j /\ (h + g < j <=> h < k)
    BY <1>0, <1>1
  <2> QED
    BY <1>2, <2>1
<1>5. ASSUME Gone(u, k) PROVE Gone(v, j)
  <2>1. PICK h \in 1 .. k : /\ HeadOf(u, k, h)
                            /\ ZeroWidthAt(u, h) \/ ControlAt(u, h) \/ (IdeographicAt(u, h) /\ h < k)
    BY <1>5 DEF Gone
  <2>2. h \in e .. k
    <3>1. CASE h = k
      BY <1>1, <3>1
    <3>2. CASE h # k
      <4>1. h \in 1 .. k - 1
        BY <1>1, <3>2
      <4>2. h >= e
        BY <1>1, <2>1, <4>1, HeadBehind
      <4> QED
        BY <1>1, <4>2
    <3> QED
      BY <3>1, <3>2
  <2>3. HeadOf(v, j, h + g)
    BY <1>3, <2>1, <2>2
  <2>4. /\ h + g \in 1 .. j
        /\ ZeroWidthAt(v, h + g) \/ ControlAt(v, h + g) \/ (IdeographicAt(v, h + g) /\ h + g < j)
    BY <1>4, <2>1, <2>2 DEF ControlAt
  <2> QED
    BY <2>3, <2>4 DEF Gone
<1>6. ASSUME Gone(v, j) PROVE Gone(u, k)
  <2>1. PICK o \in 1 .. j : /\ HeadOf(v, j, o)
                            /\ ZeroWidthAt(v, o) \/ ControlAt(v, o) \/ (IdeographicAt(v, o) /\ o < j)
    BY <1>6 DEF Gone
  <2>2. o \in f .. j
    <3>1. CASE o = j
      BY <1>1, <3>1
    <3>2. CASE o # j
      <4>1. o \in 1 .. j - 1
        BY <1>1, <3>2
      <4>2. o >= f
        BY <1>0, <1>1, <2>1, <4>1, HeadBehind
      <4> QED
        BY <1>1, <4>2
    <3> QED
      BY <3>1, <3>2
  <2>3. PICK h \in e .. k : o = h + g
    <3>1. o - g \in e .. k /\ o = (o - g) + g
      BY <1>0, <1>1, <2>2
    <3> QED
      BY <3>1
  <2>4. HeadOf(u, k, h)
    BY <1>3, <2>1, <2>3
  <2>5. /\ h \in 1 .. k
        /\ ZeroWidthAt(u, h) \/ ControlAt(u, h) \/ (IdeographicAt(u, h) /\ h < k)
    BY <1>4, <2>1, <2>3 DEF ControlAt
  <2> QED
    BY <2>4, <2>5 DEF Gone
<1>7. At(v, j + 1) = At(u, k + 1)
  <2>1. k + 1 \in Nat /\ k + 1 >= e /\ (k + 1) + g = j + 1
    BY <1>0, <1>1
  <2> QED
    BY <2>1 DEF SameBehind
<1>8. v[j] = u[k] /\ (IdeographicAt(v, j) <=> IdeographicAt(u, k))
  BY <1>0, <1>1, <1>2
<1>9. CleanedByte(v, j) = CleanedByte(u, k)
  BY <1>5, <1>6, <1>7, <1>8 DEF CleanedByte
<1> QED
  BY <1>0, <1>9

\* What is to become of a piece behind.
LEMMA PieceBehind ==
  ASSUME NEW u, u \in Seq(Byte), NEW v, v \in Seq(Byte), NEW e \in Nat, NEW g \in Int,
         SameBehind(u, v, e, g), e >= 1, e + g >= 1, AtCharacter(u, e), AtCharacter(v, e + g),
         Len(v) = Len(u) + g, NEW c \in Nat, e + c <= Len(u) + 1
  PROVE  CleanPiece(v, e + g, c) = CleanPiece(u, e, c)
<1>1. ASSUME NEW k \in 1 .. c PROVE CleanedByte(v, e + g + k - 1) = CleanedByte(u, e + k - 1)
  <2>1. PICK q : q = e + k - 1
    OBVIOUS
  <2>2. q \in e .. Len(u) /\ e + g + k - 1 = q + g
    BY <2>1
  <2>3. CleanedByte(v, q + g) = CleanedByte(u, q)
    BY <2>2, CleanedBehind
  <2> QED
    BY <2>1, <2>2, <2>3
<1>2. CleanParts(v, e + g, c) = CleanParts(u, e, c)
  BY <1>1 DEF CleanParts
<1> QED
  BY <1>2 DEF CleanPiece

\* Replacing a piece by what is to become of it changes nothing.
LEMMA SwapKeepsClean ==
  ASSUME NEW u, u \in Seq(Byte), NEW v, v \in Seq(Byte), NEW y, y \in Seq(Byte),
         NEW n \in Nat, NEW c \in Nat, Whole(u), PieceSwapped(u, v, n, c, y),
         \A k \in 1 .. n : u[k] # 13, NEW d, d = Len(y),
         AtCharacter(v, n + d + 1), CleanPiece(u, n + 1, c) = CleanPiece(v, n + 1, d)
  PROVE  CleanText(v) = CleanText(u)
<1>1. /\ d \in Nat /\ Len(u) \in Nat /\ Len(v) \in Nat
      /\ n + c <= Len(u) /\ Len(v) = Len(u) - c + d /\ Swapped(u, v, n, c, y)
      /\ AtCharacter(u, n + c + 1)
  BY DEF PieceSwapped, Swapped
<1>2. PICK e \in Nat, g \in Int, m \in Nat : e = n + c + 1 /\ g = d - c /\ m = Len(u) - (n + c)
  <2>1. n + c + 1 \in Nat /\ d - c \in Int /\ Len(u) - (n + c) \in Nat
    BY <1>1
  <2> QED
    BY Zenon, <2>1
<1>3. SameBehind(u, v, e, g)
  BY <1>1, <1>2, SwappedBehind
<1>4. CleanPiece(v, 1, n) = CleanPiece(u, 1, n)
  <2>1. ASSUME NEW k \in 1 .. n PROVE CleanedByte(v, 1 + k - 1) = CleanedByte(u, 1 + k - 1)
    <3>1. 1 + k - 1 = k
      OBVIOUS
    <3>2. CleanedByte(v, k) = CleanedByte(u, k)
      BY CleanedInFront
    <3> QED
      BY <3>1, <3>2
  <2>2. CleanParts(v, 1, n) = CleanParts(u, 1, n)
    BY <2>1 DEF CleanParts
  <2> QED
    BY <2>2 DEF CleanPiece
<1>5. CleanPiece(v, e + g, m) = CleanPiece(u, e, m)
  <2>0. e >= 1 /\ e + g >= 1 /\ AtCharacter(u, e) /\ AtCharacter(v, e + g) /\ Len(v) = Len(u) + g
    <3>1. e + g = n + d + 1
      BY <1>1, <1>2
    <3> QED
      BY <1>1, <1>2, <3>1
  <2>1. e + m <= Len(u) + 1
    BY <1>1, <1>2
  <2> QED
    BY <1>3, <2>0, <2>1, PieceBehind
<1>6. CleanText(u) = CleanPiece(u, 1, n) \o CleanPiece(u, n + 1, c) \o CleanPiece(u, e, m)
  BY <1>1, <1>2, CleanSplit
<1>7. CleanText(v) = CleanPiece(v, 1, n) \o CleanPiece(v, n + 1, d) \o CleanPiece(v, e + g, m)
  <2>1. n + d <= Len(v) /\ e + g = n + d + 1 /\ Len(v) - (n + d) = m
    BY <1>1, <1>2
  <2>2. CleanText(v) = CleanPiece(v, 1, n) \o CleanPiece(v, n + 1, d)
                         \o CleanPiece(v, n + d + 1, Len(v) - (n + d))
    <3>1. d \in Nat
      BY <1>1
    <3> QED
      BY <2>1, <3>1, CleanSplit
  <2> QED
    BY Zenon, <2>1, <2>2
<1> QED
  BY <1>4, <1>5, <1>6, <1>7

\* The byte at i belongs to no character that goes, if it begins one itself.
LEMMA NotGone ==
  ASSUME NEW t, t \in Seq(Byte), NEW i, i \in 1 .. Len(t), ~Continues(t[i]),
         ~ZeroWidthAt(t, i), ~ControlAt(t, i)
  PROVE  ~Gone(t, i)
<1>1. ASSUME NEW h \in 1 .. i, HeadOf(t, i, h) PROVE h = i
  <2>1. h # i => i \in h + 1 .. i
    OBVIOUS
  <2> QED
    BY <1>1, <2>1 DEF HeadOf
<1>2. ~(i < i)
  OBVIOUS
<1> QED
  BY <1>1, <1>2 DEF Gone

\* A line feed and a space stay.
LEMMA CleanAscii ==
  ASSUME NEW t, t \in Seq(Byte), NEW i, i \in 1 .. Len(t), t[i] \in {10, Blank}
  PROVE  CleanedByte(t, i) = <<t[i]>>
<1>1. PICK b : b = t[i]
  OBVIOUS
<1>2. b \in {10, 32}
  BY <1>1 DEF Blank
<1>3. ~Continues(t[i])
  <2>1. ~Continues(10) /\ ~Continues(32)
    BY DEF Continues
  <2> QED
    BY <1>1, <1>2, <2>1
<1>4. ~IdeographicAt(t, i) /\ ~ZeroWidthAt(t, i) /\ ~ControlAt(t, i) /\ t[i] # 13
  BY <1>1, <1>2 DEF IdeographicAt, ZeroWidthAt, ControlAt
<1> QED
  BY <1>3, <1>4, NotGone DEF CleanedByte

\* A character of three bytes that goes, or leaves a space.
LEMMA CleanTriple ==
  ASSUME NEW t, t \in Seq(Byte), Whole(t), NEW i, i \in 1 .. Len(t),
         IdeographicAt(t, i) \/ ZeroWidthAt(t, i)
  PROVE  /\ i + 3 <= Len(t) + 1
         /\ IdeographicAt(t, i) => CleanPiece(t, i, 3) = <<Blank>>
         /\ ZeroWidthAt(t, i) => CleanPiece(t, i, 3) = <<>>
<1>1. t[i] \in {226, 227, 239}
  BY DEF IdeographicAt, ZeroWidthAt
<1>2. t[i] \in 224 .. 239
  BY <1>1
<1>3. /\ AtCharacter(t, i + 3) /\ i + 3 \in 1 .. Len(t) + 1 /\ ~Continues(t[i])
      /\ i \in Nat /\ i >= 1 /\ Len(t) \in Nat
  BY <1>2, BehindThree
<1>4. Utf8CharLen(t[i]) = 3
  <2>1. Utf8CharLen(226) = 3 /\ Utf8CharLen(227) = 3 /\ Utf8CharLen(239) = 3
    BY SMT DEF Utf8CharLen
  <2> QED
    BY <1>1, <2>1
<1>5. \A k \in i + 1 .. i + 3 - 1 : Continues(t[k])
  BY <1>3, <1>4 DEF Whole
<1>6. ASSUME NEW k \in {i + 1, i + 2} PROVE CleanedByte(t, k) = <<>>
  <2>1. k \in i + 1 .. i + 3 - 1 /\ i < k /\ i \in 1 .. k /\ k < i + 3 /\ k \in 1 .. Len(t)
    BY <1>3
  <2>2. Continues(t[k]) /\ \A q \in i + 1 .. k : q \in i + 1 .. i + 3 - 1
    BY <1>3, <1>5, <2>1
  <2>3. HeadOf(t, k, i)
    BY <1>3, <1>4, <1>5, <2>1, <2>2 DEF HeadOf
  <2>4. Gone(t, k)
    BY <2>1, <2>3 DEF Gone
  <2>5. t[k] # 13 /\ t[k] # 227
    <3>1. ~Continues(13) /\ ~Continues(227)
      BY DEF Continues
    <3> QED
      BY <2>2, <3>1
  <2> QED
    BY <2>4, <2>5 DEF CleanedByte, IdeographicAt
<1>7. CleanPiece(t, i, 3) = (CleanedByte(t, i) \o <<>>) \o <<>>
  <2>1. PICK a, b, c, j, k : a = 1 /\ b = 2 /\ c = 3 /\ j = i + 1 /\ k = i + 2
    OBVIOUS
  <2>2. i + b + a <= Len(t) + 1 /\ i + a + a <= Len(t) + 1 /\ b + a = c /\ a + a = b /\ i + b = k /\ i + a = j
        /\ a \in Nat /\ b \in Nat /\ j \in 1 .. Len(t) /\ k \in 1 .. Len(t)
    BY <1>3, <2>1
  <2>3. CleanPiece(t, i, b + a) = CleanPiece(t, i, b) \o CleanPiece(t, i + b, a)
    <3>1. a \in Nat /\ b \in Nat /\ i \in Nat /\ i >= 1 /\ i + b + a <= Len(t) + 1
      BY <1>3, <2>2
    <3> QED
      BY <3>1, CleanPieces
  <2>4. CleanPiece(t, i, a + a) = CleanPiece(t, i, a) \o CleanPiece(t, i + a, a)
    <3>1. a \in Nat /\ i \in Nat /\ i >= 1 /\ i + a + a <= Len(t) + 1
      BY <1>3, <2>2
    <3> QED
      BY <3>1, CleanPieces
  <2>5. CleanPiece(t, i, 1) = CleanedByte(t, i) /\ CleanPiece(t, j, 1) = <<>> /\ CleanPiece(t, k, 1) = <<>>
    BY <1>6, <2>1, <2>2, CleanSingle
  <2> QED
    BY <2>1, <2>2, <2>3, <2>4, <2>5
<1>8. IdeographicAt(t, i) => CleanedByte(t, i) = <<Blank>>
  BY DEF CleanedByte
<1>9. ZeroWidthAt(t, i) => CleanedByte(t, i) = <<>>
  <2>1. SUFFICES ASSUME ZeroWidthAt(t, i) PROVE CleanedByte(t, i) = <<>>
    OBVIOUS
  <2>2. HeadOf(t, i, i)
    BY <1>3, <1>4 DEF HeadOf
  <2>3. Gone(t, i)
    BY <1>3, <2>1, <2>2 DEF Gone
  <2>4. t[i] # 227 /\ t[i] # 13
    BY <2>1 DEF ZeroWidthAt
  <2> QED
    BY <2>3, <2>4 DEF CleanedByte, IdeographicAt
<1>10. (<<Blank>> \o <<>>) \o <<>> = <<Blank>> /\ (<<>> \o <<>>) \o <<>> = <<>>
  OBVIOUS
<1> QED
  BY <1>3, <1>7, <1>8, <1>9, <1>10

\* A control character goes.
LEMMA CleanControl ==
  ASSUME NEW t, t \in Seq(Byte), NEW i, i \in 1 .. Len(t), ControlAt(t, i)
  PROVE  CleanPiece(t, i, 1) = <<>>
<1>1. PICK b \in 1 .. 255 : b = t[i]
  BY ByteAt
<1>2. b < 32 /\ b # 13 /\ b # 227
  BY <1>1 DEF ControlAt
<1>3. Utf8CharLen(b) = 1 /\ ~Continues(b)
  <2>1. b \in 1 .. 127
    BY <1>2
  <2> QED
    BY <2>1, AsciiByte
<1>4. HeadOf(t, i, i) /\ i \in 1 .. i
  BY <1>1, <1>3 DEF HeadOf
<1>5. Gone(t, i)
  BY <1>4 DEF Gone
<1>6. CleanedByte(t, i) = <<>>
  BY <1>1, <1>2, <1>5 DEF CleanedByte, IdeographicAt
<1> QED
  BY <1>6, CleanSingle

\* A carriage return becomes a line feed, with the one that follows.
LEMMA CleanReturn ==
  ASSUME NEW t, t \in Seq(Byte), NEW i, i \in 1 .. Len(t), t[i] = 13
  PROVE  /\ At(t, i + 1) # 10 => CleanPiece(t, i, 1) = <<10>>
         /\ At(t, i + 1) = 10 => CleanPiece(t, i, 2) = <<10>> /\ i + 2 <= Len(t) + 1
<1>1. ~IdeographicAt(t, i)
  BY DEF IdeographicAt
<1>2. At(t, i + 1) # 10 => CleanPiece(t, i, 1) = <<10>>
  BY <1>1, CleanSingle DEF CleanedByte
<1>3. ASSUME At(t, i + 1) = 10 PROVE CleanPiece(t, i, 2) = <<10>> /\ i + 2 <= Len(t) + 1
  <2>1. PICK a, b, j : a = 1 /\ b = 2 /\ j = i + 1
    OBVIOUS
  <2>2. j \in 1 .. Len(t) /\ t[j] = 10
    BY <1>3, <2>1 DEF At
  <2>3. a \in Nat /\ a + a = b /\ i + a = j /\ i + a + a <= Len(t) + 1 /\ i \in Nat /\ i >= 1
    BY <2>1, <2>2
  <2>4. CleanPiece(t, i, a + a) = CleanPiece(t, i, a) \o CleanPiece(t, i + a, a)
    BY <2>3, CleanPieces
  <2>5. CleanPiece(t, j, 1) = <<10>>
    <3>1. CleanedByte(t, j) = <<10>>
      BY <2>2, CleanAscii
    <3> QED
      BY <2>2, <3>1, CleanSingle
  <2>6. CleanPiece(t, i, 1) = <<>>
    BY <1>1, <1>3, CleanSingle DEF CleanedByte
  <2>7. <<>> \o <<10>> = <<10>>
    OBVIOUS
  <2> QED
    BY <2>1, <2>3, <2>4, <2>5, <2>6, <2>7
<1> QED
  BY <1>2, <1>3
-----------------------------------------------------------------------------
\* What the passes of BaseCleanup remove, each named after its stage.
Cleanable(t, k, kind) ==
    \/ kind = "breaks" /\ (t[k] = 13 \/ IdeographicAt(t, k))
    \/ kind = "zerowidth" /\ ZeroWidthAt(t, k)
    \/ kind = "control" /\ ControlAt(t, k)

\* The first n bytes of t have nothing of a kind.
Free(t, n, kind) == \A k \in 1 .. n : ~Cleanable(t, k, kind)

\* In front of a piece that is replaced nothing changes.
LEMMA CleanableInFront ==
  ASSUME NEW u, u \in Seq(Byte), NEW v, v \in Seq(Byte), NEW y, y \in Seq(Byte),
         NEW n \in Nat, NEW c \in Nat, Whole(u), PieceSwapped(u, v, n, c, y), NEW k \in 1 .. n,
         NEW kind
  PROVE  Cleanable(v, k, kind) <=> Cleanable(u, k, kind)
<1>1. /\ v[k] = u[k]
      /\ IdeographicAt(v, k) <=> IdeographicAt(u, k)
      /\ ZeroWidthAt(v, k) <=> ZeroWidthAt(u, k)
  BY TriplesInFront
<1> QED
  BY <1>1 DEF Cleanable, ControlAt

\* Nor behind it.
LEMMA CleanableBehind ==
  ASSUME NEW u, u \in Seq(Byte), NEW v, NEW e \in Nat, NEW g \in Int, SameBehind(u, v, e, g),
         NEW k \in e .. Len(u), NEW kind
  PROVE  Cleanable(v, k + g, kind) <=> Cleanable(u, k, kind)
<1>1. /\ v[k + g] = u[k]
      /\ IdeographicAt(v, k + g) <=> IdeographicAt(u, k)
      /\ ZeroWidthAt(v, k + g) <=> ZeroWidthAt(u, k)
  BY TriplesBehind
<1> QED
  BY <1>1 DEF Cleanable, ControlAt

\* A line feed and a space are of no kind.
LEMMA PlainBytes ==
  ASSUME NEW t, NEW k, t[k] \in {10, Blank}, NEW kind
  PROVE  ~Cleanable(t, k, kind)
BY DEF Cleanable, IdeographicAt, ZeroWidthAt, ControlAt, Blank

\* What is left to read is behind what is put out.
LEMMA RestBehind ==
  ASSUME NEW r, r \in Seq(Byte), NEW t, t \in Seq(Byte), NEW i, i \in 1 .. Len(t) + 1,
         NEW u, u = Rest(r, t, i)
  PROVE  SameBehind(t, u, i, Len(r) + 1 - i) /\ Len(u) = Len(t) + (Len(r) + 1 - i)
<1>1. RestOf(u, r, t, i)
  BY RestBytes
<1>2. PICK g : g = Len(r) + 1 - i
  OBVIOUS
<1>3. /\ Len(r) \in Nat /\ Len(t) \in Nat /\ i \in Nat /\ i >= 1 /\ g \in Int
      /\ Len(u) = Len(r) + (Len(t) - i + 1)
      /\ \A k \in i .. Len(t) : u[Len(r) + (k - i + 1)] = t[k]
  BY <1>1, <1>2 DEF RestOf
<1>4. ASSUME NEW k \in i .. Len(t) PROVE u[k + g] = t[k]
  <2>1. Len(r) + (k - i + 1) = k + g
    BY <1>2, <1>3
  <2> QED
    BY <1>3, <2>1
<1>5. Len(u) = Len(t) + g
  BY <1>2, <1>3
<1>6. ASSUME NEW k \in Nat, k >= i PROVE At(u, k + g) = At(t, k)
  <2>1. CASE k <= Len(t)
    <3>1. k \in i .. Len(t) /\ k + g <= Len(u)
      BY <1>3, <1>5, <1>6, <2>1
    <3> QED
      BY <1>4, <2>1, <3>1 DEF At
  <2>2. CASE ~(k <= Len(t))
    <3>1. ~(k + g <= Len(u))
      BY <1>3, <1>5, <1>6, <2>2
    <3> QED
      BY <2>2, <3>1 DEF At
  <2> QED
    BY <2>1, <2>2
<1> QED
  BY <1>2, <1>4, <1>5, <1>6 DEF SameBehind

\* What the passes put in place of a character.
Clears == {<<>>, <<10>>, <<Blank>>}

\* A turn of the pass of a kind: it copies bytes that are not of the kind, or puts
\* in place of characters what is to become of them.
Sweeps(m, t, i, kind) ==
    \/ Copied(m, t, i) /\ \A k \in i .. m.next - 1 : ~Cleanable(t, k, kind)
    \/ \E y \in Clears : Exchanged(m, t, i, 0, y) /\ CleanPiece(t, i, m.next - i) = y

\* It puts out what it exchanges for.
LEMMA ExchangedPut ==
  ASSUME NEW t, t \in Seq(Byte), NEW i, i \in 1 .. Len(t), NEW m, NEW y \in Clears,
         Exchanged(m, t, i, 0, y)
  PROVE  m.put = y /\ y \in Seq(Byte)
<1>1. y \in Seq(Byte)
  <2>1. y \in Pieces
    BY DEF Clears, Pieces
  <2> QED
    BY <2>1, PiecesWhole
<1>2. m.put = SubSeq(t, i, i + 0 - 1) \o y
  BY DEF Exchanged
<1>3. PICK e : e = i + 0 - 1
  OBVIOUS
<1>4. i > e /\ i \in Int /\ e \in Int
  BY <1>3
<1>5. SubSeq(t, i, e) = <<>>
  BY <1>4
<1>6. <<>> \o y = y
  BY <1>1
<1> QED
  BY Zenon, <1>1, <1>2, <1>3, <1>5, <1>6

\* Such an exchange in the text between two turns.
LEMMA ExchangedParts ==
  ASSUME NEW r, r \in Seq(Byte), NEW t, t \in Seq(Byte), NEW i, i \in 1 .. Len(t),
         NEW m, m.put \in Seq(Byte), m.next \in 1 .. Len(t) + 1,
         NEW y \in Clears, Exchanged(m, t, i, 0, y)
  PROVE  /\ Rest(r, t, i) \in Seq(Byte) /\ Rest(r \o m.put, t, m.next) \in Seq(Byte)
         /\ Len(r) \in Nat /\ m.next - i \in Nat /\ y \in Seq(Byte)
         /\ PieceSwapped(Rest(r, t, i), Rest(r \o m.put, t, m.next), Len(r), m.next - i, y)
         /\ Len(r \o m.put) = Len(r) + Len(y)
<1>0. PICK u, v, n, c : /\ u = Rest(r, t, i) /\ v = Rest(r \o m.put, t, m.next)
                        /\ n = Len(r) /\ c = m.next - i
  OBVIOUS
<1>1. m.put = y /\ y \in Seq(Byte)
  BY ExchangedPut
<1>2. PICK w \in Nat : w = 0
  OBVIOUS
<1>3. u \in Seq(Byte) /\ v \in Seq(Byte)
  BY Zenon, <1>0, RestTypes
<1>4. i + 0 < m.next
  BY DEF Exchanged
<1>5. n \in Nat /\ c \in Nat /\ Len(r) + w = n /\ m.next - i - w = c
  BY <1>0, <1>2, <1>4
<1>6. PieceSwapped(u, v, Len(r) + w, m.next - i - w, y)
  BY <1>0, <1>1, <1>2, ExchangedRest
<1>7. Len(r \o m.put) = Len(r) + Len(m.put)
  OBVIOUS
<1> QED
  BY Zenon, <1>0, <1>1, <1>3, <1>5, <1>6, <1>7

\* What the turn puts out stays.
LEMMA ClearsStay ==
  ASSUME NEW v, v \in Seq(Byte), NEW n \in Nat, NEW y \in Clears, n + Len(y) <= Len(v),
         \A k \in 1 .. Len(y) : v[n + k] = y[k]
  PROVE  /\ \A k \in 1 .. Len(y) : v[n + k] \in {10, Blank}
         /\ CleanPiece(v, n + 1, Len(y)) = y
<1>1. CASE y = <<>>
  <2>1. Len(y) = 0
    BY <1>1
  <2> QED
    BY <1>1, <2>1, CleanNone
<1>2. ASSUME NEW b \in {10, Blank}, y = <<b>>
      PROVE  /\ \A k \in 1 .. Len(y) : v[n + k] \in {10, Blank}
             /\ CleanPiece(v, n + 1, Len(y)) = y
  <2>1. Len(y) = 1 /\ y[1] = b
    BY <1>2
  <2>2. v[n + 1] = b /\ n + 1 \in 1 .. Len(v)
    BY <2>1
  <2>3. PICK j : j = n + 1
    OBVIOUS
  <2>4. CleanedByte(v, j) = <<v[j]>>
    BY <2>2, <2>3, CleanAscii
  <2>5. CleanPiece(v, j, 1) = CleanedByte(v, j)
    BY <2>2, <2>3, CleanSingle
  <2>6. \A k \in 1 .. Len(y) : k = 1
    BY <2>1
  <2> QED
    BY Zenon, <1>2, <2>1, <2>2, <2>3, <2>4, <2>5, <2>6
<1> QED
  BY <1>1, <1>2 DEF Clears

\* The exchange leaves the cleaned text.
LEMMA ExchangeKeepsClean ==
  ASSUME NEW r, r \in Seq(Byte), NEW t, t \in Seq(Byte), NEW i, i \in 1 .. Len(t),
         NEW m, m.put \in Seq(Byte), m.next \in 1 .. Len(t) + 1,
         NEW y \in Clears, Exchanged(m, t, i, 0, y), CleanPiece(t, i, m.next - i) = y,
         NEW u, u = Rest(r, t, i), NEW v, v = Rest(r \o m.put, t, m.next),
         Whole(u), \A k \in 1 .. Len(r) : u[k] # 13
  PROVE  CleanText(v) = CleanText(u)
<1>1. PICK n, c, d : n = Len(r) /\ c = m.next - i /\ d = Len(y)
  OBVIOUS
<1>2. /\ u \in Seq(Byte) /\ v \in Seq(Byte) /\ n \in Nat /\ c \in Nat /\ y \in Seq(Byte)
      /\ PieceSwapped(u, v, n, c, y)
  <2>1. /\ Rest(r, t, i) \in Seq(Byte) /\ Rest(r \o m.put, t, m.next) \in Seq(Byte)
        /\ Len(r) \in Nat /\ m.next - i \in Nat /\ y \in Seq(Byte)
        /\ PieceSwapped(Rest(r, t, i), Rest(r \o m.put, t, m.next), Len(r), m.next - i, y)
    BY ExchangedParts
  <2> QED
    BY Zenon, <1>1, <2>1
<1>3. /\ d \in Nat /\ n + c <= Len(u) /\ Len(v) = Len(u) - c + d /\ AtCharacter(u, n + 1)
      /\ AtCharacter(u, n + c + 1) /\ \A k \in 1 .. d : v[n + k] = y[k]
      /\ \A k \in n + c + 1 .. Len(u) : v[k - c + d] = u[k]
      /\ Len(u) \in Nat /\ Len(v) \in Nat
  BY <1>1, <1>2 DEF PieceSwapped, Swapped
<1>4. CleanPiece(v, n + 1, d) = y
  <2>1. n + d <= Len(v)
    BY <1>2, <1>3
  <2>3. n + Len(y) <= Len(v) /\ \A k \in 1 .. Len(y) : v[n + k] = y[k]
    BY Zenon, <1>1, <1>3, <2>1
  <2>2. CleanPiece(v, n + 1, Len(y)) = y
    <3>1. v \in Seq(Byte) /\ n \in Nat
      BY <1>2
    <3> QED
      BY ONLY <2>3, <3>1, y \in Clears, ClearsStay
  <2> QED
    BY <1>1, <2>2
<1>5. CleanPiece(u, n + 1, c) = y
  <2>1. PICK g : g = Len(r) + 1 - i
    OBVIOUS
  <2>2. i \in 1 .. Len(t) + 1 /\ i \in Nat /\ i >= 1 /\ g \in Int /\ i + g = n + 1 /\ i + g >= 1
        /\ i + c <= Len(t) + 1
    BY <1>1, <1>2, <2>1
  <2>3. SameBehind(t, u, i, g) /\ Len(u) = Len(t) + g
    <3>1. i \in 1 .. Len(t) + 1
      BY <2>2
    <3>2. SameBehind(t, u, i, Len(r) + 1 - i) /\ Len(u) = Len(t) + (Len(r) + 1 - i)
      BY <3>1, RestBehind
    <3> QED
      BY Zenon, <2>1, <3>2
  <2>4. AtCharacter(t, i) /\ AtCharacter(u, i + g)
    <3>1. AtCharacter(t, i + 0) /\ i + 0 = i
      BY DEF Exchanged
    <3> QED
      BY <1>3, <2>2, <3>1
  <2>5. CleanPiece(u, i + g, c) = CleanPiece(t, i, c)
    BY <1>2, <2>2, <2>3, <2>4, PieceBehind
  <2> QED
    BY <1>1, <2>2, <2>5
<1>6. AtCharacter(v, n + d + 1)
  <2>1. SUFFICES ASSUME n + d + 1 \in 1 .. Len(v) PROVE ~Continues(v[n + d + 1])
    BY DEF AtCharacter
  <2>2. PICK k : k = n + c + 1
    OBVIOUS
  <2>3. k \in n + c + 1 .. Len(u) /\ k \in 1 .. Len(u) /\ k - c + d = n + d + 1
    BY <1>2, <1>3, <2>1, <2>2
  <2> QED
    BY <1>3, <2>2, <2>3 DEF AtCharacter
<1> QED
  BY <1>1, <1>2, <1>4, <1>5, <1>6, SwapKeepsClean

\* It leaves what was free of a kind free of it, and what it puts out is of none.
LEMMA ExchangeKeepsFree ==
  ASSUME NEW u, u \in Seq(Byte), NEW v, v \in Seq(Byte), NEW n \in Nat, NEW c \in Nat,
         NEW y \in Clears, y \in Seq(Byte), Whole(u), PieceSwapped(u, v, n, c, y), NEW kind
  PROVE  /\ Free(u, n, kind) => Free(v, n + Len(y), kind)
         /\ Free(u, Len(u), kind) => Free(v, Len(v), kind)
<1>1. PICK d : d = Len(y)
  OBVIOUS
<1>2. /\ d \in Nat /\ n + c <= Len(u) /\ Len(v) = Len(u) - c + d
      /\ Swapped(u, v, n, c, y) /\ \A k \in 1 .. d : v[n + k] = y[k]
      /\ Len(u) \in Nat /\ Len(v) \in Nat
  BY <1>1 DEF PieceSwapped, Swapped
<1>3. \A k \in 1 .. d : v[n + k] \in {10, Blank}
  <2>1. n + d <= Len(v)
    BY <1>2
  <2>2. n + Len(y) <= Len(v) /\ \A k \in 1 .. Len(y) : v[n + k] = y[k]
    BY Zenon, <1>1, <1>2, <2>1
  <2> QED
    BY <1>1, <2>2, ClearsStay
<1>4. ASSUME Free(u, n, kind), NEW k \in 1 .. n + d PROVE ~Cleanable(v, k, kind)
  <2>1. CASE k <= n
    <3>1. k \in 1 .. n
      BY <2>1
    <3> QED
      BY <1>4, <3>1, CleanableInFront DEF Free
  <2>2. CASE k > n
    <3>1. PICK q \in 1 .. d : k = n + q
      <4>1. k - n \in 1 .. d /\ k = n + (k - n)
        BY <1>2, <2>2
      <4> QED
        BY <4>1
    <3> QED
      BY <1>3, <3>1, PlainBytes
  <2> QED
    BY <2>1, <2>2
<1>5. ASSUME Free(u, Len(u), kind), NEW k \in 1 .. Len(v) PROVE ~Cleanable(v, k, kind)
  <2>1. CASE k <= n + d
    <3>1. Free(u, n, kind)
      <4>1. \A q \in 1 .. n : q \in 1 .. Len(u)
        BY <1>2
      <4> QED
        BY <1>5, <4>1 DEF Free
    <3>2. k \in 1 .. n + d
      BY <1>2, <2>1
    <3> QED
      BY <1>4, <3>1, <3>2
  <2>2. CASE k > n + d
    <3>1. PICK e \in Nat, g \in Int : e = n + c + 1 /\ g = d - c
      <4>1. n + c + 1 \in Nat /\ d - c \in Int
        BY <1>2
      <4> QED
        BY Zenon, <4>1
    <3>2. SameBehind(u, v, e, g)
      BY <1>1, <1>2, <3>1, SwappedBehind
    <3>3. PICK q \in e .. Len(u) : k = q + g
      <4>1. PICK a \in Nat, b \in Nat : a = Len(u) /\ b = k
        BY <1>2
      <4>2. b > n + d /\ b <= a - c + d
        BY ONLY <1>2, <2>2, <4>1, k \in 1 .. Len(v)
      <4>3. b - g \in e .. a /\ b = (b - g) + g
        BY ONLY <1>2, <3>1, <4>2, n \in Nat, c \in Nat, a \in Nat, b \in Nat
      <4> QED
        BY Zenon, <4>1, <4>3
    <3>4. q \in 1 .. Len(u)
      BY <3>1
    <3> QED
      BY <1>5, <3>2, <3>3, <3>4, CleanableBehind DEF Free
  <2> QED
    BY <1>2, <2>1, <2>2
<1> QED
  BY <1>1, <1>4, <1>5 DEF Free

\* What is put out stays free of the kind of the pass while bytes are copied.
LEMMA CopyKeepsFree ==
  ASSUME NEW r, r \in Seq(Byte), NEW t, t \in Seq(Byte), NEW i, i \in 1 .. Len(t),
         NEW m, Copied(m, t, i), NEW kind, \A k \in i .. m.next - 1 : ~Cleanable(t, k, kind),
         Free(Rest(r, t, i), Len(r), kind)
  PROVE  Free(Rest(r, t, i), Len(r \o m.put), kind)
<1>0. PICK u, n, g : u = Rest(r, t, i) /\ n = Len(r) /\ g = Len(r) + 1 - i
  OBVIOUS
<1>1. u = Rest(r, t, i) /\ n = Len(r) /\ g = Len(r) + 1 - i /\ n \in Nat /\ g \in Int
  BY <1>0
<1>2. i \in 1 .. Len(t) + 1 /\ i \in Nat /\ i >= 1 /\ Len(t) \in Nat
  OBVIOUS
<1>3. SameBehind(t, u, i, g)
  BY <1>1, <1>2, RestBehind
<1>4. PICK e : e = m.next
  OBVIOUS
<1>5. e \in i .. Len(t) + 1 /\ m.put = SubSeq(t, i, e - 1)
  BY <1>4 DEF Copied
<1>6. Len(r \o m.put) = n + (e - i)
  <2>1. PICK x : x = SubSeq(t, i, e - 1)
    OBVIOUS
  <2>2. x \in Seq(Byte) /\ Len(x) = e - i
    BY <1>2, <1>5, <2>1
  <2>3. Len(r \o x) = Len(r) + Len(x)
    BY <2>2
  <2> QED
    BY <1>1, <1>5, <2>1, <2>2, <2>3
<1>7. ASSUME NEW k \in 1 .. n + (e - i) PROVE ~Cleanable(u, k, kind)
  <2>1. CASE k <= n
    <3>1. k \in 1 .. n
      BY <2>1
    <3> QED
      BY <1>1, <3>1 DEF Free
  <2>2. CASE k > n
    <3>1. PICK q \in i .. e - 1 : k = q + g
      <4>1. k - g \in i .. e - 1 /\ k = (k - g) + g
        BY <1>1, <1>2, <1>5, <2>2
      <4> QED
        BY <4>1
    <3>2. q \in i .. Len(t)
      BY <1>2, <1>5
    <3>3. ~Cleanable(t, q, kind)
      BY <1>4, <3>1
    <3> QED
      <4>1. g \in Int
        BY <1>1
      <4>2. Cleanable(u, q + g, kind) <=> Cleanable(t, q, kind)
        BY <1>2, <1>3, <3>2, <4>1, CleanableBehind
      <4> QED
        BY <3>1, <3>3, <4>2
  <2> QED
    BY <1>1, <2>1, <2>2
<1> QED
  BY <1>1, <1>6, <1>7 DEF Free

\* A turn of a pass keeps the cleaned text, and what is free of a kind.
LEMMA SweepKeeps ==
  ASSUME NEW r, r \in Seq(Byte), NEW t, t \in Seq(Byte), NEW i, i \in 1 .. Len(t),
         NEW m, m.put \in Seq(Byte), m.next \in 1 .. Len(t) + 1, NEW kind,
         Sweeps(m, t, i, kind), Whole(Rest(r, t, i)), Free(Rest(r, t, i), Len(r), kind),
         \A k \in 1 .. Len(r) : Rest(r, t, i)[k] # 13, NEW other
  PROVE  /\ CleanText(Rest(r \o m.put, t, m.next)) = CleanText(Rest(r, t, i))
         /\ Free(Rest(r \o m.put, t, m.next), Len(r \o m.put), kind)
         /\ Free(Rest(r, t, i), Len(Rest(r, t, i)), other)
              => Free(Rest(r \o m.put, t, m.next), Len(Rest(r \o m.put, t, m.next)), other)
<1>1. CASE Copied(m, t, i) /\ \A k \in i .. m.next - 1 : ~Cleanable(t, k, kind)
  <2>1. Rest(r \o m.put, t, m.next) = Rest(r, t, i)
    BY <1>1, CopiedRest
  <2>2. Free(Rest(r, t, i), Len(r \o m.put), kind)
    BY <1>1, CopyKeepsFree
  <2> QED
    BY Zenon, <2>1, <2>2
<1>2. ASSUME NEW y \in Clears, Exchanged(m, t, i, 0, y), CleanPiece(t, i, m.next - i) = y
      PROVE  /\ CleanText(Rest(r \o m.put, t, m.next)) = CleanText(Rest(r, t, i))
             /\ Free(Rest(r \o m.put, t, m.next), Len(r \o m.put), kind)
             /\ Free(Rest(r, t, i), Len(Rest(r, t, i)), other)
                  => Free(Rest(r \o m.put, t, m.next), Len(Rest(r \o m.put, t, m.next)), other)
  <2>1. PICK u, v, n, c : /\ u = Rest(r, t, i) /\ v = Rest(r \o m.put, t, m.next)
                          /\ n = Len(r) /\ c = m.next - i
    OBVIOUS
  <2>2. CleanText(v) = CleanText(u)
    BY <1>2, <2>1, ExchangeKeepsClean
  <2>3. /\ Rest(r, t, i) \in Seq(Byte) /\ Rest(r \o m.put, t, m.next) \in Seq(Byte)
        /\ Len(r) \in Nat /\ m.next - i \in Nat /\ y \in Seq(Byte)
        /\ PieceSwapped(Rest(r, t, i), Rest(r \o m.put, t, m.next), Len(r), m.next - i, y)
        /\ Len(r \o m.put) = Len(r) + Len(y)
    BY <1>2, ExchangedParts
  <2>4. /\ u \in Seq(Byte) /\ v \in Seq(Byte) /\ n \in Nat /\ c \in Nat /\ y \in Seq(Byte)
        /\ PieceSwapped(u, v, n, c, y) /\ Len(r \o m.put) = n + Len(y) /\ Whole(u)
        /\ Free(u, n, kind)
    BY Zenon, <2>1, <2>3
  <2>5. Free(v, n + Len(y), kind) /\ (Free(u, Len(u), other) => Free(v, Len(v), other))
    BY <2>4, ExchangeKeepsFree
  <2> QED
    BY Zenon, <2>1, <2>2, <2>4, <2>5
<1> QED
  BY <1>1, <1>2 DEF Sweeps

\* A turn that copies puts out the byte at the pointer first.
LEMMA CopiedFirst ==
  ASSUME NEW t, t \in Seq(Byte), NEW i, i \in 1 .. Len(t), NEW m, Copied(m, t, i), m.next > i
  PROVE  m.put # <<>> /\ m.put[1] = t[i]
<1>1. PICK e, x : e = m.next /\ x = m.put
  OBVIOUS
<1>2. e \in i .. Len(t) + 1 /\ x = SubSeq(t, i, e - 1) /\ e > i
  BY <1>1 DEF Copied
<1>3. Len(t) \in Nat /\ i \in Nat /\ i >= 1 /\ e \in Nat /\ e - 1 <= Len(t) /\ e - 1 >= i
  BY <1>2
<1>4. Len(x) = e - i /\ x[1] = t[i]
  BY <1>2, <1>3
<1>5. Len(x) > 0
  BY <1>2, <1>3, <1>4
<1>6. x # <<>>
  BY <1>5
<1> QED
  BY <1>1, <1>4, <1>6

\* The pass over the line breaks.
LEMMA BreaksSweeps ==
  ASSUME NEW t, t \in Seq(Byte), Whole(t), NEW i, i \in 1 .. Len(t), NEW m, m = Breaks(t, i)
  PROVE  Sweeps(m, t, i, "breaks")
<1>0. i \in Nat /\ i >= 1 /\ i <= Len(t) /\ Len(t) \in Nat
  OBVIOUS
<1>1. \/ Copied(m, t, i)
      \/ \E y \in Whites : Exchanged(m, t, i, 0, y)
  BY Zenon, BreaksTurn DEF Whites
<1>2. ASSUME NEW y \in Whites, Exchanged(m, t, i, 0, y) PROVE m.put = y
  <2>1. y \in Clears
    BY DEF Clears, Whites
  <2> QED
    BY <1>2, <2>1, ExchangedPut
<1>3. CASE t[i] = 13
  <2>1. m = [put |-> <<10>>, next |-> IF At(t, i + 1) = 10 THEN i + 2 ELSE i + 1]
    BY <1>3 DEF Breaks
  <2>2. m.put = <<10>> /\ m.next = IF At(t, i + 1) = 10 THEN i + 2 ELSE i + 1
    BY <2>1
  <2>3. ~Copied(m, t, i)
    <3>1. m.next > i /\ m.put[1] = 10
      BY <1>0, <2>2
    <3> QED
      BY <1>3, <3>1, CopiedFirst
  <2>4. Exchanged(m, t, i, 0, <<10>>)
    BY Zenon, <1>1, <1>2, <2>2, <2>3
  <2>5. m.next - i = IF At(t, i + 1) = 10 THEN 2 ELSE 1
    BY <1>0, <2>2
  <2>6. CleanPiece(t, i, m.next - i) = <<10>>
    BY <1>3, <2>5, CleanReturn
  <2>7. <<10>> \in Clears
    BY DEF Clears
  <2> QED
    BY Zenon, <2>4, <2>6, <2>7 DEF Sweeps
<1>4. CASE t[i] # 13 /\ IdeographicAt(t, i)
  <2>1. m = [put |-> <<Blank>>, next |-> i + 3]
    BY <1>4 DEF Breaks, IdeographicAt
  <2>2. m.put = <<Blank>> /\ m.next = i + 3
    BY <2>1
  <2>3. ~Copied(m, t, i)
    <3>1. m.next > i /\ m.put[1] = 32 /\ t[i] = 227
      BY <1>0, <1>4, <2>2 DEF IdeographicAt, Blank
    <3> QED
      BY <3>1, CopiedFirst
  <2>4. Exchanged(m, t, i, 0, <<Blank>>)
    BY Zenon, <1>1, <1>2, <2>2, <2>3
  <2>5. m.next - i = 3
    BY <1>0, <2>2
  <2>6. CleanPiece(t, i, m.next - i) = <<Blank>>
    BY <1>4, <2>5, CleanTriple
  <2>7. <<Blank>> \in Clears
    BY DEF Clears
  <2> QED
    BY Zenon, <2>4, <2>6, <2>7 DEF Sweeps
<1>5. CASE t[i] # 13 /\ ~IdeographicAt(t, i)
  <2>1. m = Copy(t, i, 1)
    BY <1>5 DEF Breaks, IdeographicAt
  <2>2. Copied(m, t, i)
    BY <1>0, <2>1, CopyCopies
  <2>3. m.next = i + 1
    BY <2>1 DEF Copy
  <2>4. \A k \in i .. m.next - 1 : k = i
    BY <1>0, <2>3
  <2>5. ~Cleanable(t, i, "breaks")
    BY <1>5 DEF Cleanable
  <2> QED
    BY <2>2, <2>4, <2>5 DEF Sweeps
<1> QED
  BY <1>3, <1>4, <1>5

\* The pass over the zero-width characters.
LEMMA ZeroWidthSweeps ==
  ASSUME NEW t, t \in Seq(Byte), Whole(t), NEW i, i \in 1 .. Len(t), NEW m, m = ZeroWidth(t, i)
  PROVE  Sweeps(m, t, i, "zerowidth")
<1>0. i \in Nat /\ i >= 1 /\ i <= Len(t) /\ Len(t) \in Nat
  OBVIOUS
<1>1. CASE ZeroWidthAt(t, i)
  <2>1. m = [put |-> <<>>, next |-> i + 3]
    BY <1>1 DEF ZeroWidth, ZeroWidthAt
  <2>2. m.put = <<>> /\ m.next = i + 3 /\ m.next > i /\ m.next - i = 3
    BY <1>0, <2>1
  <2>3. ~Copied(m, t, i)
    BY <2>2, CopiedFirst
  <2>4. Exchanged(m, t, i, 0, <<>>)
    <3>1. Copied(m, t, i) \/ Drops(m, t, i)
      BY Zenon, ZeroWidthTurn
    <3> QED
      BY <2>3, <3>1 DEF Drops
  <2>5. CleanPiece(t, i, m.next - i) = <<>>
    BY <1>1, <2>2, CleanTriple
  <2>6. <<>> \in Clears
    BY DEF Clears
  <2> QED
    BY Zenon, <2>4, <2>5, <2>6 DEF Sweeps
<1>2. CASE ~ZeroWidthAt(t, i)
  <2>1. m = Copy(t, i, 1)
    BY <1>2 DEF ZeroWidth, ZeroWidthAt
  <2>2. Copied(m, t, i)
    BY <1>0, <2>1, CopyCopies
  <2>3. m.next = i + 1
    BY <2>1 DEF Copy
  <2>4. \A k \in i .. m.next - 1 : k = i
    BY <1>0, <2>3
  <2>5. ~Cleanable(t, i, "zerowidth")
    BY <1>2 DEF Cleanable
  <2> QED
    BY <2>2, <2>4, <2>5 DEF Sweeps
<1> QED
  BY <1>1, <1>2

\* A byte that continues a character is no character itself.
LEMMA ContinuedByte ==
  ASSUME NEW b, Continues(b)
  PROVE  Utf8CharLen(b) = 1 /\ ~(b < 32)
<1>1. b \in 128 .. 191
  BY DEF Continues
<1>2. b < 192 /\ ~(b < 32) /\ b \notin 192 .. 223 /\ b \notin 224 .. 239
  BY SMT, <1>1
<1> QED
  BY SMT, <1>2 DEF Utf8CharLen

\* The pass over the control characters.
LEMMA ControlSweeps ==
  ASSUME NEW t, t \in Seq(Byte), Whole(t), NEW i, i \in 1 .. Len(t), t[i] # 13,
         NEW m, m = Control(t, i)
  PROVE  Sweeps(m, t, i, "control")
<1>0. i \in Nat /\ i >= 1 /\ i <= Len(t) /\ Len(t) \in Nat
  OBVIOUS
<1>1. Copied(m, t, i) \/ Drops(m, t, i)
  BY Zenon, ControlTurn
<1>2. PICK b \in 1 .. 255 : b = t[i]
  BY ByteAt
<1>3. CASE ControlAt(t, i)
  <2>1. b < 32 /\ b \notin {9, 10, 13}
    BY <1>2, <1>3 DEF ControlAt
  <2>2. ~(t[i] \in {9, 10} \/ t[i] >= 32)
    BY <1>2, <2>1
  <2>3. m.put = <<>> /\ m.next = i + 1
    BY <2>2 DEF Control
  <2>4. m.next > i /\ m.next - i = 1
    BY <1>0, <2>3
  <2>5. ~Copied(m, t, i)
    BY <2>3, <2>4, CopiedFirst
  <2>6. CleanPiece(t, i, m.next - i) = <<>>
    BY <1>3, <2>4, CleanControl
  <2>7. <<>> \in Clears /\ Exchanged(m, t, i, 0, <<>>)
    BY <1>1, <2>5 DEF Clears, Drops
  <2> QED
    BY Zenon, <2>6, <2>7 DEF Sweeps
<1>4. CASE ~ControlAt(t, i)
  <2>1. b >= 32 \/ b \in {9, 10}
    BY <1>2, <1>4 DEF ControlAt
  <2>2. PICK n \in 1 .. 4 : n = Utf8CharLen(t[i])
    BY CharLen
  <2>3. m = [Copy(t, i, n) EXCEPT !.next = IF @ > Len(t) THEN Len(t) + 1 ELSE @]
    BY <1>2, <2>1, <2>2 DEF Control
  <2>4. m.next = (IF i + n > Len(t) THEN Len(t) + 1 ELSE i + n)
        /\ m.put = SubSeq(t, i, IF i + n - 1 <= Len(t) THEN i + n - 1 ELSE Len(t))
    BY <2>3 DEF Copy
  <2>5. Copied(m, t, i)
    <3>1. SUFFICES ASSUME Drops(m, t, i) PROVE FALSE
      BY <1>1
    <3>2. m.put = <<>>
      <4>1. <<>> \in Clears /\ Exchanged(m, t, i, 0, <<>>)
        BY <3>1 DEF Clears, Drops
      <4> QED
        BY <4>1, ExchangedPut
    <3>3. PICK e : e = IF i + n - 1 <= Len(t) THEN i + n - 1 ELSE Len(t)
      OBVIOUS
    <3>4. e \in Nat /\ e >= i /\ e <= Len(t)
      BY <1>0, <3>3
    <3>5. Len(SubSeq(t, i, e)) = e - i + 1
      BY <1>0, <3>4
    <3>6. Len(SubSeq(t, i, e)) # 0
      BY <1>0, <3>4, <3>5
    <3> QED
      BY <2>4, <3>2, <3>3, <3>6
  <2>6. ASSUME NEW k \in i .. m.next - 1 PROVE ~Cleanable(t, k, "control")
    <3>1. CASE k = i
      BY <1>4, <3>1 DEF Cleanable
    <3>2. CASE k # i
      <4>1. k \in i + 1 .. i + n - 1 /\ n > 1
        BY <1>0, <2>4, <3>2
      <4>2. ~Continues(t[i])
        <5>1. ASSUME Continues(b) PROVE FALSE
          <6>1. Utf8CharLen(b) = 1
            BY <5>1, ContinuedByte
          <6> QED
            BY <1>2, <2>2, <4>1, <6>1
        <5> QED
          BY <1>2, <5>1
      <4>3. Continues(t[k])
        BY <2>2, <4>1, <4>2 DEF Whole
      <4>4. ~ControlAt(t, k)
        BY <4>3, ContinuedByte DEF ControlAt
      <4> QED
        BY <4>4 DEF Cleanable
    <3> QED
      BY <3>1, <3>2
  <2> QED
    BY <2>5, <2>6 DEF Sweeps
<1> QED
  BY <1>3, <1>4

\* A text that is free of every kind is clean.
LEMMA CleanAlready ==
  ASSUME NEW t, t \in Seq(Byte), Free(t, Len(t), "breaks"), Free(t, Len(t), "zerowidth"),
         Free(t, Len(t), "control")
  PROVE  CleanText(t) = t
<1>1. ASSUME NEW k \in 1 .. Len(t)
      PROVE  t[k] # 13 /\ ~IdeographicAt(t, k) /\ ~ZeroWidthAt(t, k) /\ ~ControlAt(t, k)
  BY DEF Free, Cleanable
<1>2. ASSUME NEW k \in 1 .. Len(t) PROVE CleanedByte(t, k) = <<t[k]>>
  <2>1. \A h \in 1 .. k : h \in 1 .. Len(t)
    OBVIOUS
  <2>2. ~Gone(t, k)
    BY <1>1, <2>1 DEF Gone
  <2> QED
    BY <1>1, <2>2 DEF CleanedByte
<1>3. CleanText(t) = Kept(Byte, t)
  <2>1. \A k \in 1 .. Len(t) : CleanedByte(t, k) = IF t[k] \in Byte THEN <<t[k]>> ELSE <<>>
    <3>1. \A k \in 1 .. Len(t) : t[k] \in Byte
      OBVIOUS
    <3> QED
      BY Zenon, <1>2, <3>1
  <2>2. [k \in 1 .. Len(t) |-> CleanedByte(t, k)]
          = [k \in 1 .. Len(t) |-> IF t[k] \in Byte THEN <<t[k]>> ELSE <<>>]
    BY <2>1
  <2> QED
    BY <2>2 DEF CleanText, Kept
<1>4. Kept(Byte, t) = t
  BY KeptAll
<1> QED
  BY <1>3, <1>4

(***************************************************************************)
(* The inductive invariant of CleanedByCharacter, for a whole text: what   *)
(* has been put out together with what is left is whole at every turn and  *)
(* is cleaned to what the input is cleaned to.  What has been put out is   *)
(* free of the kind that the pass removes, and all of it of the kinds of   *)
(* the passes before; so after the last pass it is the cleaned text.       *)
(***************************************************************************)
Cleaning == {"breaks", "zerowidth", "control"}

Sweeping(kind) ==
    /\ Whole(s) /\ Whole(Pending)
    /\ CleanText(Pending) = CleanText(input)
    /\ Free(Pending, Len(result), kind)
    /\ kind \in {"zerowidth", "control"} => Free(Pending, Len(Pending), "breaks")
    /\ kind = "control" => Free(Pending, Len(Pending), "zerowidth")

CleanInv == Whole(input) => (stage \in Cleaning => Sweeping(stage)) /\ CleanedByCharacter

\* A turn of BaseCleanup is one of the pass of its stage.
LEMMA StageSweeps ==
  ASSUME TypeOK, Step, stage \in Cleaning, Sweeping(stage)
  PROVE  Sweeps(Turn, s, p, stage)
<1>1. s \in Seq(Byte) /\ p \in 1 .. Len(s) /\ result \in Seq(Byte) /\ Whole(s)
  BY DEF TypeOK, Step, Sweeping
<1>2. PICK m : m = Turn
  OBVIOUS
<1>3. CASE stage = "breaks"
  <2>1. m = Breaks(s, p)
    BY <1>2, <1>3 DEF Turn
  <2>2. Sweeps(m, s, p, "breaks")
    BY Zenon, <1>1, <2>1, BreaksSweeps
  <2> QED
    BY <1>2, <1>3, <2>2
<1>4. CASE stage = "zerowidth"
  <2>1. m = ZeroWidth(s, p)
    BY <1>2, <1>4 DEF Turn
  <2>2. Sweeps(m, s, p, "zerowidth")
    BY Zenon, <1>1, <2>1, ZeroWidthSweeps
  <2> QED
    BY <1>2, <1>4, <2>2
<1>5. CASE stage = "control"
  <2>1. m = Control(s, p)
    BY <1>2, <1>5 DEF Turn
  <2>2. s[p] # 13
    <3>1. PICK u, g : u = Rest(result, s, p) /\ g = Len(result) + 1 - p
      OBVIOUS
    <3>2. p \in 1 .. Len(s) + 1 /\ g \in Int /\ p \in Nat /\ p \in p .. Len(s) /\ Len(s) \in Nat
          /\ Len(result) \in Nat
      BY <1>1, <3>1
    <3>3. SameBehind(s, u, p, g) /\ Len(u) = Len(s) + g
      BY <1>1, <3>1, <3>2, RestBehind
    <3>4. Cleanable(u, p + g, "breaks") <=> Cleanable(s, p, "breaks")
      BY <1>1, <3>2, <3>3, CleanableBehind
    <3>5. Free(u, Len(u), "breaks")
      BY <1>5, <3>1 DEF Sweeping, Pending
    <3>6. p + g \in 1 .. Len(u)
      BY <3>1, <3>2, <3>3
    <3>7. ~Cleanable(s, p, "breaks")
      BY <3>4, <3>5, <3>6 DEF Free
    <3> QED
      BY <3>7 DEF Cleanable
  <2>3. Sweeps(m, s, p, "control")
    BY Zenon, <1>1, <2>1, <2>2, ControlSweeps
  <2> QED
    BY <1>2, <1>5, <2>3
<1> QED
  BY <1>3, <1>4, <1>5 DEF Cleaning

\* It leaves whole characters.
LEMMA SweepsTurned ==
  ASSUME NEW m, NEW t, NEW i, NEW kind, Sweeps(m, t, i, kind)
  PROVE  Turned(m, t, i)
<1>1. 0 \in Nat /\ \A y \in Clears : y \in Pieces
  BY DEF Pieces, Clears
<1> QED
  BY <1>1 DEF Sweeps, Turned

\* A turn of a loop keeps the invariant.
LEMMA StepClean ==
  ASSUME TypeOK, CleanInv, Step
  PROVE  CleanInv'
<1>1. /\ s \in Seq(Byte) /\ p \in 1 .. Len(s) /\ result \in Seq(Byte) /\ Len(s) \in Nat
  BY DEF TypeOK, Step
<1>2. PICK m : m = Turn
  OBVIOUS
<1>3. /\ stage' = stage /\ s' = s /\ input' = input
      /\ p' = m.next /\ result' = result \o m.put
  BY <1>2 DEF Step
<1>4. SUFFICES ASSUME Whole(input), stage \in Cleaning PROVE Sweeping(stage)'
  <2>1. Whole(input) => CleanedByCharacter'
    BY <1>3 DEF CleanInv, CleanedByCharacter
  <2>2. (stage \in Cleaning)' <=> stage \in Cleaning
    BY <1>3
  <2> QED
    BY <1>3, <2>1, <2>2 DEF CleanInv
<1>5. Sweeping(stage)
  BY <1>4 DEF CleanInv
<1>6. m.put \in Seq(Byte) /\ m.next \in 1 .. Len(s) + 1
  <2>1. TypeOK'
    BY StepType
  <2>2. m.next \in 1 .. Len(s) + 4 /\ ~Overrun'
    BY <1>3, <1>4, <2>1 DEF TypeOK, IndexLoops, Cleaning
  <2>3. m.next \in 1 .. Len(s) + 1
    BY <1>1, <1>3, <2>2 DEF Overrun
  <2>4. m.put \in Seq(Byte)
    <3>1. CASE stage = "breaks"
      BY <1>1, <1>2, <3>1, BreaksFits DEF Turn, Fits
    <3>2. CASE stage = "zerowidth"
      BY <1>1, <1>2, <3>2, ZeroWidthFits DEF Turn, Fits
    <3>3. CASE stage = "control"
      BY <1>1, <1>2, <3>3, ControlFits DEF Turn, Fits
    <3> QED
      BY <1>4, <3>1, <3>2, <3>3 DEF Cleaning
  <2> QED
    BY <2>3, <2>4
<1>7. Sweeps(m, s, p, stage)
  BY <1>2, <1>4, <1>5, StageSweeps
<1>8. PICK u, v : u = Rest(result, s, p) /\ v = Rest(result \o m.put, s, m.next)
  OBVIOUS
<1>9. /\ Whole(s) /\ Whole(u) /\ CleanText(u) = CleanText(input)
      /\ Free(u, Len(result), stage)
      /\ stage \in {"zerowidth", "control"} => Free(u, Len(u), "breaks")
      /\ stage = "control" => Free(u, Len(u), "zerowidth")
  BY Zenon, <1>5, <1>8 DEF Sweeping, Pending
<1>10. Whole(v)
  BY <1>1, <1>6, <1>7, <1>8, <1>9, SweepsTurned, TurnKeepsWhole
<1>11. \A k \in 1 .. Len(result) : u[k] # 13
  <2>1. p \in 1 .. Len(s) + 1
    BY <1>1
  <2>2. Len(u) = Len(s) + (Len(result) + 1 - p)
    BY <1>1, <1>8, <2>1, RestBehind
  <2>3. \A k \in 1 .. Len(result) : k \in 1 .. Len(u)
    BY <1>1, <2>2
  <2>4. Free(u, Len(result), "breaks")
    BY <1>4, <1>9, <2>3 DEF Cleaning, Free
  <2> QED
    BY <2>4 DEF Free, Cleanable
<1>12. ASSUME NEW other
       PROVE  /\ CleanText(v) = CleanText(u) /\ Free(v, Len(result \o m.put), stage)
              /\ Free(u, Len(u), other) => Free(v, Len(v), other)
  <2>1. /\ Whole(Rest(result, s, p)) /\ Free(Rest(result, s, p), Len(result), stage)
        /\ \A k \in 1 .. Len(result) : Rest(result, s, p)[k] # 13
    BY Zenon, <1>8, <1>9, <1>11
  <2>2. result \in Seq(Byte) /\ s \in Seq(Byte) /\ p \in 1 .. Len(s)
    BY <1>1
  <2>3. m.put \in Seq(Byte) /\ m.next \in 1 .. Len(s) + 1
    BY <1>6
  <2>4. /\ CleanText(Rest(result \o m.put, s, m.next)) = CleanText(Rest(result, s, p))
        /\ Free(Rest(result \o m.put, s, m.next), Len(result \o m.put), stage)
        /\ Free(Rest(result, s, p), Len(Rest(result, s, p)), other)
             => Free(Rest(result \o m.put, s, m.next), Len(Rest(result \o m.put, s, m.next)), other)
    BY <1>7, <2>1, <2>2, <2>3, SweepKeeps
  <2> QED
    BY Zenon, <1>8, <2>4
<1>13. Pending' = v /\ result' = result \o m.put
  BY <1>3, <1>8 DEF Pending
<1>14. /\ Whole(s)' /\ Whole(Pending') /\ CleanText(Pending') = CleanText(input)'
       /\ Free(Pending', Len(result'), stage')
       /\ stage' \in {"zerowidth", "control"} => Free(Pending', Len(Pending'), "breaks")
       /\ stage' = "control" => Free(Pending', Len(Pending'), "zerowidth")
  BY <1>3, <1>9, <1>10, <1>12, <1>13
<1> QED
  BY <1>14 DEF Sweeping

\* At the end of a pass nothing is left to read.
LEMMA EndStageClean ==
  ASSUME TypeOK, CleanInv, EndStage
  PROVE  CleanInv'
<1>1. /\ s \in Seq(Byte) /\ result \in Seq(Byte) /\ Len(s) \in Nat /\ p = Len(s) + 1
      /\ s' = result /\ p' = 1 /\ result' = <<>> /\ input' = input
  BY DEF TypeOK, EndStage
<1>2. Pending = result
  <2>1. PICK e : e = Len(s) + 1
    OBVIOUS
  <2>2. SubSeq(s, e, Len(s)) = <<>>
    BY <1>1, <2>1
  <2>3. result \o <<>> = result
    BY <1>1
  <2> QED
    BY <1>1, <2>1, <2>2, <2>3 DEF Pending, Rest
<1>3. Pending' = result
  <2>1. SubSeq(result, 1, Len(result)) = result
    BY <1>1
  <2>2. <<>> \o result = result
    BY <1>1
  <2> QED
    BY <1>1, <2>1, <2>2 DEF Pending, Rest
<1>4. \/ stage = "breaks" /\ stage' = "zerowidth"
      \/ stage = "zerowidth" /\ stage' = "control"
      \/ stage = "control" /\ stage' = "url"
      \/ stage' \notin {"breaks", "zerowidth", "control", "url"}
  BY DEF TypeOK, EndStage, Following
<1>5. SUFFICES ASSUME Whole(input)
               PROVE  (stage \in Cleaning => Sweeping(stage))' /\ CleanedByCharacter'
  BY <1>1 DEF CleanInv
<1>6. ASSUME stage \in Cleaning
      PROVE  /\ Whole(result) /\ CleanText(result) = CleanText(input)
             /\ Free(result, Len(result), stage)
             /\ stage \in {"zerowidth", "control"} => Free(result, Len(result), "breaks")
             /\ stage = "control" => Free(result, Len(result), "zerowidth")
  <2>1. Sweeping(stage)
    BY <1>5, <1>6 DEF CleanInv
  <2> QED
    BY Zenon, <1>2, <2>1 DEF Sweeping
<1>7. Free(result, Len(<<>>), stage')
  BY DEF Free
<1>8. ASSUME stage' \in Cleaning PROVE Sweeping(stage)'
  <2>1. stage \in Cleaning
    BY <1>4, <1>8 DEF Cleaning
  <2>2. /\ Whole(result) /\ CleanText(result) = CleanText(input)
        /\ stage' \in {"zerowidth", "control"} => Free(result, Len(result), "breaks")
        /\ stage' = "control" => Free(result, Len(result), "zerowidth")
    BY <1>4, <1>6, <1>8, <2>1 DEF Cleaning
  <2>3. /\ Whole(s)' /\ Whole(Pending') /\ CleanText(Pending') = CleanText(input)'
        /\ Free(Pending', Len(result'), stage')
        /\ stage' \in {"zerowidth", "control"} => Free(Pending', Len(Pending'), "breaks")
        /\ stage' = "control" => Free(Pending', Len(Pending'), "zerowidth")
    BY Zenon, <1>1, <1>3, <1>7, <2>2
  <2> QED
    BY <2>3 DEF Sweeping
<1>9. ASSUME stage' = "url" PROVE s' = CleanText(input')
  <2>1. stage = "control" /\ stage \in Cleaning
    BY <1>4, <1>9 DEF Cleaning
  <2>2. CleanText(result) = result
    BY <1>1, <1>6, <2>1, CleanAlready
  <2> QED
    BY Zenon, <1>1, <1>6, <2>1, <2>2
<1> QED
  BY <1>8, <1>9 DEF CleanedByCharacter, Cleaning

\* The inductive invariant holds.
LEMMA CleanInvariant == Spec => []CleanInv
<1>1. Init => CleanInv
  <2>1. SUFFICES ASSUME Init, Whole(input) PROVE Sweeping(stage) /\ CleanedByCharacter
    BY DEF CleanInv
  <2>2. s \in Seq(Byte) /\ input = s /\ p = 1 /\ result = <<>> /\ stage = "breaks"
    <3>1. s \in Seq(Byte \ {Tag, Keep})
      BY <2>1, TextsAssumption DEF Init
    <3>2. s \in Seq(Byte)
      BY <3>1
    <3> QED
      BY <2>1, <3>2 DEF Init
  <2>3. Pending = s
    <3>1. SubSeq(s, 1, Len(s)) = s
      BY <2>2
    <3>2. <<>> \o s = s
      BY <2>2
    <3> QED
      BY <2>2, <3>1, <3>2 DEF Pending, Rest
  <2>4. Free(Pending, Len(result), stage)
    BY <2>2 DEF Free
  <2>5. Sweeping(stage)
    BY <2>1, <2>2, <2>3, <2>4 DEF Sweeping
  <2> QED
    BY <2>2, <2>5 DEF CleanedByCharacter
<1>2. TypeOK /\ CleanInv /\ [Next]_vars => CleanInv'
  <2>1. CleanInv /\ UNCHANGED vars => CleanInv'
    BY DEF vars, CleanInv, Sweeping, Pending, CleanedByCharacter
  <2> QED
    BY <2>1, StepClean, EndStageClean DEF Next, Finished
<1> QED
  BY <1>1, <1>2, BytesTypeCorrect, PTL DEF Spec

(***************************************************************************)
(* For every text: the three byte passes of BaseCleanup, one after the     *)
(* other, do to a whole text what a single pass over its characters would  *)
(* do; no pass removes what an earlier one put there, makes a new          *)
(* character for a later one, or takes a character apart.                  *)
(***************************************************************************)
THEOREM CleansByCharacter == Spec => []CleanedByCharacter
<1>1. CleanInv => CleanedByCharacter
  BY DEF CleanInv, CleanedByCharacter
<1> QED
  BY <1>1, CleanInvariant, PTL
-----------------------------------------------------------------------------
\* From i up to n.
LEMMA UpInduction ==
  ASSUME NEW i, NEW n, NEW S, i \in Nat, n \in Nat, i <= n, i \in S,
         \A k \in i .. n - 1 : k \in S => k + 1 \in S
  PROVE  n \in S
<1> DEFINE T == {k \in i .. n : k \notin S}
<1>1. T = {}
  <2> SUFFICES ASSUME T # {} PROVE FALSE
    OBVIOUS
  <2>1. PICK m \in T : \A y \in T : m <= y
    <3>1. T \subseteq Nat
      OBVIOUS
    <3> HIDE DEF T
    <3> QED
      BY <3>1, LeastNumber
  <2>2. m \in i .. n /\ m \notin S /\ m # i
    BY <2>1
  <2>3. PICK k : k = m - 1 /\ k \in i .. n - 1 /\ k + 1 = m /\ ~(m <= k)
    BY <2>2
  <2>4. k \in i .. n /\ k \notin T
    <3>1. k \in i .. n
      BY <2>3
    <3> HIDE DEF T
    <3> QED
      BY <2>1, <2>3, <3>1
  <2>5. k \in S
    BY <2>4
  <2> QED
    BY <2>2, <2>3, <2>5
<1>2. n \in i .. n
  OBVIOUS
<1> QED
  BY <1>1, <1>2

\* What the parts of f in front of the one at e are together.
Upto(f, e) == FlattenSeq(SubSeq(f, 1, e - 1))

\* They are a text.
LEMMA UptoType ==
  ASSUME NEW f, f \in Parts(Byte), NEW e, e \in 1 .. Len(f) + 1
  PROVE  SubSeq(f, 1, e - 1) \in Parts(Byte) /\ Upto(f, e) \in Seq(Byte)
<1>1. PICK X : X = Seq(Byte)
  OBVIOUS
<1>2. f \in Seq(X)
  BY <1>1 DEF Parts
<1>3. SubSeq(f, 1, e - 1) \in Seq(X)
  BY <1>2
<1>4. SubSeq(f, 1, e - 1) \in Parts(Byte)
  BY <1>1, <1>3 DEF Parts
<1> QED
  BY <1>4, FlattenType DEF Upto

\* No part is in front of the first.
LEMMA UptoFirst ==
  ASSUME NEW f, f \in Parts(Byte)
  PROVE  Upto(f, 1) = <<>>
<1>1. PICK X : X = Seq(Byte)
  OBVIOUS
<1>2. f \in Seq(X)
  BY <1>1 DEF Parts
<1>3. SubSeq(f, 1, 1 - 1) = <<>>
  BY <1>2
<1> QED
  BY <1>3, FlattenEmpty DEF Upto

\* One part more.
LEMMA UptoNext ==
  ASSUME NEW f, f \in Parts(Byte), NEW e, e \in 1 .. Len(f)
  PROVE  Upto(f, e + 1) = Upto(f, e) \o f[e]
<1>1. PICK X : X = Seq(Byte)
  OBVIOUS
<1>2. f \in Seq(X)
  BY <1>1 DEF Parts
<1>3. PICK P : P = SubSeq(f, 1, e - 1)
  OBVIOUS
<1>4. P \in Parts(Byte)
  <2>1. e \in 1 .. Len(f) + 1
    OBVIOUS
  <2> QED
    BY <1>3, <2>1, UptoType
<1>5. f[e] \in Seq(Byte)
  BY <1>1, <1>2
<1>6. SubSeq(f, 1, e) = Append(P, f[e])
  BY <1>2, <1>3
<1>7. FlattenSeq(Append(P, f[e])) = FlattenSeq(P) \o f[e]
  BY <1>4, <1>5, FlattenAppend
<1>8. PICK d : d = e + 1 /\ d - 1 = e
  OBVIOUS
<1>9. Upto(f, d) = FlattenSeq(SubSeq(f, 1, e))
  BY Zenon, <1>8 DEF Upto
<1>10. Upto(f, e) = FlattenSeq(P)
  BY Zenon, <1>3 DEF Upto
<1> QED
  BY Zenon, <1>6, <1>7, <1>8, <1>9, <1>10

\* Parts that are a byte of t each.
Bytewise(f, t, i, e) == Len(f) = Len(t) /\ \A k \in i .. e - 1 : f[k] = <<t[k]>>

\* They are the bytes of t.
LEMMA UptoCopy ==
  ASSUME NEW t, t \in Seq(Byte), NEW f, f \in Parts(Byte),
         NEW i, i \in 1 .. Len(t) + 1, NEW e, e \in i .. Len(t) + 1,
         Bytewise(f, t, i, e)
  PROVE  Upto(f, e) = Upto(f, i) \o SubSeq(t, i, e - 1)
<1> DEFINE Good(k) == Upto(f, k) = Upto(f, i) \o SubSeq(t, i, k - 1)
           S == {k \in i .. e : Good(k)}
<1>0. Len(f) = Len(t)
  BY DEF Bytewise
<1>1. i \in Nat /\ e \in Nat /\ i <= e /\ Len(t) \in Nat /\ i >= 1 /\ e <= Len(t) + 1
  OBVIOUS
<1>2. PICK z : z = Upto(f, i)
  OBVIOUS
<1>3. z \in Seq(Byte)
  BY <1>2, <1>0, UptoType
<1>4. i \in S
  <2>1. SubSeq(t, i, i - 1) = <<>>
    BY <1>1
  <2>2. z \o <<>> = z
    BY <1>3
  <2>3. i \in i .. e
    BY <1>1
  <2> QED
    BY <1>2, <2>1, <2>2, <2>3
<1>5. ASSUME NEW k \in i .. e - 1, k \in S PROVE k + 1 \in S
  <2>1. k \in 1 .. Len(t) /\ k \in 1 .. Len(f) /\ k + 1 \in i .. e /\ k + 1 - 1 = k
    BY <1>1, <1>0
  <2>2. PICK y, x : y = SubSeq(t, i, k - 1) /\ x = t[k]
    OBVIOUS
  <2>3. y \in Seq(Byte) /\ x \in Byte
    BY <1>1, <2>1, <2>2
  <2>4. Upto(f, k) = z \o y
    BY <1>2, <1>5, <2>2
  <2>5. Upto(f, k + 1) = Upto(f, k) \o <<x>>
    BY <2>1, <2>2, UptoNext DEF Bytewise
  <2>6. SubSeq(t, i, k) = y \o <<x>>
    <3>1. SubSeq(t, i, k) = Append(y, x)
      BY <1>1, <2>1, <2>2
    <3>2. Append(y, x) = y \o <<x>>
      BY ONLY <2>3
    <3> QED
      BY Zenon, <3>1, <3>2
  <2>7. (z \o y) \o <<x>> = z \o (y \o <<x>>)
    <3>1. <<x>> \in Seq(Byte)
      BY <2>3
    <3> QED
      BY ONLY <1>3, <2>3, <3>1, Associative
  <2>8. PICK d : d = k + 1 /\ d - 1 = k /\ d \in i .. e
    BY <2>1
  <2>9. Upto(f, d) = Upto(f, i) \o SubSeq(t, i, d - 1)
    BY Zenon, <1>2, <2>4, <2>5, <2>6, <2>7, <2>8
  <2> QED
    BY Zenon, <2>8, <2>9
<1>6. e \in S
  <2> HIDE DEF S
  <2> QED
    BY <1>1, <1>4, <1>5, UpInduction
<1> QED
  BY <1>6

\* Parts that are empty.
LEMMA UptoNone ==
  ASSUME NEW f, f \in Parts(Byte), NEW i, i \in 1 .. Len(f) + 1, NEW e, e \in i .. Len(f) + 1,
         \A k \in i .. e - 1 : f[k] = <<>>
  PROVE  Upto(f, e) = Upto(f, i)
<1> DEFINE S == {k \in i .. e : Upto(f, k) = Upto(f, i)}
<1>1. i \in Nat /\ e \in Nat /\ i <= e /\ Len(f) \in Nat /\ i >= 1 /\ e <= Len(f) + 1
  BY DEF Parts
<1>2. i \in S
  BY <1>1
<1>3. ASSUME NEW k \in i .. e - 1, k \in S PROVE k + 1 \in S
  <2>1. k \in 1 .. Len(f) /\ k + 1 \in i .. e /\ k \in 1 .. Len(f) + 1
    BY <1>1
  <2>2. Upto(f, k + 1) = Upto(f, k) \o <<>>
    BY <2>1, UptoNext
  <2>3. Upto(f, k) \in Seq(Byte)
    BY <2>1, UptoType
  <2> QED
    BY <1>3, <2>1, <2>2, <2>3
<1>4. e \in S
  <2> HIDE DEF S
  <2> QED
    BY <1>1, <1>2, <1>3, UpInduction
<1> QED
  BY <1>4
-----------------------------------------------------------------------------
\* What joints are made of.
Joint(b) == b \in {Blank, Hyphen}

\* A Chinese character does not begin with that.
LEMMA ChineseByte ==
  ASSUME NEW t, t \in Seq(Byte), NEW h, h \in 1 .. Len(t), Chinese(t, h)
  PROVE  ~Joint(t[h])
<1>1. PICK y : y = DecodeUtf8(t, h).cp
  OBVIOUS
<1>2. Han(y)
  BY <1>1 DEF Chinese
<1>3. SUFFICES ASSUME Joint(t[h]) PROVE FALSE
  OBVIOUS
<1>4. At(t, h) = t[h] /\ t[h] \in {32, 45}
  BY <1>3, ByteAt DEF Joint, Blank, Hyphen
<1>5. DecodeUtf8(t, h) = [cp |-> At(t, h), len |-> 1]
  BY <1>4, DecodeOne
<1>6. y \in {32, 45}
  BY <1>1, <1>4, <1>5
<1>7. ~Han(32) /\ ~Han(45)
  BY SMT DEF Han
<1> QED
  BY <1>2, <1>6, <1>7

\* No byte of it is of that kind.
LEMMA ChineseNext ==
  ASSUME NEW t, t \in Seq(Byte), Whole(t), NEW i, i \in 1 .. Len(t), Chinese(t, i),
         NEW n, n = Utf8CharLen(t[i]), NEW a, a = i + n
  PROVE  /\ n \in 1 .. 4 /\ a \in i + 1 .. Len(t) + 1 /\ DecodeUtf8(t, i).len = n
         /\ AtCharacter(t, a) /\ BehindChinese(t, a) /\ IsCjkChar(t, i)
         /\ \A q \in i .. a - 1 : ~Joint(t[q])
         /\ \A q \in i + 1 .. a - 1 : Continues(t[q])
<1>1. ~Continues(t[i]) /\ IsCjkChar(t, i)
  BY DEF Chinese, IsCjkChar
<1>2. /\ n \in 1 .. 4 /\ a <= Len(t) + 1 /\ AtCharacter(t, a)
      /\ \A k \in i + 1 .. a - 1 : Continues(t[k])
  BY <1>1, NextCharacter
<1>3. DecodeUtf8(t, i).len = n
  BY <1>1, DecodedLength
<1>4. a \in i + 1 .. Len(t) + 1 /\ i \in 1 .. a - 1
  BY <1>2
<1>5. BehindChinese(t, a)
  BY <1>4 DEF BehindChinese
<1>6. ASSUME NEW q \in i .. a - 1 PROVE ~Joint(t[q])
  <2>1. CASE q = i
    BY <2>1, ChineseByte
  <2>2. CASE q # i
    <3>1. q \in i + 1 .. a - 1
      BY <2>2
    <3>2. Continues(t[q])
      BY <1>2, <3>1
    <3>3. ~Continues(32) /\ ~Continues(45)
      BY SMT DEF Continues
    <3> QED
      BY <3>2, <3>3 DEF Joint, Blank, Hyphen
  <2> QED
    BY <2>1, <2>2
<1> QED
  BY <1>1, <1>2, <1>3, <1>4, <1>5, <1>6

\* So the byte in front of what is behind one is not.
LEMMA BehindChineseByte ==
  ASSUME NEW t, t \in Seq(Byte), Whole(t), NEW j, j \in 1 .. Len(t) + 1, BehindChinese(t, j)
  PROVE  j - 1 \in 1 .. Len(t) /\ ~Joint(t[j - 1])
<1>1. PICK h \in 1 .. j - 1 : Chinese(t, h) /\ j = h + Utf8CharLen(t[h])
  BY DEF BehindChinese
<1>2. h \in 1 .. Len(t) /\ j - 1 \in 1 .. Len(t) /\ j - 1 \in h .. j - 1
  BY <1>1
<1>3. \A q \in h .. j - 1 : ~Joint(t[q])
  BY <1>1, <1>2, ChineseNext
<1> QED
  BY <1>2, <1>3

\* What lets a loop rewrite a joint.
Lets(t, r, loop) == IF loop = "cjkneg" THEN IsDigit(t[r]) ELSE Chinese(t, r)

\* That is no part of one.
LEMMA LetsByte ==
  ASSUME NEW t, t \in Seq(Byte), NEW r, r \in 1 .. Len(t), NEW loop, Lets(t, r, loop)
  PROVE  ~Joint(t[r])
<1>1. CASE Chinese(t, r)
  BY <1>1, ChineseByte
<1>2. CASE IsDigit(t[r])
  <2>1. ~IsDigit(32) /\ ~IsDigit(45)
    BY SMT DEF IsDigit
  <2> QED
    BY <1>2, <2>1 DEF Joint, Blank, Hyphen
<1> QED
  BY <1>1, <1>2 DEF Lets

\* A joint is made of blanks and hyphens.
LEMMA JoinsBytes ==
  ASSUME NEW t, NEW j, NEW r, NEW loop, Joins(t, j, r, loop)
  PROVE  BehindChinese(t, j) /\ Lets(t, r, loop) /\ \A k \in j .. r - 1 : Joint(t[k])
BY DEF Joins, Lets, Joint

\* So no other byte is in one.
LEMMA NoJoint ==
  ASSUME NEW t, NEW k, k \in 1 .. Len(t), ~Joint(t[k]), NEW loop
  PROVE  ~InJoint(t, k, loop) /\ JoinedByte(t, k, loop) = <<t[k]>>
<1>1. ~InJoint(t, k, loop)
  <2>1. SUFFICES ASSUME NEW j \in 1 .. k, NEW r \in k + 1 .. Len(t), Joins(t, j, r, loop)
                 PROVE  FALSE
    BY DEF InJoint
  <2>2. k \in j .. r - 1
    BY <2>1
  <2> QED
    BY <2>1, <2>2, JoinsBytes
<1> QED
  BY <1>1 DEF JoinedByte

\* A joint that the byte at k is not in, but the next one, begins there.
LEMMA JointBegins ==
  ASSUME NEW t, NEW k, k \in 1 .. Len(t), NEW loop,
         ~InJoint(t, k, loop), InJoint(t, k + 1, loop)
  PROVE  \E r \in k + 2 .. Len(t) : Joins(t, k + 1, r, loop)
<1>1. PICK j \in 1 .. k + 1, r \in k + 2 .. Len(t) : Joins(t, j, r, loop)
  <2>1. k + 1 + 1 = k + 2
    OBVIOUS
  <2> QED
    BY <2>1 DEF InJoint
<1>2. CASE j = k + 1
  BY <1>1, <1>2
<1>3. CASE j # k + 1
  <2>1. j \in 1 .. k /\ r \in k + 1 .. Len(t)
    BY <1>3
  <2> QED
    BY <1>1, <2>1 DEF InJoint
<1> QED
  BY <1>2, <1>3

\* What takes the place of a joint.
Mark(loop) == IF loop = "cjkneg" THEN <<Keep>> ELSE Comma

\* It is put where the joint begins, and nothing for the rest.
LEMMA JoinedRun ==
  ASSUME NEW t, t \in Seq(Byte), Whole(t), NEW j, j \in 1 .. Len(t),
         NEW r, r \in j + 1 .. Len(t), NEW loop, Joins(t, j, r, loop)
  PROVE  /\ JoinedByte(t, j, loop) = Mark(loop)
         /\ \A k \in j + 1 .. r - 1 : JoinedByte(t, k, loop) = <<>>
         /\ ~InJoint(t, r, loop)
<1>1. BehindChinese(t, j) /\ Lets(t, r, loop) /\ \A k \in j .. r - 1 : Joint(t[k])
  BY JoinsBytes
<1>2. ASSUME NEW k \in j .. r - 1 PROVE InJoint(t, k, loop)
  <2>1. j \in 1 .. k /\ r \in k + 1 .. Len(t)
    OBVIOUS
  <2> QED
    BY <2>1 DEF InJoint
<1>3. JoinedByte(t, j, loop) = Mark(loop)
  <2>1. j \in j .. r - 1
    OBVIOUS
  <2> QED
    BY <1>1, <1>2, <2>1 DEF JoinedByte, Mark
<1>4. ASSUME NEW k \in j + 1 .. r - 1 PROVE JoinedByte(t, k, loop) = <<>>
  <2>1. k \in j .. r - 1 /\ k - 1 \in j .. r - 1 /\ k \in 1 .. Len(t) + 1
    OBVIOUS
  <2>2. ~BehindChinese(t, k)
    BY <1>1, <2>1, BehindChineseByte
  <2>3. InJoint(t, k, loop)
    BY <1>2, <2>1
  <2> QED
    BY <2>2, <2>3 DEF JoinedByte
<1>5. ~InJoint(t, r, loop)
  <2>1. r \in 1 .. Len(t)
    OBVIOUS
  <2> QED
    BY <1>1, <2>1, LetsByte, NoJoint
<1> QED
  BY <1>3, <1>4, <1>5

\* Behind a Chinese character a loop finds a joint where there is one.
LEMMA JointFound ==
  ASSUME NEW t, t \in Seq(Byte), Whole(t), NEW i, i \in 1 .. Len(t), Chinese(t, i),
         NEW a, a = i + Utf8CharLen(t[i]), NEW loop, NEW r, r \in a + 1 .. Len(t),
         Joins(t, a, r, loop)
  PROVE  HyphenFollows(t, i) /\ BehindHyphen(t, i) = r
<1>1. /\ a \in i + 1 .. Len(t) + 1 /\ i + DecodeUtf8(t, i).len = a /\ IsCjkChar(t, i)
      /\ Len(t) \in Nat
  <2>1. PICK n : n = Utf8CharLen(t[i])
    OBVIOUS
  <2> QED
    BY <2>1, ChineseNext
<1>2. Lets(t, r, loop) /\ ~Joint(t[r])
  <2>1. r \in 1 .. Len(t)
    BY <1>1
  <2> QED
    BY <2>1, JoinsBytes, LetsByte
<1>3. PICK h \in a .. r - 1 : t[h] = Hyphen /\ \A k \in (a .. r - 1) \ {h} : t[k] = Blank
  BY DEF Joins
<1>4. Hyphen # Blank /\ a \in Nat /\ a >= 1 /\ h \in Nat
  BY <1>1, <1>3 DEF Hyphen, Blank
<1>5. SkipBlanks(t, a) = h
  <2>1. h \in a .. Len(t) /\ \A q \in a .. h - 1 : q \in (a .. r - 1) \ {h}
    BY <1>1, <1>3
  <2> QED
    BY <1>3, <1>4, <2>1, SkipTo
<1>6. PICK b : b = h + 1
  OBVIOUS
<1>7. SkipBlanks(t, b) = r
  <2>1. /\ b \in Nat /\ b >= 1 /\ r \in b .. Len(t)
        /\ \A q \in b .. r - 1 : q \in (a .. r - 1) \ {h}
    BY <1>1, <1>3, <1>4, <1>6
  <2>2. t[r] # Blank
    BY <1>2 DEF Joint
  <2>3. \A q \in b .. r - 1 : t[q] = Blank
    BY <1>3, <2>1
  <2> QED
    BY <2>1, <2>2, <2>3, SkipTo
<1>8. HyphenAt(t, i) = h /\ BehindHyphen(t, i) = r
  BY <1>1, <1>5, <1>6, <1>7 DEF HyphenAt, BehindHyphen
<1>9. At(t, h) = Hyphen /\ r <= Len(t)
  BY <1>1, <1>3 DEF At
<1> QED
  BY <1>1, <1>8, <1>9 DEF HyphenFollows

\* And only there.
LEMMA FoundJoint ==
  ASSUME NEW t, t \in Seq(Byte), Whole(t), NEW i, i \in 1 .. Len(t), Chinese(t, i),
         NEW a, a = i + Utf8CharLen(t[i]), NEW r, r = BehindHyphen(t, i),
         NEW loop, HyphenFollows(t, i), Lets(t, r, loop)
  PROVE  a \in 1 .. Len(t) /\ r \in a + 1 .. Len(t) /\ Joins(t, a, r, loop)
<1>1. /\ a \in i + 1 .. Len(t) + 1 /\ i + DecodeUtf8(t, i).len = a /\ BehindChinese(t, a)
      /\ Len(t) \in Nat
  <2>1. PICK n : n = Utf8CharLen(t[i])
    OBVIOUS
  <2> QED
    BY <2>1, ChineseNext
<1>2. PICK h, b : h = SkipBlanks(t, a) /\ b = h + 1
  OBVIOUS
<1>3. r = SkipBlanks(t, b) /\ At(t, h) = Hyphen /\ r <= Len(t)
  BY <1>1, <1>2 DEF HyphenFollows, HyphenAt, BehindHyphen
<1>4. a \in Nat /\ a >= 1
  BY <1>1
<1>5. h \in Nat /\ h >= a
  BY <1>2, <1>4, SkipBlanksType
<1>6. h <= Len(t) /\ t[h] = Hyphen
  <2>1. Hyphen # 0
    BY DEF Hyphen
  <2> QED
    BY <1>3, <2>1 DEF At
<1>7. \A q \in a .. h - 1 : t[q] = Blank
  <2>1. a <= Len(t)
    BY <1>1, <1>5, <1>6
  <2> QED
    BY <1>2, <1>4, <2>1, SkipBlanksRun
<1>8. b \in Nat /\ b >= 1
  BY <1>2, <1>5
<1>9. r \in Nat /\ r >= b
  BY <1>3, <1>8, SkipBlanksType
<1>10. \A q \in b .. r - 1 : t[q] = Blank
  <2>1. b <= Len(t)
    BY <1>1, <1>3, <1>8, <1>9
  <2> QED
    BY <1>3, <1>8, <2>1, SkipBlanksRun
<1>11. h \in a .. r - 1 /\ a \in 1 .. Len(t) /\ r \in a + 1 .. Len(t)
  BY <1>1, <1>2, <1>3, <1>4, <1>5, <1>6, <1>9
<1>12. \A k \in (a .. r - 1) \ {h} : t[k] = Blank
  <2>1. SUFFICES ASSUME NEW k \in a .. r - 1, k # h PROVE t[k] = Blank
    OBVIOUS
  <2>2. k \in a .. h - 1 \/ k \in b .. r - 1
    BY <1>2, <1>4, <1>5, <1>9, <2>1
  <2> QED
    BY <1>7, <1>10, <2>2
<1> QED
  BY <1>1, <1>6, <1>11, <1>12 DEF Joins, Lets

\* What a loop on hyphens does at i.
TurnOf(m, t, i, loop) == m = IF loop = "cjkneg" THEN CjkNeg(t, i) ELSE CjkCjk(t, i)

\* A turn rewrites a joint, or copies.
LEMMA JointTurn ==
  ASSUME NEW t, t \in Seq(Byte), Whole(t), NEW i, i \in 1 .. Len(t),
         NEW loop, loop \in HyphenLoops,
         NEW m, TurnOf(m, t, i, loop)
  PROVE  m = IF HyphenFollows(t, i) /\ Lets(t, BehindHyphen(t, i), loop)
             THEN Rewritten(t, i, Mark(loop)) ELSE CopyChinese(t, i)
<1>1. PICK r : r = BehindHyphen(t, i)
  OBVIOUS
<1>2. CASE loop = "cjkneg"
  BY <1>2 DEF TurnOf, CjkNeg, Lets, Mark
<1>3. CASE loop = "cjkcjk"
  <2>1. ASSUME HyphenFollows(t, i) PROVE IsCjkChar(t, r) <=> Chinese(t, r)
    <3>1. AtCharacter(t, r) /\ r <= Len(t)
      BY <1>1, <2>1, HyphenLeads
    <3>2. r \in 1 .. Len(t)
      <4>1. PICK a, b : a = i + DecodeUtf8(t, i).len /\ b = HyphenAt(t, i) + 1
        OBVIOUS
      <4>2. a \in Nat /\ a >= 1
        <5>1. DecodeUtf8(t, i).len \in 1 .. 4
          BY DecodeLen
        <5> QED
          BY <4>1, <5>1
      <4>3. HyphenAt(t, i) \in Nat /\ HyphenAt(t, i) >= 1
        BY <4>1, <4>2, SkipBlanksType DEF HyphenAt
      <4>4. b \in Nat /\ b >= 1 /\ r = SkipBlanks(t, b)
        BY <1>1, <4>1, <4>3 DEF BehindHyphen
      <4>5. r \in Nat /\ r >= b
        BY <4>4, SkipBlanksType
      <4> QED
        BY <3>1, <4>4, <4>5
    <3> QED
      BY <3>1, <3>2 DEF AtCharacter, IsCjkChar, Chinese
  <2>2. loop # "cjkneg"
    BY <1>3
  <2> QED
    BY <1>1, <2>1, <2>2 DEF TurnOf, CjkCjk, Lets, Mark
<1> QED
  BY <1>2, <1>3 DEF HyphenLoops

\* What is to become of each byte of t.
Joined(t, loop) == [k \in 1 .. Len(t) |-> JoinedByte(t, k, loop)]

\* That is a text each.
LEMMA JoinedType ==
  ASSUME NEW t, t \in Seq(Byte), NEW loop, NEW f, f = Joined(t, loop)
  PROVE  /\ f \in Parts(Byte) /\ Len(f) = Len(t)
         /\ \A k \in 1 .. Len(t) : f[k] = JoinedByte(t, k, loop)
<1>1. ASSUME NEW k \in 1 .. Len(t) PROVE JoinedByte(t, k, loop) \in Seq(Byte)
  <2>1. t[k] \in Byte
    OBVIOUS
  <2>2. <<t[k]>> \in Seq(Byte) /\ <<>> \in Seq(Byte)
    BY <2>1, EmptySeq
  <2> QED
    BY <2>2, SingleBytes DEF JoinedByte
<1>2. PICK X : X = Seq(Byte)
  OBVIOUS
<1>3. f \in Seq(X) /\ Len(f) = Len(t)
  BY <1>1, <1>2 DEF Joined
<1> QED
  BY <1>2, <1>3 DEF Joined, Parts

\* A turn m of a loop puts out what becomes of the bytes it passes, and ends
\* within no joint.
Advances(m, t, i, loop) ==
    /\ m.next \in 1 .. Len(t) + 1 /\ ~InJoint(t, m.next, loop)
    /\ Upto(Joined(t, loop), m.next) = Upto(Joined(t, loop), i) \o m.put

\* A turn of a loop on hyphens that nothing misleads does what a pass over the
\* characters would: with a Chinese character,
LEMMA ChineseTurnJoins ==
  ASSUME NEW t, t \in Seq(Byte), Whole(t), NEW i, i \in 1 .. Len(t), Chinese(t, i),
         NEW loop, loop \in HyphenLoops,
         NEW m, TurnOf(m, t, i, loop)
  PROVE  Advances(m, t, i, loop)
<1>0. PICK f : f = Joined(t, loop)
  OBVIOUS
<1>1. PICK n, a, r : n = Utf8CharLen(t[i]) /\ a = i + n /\ r = BehindHyphen(t, i)
  OBVIOUS
<1>2. /\ n \in 1 .. 4 /\ a \in i + 1 .. Len(t) + 1 /\ DecodeUtf8(t, i).len = n /\ IsCjkChar(t, i)
      /\ \A q \in i .. a - 1 : ~Joint(t[q])
  BY <1>1, ChineseNext
<1>3. /\ f \in Parts(Byte) /\ Len(f) = Len(t)
      /\ \A k \in 1 .. Len(t) : f[k] = JoinedByte(t, k, loop)
  BY <1>0, JoinedType
<1>4. PICK w : w = SubSeq(t, i, a - 1)
  OBVIOUS
<1>5. CopyChinese(t, i).put = w /\ CopyChinese(t, i).next = a
  <2>1. i + n - 1 <= Len(t) /\ i + n - 1 = a - 1
    BY <1>1, <1>2
  <2> QED
    BY <1>1, <1>2, <1>4, <2>1 DEF CopyChinese, Copy
<1>6. Upto(f, a) = Upto(f, i) \o w
  <2>1. Bytewise(f, t, i, a)
    <3> SUFFICES ASSUME NEW k \in i .. a - 1 PROVE f[k] = <<t[k]>>
      BY <1>3 DEF Bytewise
    <3>1. k \in 1 .. Len(t)
      BY <1>2
    <3> QED
      BY <1>2, <1>3, <3>1, NoJoint
  <2>2. i \in 1 .. Len(t) + 1 /\ a \in i .. Len(t) + 1
    BY <1>2
  <2>3. f \in Parts(Byte)
    BY <1>3
  <2>4. Upto(f, a) = Upto(f, i) \o SubSeq(t, i, a - 1)
    BY ZenonT(60), <2>1, <2>2, <2>3, UptoCopy
  <2> QED
    BY Zenon, <1>4, <2>4
<1>7. m = IF HyphenFollows(t, i) /\ Lets(t, r, loop) THEN Rewritten(t, i, Mark(loop))
          ELSE CopyChinese(t, i)
  BY Zenon, <1>1, JointTurn
<1>8. CASE HyphenFollows(t, i) /\ Lets(t, r, loop)
  <2>1. a \in 1 .. Len(t) /\ r \in a + 1 .. Len(t) /\ Joins(t, a, r, loop)
    BY <1>1, <1>8, FoundJoint
  <2>2. /\ JoinedByte(t, a, loop) = Mark(loop) /\ ~InJoint(t, r, loop)
        /\ \A k \in a + 1 .. r - 1 : JoinedByte(t, k, loop) = <<>>
    BY <2>1, JoinedRun
  <2>3. m.put = w \o Mark(loop) /\ m.next = r
    BY <1>1, <1>5, <1>7, <1>8 DEF Rewritten
  <2>4. PICK b : b = a + 1
    OBVIOUS
  <2>5. Upto(f, b) = Upto(f, a) \o Mark(loop)
    <3>1. a \in 1 .. Len(f) /\ f[a] = Mark(loop)
      BY <1>3, <2>1, <2>2
    <3> QED
      BY <1>3, <2>4, <3>1, UptoNext
  <2>6. Upto(f, r) = Upto(f, b)
    <3>1. b \in 1 .. Len(f) + 1 /\ r \in b .. Len(f) + 1 /\ \A k \in b .. r - 1 : k \in 1 .. Len(t)
      BY <1>3, <2>1, <2>4
    <3>2. \A k \in b .. r - 1 : f[k] = <<>>
      BY <1>3, <2>2, <2>4, <3>1
    <3> QED
      BY <1>3, <3>1, <3>2, UptoNone
  <2>7. (Upto(f, i) \o w) \o Mark(loop) = Upto(f, i) \o (w \o Mark(loop))
    <3>1. Upto(f, i) \in Seq(Byte)
      <4>1. i \in 1 .. Len(f) + 1
        BY <1>3
      <4> QED
        BY <1>3, <4>1, UptoType
    <3>2. w \in Seq(Byte) /\ Mark(loop) \in Seq(Byte)
      BY <1>2, <1>4, SingleBytes DEF Mark
    <3> QED
      BY ONLY <3>1, <3>2, Associative
  <2>8. Upto(f, r) = Upto(f, i) \o m.put
    BY Zenon, <1>6, <2>3, <2>5, <2>6, <2>7
  <2>9. r \in 1 .. Len(t) + 1
    BY <2>1
  <2> QED
    BY Zenon, <1>0, <2>2, <2>3, <2>8, <2>9 DEF Advances
<1>9. CASE ~(HyphenFollows(t, i) /\ Lets(t, r, loop))
  <2>1. m.put = w /\ m.next = a
    BY <1>5, <1>7, <1>9
  <2>2. ASSUME InJoint(t, a, loop) PROVE FALSE
    <3>1. PICK k : k = a - 1 /\ k + 1 = a /\ k \in i .. a - 1
      BY <1>2
    <3>2. a <= Len(t)
      <4>1. PICK q \in a + 1 .. Len(t) : TRUE
        BY <2>2 DEF InJoint
      <4> QED
        BY <1>2, <4>1
    <3>3. k \in 1 .. Len(t)
      BY <1>2, <3>1, <3>2
    <3>4. ~InJoint(t, k, loop)
      BY <1>2, <3>1, <3>3, NoJoint
    <3>5. PICK e \in k + 2 .. Len(t) : Joins(t, k + 1, e, loop)
      BY <2>2, <3>1, <3>3, <3>4, JointBegins
    <3>6. e \in a + 1 .. Len(t) /\ Joins(t, a, e, loop)
      BY <3>1, <3>5
    <3>7. HyphenFollows(t, i) /\ r = e
      BY <1>1, <3>6, JointFound
    <3>8. Lets(t, e, loop)
      BY <3>6, JoinsBytes
    <3> QED
      BY <1>9, <3>7, <3>8
  <2>3. a \in 1 .. Len(t) + 1
    BY <1>2
  <2> QED
    BY Zenon, <1>0, <1>6, <2>1, <2>2, <2>3 DEF Advances
<1> QED
  BY <1>8, <1>9

\* with a byte of another one,
LEMMA OtherTurnJoins ==
  ASSUME NEW t, t \in Seq(Byte), Whole(t), NEW i, i \in 1 .. Len(t), ~IsCjkChar(t, i),
         AtCharacter(t, i) \/ InsideOther(t, i),
         NEW loop, ~InJoint(t, i, loop)
  PROVE  Advances(CopyChinese(t, i), t, i, loop)
<1>1. PICK e, f, m : e = i + 1 /\ f = Joined(t, loop) /\ m = CopyChinese(t, i)
  OBVIOUS
<1>2. /\ f \in Parts(Byte) /\ Len(f) = Len(t)
      /\ \A k \in 1 .. Len(t) : f[k] = JoinedByte(t, k, loop)
  BY <1>1, JoinedType
<1>3. m.put = <<t[i]>> /\ m.next = e
  <2>1. i + 1 - 1 = i /\ i <= Len(t)
    OBVIOUS
  <2>2. PICK y : y = SubSeq(t, i, i)
    OBVIOUS
  <2>3. y \in Seq(Byte) /\ Len(y) = 1 /\ y[1] = t[i]
    BY <2>2
  <2>4. y = <<t[i]>>
    BY <2>3
  <2> QED
    BY <1>1, <2>1, <2>2, <2>4 DEF CopyChinese, Copy
<1>4. Upto(f, e) = Upto(f, i) \o m.put
  <2>1. f[i] = <<t[i]>> /\ i \in 1 .. Len(f)
    BY <1>2 DEF JoinedByte
  <2> QED
    BY <1>1, <1>2, <1>3, <2>1, UptoNext
<1>5. ASSUME InJoint(t, e, loop) PROVE FALSE
  <2>1. PICK r \in i + 2 .. Len(t) : Joins(t, e, r, loop)
    BY <1>1, <1>5, JointBegins
  <2>2. PICK h \in 1 .. e - 1 : Chinese(t, h) /\ e = h + Utf8CharLen(t[h])
    BY <2>1, JoinsBytes DEF BehindChinese
  <2>3. h \in 1 .. i /\ h \in 1 .. Len(t) /\ h \in Nat /\ i \in Nat
    BY <1>1, <2>2
  <2>4. IsCjkChar(t, h) /\ ~Continues(t[h]) /\ \A q \in h + 1 .. e - 1 : Continues(t[q])
    BY <2>2, <2>3, ChineseNext DEF Chinese
  <2>5. h # i
    BY <2>4
  <2>6. i \in h + 1 .. e - 1
    BY <1>1, <2>3, <2>5
  <2>7. Continues(t[i])
    BY <2>4, <2>6
  <2>8. PICK o \in 1 .. i - 1 : HeadOf(t, i, o) /\ ~IsCjkChar(t, o)
    BY <2>7 DEF AtCharacter, InsideOther
  <2>9. ~Continues(t[o]) /\ \A k \in o + 1 .. i : Continues(t[k])
    BY <2>8 DEF HeadOf
  <2>10. ~(o < h)
    <3>1. o < h => h \in o + 1 .. i
      BY <2>3, <2>8
    <3> QED
      BY <2>4, <2>9, <3>1
  <2>11. ~(h < o)
    <3>1. h < o => o \in h + 1 .. e - 1
      BY <1>1, <2>3, <2>8
    <3> QED
      BY <2>4, <2>9, <3>1
  <2>12. h = o
    BY <2>3, <2>8, <2>10, <2>11
  <2> QED
    BY <2>4, <2>8, <2>12
<1>6. e \in 1 .. Len(t) + 1
  BY <1>1
<1> QED
  BY Zenon, <1>1, <1>3, <1>4, <1>5, <1>6 DEF Advances

\* with either.
LEMMA TurnJoins ==
  ASSUME NEW t, t \in Seq(Byte), Whole(t), ~Misled(t), NEW i, i \in 1 .. Len(t), Guided(t, i),
         NEW loop, loop \in HyphenLoops, ~InJoint(t, i, loop),
         NEW m, TurnOf(m, t, i, loop)
  PROVE  Advances(m, t, i, loop)
<1>1. AtCharacter(t, i) \/ InsideOther(t, i)
  BY DEF Guided
<1>2. CASE IsCjkChar(t, i)
  <2>1. ~Continues(t[i])
    <3>1. SUFFICES ASSUME Continues(t[i]) PROVE FALSE
      OBVIOUS
    <3>2. SeemsChinese(t, i)
      BY <1>2, <3>1 DEF SeemsChinese
    <3> QED
      BY <1>1, <3>1, <3>2 DEF AtCharacter, Misled
  <2>2. Chinese(t, i)
    BY <1>2, <2>1 DEF Chinese, IsCjkChar
  <2> QED
    BY Zenon, <2>2, ChineseTurnJoins
<1>3. CASE ~IsCjkChar(t, i)
  <2>1. m = CopyChinese(t, i)
    BY <1>3 DEF TurnOf, CjkNeg, CjkCjk, HyphenFollows
  <2> QED
    BY Zenon, <1>1, <1>3, <2>1, OtherTurnJoins
<1> QED
  BY <1>2, <1>3

(***************************************************************************)
(* The inductive invariant: on a whole text that does not mislead it, a    *)
(* loop on hyphens has put out what becomes of the bytes in front of the   *)
(* pointer, and the pointer is not within a joint.                         *)
(***************************************************************************)
JoinInv ==
    stage \in HyphenLoops /\ Whole(s) /\ ~Misled(s) =>
        /\ p <= Len(s) + 1 /\ ~InJoint(s, p, stage)
        /\ result = Upto(Joined(s, stage), p)

\* A turn keeps it.
LEMMA StepJoin ==
  ASSUME TypeOK, DecodingInv, JoinInv, Step
  PROVE  JoinInv'
<1>1. /\ s \in Seq(Byte) /\ p \in 1 .. Len(s) /\ Len(s) \in Nat /\ ~Overrun
  BY DEF TypeOK, Step, Overrun
<1>2. PICK m : m = Turn
  OBVIOUS
<1>3. stage' = stage /\ s' = s /\ p' = m.next /\ result' = result \o m.put
  BY <1>2 DEF Step
<1>4. SUFFICES ASSUME stage \in HyphenLoops, Whole(s), ~Misled(s)
               PROVE  /\ m.next <= Len(s) + 1 /\ ~InJoint(s, m.next, stage)
                      /\ result \o m.put = Upto(Joined(s, stage), m.next)
  BY <1>3 DEF JoinInv
<1>5. Guided(s, p)
  BY <1>1, <1>4 DEF DecodingInv, Guided
<1>6. ~InJoint(s, p, stage) /\ result = Upto(Joined(s, stage), p)
  BY <1>4 DEF JoinInv
<1>7. TurnOf(m, s, p, stage)
  BY <1>2, <1>4 DEF Turn, TurnOf, HyphenLoops
<1>8. Advances(m, s, p, stage)
  BY Zenon, <1>1, <1>4, <1>5, <1>6, <1>7, TurnJoins
<1>9. m.next <= Len(s) + 1
  BY <1>1, <1>8 DEF Advances
<1> QED
  BY Zenon, <1>6, <1>8, <1>9 DEF Advances

\* Each loop begins with it.
LEMMA EndStageJoin ==
  ASSUME TypeOK, EndStage
  PROVE  JoinInv'
<1>1. s' = result /\ p' = 1 /\ result' = <<>> /\ result \in Seq(Byte) /\ Len(result) \in Nat
  BY DEF EndStage, TypeOK
<1>2. ~InJoint(result, 1, stage')
  <2>1. SUFFICES ASSUME NEW j \in 1 .. 1, NEW r, Joins(result, j, r, stage') PROVE FALSE
    BY DEF InJoint
  <2>2. BehindChinese(result, j) /\ j = 1
    BY <2>1, JoinsBytes
  <2> QED
    BY <2>2 DEF BehindChinese
<1>3. Upto(Joined(result, stage'), 1) = <<>>
  <2>1. Joined(result, stage') \in Parts(Byte)
    BY <1>1, JoinedType
  <2> QED
    BY <2>1, UptoFirst
<1>4. 1 <= Len(result) + 1
  BY <1>1
<1> QED
  BY Zenon, <1>1, <1>2, <1>3, <1>4 DEF JoinInv

\* The inductive invariant holds.
LEMMA JoinInvariant == Spec => []JoinInv
<1>1. Init => JoinInv
  BY DEF Init, JoinInv, HyphenLoops
<1>2. TypeOK /\ DecodingInv /\ JoinInv /\ [Next]_vars => JoinInv'
  <2>1. JoinInv /\ UNCHANGED vars => JoinInv'
    BY DEF vars, JoinInv
  <2> QED
    BY <2>1, StepJoin, EndStageJoin DEF Next, Finished
<1> QED
  BY <1>1, <1>2, BytesTypeCorrect, DecodingInvariant, PTL DEF Spec

(***************************************************************************)
(* For every text: on a whole text without a character that misleads it, a *)
(* loop on hyphens, which steps over bytes where a character is not        *)
(* Chinese, replaces the joints there are between characters, all of them  *)
(* and nothing else.                                                       *)
(***************************************************************************)
THEOREM HyphensJoinByCharacter == Spec => []HyphensByCharacter
<1>1. ASSUME TypeOK, JoinInv PROVE HyphensByCharacter
  <2>1. SUFFICES ASSUME stage \in HyphenLoops, p = Len(s) + 1, Whole(s), ~Misled(s)
                 PROVE  result = JoinText(s, stage)
    BY DEF HyphensByCharacter
  <2>2. PICK f : f = Joined(s, stage)
    OBVIOUS
  <2>3. f \in Parts(Byte) /\ Len(f) = Len(s) /\ Len(s) \in Nat
    <3>1. s \in Seq(Byte)
      BY <1>1 DEF TypeOK
    <3>2. Len(s) \in Nat
      BY <3>1
    <3> QED
      BY Zenon, <2>2, <3>1, <3>2, JoinedType
  <2>4. result = Upto(f, p)
    BY <2>1, <2>2, <1>1 DEF JoinInv
  <2>5. SubSeq(f, 1, p - 1) = f
    <3>1. p - 1 = Len(f)
      BY <2>1, <2>3
    <3>2. PICK X : X = Seq(Byte)
      OBVIOUS
    <3>3. f \in Seq(X)
      BY <2>3, <3>2 DEF Parts
    <3>4. SubSeq(f, 1, Len(f)) = f
      BY <3>3
    <3> QED
      BY Zenon, <3>1, <3>4
  <2>6. JoinText(s, stage) = FlattenSeq(f)
    BY Zenon, <2>2 DEF JoinText, Joined
  <2> QED
    BY Zenon, <2>4, <2>5, <2>6 DEF Upto
<1> QED
  BY <1>1, BytesTypeCorrect, JoinInvariant, PTL

=============================================================================
