------------------------ MODULE Punctuation_proofs ------------------------
(***************************************************************************)
(* Proofs about Punctuation for every set of input texts.                  *)
(***************************************************************************)
EXTENDS Punctuation, TextOps_proofs

\* LastOutside is the position the backward loop stops at.
LEMMA LastOutsideFound ==
    ASSUME NEW set, NEW t \in Seq(Char), NEW top \in 0 .. Len(t)
    PROVE  /\ LastOutside(set, t, top) \in 0 .. top
           /\ LastOutside(set, t, top) > 0 => t[LastOutside(set, t, top)] \notin set
           /\ \A q \in LastOutside(set, t, top) + 1 .. top : t[q] \in set
<1> DEFINE T == {n \in 0 .. top : \A q \in n + 1 .. top : t[q] \in set}
<1>1. top \in T /\ T \subseteq Nat
  OBVIOUS
<1>2. PICK n \in T : \A y \in T : n <= y
  <2> HIDE DEF T
  <2> QED
    BY <1>1, LeastNumber
<1>3. n > 0 => t[n] \notin set
  <2> SUFFICES ASSUME n > 0, t[n] \in set
               PROVE  FALSE
    OBVIOUS
  <2>1. n - 1 \in 0 .. top /\ \A q \in n .. top : t[q] \in set
    BY <1>2
  <2>2. n - 1 \in T
    BY <2>1
  <2> QED
    BY <2>2, <1>2
<1>4. \E m \in 0 .. top : /\ m > 0 => t[m] \notin set
                          /\ \A q \in m + 1 .. top : t[q] \in set
  BY <1>2, <1>3
<1> QED
  BY <1>4 DEF LastOutside

\* LastMark is a position of the text, or 0.
LEMMA LastMarkInside ==
    ASSUME NEW t \in Seq(Char)
    PROVE  LastMark(t) \in 0 .. Len(t)
<1>1. Len(t) \in 0 .. Len(t)
  OBVIOUS
<1>2. LastOutside({Blank}, t, Len(t)) \in 0 .. Len(t)
  BY <1>1, LastOutsideFound
<1>3. LastMark(t) \in 0 .. LastOutside({Blank}, t, Len(t))
  BY <1>2, LastOutsideFound DEF LastMark
<1> QED
  BY <1>2, <1>3

\* EnsureTerminalPunctuation returns a text.
LEMMA EnsureType ==
    ASSUME NEW t \in Seq(Char)
    PROVE  EnsureTerminalPunctuation(t) \in Seq(Char)
<1> DEFINE n == LastMark(t)
<1>1. n \in 0 .. Len(t)
  BY LastMarkInside
<1>2. Stop \in Char
  BY DEF Char, Stops
<1>3. n > 0 => [t EXCEPT ![n] = Stop] \in Seq(Char)
  <2> HIDE DEF n
  <2>1. n > 0 => n \in 1 .. Len(t)
    BY <1>1
  <2> QED
    BY <1>2, <2>1, ExceptSeq
<1>4. Append(t, Stop) \in Seq(Char)
  BY <1>2
<1> HIDE DEF n
<1> QED
  BY <1>1, <1>3, <1>4 DEF EnsureTerminalPunctuation, n

\* Strip returns a text.
LEMMA StripType ==
    ASSUME NEW t \in Seq(Char)
    PROVE  Strip(t) \in Seq(Char)
<1> DEFINE inside == {i \in 1 .. Len(t) : t[i] # Blank}
           first  == CHOOSE i \in inside : \A j \in inside : i <= j
           last   == LastOutside({Blank}, t, Len(t))
<1>1. CASE inside = {}
  BY <1>1 DEF Strip
<1>2. CASE inside # {}
  <2>1. inside \subseteq Nat
    OBVIOUS
  <2>2. \E i \in inside : \A j \in inside : i <= j
    <3> HIDE DEF inside
    <3> QED
      BY <1>2, <2>1, LeastNumber
  <2>3. first \in inside
    <3> HIDE DEF inside
    <3> QED
      BY <2>2
  <2>4. first \in 1 .. Len(t)
    <3> HIDE DEF first
    <3> QED
      BY <2>3
  <2>5. last \in 0 .. Len(t)
    BY LastOutsideFound
  <2>6. SubSeq(t, first, last) \in Seq(Char)
    <3> HIDE DEF first, last
    <3> QED
      BY <2>4, <2>5
  <2>7. Strip(t) = SubSeq(t, first, last)
    BY <1>2 DEF Strip
  <2> QED
    BY <2>6, <2>7
<1> QED
  BY <1>1, <1>2

-----------------------------------------------------------------------------
\* What Strip returns has no blank at its two ends, or is empty.
LEMMA StripEnds ==
    ASSUME NEW t \in Seq(Char)
    PROVE  Strip(t) = <<>> \/ Stripped(Strip(t))
<1> DEFINE inside == {i \in 1 .. Len(t) : t[i] # Blank}
           first  == CHOOSE i \in inside : \A j \in inside : i <= j
           last   == LastOutside({Blank}, t, Len(t))
<1>1. CASE inside = {}
  BY <1>1 DEF Strip
<1>2. CASE inside # {}
  <2>1. inside \subseteq Nat
    OBVIOUS
  <2>2. \E i \in inside : \A j \in inside : i <= j
    <3> HIDE DEF inside
    <3> QED
      BY <1>2, <2>1, LeastNumber
  <2>3. first \in inside
    <3> HIDE DEF inside
    <3> QED
      BY <2>2
  <2>4. first \in 1 .. Len(t) /\ t[first] # Blank
    <3> HIDE DEF first
    <3> QED
      BY <2>3
  <2>5. /\ last \in 0 .. Len(t)
        /\ last > 0 => t[last] # Blank
        /\ \A q \in last + 1 .. Len(t) : t[q] = Blank
    BY LastOutsideFound
  <2>6. Strip(t) = SubSeq(t, first, last)
    BY <1>2 DEF Strip
  <2> HIDE DEF first, last, inside
  <2>7. first <= last
    BY <2>4, <2>5
  <2>8. /\ Len(SubSeq(t, first, last)) = last - first + 1
        /\ SubSeq(t, first, last)[1] = t[first]
        /\ SubSeq(t, first, last)[last - first + 1] = t[last]
    BY <2>4, <2>5, <2>7
  <2> QED
    BY <2>4, <2>5, <2>6, <2>7, <2>8 DEF Stripped
<1> QED
  BY <1>1, <1>2

\* Strip leaves a text alone that has no blank at its two ends.
LEMMA StripKeeps ==
    ASSUME NEW t \in Seq(Char), Stripped(t)
    PROVE  Strip(t) = t
<1> DEFINE inside == {i \in 1 .. Len(t) : t[i] # Blank}
           first  == CHOOSE i \in inside : \A j \in inside : i <= j
           last   == LastOutside({Blank}, t, Len(t))
<1>1. Len(t) \in Nat /\ Len(t) >= 1 /\ 1 \in inside
  BY DEF Stripped
<1>2. \A j \in inside : 1 <= j
  OBVIOUS
<1>3. \A i \in inside : (\A j \in inside : i <= j) => i = 1
  BY <1>1, <1>2
<1>4. first = 1
  <2> HIDE DEF inside
  <2> QED
    BY <1>1, <1>2, <1>3
<1>5. /\ last \in 0 .. Len(t)
      /\ \A q \in last + 1 .. Len(t) : t[q] = Blank
  BY LastOutsideFound
<1>6. last = Len(t)
  <2> HIDE DEF last
  <2> QED
    BY <1>1, <1>5 DEF Stripped
<1>7. Strip(t) = SubSeq(t, first, last)
  BY <1>1 DEF Strip
<1>8. SubSeq(t, 1, Len(t)) = t
  OBVIOUS
<1> QED
  BY <1>4, <1>6, <1>7, <1>8

\* The backward loops stop at n when only closing marks are behind it.
LEMMA MarkFound ==
    ASSUME NEW t \in Seq(Char), Stripped(t), NEW n \in 1 .. Len(t), t[n] # Closing,
           \A q \in n + 1 .. Len(t) : t[q] = Closing
    PROVE  LastMark(t) = n
<1> DEFINE last == LastOutside({Blank}, t, Len(t))
<1>1. /\ last \in 0 .. Len(t)
      /\ \A q \in last + 1 .. Len(t) : t[q] = Blank
  BY LastOutsideFound
<1>2. last = Len(t)
  <2> HIDE DEF last
  <2> QED
    BY <1>1 DEF Stripped
<1> DEFINE mark == LastOutside({Closing}, t, Len(t))
<1>3. /\ mark \in 0 .. Len(t)
      /\ mark > 0 => t[mark] # Closing
      /\ \A q \in mark + 1 .. Len(t) : t[q] = Closing
  BY LastOutsideFound
<1>4. mark = n
  <2> HIDE DEF mark
  <2>1. CASE mark < n
    BY <1>3, <2>1
  <2>2. CASE mark > n
    BY <1>3, <2>2
  <2> QED
    BY <1>3, <2>1, <2>2
<1> QED
  BY <1>2, <1>4 DEF LastMark

\* The mark that LastMark finds in a stripped text, and what is behind it.
LEMMA LastMarkOf ==
    ASSUME NEW t \in Seq(Char), Stripped(t)
    PROVE  /\ LastMark(t) \in 0 .. Len(t)
           /\ LastMark(t) > 0 => t[LastMark(t)] # Closing
           /\ \A q \in LastMark(t) + 1 .. Len(t) : t[q] = Closing
<1> DEFINE last == LastOutside({Blank}, t, Len(t))
<1>1. /\ last \in 0 .. Len(t)
      /\ \A q \in last + 1 .. Len(t) : t[q] = Blank
  BY LastOutsideFound
<1>2. last = Len(t)
  <2> HIDE DEF last
  <2> QED
    BY <1>1 DEF Stripped
<1> DEFINE mark == LastOutside({Closing}, t, Len(t))
<1>3. /\ mark \in 0 .. Len(t)
      /\ mark > 0 => t[mark] # Closing
      /\ \A q \in mark + 1 .. Len(t) : t[q] = Closing
  BY LastOutsideFound
<1>4. LastMark(t) = mark
  BY <1>2 DEF LastMark
<1> HIDE DEF mark
<1> QED
  BY <1>3, <1>4

\* EnsureTerminalPunctuation leaves a mark at the end, and no blank there.
LEMMA EnsureMarks ==
    ASSUME NEW t \in Seq(Char), Stripped(t)
    PROVE  Stripped(EnsureTerminalPunctuation(t)) /\ Marked(EnsureTerminalPunctuation(t))
<1> DEFINE n == LastMark(t)
<1>1. /\ n \in 0 .. Len(t)
      /\ n > 0 => t[n] # Closing
      /\ \A q \in n + 1 .. Len(t) : t[q] = Closing
  BY LastMarkOf
<1>2. /\ Stop \in Char /\ Stop # Closing /\ Stop # Blank
      /\ Stop \in Terminal /\ Len(t) >= 1 /\ t # <<>>
  BY DEF Stop, Closing, Blank, Char, Stops, Terminal, Stripped
<1> HIDE DEF n
<1>3. CASE n > 0 /\ t[n] = Dot
  <2> DEFINE u == [t EXCEPT ![n] = Stop]
  <2>0. Dot \notin Terminal
    BY DEF Dot, Terminal, Stops, Stop, WideDot, Commas, Comma, WComma, Tones,
           Bang, WBang, Quest, WQuest, Ellipsis, Mark
  <2>1. EnsureTerminalPunctuation(t) = u
    BY <1>2, <1>3, <2>0 DEF EnsureTerminalPunctuation, n
  <2>2. u \in Seq(Char) /\ Len(u) = Len(t)
    BY <1>1, <1>2, <1>3, ExceptSeq
  <2>3. u[n] = Stop /\ \A q \in 1 .. Len(t) : q # n => u[q] = t[q]
    BY <1>1, <1>3
  <2> HIDE DEF u
  <2>4. Stripped(u)
    BY <1>1, <1>2, <2>2, <2>3 DEF Stripped
  <2>5. LastMark(u) = n
    BY <1>1, <1>2, <1>3, <2>2, <2>3, <2>4, MarkFound
  <2> QED
    BY <1>2, <1>3, <2>1, <2>3, <2>4, <2>5 DEF Marked
<1>4. CASE n > 0 /\ t[n] # Dot /\ t[n] \in Terminal
  <2>1. EnsureTerminalPunctuation(t) = t
    BY <1>2, <1>4 DEF EnsureTerminalPunctuation, n
  <2> QED
    BY <1>4, <2>1 DEF Marked, n
<1>5. CASE ~(n > 0 /\ (t[n] = Dot \/ t[n] \in Terminal))
  <2> DEFINE u == Append(t, Stop)
  <2>1. EnsureTerminalPunctuation(t) = u
    BY <1>2, <1>5 DEF EnsureTerminalPunctuation, n
  <2>2. /\ u \in Seq(Char) /\ Len(u) = Len(t) + 1
        /\ u[Len(t) + 1] = Stop /\ u[1] = t[1] /\ u # <<>>
    BY <1>2
  <2> HIDE DEF u
  <2>3. Stripped(u)
    BY <1>2, <2>2 DEF Stripped
  <2>4. LastMark(u) = Len(u)
    BY <1>2, <2>2, <2>3, MarkFound
  <2> QED
    BY <1>2, <2>1, <2>2, <2>3, <2>4 DEF Marked
<1> QED
  BY <1>1, <1>3, <1>4, <1>5

-----------------------------------------------------------------------------
(***************************************************************************)
(* A reduced text stays reduced when a reduced piece is put behind it and  *)
(* the two marks that meet are not of one family.                          *)
(***************************************************************************)
LEMMA ReducedConcat ==
    ASSUME NEW r \in Seq(Char), NEW u \in Seq(Char), u # <<>>,
           Reduced(r), Reduced(u),
           r # <<>> => PairReduced(r[Len(r)], u[1])
    PROVE  Reduced(r \o u)
<1> DEFINE v == r \o u
<1>1. v \in Seq(Char) /\ Len(v) = Len(r) + Len(u)
  OBVIOUS
<1>2. \A i \in 1 .. Len(r) : v[i] = r[i]
  OBVIOUS
<1>3. \A i \in 1 .. Len(u) : v[Len(r) + i] = u[i]
  OBVIOUS
<1> HIDE DEF v
<1>4. ASSUME NEW i \in 1 .. Len(v)
      PROVE  v[i] # Comma
  <2>1. CASE i <= Len(r)
    BY <2>1, <1>2 DEF Reduced
  <2>2. CASE i > Len(r)
    <3>1. i - Len(r) \in 1 .. Len(u)
      BY <2>2, <1>1
    <3>2. v[i] = u[i - Len(r)]
      BY <3>1, <1>3
    <3> QED
      BY <3>1, <3>2 DEF Reduced
  <2> QED
    BY <2>1, <2>2
<1>5. ASSUME NEW i \in 1 .. Len(v) - 1
      PROVE  PairReduced(v[i], v[i + 1])
  <2>1. CASE i < Len(r)
    <3>1. v[i] = r[i] /\ v[i + 1] = r[i + 1] /\ i \in 1 .. Len(r) - 1
      BY <2>1, <1>2
    <3> QED
      BY <3>1 DEF Reduced
  <2>2. CASE i = Len(r)
    <3>1. v[i] = r[Len(r)] /\ r # <<>>
      BY <2>2, <1>2
    <3>2. v[i + 1] = u[1]
      BY <2>2, <1>3
    <3> QED
      BY <3>1, <3>2
  <2>3. CASE i > Len(r)
    <3>1. i - Len(r) \in 1 .. Len(u) - 1
      BY <2>3, <1>1
    <3> DEFINE j == i - Len(r)
    <3>2. j + 1 \in 1 .. Len(u) /\ Len(r) + j = i /\ Len(r) + (j + 1) = i + 1
      BY <3>1, <1>1
    <3>3. v[i] = u[j]
      BY <3>1, <3>2, <1>3
    <3>4. v[i + 1] = u[j + 1]
      BY <3>2, <1>3
    <3> QED
      BY <3>1, <3>3, <3>4 DEF Reduced
  <2> QED
    BY <2>1, <2>2, <2>3
<1> QED
  BY <1>4, <1>5 DEF Reduced, v

\* The empty text is reduced.
LEMMA EmptyReduced == Reduced(<<>>)
BY DEF Reduced

(***************************************************************************)
(* One step of the second scan, whichever run it reads: the run is of one  *)
(* family, what is written for it is reduced and of that family (or it is  *)
(* a single character of none), and the run ends where the next one        *)
(* begins.                                                                 *)
(***************************************************************************)
LEMMA ScanStep ==
    ASSUME TypeOK, stage = "repeat", p <= Len(s),
           Reduced(result), RunEnded(result, s, p),
           NEW out \in Seq(Char), NEW e \in p + 1 .. Len(s) + 1,
           Emit(out, e), out # <<>>, Reduced(out),
           \A f \in {Stops, Commas, Tones} :
               /\ out[1] \in f => s[p] \in f
               /\ out[Len(out)] \in f /\ e <= Len(s) => s[e] \notin f
    PROVE  PunctuationInv'
<1>1. /\ result' = result \o out /\ p' = e
      /\ stage' = stage /\ s' = s /\ input' = input /\ calls' = calls
  BY DEF Emit
<1>2. result \in Seq(Char) /\ s \in Seq(Char) /\ p \in 1 .. Len(s) + 1
  BY DEF TypeOK
<1>3. result' \in Seq(Char)
  BY <1>1, <1>2
<1>4. TypeOK'
  BY <1>1, <1>2, <1>3 DEF TypeOK, Scans
<1>5. result # <<>> => PairReduced(result[Len(result)], out[1])
  BY DEF RunEnded, PairReduced
<1>6. Reduced(result')
  BY <1>1, <1>2, <1>5, ReducedConcat
<1>7. result'[Len(result')] = out[Len(out)]
  BY <1>1, <1>2
<1>8. RunEnded(result', s', p')
  BY <1>1, <1>7 DEF RunEnded
<1>9. NoRepeatLeft'
  BY <1>1 DEF NoRepeatLeft
<1> QED
  BY <1>4, <1>6, <1>8, <1>9 DEF PunctuationInv, Reduced, RunEnded

-----------------------------------------------------------------------------
(***************************************************************************)
(* Every step keeps the invariant: the scans of                            *)
(* NormalizeRepeatedPunctuation stay inside their text, and the second one *)
(* has only written reduced text.                                          *)
(***************************************************************************)
THEOREM PunctuationInvariant == Spec => []PunctuationInv
<1>1. Init => PunctuationInv
  <2> SUFFICES ASSUME Init
               PROVE  PunctuationInv
    OBVIOUS
  <2>1. TypeOK
    BY TextsAssumption DEF Init, TypeOK, NextStage, Scans
  <2> QED
    BY <2>1 DEF Init, NextStage, PunctuationInv, NoRepeatLeft
<1>2. PunctuationInv /\ [Next]_vars => PunctuationInv'
  <2> SUFFICES ASSUME PunctuationInv, [Next]_vars
               PROVE  PunctuationInv'
    OBVIOUS
  <2>0. /\ TypeOK /\ NoRepeatLeft
        /\ stage = "repeat" => Reduced(result) /\ RunEnded(result, s, p)
        /\ s \in Seq(Char) /\ result \in Seq(Char) /\ p \in 1 .. Len(s) + 1
    BY DEF PunctuationInv, TypeOK
  <2>1. ASSUME NEW out \in Seq(Char), NEW e \in p + 1 .. Len(s) + 1,
               stage = "ellipsis", Emit(out, e)
        PROVE  PunctuationInv'
    <3>1. TypeOK'
      BY <2>0, <2>1 DEF TypeOK, Emit, Scans
    <3> QED
      BY <2>1, <3>1 DEF Emit, PunctuationInv, NoRepeatLeft
  <2>2. CASE DotsToStop
    <3>1. PICK e \in p + 3 .. Len(s) + 1 : Emit(<<Stop>>, e)
      BY <2>2 DEF DotsToStop
    <3>2. <<Stop>> \in Seq(Char) /\ e \in p + 1 .. Len(s) + 1
      BY <2>0 DEF Char, Stops
    <3> QED
      BY <2>1, <2>2, <3>1, <3>2 DEF DotsToStop, Reading
  <2>3. CASE EllipsesToStop
    <3>1. <<Stop>> \in Seq(Char) /\ p + 2 \in p + 1 .. Len(s) + 1
      BY <2>0, <2>3 DEF Char, Stops, EllipsesToStop, EllipsisPair
    <3> QED
      BY <2>1, <2>3, <3>1 DEF EllipsesToStop, Reading
  <2>4. CASE CopyNoEllipsis
    <3>1. <<s[p]>> \in Seq(Char) /\ p + 1 \in p + 1 .. Len(s) + 1
      BY <2>0, <2>4 DEF CopyNoEllipsis, Reading
    <3> QED
      BY <2>1, <2>4, <3>1 DEF CopyNoEllipsis, Reading
  <2>5. CASE ReduceStops
    <3>1. stage = "repeat" /\ p <= Len(s)
      BY <2>5 DEF ReduceStops, Reading
    <3>2. PICK e \in p + 1 .. Len(s) + 1 : RunOf(Stops, s, p, e) /\ Emit(<<s[p]>>, e)
      BY <2>5 DEF ReduceStops
    <3>3. s[p] \in Stops /\ (e <= Len(s) => s[e] \notin Stops)
      BY <2>0, <3>2 DEF RunOf
    <3>4. <<s[p]>> \in Seq(Char) /\ <<s[p]>> # <<>>
      BY <2>0, <3>1
    <3>5. Reduced(<<s[p]>>)
      BY <3>3 DEF Reduced, Stops, Stop, WideDot, Comma
    <3>6. \A f \in {Stops, Commas, Tones} :
             s[p] \in f /\ e <= Len(s) => s[e] \notin f
      BY <3>3 DEF Stops, Commas, Tones, Stop, WideDot, Comma, WComma,
                  Bang, WBang, Quest, WQuest
    <3> QED
      BY <2>0, <3>1, <3>2, <3>4, <3>5, <3>6, ScanStep
  <2>6. CASE ReduceCommas
    <3>1. stage = "repeat" /\ p <= Len(s)
      BY <2>6 DEF ReduceCommas, Reading
    <3>2. PICK e \in p + 1 .. Len(s) + 1 : RunOf(Commas, s, p, e) /\ Emit(<<WComma>>, e)
      BY <2>6 DEF ReduceCommas
    <3>3. s[p] \in Commas /\ (e <= Len(s) => s[e] \notin Commas)
      BY <2>0, <3>2 DEF RunOf
    <3>4. <<WComma>> \in Seq(Char) /\ <<WComma>> # <<>>
      BY DEF Char, Commas
    <3>5. Reduced(<<WComma>>)
      BY DEF Reduced, Comma, WComma
    <3>6. \A f \in {Stops, Commas, Tones} :
             WComma \in f => s[p] \in f /\ (e <= Len(s) => s[e] \notin f)
      BY <3>3 DEF Stops, Commas, Tones, Stop, WideDot, Comma, WComma,
                  Bang, WBang, Quest, WQuest
    <3> QED
      BY <2>0, <3>1, <3>2, <3>4, <3>5, <3>6, ScanStep
  <2>7. CASE ReduceTones
    <3>1. stage = "repeat" /\ p <= Len(s)
      BY <2>7 DEF ReduceTones, Reading
    <3>2. PICK e \in p + 1 .. Len(s) + 1 :
             RunOf(Tones, s, p, e) /\ Emit(ToneReading(s, p, e), e)
      BY <2>7 DEF ReduceTones
    <3>3. s[p] \in Tones /\ (e <= Len(s) => s[e] \notin Tones)
      BY <2>0, <3>2 DEF RunOf
    <3> DEFINE out == ToneReading(s, p, e)
    <3>4. out \in {<<s[p]>>, <<WBang>>, <<WQuest>>, <<WQuest, WBang>>}
      BY DEF ToneReading
    <3> HIDE DEF out
    <3>c. s[p] \in Char /\ WBang \in Char /\ WQuest \in Char
      BY <2>0, <3>1 DEF Char, Tones
    <3>s. ASSUME NEW c \in Char
          PROVE  <<c>> \in Seq(Char) /\ <<c>> # <<>> /\ Len(<<c>>) = 1 /\ <<c>>[1] = c
      OBVIOUS
    <3>d. /\ <<WQuest, WBang>> \in Seq(Char) /\ <<WQuest, WBang>> # <<>>
          /\ Len(<<WQuest, WBang>>) = 2
          /\ <<WQuest, WBang>>[1] = WQuest /\ <<WQuest, WBang>>[2] = WBang
      BY <3>c
    <3>5. out \in Seq(Char) /\ out # <<>>
      BY <3>4, <3>c, <3>s, <3>d
    <3>6. Reduced(out)
      BY <3>3, <3>4 DEF Reduced, PairReduced, Stops, Commas, Tones, Stop, WideDot,
                  Comma, WComma, Bang, WBang, Quest, WQuest
    <3>7. out[1] \in Tones /\ out[Len(out)] \in Tones
      <4>1. WBang \in Tones /\ WQuest \in Tones
        BY DEF Tones
      <4> QED
        BY <3>3, <3>4, <3>c, <3>s, <3>d, <4>1
    <3>8. \A f \in {Stops, Commas, Tones} :
             /\ out[1] \in f => s[p] \in f
             /\ out[Len(out)] \in f /\ e <= Len(s) => s[e] \notin f
      BY <3>3, <3>7 DEF Stops, Commas, Tones, Stop, WideDot, Comma, WComma,
                  Bang, WBang, Quest, WQuest
    <3>9. Emit(out, e)
      BY <3>2 DEF out
    <3> QED
      BY <2>0, <3>1, <3>5, <3>6, <3>8, <3>9, ScanStep
  <2>8. CASE CopyOther
    <3>1. stage = "repeat" /\ p <= Len(s) /\ Emit(<<s[p]>>, p + 1)
      BY <2>8 DEF CopyOther, Reading
    <3>2. s[p] \notin Stops /\ s[p] \notin Commas /\ s[p] \notin Tones
      BY <2>8 DEF CopyOther
    <3>3. <<s[p]>> \in Seq(Char) /\ <<s[p]>> # <<>> /\ p + 1 \in p + 1 .. Len(s) + 1
      BY <2>0, <3>1
    <3>4. Reduced(<<s[p]>>)
      BY <3>2 DEF Reduced, Commas
    <3> QED
      BY <2>0, <3>1, <3>2, <3>3, <3>4, ScanStep
  <2>9. CASE EndScan
    <3>1. TypeOK'
      BY <2>0, <2>9 DEF EndScan, TypeOK, Scans, NextStage
    <3>2. stage' = "repeat" => result' = <<>>
      BY <2>9 DEF EndScan
    <3>3. stage' = "terminal" => stage = "repeat" /\ s' = result
      BY <2>9 DEF EndScan, NextStage, Scans
    <3>4. NoRepeatLeft'
      BY <2>0, <3>3 DEF NoRepeatLeft, Reduced
    <3> QED
      BY <3>1, <3>2, <3>4, EmptyReduced DEF PunctuationInv, RunEnded, Reduced
  <2>10. CASE EnsureTerminalPunctuationByLine
    <3>1. s' \in Seq(Char)
      <4>1. Strip(s) \in Seq(Char)
        BY <2>0, StripType
      <4>2. EnsureTerminalPunctuation(Strip(s)) \in Seq(Char)
        BY <4>1, EnsureType
      <4> QED
        BY <2>10, <4>2, StripType DEF EnsureTerminalPunctuationByLine
    <3>2. TypeOK'
      BY <2>0, <2>10, <3>1 DEF EnsureTerminalPunctuationByLine, TypeOK, Scans
    <3> QED
      BY <2>10, <3>2 DEF EnsureTerminalPunctuationByLine, PunctuationInv, NoRepeatLeft
  <2>11. CASE RunAgain
    <3>1. TypeOK'
      BY <2>0, <2>11 DEF RunAgain, TypeOK, Scans, NextStage
    <3> QED
      BY <2>11, <3>1 DEF RunAgain, NextStage, PunctuationInv, NoRepeatLeft
  <2>12. CASE Finished \/ UNCHANGED vars
    BY <2>12 DEF Finished, vars, PunctuationInv, TypeOK, NoRepeatLeft, Reduced, RunEnded
  <2> QED
    BY <2>2, <2>3, <2>4, <2>5, <2>6, <2>7, <2>8, <2>9, <2>10, <2>11, <2>12 DEF Next
<1> QED
  BY <1>1, <1>2, PTL DEF Spec

(***************************************************************************)
(* For every set of texts: NormalizeRepeatedPunctuation leaves no repeated *)
(* mark, in the first round and in the second.                             *)
(***************************************************************************)
THEOREM NoRepeatsAreLeft == Spec => []NoRepeatLeft
BY PunctuationInvariant, PTL DEF PunctuationInv

(***************************************************************************)
(* The read position never leaves the text, in either round.               *)
(***************************************************************************)
THEOREM PunctuationTypeCorrect == Spec => []TypeOK
BY PunctuationInvariant, PTL DEF PunctuationInv

(***************************************************************************)
(* For every set of texts: a text that is not empty ends with a mark,      *)
(* before its closing quotes and brackets, after each round.               *)
(***************************************************************************)
THEOREM TextsEndMarked == Spec => []EndsMarked
<1>1. Init => EndsMarked
  BY DEF Init, EndsMarked, NextStage
<1>2. PunctuationInv /\ EndsMarked /\ [Next]_vars => EndsMarked'
  <2> SUFFICES ASSUME PunctuationInv, EndsMarked, [Next]_vars, stage' = "done"
               PROVE  s' # <<>> => Marked(s')
    BY DEF EndsMarked, Marked
  <2>1. CASE EnsureTerminalPunctuationByLine
    <3> DEFINE u == Strip(s)
               v == EnsureTerminalPunctuation(u)
    <3>1. s' = Strip(v)
      BY <2>1 DEF EnsureTerminalPunctuationByLine
    <3>2. u \in Seq(Char)
      BY StripType DEF PunctuationInv, TypeOK
    <3>3. CASE u = <<>>
      <4>1. v = <<>>
        BY <3>3 DEF EnsureTerminalPunctuation
      <4>2. Strip(<<>>) = <<>>
        BY DEF Strip
      <4> QED
        BY <3>1, <4>1, <4>2
    <3>4. CASE Stripped(u)
      <4> HIDE DEF u
      <4>1. v \in Seq(Char) /\ Stripped(v) /\ Marked(v)
        BY <3>2, <3>4, EnsureType, EnsureMarks
      <4> HIDE DEF v
      <4> QED
        BY <3>1, <4>1, StripKeeps
    <3>5. s \in Seq(Char)
      BY DEF PunctuationInv, TypeOK
    <3> QED
      BY <3>3, <3>4, <3>5, StripEnds
  <2>2. CASE Finished \/ UNCHANGED vars
    BY <2>2 DEF Finished, vars, EndsMarked, Marked
  <2>3. ASSUME ~EnsureTerminalPunctuationByLine, ~Finished, Next
        PROVE  FALSE
    <3>1. stage \in Scans \/ stage = "done"
      BY <2>3 DEF Next, DotsToStop, EllipsesToStop, CopyNoEllipsis, ReduceStops,
                  ReduceCommas, ReduceTones, CopyOther, EndScan, RunAgain, Reading, Scans
    <3> QED
      BY <2>3, <3>1 DEF Next, DotsToStop, EllipsesToStop, CopyNoEllipsis, ReduceStops,
                  ReduceCommas, ReduceTones, CopyOther, EndScan, RunAgain, Reading,
                  Emit, Scans, NextStage
  <2> QED
    BY <2>1, <2>2, <2>3
<1> QED
  BY <1>1, <1>2, PunctuationInvariant, PTL DEF Spec

-----------------------------------------------------------------------------
\* The kinds of marks are different.
LEMMA Kinds ==
    /\ Dot # Stop /\ Dot # Ellipsis /\ Stop # Ellipsis /\ Closing # Dot /\ Closing # Stop
    /\ Dot \notin Stops \cup Commas \cup Tones
    /\ Ellipsis \notin Stops \cup Commas \cup Tones
    /\ Closing \notin Stops \cup Commas \cup Tones
    /\ Dot \notin Terminal /\ Stop \in Stops /\ Stop \in Terminal
    /\ Stop \notin Commas \cup Tones
    /\ Stops \subseteq Terminal
    /\ Stop \in Char /\ WBang \in Char /\ WQuest \in Char /\ WComma \in Char
    /\ WBang # WQuest
BY DEF Char, Terminal, Stops, Commas, Tones, Dot, Stop, WideDot, Ellipsis, Closing, Comma,
       WComma, Bang, WBang, Quest, WQuest, Mark

\* Where the run of a mark that is read ends.
LEMMA RunEnds ==
    ASSUME NEW set, NEW t \in Seq(Char), NEW i \in 1 .. Len(t), t[i] \in set
    PROVE  \E e \in i + 1 .. Len(t) + 1 : RunOf(set, t, i, e)
<1> DEFINE T == {e \in i + 1 .. Len(t) + 1 : e = Len(t) + 1 \/ t[e] \notin set}
<1>1. Len(t) + 1 \in T /\ T \subseteq Nat
  OBVIOUS
<1>2. PICK e \in T : \A y \in T : e <= y
  <2> HIDE DEF T
  <2> QED
    BY <1>1, LeastNumber
<1>3. e \in i + 1 .. Len(t) + 1 /\ (e = Len(t) + 1 \/ t[e] \notin set)
  BY <1>2
<1>4. ASSUME NEW q \in i .. e - 1 PROVE t[q] \in set
  <2>1. CASE q = i
    BY <2>1
  <2>2. CASE q # i
    <3>1. q \in i + 1 .. Len(t) /\ q < e /\ q \in Nat /\ e \in Nat
      BY <1>3, <2>2
    <3>2. q \notin T
      <4> HIDE DEF T
      <4> QED
        BY <1>2, <3>1
    <3> QED
      BY <3>1, <3>2
  <2> QED
    BY <2>1, <2>2
<1> QED
  BY <1>3, <1>4 DEF RunOf

\* Three dots in a row begin a run of three or more.
LEMMA ThreeDots ==
    ASSUME NEW t \in Seq(Char), NEW i \in 1 .. Len(t) - 2,
           t[i] = Dot, t[i + 1] = Dot, t[i + 2] = Dot
    PROVE  \E e \in i + 3 .. Len(t) + 1 : RunOf({Dot}, t, i, e)
<1>1. i \in 1 .. Len(t) /\ t[i] \in {Dot}
  OBVIOUS
<1>2. PICK e \in i + 1 .. Len(t) + 1 : RunOf({Dot}, t, i, e)
  BY <1>1, RunEnds
<1>3. e <= Len(t) => t[e] # Dot
  BY <1>2 DEF RunOf
<1>4. e # i + 1 /\ e # i + 2
  BY <1>3
<1>5. e \in i + 3 .. Len(t) + 1
  BY <1>2, <1>4
<1> QED
  BY <1>2, <1>5

\* A text with one more character.
LEMMA OneMore ==
    ASSUME NEW r, NEW c, NEW v, r \in Seq(Char) /\ c \in Char /\ v = r \o <<c>>
    PROVE  /\ v \in Seq(Char) /\ Len(v) = Len(r) + 1 /\ v[Len(r) + 1] = c /\ v # <<>>
           /\ \A i \in 1 .. Len(r) : v[i] = r[i]
           /\ Len(r) \in Nat
<1>1. v \in Seq(Char) /\ Len(v) = Len(r) + 1 /\ Len(r) \in Nat
  OBVIOUS
<1>2. v[Len(r) + 1] = c /\ v # <<>>
  OBVIOUS
<1>3. \A i \in 1 .. Len(r) : v[i] = r[i]
  OBVIOUS
<1> QED
  BY <1>1, <1>2, <1>3

\* No ellipsis comes about at the end of a text.
LEMMA NoEllipsesMore ==
    ASSUME NEW r, NEW c, NEW v, r \in Seq(Char) /\ c \in Char /\ v = r \o <<c>>,
           NoEllipses(r),
           Len(r) > 0 => ~(r[Len(r)] = Ellipsis /\ c = Ellipsis),
           Len(r) > 1 => ~(r[Len(r) - 1] = Dot /\ r[Len(r)] = Dot /\ c = Dot)
    PROVE  NoEllipses(v)
<1>1. PICK n : n = Len(r)
  OBVIOUS
<1>2. /\ Len(v) = n + 1 /\ v[n + 1] = c /\ n \in Nat
      /\ \A i \in 1 .. n : v[i] = r[i]
  BY <1>1, OneMore
<1>3. ASSUME NEW i \in 1 .. (n + 1) - 2
      PROVE  ~(v[i] = Dot /\ v[i + 1] = Dot /\ v[i + 2] = Dot)
  <2>1. CASE i = n - 1
    <3>1. v[i] = r[n - 1] /\ v[i + 1] = r[n] /\ v[i + 2] = c /\ n > 1
      BY <1>2, <2>1
    <3> QED
      BY <1>1, <3>1
  <2>2. CASE i < n - 1
    <3>1. v[i] = r[i] /\ v[i + 1] = r[i + 1] /\ v[i + 2] = r[i + 2] /\ i \in 1 .. n - 2
      BY <1>2, <2>2
    <3> QED
      BY <1>1, <3>1 DEF NoEllipses
  <2> QED
    BY <1>2, <2>1, <2>2
<1>4. ASSUME NEW i \in 1 .. (n + 1) - 1
      PROVE  ~(v[i] = Ellipsis /\ v[i + 1] = Ellipsis)
  <2>1. CASE i = n
    <3>1. v[i] = r[n] /\ v[i + 1] = c /\ n > 0
      BY <1>2, <2>1
    <3> QED
      BY <1>1, <3>1
  <2>2. CASE i < n
    <3>1. v[i] = r[i] /\ v[i + 1] = r[i + 1] /\ i \in 1 .. n - 1
      BY <1>2, <2>2
    <3> QED
      BY <1>1, <3>1 DEF NoEllipses
  <2> QED
    BY <1>2, <2>1, <2>2
<1> QED
  BY <1>2, <1>3, <1>4 DEF NoEllipses

\* Nor when a text is cut at its ends, and marks stay reduced.
LEMMA CutSettled ==
    ASSUME NEW t \in Seq(Char), NEW m \in 1 .. Len(t), NEW n \in m .. Len(t),
           NoEllipses(t), Reduced(t)
    PROVE  NoEllipses(SubSeq(t, m, n)) /\ Reduced(SubSeq(t, m, n))
<1>1. PICK u, k : u = SubSeq(t, m, n) /\ k = n - m + 1
  OBVIOUS
<1>2. Len(u) = k /\ k \in Nat /\ \A i \in 1 .. k : u[i] = t[m + i - 1]
  BY <1>1
<1>3. ASSUME NEW i \in 1 .. k - 2
      PROVE  ~(u[i] = Dot /\ u[i + 1] = Dot /\ u[i + 2] = Dot)
  <2>1. PICK j : j = m + i - 1
    OBVIOUS
  <2>2. j \in 1 .. Len(t) - 2 /\ u[i] = t[j] /\ u[i + 1] = t[j + 1] /\ u[i + 2] = t[j + 2]
    <3>1. /\ j \in 1 .. Len(t) - 2 /\ {i, i + 1, i + 2} \subseteq 1 .. k
          /\ m + (i + 1) - 1 = j + 1 /\ m + (i + 2) - 1 = j + 2
      BY <1>1, <1>2, <2>1
    <3> QED
      BY <1>2, <2>1, <3>1
  <2> QED
    BY <2>2 DEF NoEllipses
<1>4. ASSUME NEW i \in 1 .. k - 1
      PROVE  ~(u[i] = Ellipsis /\ u[i + 1] = Ellipsis) /\ PairReduced(u[i], u[i + 1])
  <2>1. PICK j : j = m + i - 1
    OBVIOUS
  <2>2. j \in 1 .. Len(t) - 1 /\ u[i] = t[j] /\ u[i + 1] = t[j + 1]
    <3>1. j \in 1 .. Len(t) - 1 /\ i \in 1 .. k /\ i + 1 \in 1 .. k /\ m + (i + 1) - 1 = j + 1
      BY <1>1, <1>2, <2>1
    <3> QED
      BY <1>2, <2>1, <3>1
  <2> QED
    BY <2>2 DEF NoEllipses, Reduced
<1>5. ASSUME NEW i \in 1 .. k PROVE u[i] # Comma
  <2>1. PICK j : j = m + i - 1
    OBVIOUS
  <2>2. j \in 1 .. Len(t) /\ u[i] = t[j]
    BY <1>1, <1>2, <2>1
  <2> QED
    BY <2>2 DEF Reduced
<1>6. NoEllipses(u) /\ Reduced(u)
  BY <1>2, <1>3, <1>4, <1>5 DEF NoEllipses, Reduced
<1> QED
  BY <1>1, <1>6

\* Strip leaves an empty text or a stretch of its text.
LEMMA StripCuts ==
    ASSUME NEW t \in Seq(Char)
    PROVE  \/ Strip(t) = <<>>
           \/ \E m \in 1 .. Len(t) : \E n \in m .. Len(t) : Strip(t) = SubSeq(t, m, n)
<1> DEFINE inside == {i \in 1 .. Len(t) : t[i] # Blank}
           first  == CHOOSE i \in inside : \A j \in inside : i <= j
           last   == LastOutside({Blank}, t, Len(t))
<1>1. CASE inside = {}
  BY <1>1 DEF Strip
<1>2. CASE inside # {}
  <2>1. inside \subseteq Nat
    OBVIOUS
  <2>2. \E i \in inside : \A j \in inside : i <= j
    <3> HIDE DEF inside
    <3> QED
      BY <1>2, <2>1, LeastNumber
  <2>3. first \in inside
    <3> HIDE DEF inside
    <3> QED
      BY <2>2
  <2>4. first \in 1 .. Len(t) /\ t[first] # Blank
    <3> HIDE DEF first
    <3> QED
      BY <2>3
  <2>5. /\ last \in 0 .. Len(t)
        /\ \A q \in last + 1 .. Len(t) : t[q] = Blank
    BY LastOutsideFound
  <2>6. Strip(t) = SubSeq(t, first, last)
    BY <1>2 DEF Strip
  <2> HIDE DEF first, last, inside
  <2>7. last \in first .. Len(t)
    BY <2>4, <2>5
  <2> QED
    BY <2>4, <2>6, <2>7
<1> QED
  BY <1>1, <1>2

\* The empty text is settled.
LEMMA EmptySettled == NoEllipses(<<>>) /\ Reduced(<<>>) /\ Settled(<<>>)
BY DEF NoEllipses, Reduced, Settled

\* EnsureTerminalPunctuation settles a stripped text.
LEMMA EnsureSettles ==
    ASSUME NEW t \in Seq(Char), Stripped(t), NoEllipses(t), Reduced(t)
    PROVE  Settled(EnsureTerminalPunctuation(t))
<1> DEFINE n == LastMark(t)
<1>1. /\ n \in 0 .. Len(t)
      /\ n > 0 => t[n] # Closing
      /\ \A q \in n + 1 .. Len(t) : t[q] = Closing
  BY LastMarkOf
<1>2. t # <<>> /\ Len(t) \in Nat /\ Len(t) >= 1
  BY DEF Stripped
<1>3. PICK u : u = EnsureTerminalPunctuation(t)
  OBVIOUS
<1>4. u \in Seq(Char) /\ Stripped(u) /\ Marked(u)
  BY <1>3, EnsureType, EnsureMarks
<1> HIDE DEF n
<1>5. NoEllipses(u) /\ (Reduced(u) \/ EndsInTwoStops(u))
  <2>1. CASE n > 0 /\ t[n] = Dot
    <3>1. u = [t EXCEPT ![n] = Stop]
      BY <1>2, <1>3, <2>1, Kinds DEF EnsureTerminalPunctuation, n
    <3>2. Len(u) = Len(t) /\ u[n] = Stop /\ n \in 1 .. Len(t)
      BY <1>1, <2>1, <3>1
    <3>3. \A q \in 1 .. Len(t) : q # n => u[q] = t[q]
      BY <3>1
    <3>4. LastMark(u) = n
      <4>1. u[n] # Closing /\ \A q \in n + 1 .. Len(u) : u[q] = Closing
        BY <1>1, <3>2, <3>3, Kinds
      <4> QED
        BY <1>4, <3>2, <4>1, MarkFound
    <3>5. NoEllipses(u)
      <4>1. ASSUME NEW i \in 1 .. Len(t) - 2
            PROVE  ~(u[i] = Dot /\ u[i + 1] = Dot /\ u[i + 2] = Dot)
        <5>1. i \in 1 .. Len(t) /\ i + 1 \in 1 .. Len(t) /\ i + 2 \in 1 .. Len(t)
          BY <1>2
        <5> QED
          BY <3>2, <3>3, <5>1, Kinds DEF NoEllipses
      <4>2. ASSUME NEW i \in 1 .. Len(t) - 1
            PROVE  ~(u[i] = Ellipsis /\ u[i + 1] = Ellipsis)
        <5>1. i \in 1 .. Len(t) /\ i + 1 \in 1 .. Len(t)
          BY <1>2
        <5> QED
          BY <3>2, <3>3, <5>1, Kinds DEF NoEllipses
      <4> QED
        BY <3>2, <4>1, <4>2 DEF NoEllipses
    <3>6. ASSUME ~EndsInTwoStops(u) PROVE Reduced(u)
      <4>1. ASSUME NEW i \in 1 .. Len(t) PROVE u[i] # Comma
        BY <3>2, <3>3 DEF Reduced, Stop, Comma
      <4>2. ASSUME NEW i \in 1 .. Len(t) - 1 PROVE PairReduced(u[i], u[i + 1])
        <5>1. i \in 1 .. Len(t) /\ i + 1 \in 1 .. Len(t)
          BY <1>2
        <5>2. CASE i = n
          <6>1. u[i] = Stop /\ u[i + 1] = Closing
            BY <1>1, <3>2, <3>3, <5>1, <5>2
          <6> QED
            BY <6>1, Kinds DEF PairReduced
        <5>3. CASE i + 1 = n
          <6>1. n > 1 /\ n - 1 = i
            BY <3>2, <5>3
          <6>2. u[i] \notin Stops
            BY <3>2, <3>4, <3>6, <6>1 DEF EndsInTwoStops
          <6> QED
            BY <3>2, <5>3, <6>2, Kinds DEF PairReduced
        <5>4. CASE i # n /\ i + 1 # n
          BY <3>3, <5>1, <5>4 DEF Reduced
        <5> QED
          BY <5>2, <5>3, <5>4
      <4> QED
        BY <3>2, <4>1, <4>2 DEF Reduced
    <3> QED
      BY <3>5, <3>6
  <2>2. CASE n > 0 /\ t[n] # Dot /\ t[n] \in Terminal
    <3>1. u = t
      BY <1>2, <1>3, <2>2 DEF EnsureTerminalPunctuation, n
    <3> QED
      BY <3>1
  <2>3. CASE ~(n > 0 /\ (t[n] = Dot \/ t[n] \in Terminal))
    <3>1. u = Append(t, Stop)
      BY <1>2, <1>3, <2>3 DEF EnsureTerminalPunctuation, n
    <3>2. PICK one : one = <<Stop>>
      OBVIOUS
    <3>3. u = t \o one /\ one \in Seq(Char) /\ one # <<>> /\ one[1] = Stop /\ Len(one) = 1
      <4>1. Append(t, Stop) = t \o <<Stop>>
        BY Kinds, AppendIsConcat
      <4> QED
        BY <3>1, <3>2, <4>1, Kinds
    <3>4. NoEllipses(u)
      BY <3>2, <3>3, Kinds, NoEllipsesMore
    <3>5. Reduced(one)
      BY <3>3 DEF Reduced, Stop, Comma
    <3>6. PairReduced(t[Len(t)], one[1])
      <4>1. t[Len(t)] \notin Stops
        <5>1. CASE n = Len(t)
          BY <1>2, <2>3, <5>1, Kinds
        <5>2. CASE n < Len(t)
          BY <1>1, <1>2, <5>2, Kinds
        <5> QED
          BY <1>1, <5>1, <5>2
      <4> QED
        BY <3>3, <4>1, Kinds DEF PairReduced
    <3>7. Reduced(t \o one)
      BY <3>3, <3>5, <3>6, ReducedConcat
    <3> QED
      BY <3>3, <3>4, <3>7
  <2> QED
    BY <2>1, <2>2, <2>3
<1> QED
  BY <1>3, <1>4, <1>5 DEF Settled

\* The end of a round, from any text that the scans may leave.
LEMMA RoundSettles ==
    ASSUME NEW t \in Seq(Char), NoEllipses(t), Reduced(t)
    PROVE  Settled(Strip(EnsureTerminalPunctuation(Strip(t))))
<1>1. PICK u, v : u = Strip(t) /\ v = EnsureTerminalPunctuation(u)
  OBVIOUS
<1>2. u \in Seq(Char) /\ (u = <<>> \/ Stripped(u))
  BY <1>1, StripType, StripEnds
<1>3. CASE u = <<>>
  <2>1. v = <<>>
    BY <1>1, <1>3 DEF EnsureTerminalPunctuation
  <2>2. Strip(<<>>) = <<>>
    BY DEF Strip
  <2> QED
    BY <1>1, <2>1, <2>2, EmptySettled
<1>4. CASE u # <<>>
  <2>1. NoEllipses(u) /\ Reduced(u)
    BY <1>1, <1>4, StripCuts, CutSettled
  <2>2. v \in Seq(Char) /\ Stripped(v) /\ Settled(v)
    BY <1>1, <1>2, <1>4, <2>1, EnsureType, EnsureMarks, EnsureSettles
  <2>3. Strip(v) = v
    BY <2>2, StripKeeps
  <2> QED
    BY <1>1, <2>2, <2>3
<1> QED
  BY <1>3, <1>4

\* A text that is settled is not changed by the end of a round.
LEMMA SettledEnd ==
    ASSUME NEW t \in Seq(Char), Settled(t)
    PROVE  Strip(EnsureTerminalPunctuation(Strip(t))) = t
<1>1. CASE t = <<>>
  <2>1. Strip(<<>>) = <<>> /\ EnsureTerminalPunctuation(<<>>) = <<>>
    BY DEF Strip, EnsureTerminalPunctuation
  <2> QED
    BY <1>1, <2>1
<1>2. CASE Stripped(t) /\ Marked(t)
  <2>1. Strip(t) = t
    BY <1>2, StripKeeps
  <2>2. EnsureTerminalPunctuation(t) = t
    BY <1>2, Kinds DEF Marked, Stripped, EnsureTerminalPunctuation
  <2> QED
    BY <2>1, <2>2
<1> QED
  BY <1>1, <1>2 DEF Settled

-----------------------------------------------------------------------------
\* What has been read and is written unchanged.
LEMMA ReadSoFar ==
    ASSUME NEW t \in Seq(Char), NEW i \in 1 .. Len(t)
    PROVE  SubSeq(t, 1, i - 1) \o <<t[i]>> = SubSeq(t, 1, (i + 1) - 1)
<1>1. PICK k, q : k = i - 1 /\ q = (i + 1) - 1
  OBVIOUS
<1>2. 1 \in 1 .. Len(t) /\ i \in 1 .. Len(t) /\ q = i
  BY <1>1
<1>3. SubSeq(t, 1, i) = SubSeq(t, 1, i - 1) \o <<t[i]>>
  BY <1>2, SubSeqRecursiveSecond
<1> QED
  BY <1>1, <1>2, <1>3

\* In the second round of a text that does not end with two full stops, what
\* is written is what was read.
SecondRound == calls = 2 => /\ Settled(input)
                            /\ ~EndsInTwoStops(input) =>
                                  s = input /\ result = SubSeq(s, 1, p - 1)

\* In the second round a step that writes what it reads.
LEMMA SecondCopy ==
    ASSUME TypeOK, SecondRound, p <= Len(s),
           calls = 2 /\ ~EndsInTwoStops(input) => Emit(<<s[p]>>, p + 1),
           UNCHANGED <<s, input, calls>>
    PROVE  SecondRound'
<1>1. s \in Seq(Char) /\ p \in 1 .. Len(s)
  BY DEF TypeOK
<1>2. ASSUME calls = 2, ~EndsInTwoStops(input)
      PROVE  s' = input' /\ result' = SubSeq(s', 1, p' - 1)
  <2>1. result' = result \o <<s[p]>> /\ p' = p + 1 /\ result = SubSeq(s, 1, p - 1) /\ s = input
    BY <1>2 DEF Emit, SecondRound
  <2>2. SubSeq(s, 1, p - 1) \o <<s[p]>> = SubSeq(s, 1, (p + 1) - 1)
    BY <1>1, ReadSoFar
  <2> QED
    BY <2>1, <2>2
<1> QED
  BY <1>2 DEF SecondRound

\* The text the second round reads.
LEMMA SecondText ==
    ASSUME SecondRound, calls = 2, ~EndsInTwoStops(input)
    PROVE  NoEllipses(s) /\ Reduced(s) /\ Settled(s)
BY DEF SecondRound, Settled

\* The first scan writes a full stop.
LEMMA EllipsisStop ==
    ASSUME PunctuationInv, SettledInv, DotsToStop \/ EllipsesToStop
    PROVE  SettledInv'
<1>1. /\ stage = "ellipsis" /\ p \in 1 .. Len(s) /\ s \in Seq(Char) /\ result \in Seq(Char)
      /\ NoEllipses(result) /\ SecondRound
  BY DEF DotsToStop, EllipsesToStop, Reading, PunctuationInv, TypeOK, SettledInv, SecondRound
<1>2. PICK e : Emit(<<Stop>>, e)
  BY DEF DotsToStop, EllipsesToStop
<1>3. PICK v : v = result \o <<Stop>>
  OBVIOUS
<1>4. v[Len(v)] = Stop /\ v # <<>>
  BY <1>1, <1>3, Kinds, OneMore
<1>5. NoEllipses(v)
  BY <1>1, <1>3, Kinds, NoEllipsesMore
<1>6. NoneContinues(v, s, e)
  BY <1>4, Kinds DEF NoneContinues
<1>7. ~(calls = 2 /\ ~EndsInTwoStops(input))
  <2> SUFFICES ASSUME calls = 2, ~EndsInTwoStops(input) PROVE FALSE
    OBVIOUS
  <2>1. NoEllipses(s)
    BY <1>1, SecondText
  <2>2. CASE DotsToStop
    <3>1. PICK d \in p + 3 .. Len(s) + 1 : RunOf({Dot}, s, p, d)
      BY <2>2 DEF DotsToStop
    <3>2. p \in 1 .. Len(s) - 2 /\ p \in p .. d - 1 /\ p + 1 \in p .. d - 1 /\ p + 2 \in p .. d - 1
      BY <1>1, <3>1
    <3>3. s[p] = Dot /\ s[p + 1] = Dot /\ s[p + 2] = Dot
      BY <3>1, <3>2 DEF RunOf
    <3> QED
      BY <2>1, <3>2, <3>3 DEF NoEllipses
  <2>3. CASE EllipsesToStop
    BY <1>1, <2>1, <2>3 DEF EllipsesToStop, EllipsisPair, NoEllipses
  <2> QED
    BY <2>2, <2>3
<1>8. SecondRound'
  BY <1>1, <1>2, <1>7 DEF SecondRound, Emit
<1> QED
  BY <1>1, <1>2, <1>3, <1>5, <1>6, <1>8 DEF Emit, SettledInv, SecondRound

\* The first scan copies what begins no ellipsis.
LEMMA EllipsisCopy ==
    ASSUME PunctuationInv, SettledInv, CopyNoEllipsis
    PROVE  SettledInv'
<1>1. /\ stage = "ellipsis" /\ p \in 1 .. Len(s) /\ s \in Seq(Char) /\ result \in Seq(Char)
      /\ NoEllipses(result) /\ NoneContinues(result, s, p) /\ SecondRound /\ TypeOK
      /\ Emit(<<s[p]>>, p + 1)
  BY DEF CopyNoEllipsis, Reading, PunctuationInv, TypeOK, SettledInv, SecondRound
<1>2. PICK v, n, c : v = result \o <<s[p]>> /\ n = Len(result) /\ c = s[p]
  OBVIOUS
<1>3. /\ Len(v) = n + 1 /\ v[n + 1] = c /\ v # <<>> /\ n \in Nat /\ c \in Char
      /\ \A i \in 1 .. n : v[i] = result[i]
  BY <1>1, <1>2, OneMore
<1>4. NoEllipses(v)
  <2>1. n > 0 => ~(result[n] = Ellipsis /\ c = Ellipsis)
    BY <1>1, <1>2 DEF NoneContinues
  <2>2. n > 1 => ~(result[n - 1] = Dot /\ result[n] = Dot /\ c = Dot)
    BY <1>1, <1>2 DEF NoneContinues
  <2> QED
    BY <1>1, <1>2, <1>3, <2>1, <2>2, NoEllipsesMore
<1>5. NoneContinues(v, s, p + 1)
  <2> SUFFICES ASSUME p + 1 <= Len(s)
               PROVE  /\ ~(c = Ellipsis /\ s[p + 1] = Ellipsis)
                      /\ c = Dot /\ s[p + 1] = Dot =>
                            /\ n > 0 => v[n] # Dot
                            /\ p + 1 < Len(s) => s[p + 2] # Dot
    BY <1>1, <1>3 DEF NoneContinues
  <2>1. ~(c = Ellipsis /\ s[p + 1] = Ellipsis)
    BY <1>1, <1>2 DEF CopyNoEllipsis, EllipsisPair
  <2>2. ASSUME c = Dot, s[p + 1] = Dot, n > 0 PROVE v[n] # Dot
    <3>1. v[n] = result[n] /\ result # <<>>
      BY <1>2, <1>3, <2>2
    <3>2. result[n] = Dot /\ s[p] = Dot => s[p + 1] # Dot
      BY <1>1, <1>2, <3>1 DEF NoneContinues
    <3> QED
      BY <1>2, <2>2, <3>1, <3>2
  <2>3. ASSUME c = Dot, s[p + 1] = Dot, p + 1 < Len(s) PROVE s[p + 2] # Dot
    <3>1. p \in 1 .. Len(s) - 2
      BY <1>1, <2>3
    <3>2. ~\E e \in p + 3 .. Len(s) + 1 : RunOf({Dot}, s, p, e)
      BY DEF CopyNoEllipsis
    <3> QED
      BY <1>1, <1>2, <2>3, <3>1, <3>2, ThreeDots
  <2> QED
    BY <2>1, <2>2, <2>3
<1>6. SecondRound'
  BY <1>1, SecondCopy DEF Emit
<1> QED
  BY <1>1, <1>2, <1>4, <1>5, <1>6 DEF Emit, SettledInv, SecondRound

\* The second scan writes one or two marks of the family of a run.
LEMMA RepeatRun ==
    ASSUME PunctuationInv, SettledInv, stage = "repeat", p <= Len(s),
           NEW out, NEW e, Emit(out, e),
           out \in Seq(Char) /\ out # <<>> /\ e \in Nat,
           \A i \in 1 .. Len(out) : out[i] \notin {Dot, Ellipsis},
           SecondRound'
    PROVE  SettledInv'
<1>1. /\ s \in Seq(Char) /\ result \in Seq(Char) /\ NoEllipses(result) /\ NoEllipses(s)
  BY DEF PunctuationInv, TypeOK, SettledInv
<1>2. PICK v, n, k : v = result \o out /\ n = Len(result) /\ k = Len(out)
  OBVIOUS
<1>3. n \in Nat /\ k \in Nat /\ k >= 1 /\ Len(v) = n + k /\ v # <<>>
  BY <1>1, <1>2
<1>4. \A i \in 1 .. n : v[i] = result[i]
  BY <1>1, <1>2
<1>5. \A i \in n + 1 .. n + k : v[i] \notin {Dot, Ellipsis}
  <2> SUFFICES ASSUME NEW i \in n + 1 .. n + k PROVE v[i] \notin {Dot, Ellipsis}
    OBVIOUS
  <2>1. i - n \in 1 .. k /\ v[i] = out[i - n]
    BY <1>1, <1>2, <1>3
  <2> QED
    BY <1>2, <2>1
<1>6. NoEllipses(v)
  <2>1. ASSUME NEW i \in 1 .. Len(v) - 2
        PROVE  ~(v[i] = Dot /\ v[i + 1] = Dot /\ v[i + 2] = Dot)
    <3>1. CASE i + 2 <= n
      <4>1. v[i] = result[i] /\ v[i + 1] = result[i + 1] /\ v[i + 2] = result[i + 2]
            /\ i \in 1 .. n - 2
        BY <1>3, <1>4, <3>1
      <4> QED
        BY <1>1, <1>2, <4>1 DEF NoEllipses
    <3>2. CASE i + 2 > n
      BY <1>3, <1>5, <3>2
    <3> QED
      BY <1>3, <3>1, <3>2
  <2>2. ASSUME NEW i \in 1 .. Len(v) - 1
        PROVE  ~(v[i] = Ellipsis /\ v[i + 1] = Ellipsis)
    <3>1. CASE i + 1 <= n
      <4>1. v[i] = result[i] /\ v[i + 1] = result[i + 1] /\ i \in 1 .. n - 1
        BY <1>3, <1>4, <3>1
      <4> QED
        BY <1>1, <1>2, <4>1 DEF NoEllipses
    <3>2. CASE i + 1 > n
      BY <1>3, <1>5, <3>2
    <3> QED
      BY <1>3, <3>1, <3>2
  <2> QED
    BY <2>1, <2>2 DEF NoEllipses
<1>7. EndsAsRead(v, s, e)
  BY <1>3, <1>5 DEF EndsAsRead
<1> QED
  BY <1>1, <1>2, <1>6, <1>7 DEF Emit, SettledInv, SecondRound

-----------------------------------------------------------------------------
\* The next mark of a run, while the run goes on.
LEMMA InRun ==
    ASSUME NEW set, NEW t \in Seq(Char), NEW i \in 1 .. Len(t), NEW e \in Nat,
           RunOf(set, t, i, e)
    PROVE  /\ t[i] \in set /\ t[i] \in Char
           /\ e > i + 1 => i \in 1 .. Len(t) - 1 /\ t[i + 1] \in set
           /\ e > i + 2 => i + 1 \in 1 .. Len(t) - 1 /\ t[i + 2] \in set /\ t[(i + 1) + 1] \in set
<1>1. e \in i + 1 .. Len(t) + 1 /\ \A q \in i .. e - 1 : t[q] \in set
  BY DEF RunOf
<1>2. i \in i .. e - 1 /\ t[i] \in Char
  BY <1>1
<1>3. e > i + 1 => i + 1 \in i .. e - 1 /\ i \in 1 .. Len(t) - 1
  BY <1>1
<1>4. e > i + 2 => i + 2 \in i .. e - 1 /\ i + 1 \in 1 .. Len(t) - 1 /\ (i + 1) + 1 = i + 2
  BY <1>1
<1> QED
  BY <1>1, <1>2, <1>3, <1>4

\* In a reduced text a run of full stops or of commas has one mark, and the
\* comma is the full-width one.
LEMMA ShortRuns ==
    ASSUME NEW t \in Seq(Char), NEW i \in 1 .. Len(t), NEW e \in Nat, Reduced(t)
    PROVE  /\ RunOf(Stops, t, i, e) => e = i + 1
           /\ RunOf(Commas, t, i, e) => e = i + 1 /\ t[i] = WComma
<1>1. ASSUME RunOf(Stops, t, i, e) PROVE e = i + 1
  <2>1. e >= i + 1
    BY <1>1 DEF RunOf
  <2>2. ~(e > i + 1)
    BY <1>1, InRun DEF Reduced, PairReduced
  <2> QED
    BY <2>1, <2>2
<1>2. ASSUME RunOf(Commas, t, i, e) PROVE e = i + 1 /\ t[i] = WComma
  <2>1. e >= i + 1
    BY <1>2 DEF RunOf
  <2>2. ~(e > i + 1)
    BY <1>2, InRun DEF Reduced, PairReduced
  <2>3. t[i] \in Commas /\ t[i] # Comma
    BY <1>2, InRun DEF Reduced
  <2> QED
    BY <2>1, <2>2, <2>3 DEF Commas
<1> QED
  BY <1>1, <1>2

\* And a run of tones is read as it is.
LEMMA ShortTones ==
    ASSUME NEW t \in Seq(Char), NEW i \in 1 .. Len(t), NEW e \in Nat, Reduced(t),
           RunOf(Tones, t, i, e)
    PROVE  \/ e = i + 1 /\ ToneReading(t, i, e) = <<t[i]>>
           \/ /\ e = i + 2 /\ i + 1 \in 1 .. Len(t)
              /\ t[i] = WQuest /\ t[i + 1] = WBang
              /\ ToneReading(t, i, e) = <<WQuest, WBang>>
<1>1. e >= i + 1 /\ e \in i + 1 .. Len(t) + 1
  BY DEF RunOf
<1>2. CASE e = i + 1
  BY <1>2 DEF ToneReading
<1>3. CASE e > i + 1
  <2>1. i \in 1 .. Len(t) - 1 /\ t[i] \in Tones /\ t[i + 1] \in Tones
    BY <1>3, InRun
  <2>2. t[i] = WQuest /\ t[i + 1] = WBang
    BY <2>1 DEF Reduced, PairReduced
  <2>3. ~(e > i + 2)
    <3> SUFFICES ASSUME e > i + 2 PROVE FALSE
      OBVIOUS
    <3>1. i + 1 \in 1 .. Len(t) - 1 /\ t[i + 1] \in Tones /\ t[(i + 1) + 1] \in Tones
      BY <2>1, InRun
    <3>2. t[i + 1] = WQuest
      BY <3>1 DEF Reduced, PairReduced
    <3> QED
      BY <2>2, <3>2, Kinds
  <2>4. e = i + 2 /\ e # i + 1
    BY <1>1, <1>3, <2>3
  <2>5. PICK kinds : kinds = {t[q] : q \in i .. e - 1}
    OBVIOUS
  <2>6. WQuest \in kinds /\ WBang \in kinds
    <3>1. i \in i .. e - 1 /\ i + 1 \in i .. e - 1
      BY <2>4
    <3> QED
      BY <2>2, <2>5, <3>1
  <2>7. kinds \cap {Quest, WQuest} # {} /\ kinds \cap {Bang, WBang} # {}
    BY <2>6
  <2>8. ToneReading(t, i, e) = <<WQuest, WBang>>
    BY <2>4, <2>5, <2>7 DEF ToneReading
  <2> QED
    BY <2>1, <2>2, <2>4, <2>8
<1> QED
  BY <1>1, <1>2, <1>3

\* What stays of a run of tones is tones, in every text.
LEMMA TonesStay ==
    ASSUME NEW t \in Seq(Char), NEW i \in 1 .. Len(t), NEW e \in Nat,
           RunOf(Tones, t, i, e), NEW out, out = ToneReading(t, i, e)
    PROVE  /\ out \in Seq(Char) /\ out # <<>>
           /\ \A j \in 1 .. Len(out) : out[j] \notin {Dot, Ellipsis}
<1>1. t[i] \in Tones /\ t[i] \in Char
  BY InRun
<1>2. out = <<t[i]>> \/ out = <<WBang>> \/ out = <<WQuest>> \/ out = <<WQuest, WBang>>
  <2>1. PICK kinds : kinds = {t[q] : q \in i .. e - 1}
    OBVIOUS
  <2>2. CASE e = i + 1
    BY <2>2 DEF ToneReading
  <2>3. CASE e # i + 1 /\ kinds \cap {Quest, WQuest} = {} /\ kinds \cap {Bang, WBang} # {}
    BY <2>1, <2>3 DEF ToneReading
  <2>4. CASE e # i + 1 /\ kinds \cap {Quest, WQuest} # {} /\ kinds \cap {Bang, WBang} = {}
    BY <2>1, <2>4 DEF ToneReading
  <2>5. CASE e # i + 1 /\ kinds \cap {Quest, WQuest} # {} /\ kinds \cap {Bang, WBang} # {}
    BY <2>1, <2>5 DEF ToneReading
  <2>6. kinds \cap {Quest, WQuest} # {} \/ kinds \cap {Bang, WBang} # {}
    <3>1. i \in i .. e - 1
      BY DEF RunOf
    <3>2. t[i] \in kinds
      BY <2>1, <3>1
    <3> QED
      BY <1>1, <3>2 DEF Tones
  <2> QED
    BY <2>2, <2>3, <2>4, <2>5, <2>6
<1>3. WBang \in Tones /\ WQuest \in Tones
  BY DEF Tones
<1>4. PICK c, d : out \in {<<c>>, <<c, d>>} /\ {c, d} \subseteq Tones \cap Char
  BY <1>1, <1>2, <1>3, Kinds
<1>5. CASE out = <<c>>
  <2>1. Len(out) = 1 /\ out[1] = c /\ out \in Seq(Char) /\ out # <<>>
    BY <1>4, <1>5
  <2>2. \A j \in 1 .. Len(out) : out[j] = c
    BY <2>1
  <2> QED
    BY <1>4, <2>1, <2>2, Kinds
<1>6. CASE out = <<c, d>>
  <2>1. Len(out) = 2 /\ out[1] = c /\ out[2] = d /\ out \in Seq(Char) /\ out # <<>>
    BY <1>4, <1>6
  <2>2. \A j \in 1 .. Len(out) : out[j] = c \/ out[j] = d
    BY <2>1
  <2> QED
    BY <1>4, <2>1, <2>2, Kinds
<1> QED
  BY <1>4, <1>5, <1>6

-----------------------------------------------------------------------------
\* The steps of the second scan.
LEMMA StopsOrCommas ==
    ASSUME PunctuationInv, SettledInv, ReduceStops \/ ReduceCommas
    PROVE  SettledInv'
<1>1. /\ stage = "repeat" /\ p \in 1 .. Len(s) /\ s \in Seq(Char) /\ result \in Seq(Char)
      /\ SecondRound /\ TypeOK
  BY DEF ReduceStops, ReduceCommas, Reading, PunctuationInv, TypeOK, SettledInv, SecondRound
<1>2. PICK e, c :
        /\ e \in p + 1 .. Len(s) + 1 /\ Emit(<<c>>, e)
        /\ \/ RunOf(Stops, s, p, e) /\ c = s[p]
           \/ RunOf(Commas, s, p, e) /\ c = WComma
  BY DEF ReduceStops, ReduceCommas
<1>3. e \in Nat
  BY <1>1, <1>2
<1>4. c \in Char /\ c \notin {Dot, Ellipsis}
  <2>1. CASE RunOf(Stops, s, p, e) /\ c = s[p]
    BY <1>1, <1>3, <2>1, InRun, Kinds
  <2>2. CASE c = WComma
    BY <2>2, Kinds DEF Commas
  <2> QED
    BY <1>2, <2>1, <2>2
<1>5. ASSUME calls = 2, ~EndsInTwoStops(input) PROVE Emit(<<s[p]>>, p + 1)
  <2>1. Reduced(s)
    BY <1>1, <1>5, SecondText
  <2>2. e = p + 1 /\ c = s[p]
    BY <1>1, <1>2, <1>3, <2>1, ShortRuns
  <2> QED
    BY <1>2, <2>2
<1>6. SecondRound'
  <2>1. UNCHANGED <<s, input, calls>> /\ p <= Len(s)
    BY <1>1, <1>2 DEF Emit
  <2> QED
    BY <1>1, <1>5, <2>1, SecondCopy
<1>7. PICK out : out = <<c>>
  OBVIOUS
<1>8. out \in Seq(Char) /\ out # <<>> /\ \A i \in 1 .. Len(out) : out[i] \notin {Dot, Ellipsis}
  BY <1>4, <1>7
<1>9. Emit(out, e) /\ p <= Len(s)
  BY <1>1, <1>2, <1>7
<1> QED
  BY <1>1, <1>3, <1>6, <1>8, <1>9, RepeatRun

\* The second scan reads a run of tones.
LEMMA TonesSettled ==
    ASSUME PunctuationInv, SettledInv, ReduceTones
    PROVE  SettledInv'
<1>1. /\ stage = "repeat" /\ p \in 1 .. Len(s) /\ s \in Seq(Char) /\ result \in Seq(Char)
      /\ SecondRound /\ TypeOK
  BY DEF ReduceTones, Reading, PunctuationInv, TypeOK, SettledInv, SecondRound
<1>2. PICK e \in p + 1 .. Len(s) + 1 :
        RunOf(Tones, s, p, e) /\ Emit(ToneReading(s, p, e), e)
  BY DEF ReduceTones
<1>3. e \in Nat /\ p <= Len(s)
  BY <1>1, <1>2
<1>4. PICK out : out = ToneReading(s, p, e)
  OBVIOUS
<1>5. /\ out \in Seq(Char) /\ out # <<>>
      /\ \A i \in 1 .. Len(out) : out[i] \notin {Dot, Ellipsis}
  BY <1>1, <1>2, <1>3, <1>4, TonesStay
<1>6. Emit(out, e) /\ UNCHANGED <<s, input, calls>>
  BY <1>2, <1>4 DEF Emit
<1>7. SecondRound'
  <2>1. ASSUME calls = 2, ~EndsInTwoStops(input)
        PROVE  s' = input' /\ result' = SubSeq(s', 1, p' - 1)
    <3>1. Reduced(s) /\ s = input /\ result = SubSeq(s, 1, p - 1)
      BY <1>1, <2>1, SecondText DEF SecondRound
    <3>2. result' = result \o out /\ p' = e
      BY <1>6 DEF Emit
    <3>3. CASE e = p + 1 /\ out = <<s[p]>>
      <4>1. SubSeq(s, 1, p - 1) \o <<s[p]>> = SubSeq(s, 1, (p + 1) - 1)
        BY <1>1, ReadSoFar
      <4> QED
        BY <1>6, <3>1, <3>2, <3>3, <4>1
    <3>4. CASE /\ e = p + 2 /\ p + 1 \in 1 .. Len(s)
               /\ s[p] = WQuest /\ s[p + 1] = WBang /\ out = <<WQuest, WBang>>
      <4>1. PICK q, a, b, c : /\ q = p + 1 /\ a = SubSeq(s, 1, p - 1)
                              /\ b = SubSeq(s, 1, q - 1) /\ c = SubSeq(s, 1, e - 1)
        OBVIOUS
      <4>2. a \o <<WQuest>> = b
        BY <1>1, <3>4, <4>1, ReadSoFar
      <4>3. b \o <<WBang>> = c
        <5>1. q \in 1 .. Len(s) /\ e - 1 = (q + 1) - 1 /\ s[q] = WBang
          BY <1>1, <3>4, <4>1
        <5> QED
          BY <1>1, <4>1, <5>1, ReadSoFar
      <4>4. a \in Seq(Char)
        BY <1>1, <3>1, <4>1
      <4>5. a \o out = c
        <5>1. WQuest \in Char /\ WBang \in Char
          BY Kinds
        <5>2. (a \o <<WQuest>>) \o <<WBang>> = a \o <<WQuest, WBang>>
          BY <4>4, <5>1
        <5> QED
          BY <3>4, <4>2, <4>3, <5>2
      <4> QED
        BY <1>6, <3>1, <3>2, <4>1, <4>5
    <3> QED
      BY <1>1, <1>2, <1>3, <1>4, <3>1, <3>3, <3>4, ShortTones
  <2> QED
    BY <1>1, <1>6, <2>1 DEF SecondRound
<1> QED
  BY <1>1, <1>3, <1>5, <1>6, <1>7, RepeatRun

\* The second scan copies what is no mark of a run.
LEMMA OtherSettled ==
    ASSUME PunctuationInv, SettledInv, CopyOther
    PROVE  SettledInv'
<1>1. /\ stage = "repeat" /\ p \in 1 .. Len(s) /\ s \in Seq(Char) /\ result \in Seq(Char)
      /\ NoEllipses(result) /\ NoEllipses(s) /\ EndsAsRead(result, s, p)
      /\ SecondRound /\ TypeOK /\ Emit(<<s[p]>>, p + 1)
  BY DEF CopyOther, Reading, PunctuationInv, TypeOK, SettledInv, SecondRound
<1>2. PICK v, n, c : v = result \o <<s[p]>> /\ n = Len(result) /\ c = s[p]
  OBVIOUS
<1>3. /\ Len(v) = n + 1 /\ v[n + 1] = c /\ v # <<>> /\ n \in Nat /\ c \in Char
      /\ \A i \in 1 .. n : v[i] = result[i]
  BY <1>1, <1>2, OneMore
<1>4. n > 0 => result # <<>>
  BY <1>2
<1>5. ASSUME n > 0, result[n] = Ellipsis, c = Ellipsis PROVE FALSE
  <2>1. p > 1 /\ s[p - 1] = Ellipsis
    BY <1>1, <1>2, <1>4, <1>5 DEF EndsAsRead
  <2>2. p - 1 \in 1 .. Len(s) - 1 /\ (p - 1) + 1 = p
    BY <1>1, <2>1
  <2> QED
    BY <1>1, <1>2, <1>5, <2>1, <2>2 DEF NoEllipses
<1>6. ASSUME n > 1, result[n - 1] = Dot, result[n] = Dot, c = Dot PROVE FALSE
  <2>1. p > 2 /\ s[p - 1] = Dot /\ s[p - 2] = Dot
    BY <1>1, <1>2, <1>3, <1>4, <1>6 DEF EndsAsRead
  <2>2. p - 2 \in 1 .. Len(s) - 2 /\ (p - 2) + 1 = p - 1 /\ (p - 2) + 2 = p
    BY <1>1, <2>1
  <2> QED
    BY <1>1, <1>2, <1>6, <2>1, <2>2 DEF NoEllipses
<1>7. NoEllipses(v)
  BY <1>1, <1>2, <1>3, <1>5, <1>6, NoEllipsesMore
<1>8. EndsAsRead(v, s, p + 1)
  <2>1. (p + 1) - 1 = p /\ (p + 1) - 2 = p - 1 /\ p + 1 > 1 /\ p \in Nat
    BY <1>1
  <2>2. ASSUME n + 1 > 1, v[(n + 1) - 1] = Dot, v[n + 1] = Dot PROVE p + 1 > 2 /\ s[p - 1] = Dot
    <3>1. n > 0 /\ (n + 1) - 1 = n
      BY <1>3, <2>2
    <3>2. result[n] = Dot
      BY <1>3, <2>2, <3>1
    <3>3. p > 1 /\ s[p - 1] = Dot
      BY <1>1, <1>2, <1>4, <3>1, <3>2 DEF EndsAsRead
    <3> QED
      BY <2>1, <3>3
  <2> QED
    BY <1>2, <1>3, <2>1, <2>2 DEF EndsAsRead
<1>9. SecondRound'
  BY <1>1, SecondCopy DEF Emit
<1> QED
  BY <1>1, <1>2, <1>7, <1>8, <1>9 DEF Emit, SettledInv, SecondRound

\* A scan is over.
LEMMA ScanOver ==
    ASSUME PunctuationInv, SettledInv, EndScan
    PROVE  SettledInv'
<1>1. /\ stage \in {"ellipsis", "repeat"} /\ p \in Nat /\ p > Len(s) /\ s \in Seq(Char)
      /\ p = Len(s) + 1 /\ NoEllipses(result) /\ SecondRound /\ TypeOK
  BY DEF EndScan, Scans, PunctuationInv, TypeOK, SettledInv, SecondRound
<1>2. s' = result /\ result' = <<>> /\ p' = 1 /\ input' = input /\ calls' = calls
  BY DEF EndScan
<1>3. \/ stage = "ellipsis" /\ stage' = "repeat"
      \/ stage = "repeat" /\ stage' = "terminal"
  BY <1>1 DEF EndScan, NextStage
<1>4. EndsAsRead(<<>>, s', 1)
  BY DEF EndsAsRead
<1>5. SecondRound'
  <2>1. ASSUME calls = 2, ~EndsInTwoStops(input)
        PROVE  result = input
    <3>1. result = SubSeq(s, 1, p - 1) /\ s = input /\ p - 1 = Len(s)
      BY <1>1, <2>1 DEF SecondRound
    <3>2. SubSeq(s, 1, Len(s)) = s
      BY <1>1
    <3> QED
      BY <3>1, <3>2
  <2>2. s' \in Seq(Char)
    BY <1>1, <1>2 DEF TypeOK
  <2>3. SubSeq(s', 1, 1 - 1) = <<>>
    BY <2>2
  <2> QED
    BY <1>1, <1>2, <2>1, <2>3 DEF SecondRound
<1> QED
  BY <1>1, <1>2, <1>3, <1>4, <1>5, EmptySettled DEF SettledInv, SecondRound

\* A round is over.
LEMMA RoundOver ==
    ASSUME PunctuationInv, SettledInv, EnsureTerminalPunctuationByLine
    PROVE  SettledInv'
<1>1. /\ stage = "terminal" /\ s \in Seq(Char) /\ Reduced(s) /\ NoEllipses(s)
      /\ SecondRound /\ TypeOK /\ p = 1 /\ result = <<>>
  BY DEF EnsureTerminalPunctuationByLine, Scans, NoRepeatLeft, PunctuationInv, TypeOK,
         SettledInv, SecondRound
<1>2. /\ s' = Strip(EnsureTerminalPunctuation(Strip(s))) /\ stage' = "done"
      /\ p' = p /\ result' = result /\ input' = input /\ calls' = calls
  BY DEF EnsureTerminalPunctuationByLine
<1>3. Settled(s')
  BY <1>1, <1>2, RoundSettles
<1>4. SecondRound'
  <2>1. ASSUME calls = 2, ~EndsInTwoStops(input) PROVE s' = input
    <3>1. s = input /\ Settled(s)
      BY <1>1, <2>1, SecondText DEF SecondRound
    <3> QED
      BY <1>1, <1>2, <3>1, SettledEnd
  <2>2. \A t \in Seq(Char) : SubSeq(t, 1, 1 - 1) = <<>>
    OBVIOUS
  <2>3. ASSUME calls = 2, ~EndsInTwoStops(input) PROVE result' = SubSeq(s', 1, p' - 1)
    <3>1. s' \in Seq(Char)
      BY <1>1, <2>1, <2>3 DEF TypeOK
    <3> QED
      BY <1>1, <1>2, <2>2, <3>1
  <2> QED
    BY <1>1, <1>2, <2>1, <2>3 DEF SecondRound
<1> QED
  BY <1>2, <1>3, <1>4 DEF SettledInv, SecondRound

\* The second round begins.
LEMMA SecondBegins ==
    ASSUME PunctuationInv, SettledInv, RunAgain
    PROVE  SettledInv'
<1>1. stage = "done" /\ s \in Seq(Char) /\ Settled(s) /\ p = 1 /\ result = <<>>
  BY DEF RunAgain, Scans, PunctuationInv, TypeOK, SettledInv
<1>2. /\ stage' = "ellipsis" /\ input' = s /\ calls' = 2 /\ s' = s /\ p' = p /\ result' = result
  BY DEF RunAgain, NextStage
<1>3. NoneContinues(<<>>, s, 1) /\ SubSeq(s, 1, 1 - 1) = <<>>
  BY <1>1 DEF NoneContinues
<1> QED
  BY <1>1, <1>2, <1>3, EmptySettled DEF SettledInv

(***************************************************************************)
(* SettledInv holds: no scan leaves an ellipsis, the text of a finished    *)
(* round is settled, and the second round writes what it reads unless the  *)
(* first one ended with two full stops.                                    *)
(***************************************************************************)
THEOREM SettledInvariant == Spec => []SettledInv
<1>1. Init => SettledInv
  <2> SUFFICES ASSUME Init PROVE SettledInv
    OBVIOUS
  <2>1. stage = "ellipsis" /\ calls = 1 /\ result = <<>>
    BY DEF Init, NextStage
  <2>2. NoneContinues(<<>>, s, p)
    BY DEF NoneContinues
  <2> QED
    BY <2>1, <2>2, EmptySettled DEF SettledInv
<1>2. PunctuationInv /\ SettledInv /\ [Next]_vars => SettledInv'
  <2> SUFFICES ASSUME PunctuationInv, SettledInv, [Next]_vars PROVE SettledInv'
    OBVIOUS
  <2>1. CASE DotsToStop \/ EllipsesToStop
    BY <2>1, EllipsisStop
  <2>2. CASE CopyNoEllipsis
    BY <2>2, EllipsisCopy
  <2>3. CASE ReduceStops \/ ReduceCommas
    BY <2>3, StopsOrCommas
  <2>4. CASE ReduceTones
    BY <2>4, TonesSettled
  <2>5. CASE CopyOther
    BY <2>5, OtherSettled
  <2>6. CASE EndScan
    BY <2>6, ScanOver
  <2>7. CASE EnsureTerminalPunctuationByLine
    BY <2>7, RoundOver
  <2>8. CASE RunAgain
    BY <2>8, SecondBegins
  <2>9. CASE UNCHANGED vars
    BY <2>9 DEF vars, SettledInv
  <2> QED
    BY <2>1, <2>2, <2>3, <2>4, <2>5, <2>6, <2>7, <2>8, <2>9 DEF Next, Finished
<1> QED
  BY <1>1, <1>2, PunctuationInvariant, PTL DEF Spec

(***************************************************************************)
(* A second run of the two functions changes a text only when the first    *)
(* one ended it with two full stops, for every text.                       *)
(***************************************************************************)
THEOREM OnlyTwoStopsChange == Spec => []ChangedOnlyAfterTwoStops
<1>1. SettledInv => ChangedOnlyAfterTwoStops
  BY DEF SettledInv, ChangedOnlyAfterTwoStops
<1> QED
  BY <1>1, SettledInvariant, PTL

-----------------------------------------------------------------------------
(***************************************************************************)
(* The runs of a text.                                                     *)
(***************************************************************************)
\* e is where the run at i is over.
RunOver(t, i, e) ==
    /\ e \in i + 1 .. Len(t) + 1
    /\ \A q \in i + 1 .. e - 1 : SameFamily(t[i], t[q])
    /\ e <= Len(t) => ~SameFamily(t[i], t[e])

\* Every run is over somewhere, and only there.
LEMMA RunStops ==
    ASSUME NEW t \in Seq(Char), NEW i \in 1 .. Len(t)
    PROVE  /\ RunOver(t, i, RunStop(t, i))
           /\ \A e : RunOver(t, i, e) => e = RunStop(t, i)
<1> DEFINE T == {e \in i + 1 .. Len(t) + 1 : e = Len(t) + 1 \/ ~SameFamily(t[i], t[e])}
<1>1. Len(t) + 1 \in T /\ T \subseteq Nat
  OBVIOUS
<1>2. PICK e \in T : \A y \in T : e <= y
  <2> HIDE DEF T
  <2> QED
    BY <1>1, LeastNumber
<1>3. e \in i + 1 .. Len(t) + 1 /\ (e <= Len(t) => ~SameFamily(t[i], t[e]))
  BY <1>2
<1>4. ASSUME NEW q \in i + 1 .. e - 1 PROVE SameFamily(t[i], t[q])
  <2>1. q \in i + 1 .. Len(t) + 1 /\ q < e /\ q # Len(t) + 1
    BY <1>3
  <2>2. q \notin T
    <3> HIDE DEF T
    <3> QED
      BY <1>2, <1>3, <2>1
  <2> QED
    BY <2>1, <2>2
<1>5. RunOver(t, i, e)
  BY <1>3, <1>4 DEF RunOver
<1>6. RunOver(t, i, RunStop(t, i))
  <2>1. \E x \in i + 1 .. Len(t) + 1 :
           /\ \A q \in i + 1 .. x - 1 : SameFamily(t[i], t[q])
           /\ x <= Len(t) => ~SameFamily(t[i], t[x])
    BY <1>5 DEF RunOver
  <2> QED
    BY <2>1 DEF RunStop, RunOver
<1>7. ASSUME NEW a, NEW b, RunOver(t, i, a), RunOver(t, i, b), a < b PROVE FALSE
  <2>1. a \in i + 1 .. b - 1 /\ a <= Len(t)
    BY <1>7 DEF RunOver
  <2> QED
    BY <1>7, <2>1 DEF RunOver
<1>8. ASSUME NEW a, RunOver(t, i, a) PROVE a = RunStop(t, i)
  <2>1. PICK b : b = RunStop(t, i) /\ RunOver(t, i, b)
    BY <1>6
  <2>2. a \in Nat /\ b \in Nat
    BY <1>8, <2>1 DEF RunOver
  <2>3. ~(a < b) /\ ~(b < a)
    BY <1>7, <1>8, <2>1
  <2> QED
    BY <2>1, <2>2, <2>3
<1> QED
  BY <1>6, <1>8

\* A character has one family at most, and is of its own family.
LEMMA OneFamily ==
    /\ \A a, b, c : SameFamily(a, b) => SameFamily(b, a)
    /\ \A a, b, c : SameFamily(a, b) /\ SameFamily(b, c) => SameFamily(a, c)
    /\ \A f \in Families : \A a, b : a \in f => (SameFamily(a, b) <=> b \in f)
<1>1. \A f, g \in Families : \A b : b \in f /\ b \in g => f = g
  BY DEF Families, Stops, Commas, Tones, Stop, WideDot, Dot, Ellipsis, Comma, WComma,
         Bang, WBang, Quest, WQuest
<1>2. \A a, b, c : SameFamily(a, b) => SameFamily(b, a)
  BY DEF SameFamily
<1>3. \A a, b, c : SameFamily(a, b) /\ SameFamily(b, c) => SameFamily(a, c)
  BY <1>1 DEF SameFamily
<1>4. \A f \in Families : \A a, b : a \in f => (SameFamily(a, b) <=> b \in f)
  BY <1>1 DEF SameFamily
<1> QED
  BY <1>2, <1>3, <1>4

\* The run a scan finds is the run of the text.
LEMMA RunIsRun ==
    ASSUME NEW t \in Seq(Char), NEW i \in 1 .. Len(t), NEW f \in Families, NEW e,
           RunOf(f, t, i, e)
    PROVE  RunStop(t, i) = e
<1>1. /\ e \in i + 1 .. Len(t) + 1
      /\ \A q \in i .. e - 1 : t[q] \in f
      /\ e <= Len(t) => t[e] \notin f
  BY DEF RunOf
<1>2. t[i] \in f
  BY <1>1
<1>3. \A q \in i + 1 .. e - 1 : SameFamily(t[i], t[q])
  BY <1>1, <1>2, OneFamily
<1>4. e <= Len(t) => ~SameFamily(t[i], t[e])
  BY <1>1, <1>2, OneFamily
<1> QED
  BY <1>1, <1>3, <1>4, RunStops DEF RunOver

\* What is left of a run is over where the run is.
LEMMA RestOfRun ==
    ASSUME NEW t \in Seq(Char), NEW i \in 1 .. Len(t), NEW k \in i + 1 .. Len(t),
           k < RunStop(t, i)
    PROVE  RunStop(t, k) = RunStop(t, i)
<1>1. PICK e : e = RunStop(t, i)
  OBVIOUS
<1>2. /\ e \in i + 1 .. Len(t) + 1 /\ k < e
      /\ \A q \in i + 1 .. e - 1 : SameFamily(t[i], t[q])
      /\ e <= Len(t) => ~SameFamily(t[i], t[e])
  BY <1>1, RunStops DEF RunOver
<1>3. SameFamily(t[i], t[k]) /\ SameFamily(t[k], t[i])
  BY <1>2, OneFamily
<1>4. \A q \in k + 1 .. e - 1 : SameFamily(t[k], t[q])
  BY <1>2, <1>3, OneFamily
<1>5. e <= Len(t) => ~SameFamily(t[k], t[e])
  BY <1>2, <1>3, OneFamily
<1>6. RunOver(t, k, e) /\ k \in 1 .. Len(t)
  BY <1>2, <1>4, <1>5 DEF RunOver
<1> QED
  BY <1>1, <1>6, RunStops

\* A run as a text of its own.
LEMMA RunText ==
    ASSUME NEW t, NEW i, t \in Seq(Char), i \in 1 .. Len(t)
    PROVE  /\ RunAt(t, i) \in Seq(Char) /\ RunAt(t, i) # <<>>
           /\ Len(RunAt(t, i)) = RunStop(t, i) - i
           /\ \A q \in 1 .. RunStop(t, i) - i : RunAt(t, i)[q] = t[i + q - 1]
           /\ RunAt(t, i)[1] = t[i]
<1>0. PICK e, r : e = RunStop(t, i) /\ r = SubSeq(t, i, e - 1)
  OBVIOUS
<1>1. /\ i \in Nat /\ e \in Nat /\ e - 1 \in Nat /\ e - 1 >= i /\ e - 1 <= Len(t)
  BY <1>0, RunStops DEF RunOver
<1>2. r \in Seq(Char) /\ Len(r) = e - i
  BY <1>0, <1>1
<1>3. \A q \in 1 .. e - i : r[q] = t[i + q - 1]
  BY <1>0, <1>1
<1>4. r[1] = t[i] /\ r # <<>>
  BY <1>1, <1>2, <1>3
<1>5. r = RunAt(t, i)
  BY <1>0 DEF RunAt
<1> QED
  BY <1>0, <1>2, <1>3, <1>4, <1>5, Zenon

\* A run that is read is a text.
LEMMA ReadType ==
    ASSUME NEW scan, NEW r \in Seq(Char), r # <<>>
    PROVE  ReadRun(scan, r) \in Seq(Char)
<1>0. r[1] \in Char /\ Len(r) \in Nat /\ Len(r) >= 1
  OBVIOUS
<1>1. EllipsisRun(r) \in Seq(Char)
  <2>1. <<Stop>> \in Seq(Char) /\ Stop \in Char /\ Ellipsis \in Char
    BY DEF Char, Stops
  <2>2. PICK n : n = (Len(r) + 1) \div 2 /\ n \in Nat
    BY <1>0
  <2>3. [i \in 1 .. n |-> IF 2 * i <= Len(r) THEN Stop ELSE Ellipsis] \in Seq(Char)
    BY <2>1, <2>2
  <2> QED
    BY <2>1, <2>2, <2>3 DEF EllipsisRun
<1>2. MarkRun(r) \in Seq(Char)
  <2>1. WComma \in Char /\ WQuest \in Char /\ WBang \in Char
    BY Kinds
  <2>2. PICK a, b :
          /\ a = (IF \E i \in 1 .. Len(r) : r[i] \in {Quest, WQuest} THEN <<WQuest>> ELSE <<>>)
          /\ b = (IF \E i \in 1 .. Len(r) : r[i] \in {Bang, WBang} THEN <<WBang>> ELSE <<>>)
    OBVIOUS
  <2>3. a \in Seq(Char) /\ b \in Seq(Char) /\ <<r[1]>> \in Seq(Char) /\ <<WComma>> \in Seq(Char)
    BY <1>0, <2>1, <2>2
  <2>4. a \o b \in Seq(Char)
    BY <2>3
  <2> QED
    BY <2>2, <2>3, <2>4 DEF MarkRun
<1> QED
  BY <1>1, <1>2 DEF ReadRun

\* The runs from i on are the run at i and the runs from where it is over on.
LEMMA RunsStep ==
    ASSUME NEW scan, NEW t \in Seq(Char)
    PROVE  /\ RunsFrom(scan, t, Len(t) + 1) = <<>>
           /\ \A i \in 1 .. Len(t) + 1 : RunsFrom(scan, t, i) \in Seq(Char)
           /\ \A i \in 1 .. Len(t) :
                 RunsFrom(scan, t, i) =
                   ReadRun(scan, RunAt(t, i)) \o RunsFrom(scan, t, RunStop(t, i))
<1>0. PICK n : n = Len(t) /\ n \in Nat
  OBVIOUS
<1> DEFINE Read(i) == ReadRun(scan, RunAt(t, i))
           Is(f) == f = [i \in 1 .. Len(t) + 1 |->
                           IF i > Len(t) THEN <<>> ELSE Read(i) \o f[RunStop(t, i)]]
<1>1. \A i \in 1 .. n : RunStop(t, i) \in i + 1 .. n + 1
  BY <1>0, RunStops DEF RunOver
<1>2. \E f : Is(f)
  <2>1. PICK put, next : /\ put = [i \in 1 .. n |-> Read(i)]
                         /\ next = [i \in 1 .. n |-> RunStop(t, i)]
    OBVIOUS
  <2>2. \A i \in 1 .. n : next[i] \in i + 1 .. n + 1
    BY <1>1, <2>1
  <2>3. PICK f : Walks(f, n, put, next)
    BY <1>0, <2>2, WalkExists
  <2> HIDE DEF Read
  <2>4. \A i \in 1 .. n : put[i] = Read(i) /\ next[i] = RunStop(t, i)
    BY <2>1
  <2>5. \A i \in 1 .. n + 1 : ~(i > n) => i \in 1 .. n
    BY <1>0
  <2>6. f = [i \in 1 .. n + 1 |-> IF i > n THEN <<>> ELSE Read(i) \o f[RunStop(t, i)]]
    BY <2>3, <2>4, <2>5, Zenon DEF Walks
  <2> QED
    BY <1>0, <2>6
<1>3. Is(CHOOSE f : Is(f)) /\ \A i : RunsFrom(scan, t, i) = (CHOOSE f : Is(f))[i]
  BY <1>2 DEF RunsFrom
<1>4. PICK from : Is(from) /\ \A i : RunsFrom(scan, t, i) = from[i]
  BY <1>3
<1> HIDE DEF Read
<1>5. \A i \in 1 .. n + 1 : from[i] = IF i > n THEN <<>> ELSE Read(i) \o from[RunStop(t, i)]
  BY <1>0, <1>4, Zenon
<1>6. from[n + 1] = <<>>
  <2>1. n + 1 \in 1 .. n + 1 /\ n + 1 > n
    BY <1>0
  <2> QED
    BY <1>5, <2>1, Zenon
<1>7. \A i \in 1 .. n : from[i] = Read(i) \o from[RunStop(t, i)]
  <2>1. \A i \in 1 .. n : i \in 1 .. n + 1 /\ ~(i > n)
    BY <1>0
  <2> QED
    BY <1>5, <2>1, Zenon
<1> DEFINE S == {k \in 1 .. n + 1 : from[k] \in Seq(Char)}
<1>8. n + 1 \in S
  <2>1. n + 1 \in 1 .. n + 1 /\ <<>> \in Seq(Char)
    BY <1>0
  <2> QED
    BY <1>6, <2>1, Zenon
<1>9. ASSUME NEW k \in 1 .. n, \A j \in k + 1 .. n + 1 : j \in S PROVE k \in S
  <2>1. RunStop(t, k) \in k + 1 .. n + 1 /\ k \in 1 .. Len(t) /\ k \in 1 .. n + 1
    BY <1>0, <1>1
  <2>2. from[RunStop(t, k)] \in Seq(Char)
    BY <1>9, <2>1
  <2>3. Read(k) \in Seq(Char)
    <3>1. RunAt(t, k) \in Seq(Char) /\ RunAt(t, k) # <<>>
      BY <2>1, RunText
    <3> QED
      BY <3>1, ReadType DEF Read
  <2>4. PICK a, b : a = Read(k) /\ b = from[RunStop(t, k)]
    OBVIOUS
  <2>5. a \o b \in Seq(Char)
    BY <2>2, <2>3, <2>4
  <2>6. from[k] = a \o b
    BY <1>7, <2>4, Zenon
  <2> QED
    BY <2>1, <2>5, <2>6, Zenon
<1>10. \A i \in 1 .. n + 1 : from[i] \in Seq(Char)
  <2>1. \A i \in 1 .. n + 1 : i \in S
    <3> HIDE DEF S
    <3> QED
      BY <1>0, <1>8, <1>9, DownInduction
  <2> QED
    BY <2>1
<1> QED
  BY <1>0, <1>4, <1>6, <1>7, <1>10 DEF Read

\* Three texts.
LEMMA ThreeTexts ==
    ASSUME NEW a, NEW b, NEW c, a \in Seq(Char), b \in Seq(Char), c \in Seq(Char)
    PROVE  (a \o b) \o c = a \o (b \o c)
BY ConcatAssociative

\* The rule for what out is written for: the runs from i on are out and the
\* runs from k on.
Written(scan, t, i, out, k) == RunsFrom(scan, t, i) = out \o RunsFrom(scan, t, k)

\* A scan that writes a part of a run, when the rule reads the rest alone alike.
LEMMA PartOfRun ==
    ASSUME NEW scan, NEW t, NEW i, NEW k, NEW out,
           t \in Seq(Char), i \in 1 .. Len(t), k \in i + 1 .. Len(t), k < RunStop(t, i),
           out \in Seq(Char),
           ReadRun(scan, RunAt(t, i)) = out \o ReadRun(scan, RunAt(t, k))
    PROVE  Written(scan, t, i, out, k)
<1>1. PICK e : e = RunStop(t, i) /\ RunOver(t, i, e)
  BY RunStops
<1>2. RunStop(t, k) = e /\ k \in 1 .. Len(t) /\ e \in 1 .. Len(t) + 1
  BY <1>1, RestOfRun DEF RunOver
<1>3. PICK a, b : a = ReadRun(scan, RunAt(t, k)) /\ b = RunsFrom(scan, t, e)
  OBVIOUS
<1>4. a \in Seq(Char) /\ b \in Seq(Char)
  BY <1>2, <1>3, RunText, ReadType, RunsStep
<1>5. RunsFrom(scan, t, i) = (out \o a) \o b
  BY <1>1, <1>3, RunsStep, Zenon
<1>6. RunsFrom(scan, t, k) = a \o b
  BY <1>2, <1>3, RunsStep, Zenon
<1>7. (out \o a) \o b = out \o (a \o b)
  BY ONLY out \in Seq(Char), <1>4, ThreeTexts
<1> QED
  BY <1>5, <1>6, <1>7, Zenon DEF Written

\* A scan that copies one character of a run that the rule leaves alone.
LEMMA CopiedRun ==
    ASSUME NEW scan, NEW t, NEW i, t \in Seq(Char), i \in 1 .. Len(t),
           ReadRun(scan, RunAt(t, i)) = RunAt(t, i),
           i + 1 < RunStop(t, i) => ReadRun(scan, RunAt(t, i + 1)) = RunAt(t, i + 1)
    PROVE  Written(scan, t, i, <<t[i]>>, i + 1)
<1>1. PICK e, r : e = RunStop(t, i) /\ RunOver(t, i, e) /\ r = RunAt(t, i)
  BY RunStops
<1>2. /\ e \in i + 1 .. Len(t) + 1 /\ <<t[i]>> \in Seq(Char) /\ t[i] \in Char
      /\ r \in Seq(Char) /\ Len(r) = e - i
      /\ \A j \in 1 .. e - i : r[j] = t[i + j - 1]
      /\ r[1] = t[i]
  BY <1>1, RunText DEF RunOver
<1>3. CASE e = i + 1
  <2>1. r = <<t[i]>>
    <3>1. r \in Seq(Char) /\ Len(r) = 1 /\ r[1] = t[i]
      BY <1>2, <1>3
    <3> QED
      BY ONLY <3>1
  <2> QED
    BY <1>1, <1>3, <2>1, RunsStep, Zenon DEF Written
<1>4. CASE e > i + 1
  <2>1. PICK k, q : k = i + 1 /\ q = RunAt(t, k)
    OBVIOUS
  <2>2. k \in i + 1 .. Len(t) /\ k < e /\ k \in 1 .. Len(t)
    BY <1>2, <1>4, <2>1
  <2>3. RunStop(t, k) = e
    BY <1>1, <2>2, RestOfRun
  <2>4. q \in Seq(Char) /\ Len(q) = e - k /\ \A j \in 1 .. e - k : q[j] = t[k + j - 1]
    <3>1. t \in Seq(Char) /\ k \in 1 .. Len(t)
      BY <2>2
    <3>2. /\ RunAt(t, k) \in Seq(Char) /\ Len(RunAt(t, k)) = RunStop(t, k) - k
          /\ \A j \in 1 .. RunStop(t, k) - k : RunAt(t, k)[j] = t[k + j - 1]
      BY ONLY <3>1, RunText
    <3> QED
      BY ONLY <2>1, <2>3, <3>2
  <2>5. PICK v : v = <<t[i]>> \o q
    OBVIOUS
  <2>6. /\ v \in Seq(Char) /\ Len(v) = 1 + Len(q) /\ v[1] = t[i]
        /\ \A j \in 2 .. Len(v) : v[j] = q[j - 1]
    BY <1>2, <2>4, <2>5
  <2>7. Len(v) = Len(r)
    BY <1>2, <2>1, <2>4, <2>6
  <2>8. ASSUME NEW j \in 1 .. Len(r) PROVE r[j] = v[j]
    <3>1. CASE j = 1
      BY <1>2, <2>6, <3>1
    <3>2. CASE j # 1
      <4>1. /\ j - 1 \in 1 .. e - k /\ k + (j - 1) - 1 = i + j - 1
            /\ j \in 2 .. Len(v) /\ j \in 1 .. e - i
        BY <1>2, <2>1, <2>7, <3>2
      <4> QED
        BY <1>2, <2>4, <2>6, <4>1
    <3> QED
      BY <3>1, <3>2
  <2>9. r = v
    BY <1>2, <2>6, <2>7, <2>8, SeqEqual
  <2>10. ReadRun(scan, r) = r /\ ReadRun(scan, q) = q
    BY <1>1, <1>4, <2>1
  <2>11. ReadRun(scan, RunAt(t, i)) = <<t[i]>> \o ReadRun(scan, RunAt(t, k))
    BY <1>1, <2>1, <2>5, <2>9, <2>10, Zenon
  <2>12. Written(scan, t, i, <<t[i]>>, k)
    BY <1>1, <1>2, <2>2, <2>11, PartOfRun
  <2> QED
    BY <2>1, <2>12
<1> QED
  BY <1>2, <1>3, <1>4

-----------------------------------------------------------------------------
(***************************************************************************)
(* What the rule makes of runs of each family.                             *)
(***************************************************************************)
Ellipses(n) == [i \in 1 .. (n + 1) \div 2 |-> IF 2 * i <= n THEN Stop ELSE Ellipsis]

\* Two ellipses of a run are one full stop.
LEMMA TwoEllipses ==
    /\ Ellipses(1) = <<Ellipsis>> /\ Ellipses(2) = <<Stop>>
    /\ \A n \in Nat : Ellipses(n + 2) = <<Stop>> \o Ellipses(n)
<1>1. Ellipses(1) = <<Ellipsis>>
  <2>1. Ellipses(1) = [i \in 1 .. 1 |-> IF 2 * i <= 1 THEN Stop ELSE Ellipsis]
    BY DEF Ellipses
  <2> QED
    BY <2>1
<1>2. Ellipses(2) = <<Stop>>
  <2>1. Ellipses(2) = [i \in 1 .. 1 |-> IF 2 * i <= 2 THEN Stop ELSE Ellipsis]
    BY DEF Ellipses
  <2> QED
    BY <2>1
<1>3. ASSUME NEW n \in Nat PROVE Ellipses(n + 2) = <<Stop>> \o Ellipses(n)
  <2>1. PICK m : m = (n + 1) \div 2 /\ m \in Nat /\ (n + 3) \div 2 = m + 1
    OBVIOUS
  <2>2. PICK a, b : a = Ellipses(n + 2) /\ b = Ellipses(n)
    OBVIOUS
  <2>3. Stop \in Char /\ Ellipsis \in Char
    BY DEF Char, Stops
  <2>4. /\ a \in Seq(Char) /\ Len(a) = m + 1
        /\ \A i \in 1 .. m + 1 : a[i] = IF 2 * i <= n + 2 THEN Stop ELSE Ellipsis
    <3>1. (n + 2) + 1 = n + 3
      OBVIOUS
    <3>2. a = [i \in 1 .. m + 1 |-> IF 2 * i <= n + 2 THEN Stop ELSE Ellipsis]
      BY <2>1, <2>2, <3>1 DEF Ellipses
    <3> QED
      BY <2>1, <2>3, <3>2
  <2>5. /\ b \in Seq(Char) /\ Len(b) = m
        /\ \A i \in 1 .. m : b[i] = IF 2 * i <= n THEN Stop ELSE Ellipsis
    <3>1. b = [i \in 1 .. m |-> IF 2 * i <= n THEN Stop ELSE Ellipsis]
      BY <2>1, <2>2 DEF Ellipses
    <3> QED
      BY <2>1, <2>3, <3>1
  <2>6. PICK c : c = <<Stop>> \o b
    OBVIOUS
  <2>7. c \in Seq(Char) /\ Len(c) = m + 1 /\ c[1] = Stop /\ \A i \in 2 .. m + 1 : c[i] = b[i - 1]
    BY <2>1, <2>3, <2>5, <2>6
  <2>8. ASSUME NEW i \in 1 .. m + 1 PROVE a[i] = c[i]
    <3>1. CASE i = 1
      BY <2>4, <2>7, <3>1
    <3>2. CASE i # 1
      <4>1. i \in 2 .. m + 1 /\ i - 1 \in 1 .. m /\ (2 * (i - 1) <= n <=> 2 * i <= n + 2)
        BY <2>1, <3>2
      <4> QED
        BY <2>4, <2>5, <2>7, <4>1
    <3> QED
      BY <3>1, <3>2
  <2>9. a = c
    BY <2>4, <2>7, <2>8, SeqEqual
  <2> QED
    BY <2>2, <2>6, <2>9
<1> QED
  BY <1>1, <1>2, <1>3

\* The rule on a run, by its first mark.
LEMMA ReadRuns ==
    ASSUME NEW r
    PROVE  /\ r[1] = Dot /\ Len(r) >= 3 => ReadRun("ellipsis", r) = <<Stop>>
           /\ r[1] = Ellipsis => ReadRun("ellipsis", r) = Ellipses(Len(r))
           /\ r[1] # Ellipsis /\ ~(r[1] = Dot /\ Len(r) >= 3) => ReadRun("ellipsis", r) = r
           /\ r[1] \in Stops => ReadRun("repeat", r) = <<r[1]>>
           /\ r[1] \in Commas => ReadRun("repeat", r) = <<WComma>>
           /\ r[1] \notin Stops \cup Commas \cup Tones => ReadRun("repeat", r) = r
<1>1. r[1] = Dot /\ Len(r) >= 3 => EllipsisRun(r) = <<Stop>>
  BY Kinds DEF EllipsisRun
<1>2. r[1] = Ellipsis => EllipsisRun(r) = Ellipses(Len(r))
  BY Kinds DEF EllipsisRun, Ellipses
<1>3. r[1] # Ellipsis /\ ~(r[1] = Dot /\ Len(r) >= 3) => EllipsisRun(r) = r
  BY DEF EllipsisRun
<1>4. r[1] \in Stops => MarkRun(r) = <<r[1]>> 
  BY DEF MarkRun, Stops, Commas, Tones, Stop, WideDot, Comma, WComma, Bang, WBang, Quest, WQuest
<1>5. r[1] \in Commas => MarkRun(r) = <<WComma>>
  BY DEF MarkRun, Stops, Commas, Tones, Stop, WideDot, Comma, WComma, Bang, WBang, Quest, WQuest
<1>6. r[1] \notin Stops \cup Commas \cup Tones => MarkRun(r) = r
  BY DEF MarkRun
<1> QED
  BY <1>1, <1>2, <1>3, <1>4, <1>5, <1>6 DEF ReadRun

\* Where the run at i goes on, the next character is of its family.
LEMMA RunGoesOn ==
    ASSUME NEW t, NEW i, t \in Seq(Char), i \in 1 .. Len(t)
    PROVE  /\ RunStop(t, i) \in i + 1 .. Len(t) + 1
           /\ i + 1 < RunStop(t, i) => i + 1 \in 1 .. Len(t) /\ SameFamily(t[i], t[i + 1])
           /\ i + 2 < RunStop(t, i) => i + 2 \in 1 .. Len(t) /\ SameFamily(t[i], t[i + 2])
           /\ RunStop(t, i) = i + 1 => (i < Len(t) => ~SameFamily(t[i], t[i + 1]))
<1>1. PICK e : e = RunStop(t, i) /\ RunOver(t, i, e)
  BY RunStops
<1>2. /\ e \in i + 1 .. Len(t) + 1
      /\ i + 1 < e => i + 1 \in 1 .. Len(t) /\ i + 1 \in i + 1 .. e - 1
      /\ i + 2 < e => i + 2 \in 1 .. Len(t) /\ i + 2 \in i + 1 .. e - 1
  BY <1>1 DEF RunOver
<1>3. e = i + 1 => (i < Len(t) => ~SameFamily(t[i], t[i + 1]))
  BY <1>1 DEF RunOver
<1> QED
  BY <1>1, <1>2, <1>3 DEF RunOver

\* The first scan at a run of dots.
LEMMA DotsByRule ==
    ASSUME NEW t, NEW i, NEW e, t \in Seq(Char), i \in 1 .. Len(t), e \in i + 3 .. Len(t) + 1,
           RunOf({Dot}, t, i, e)
    PROVE  Written("ellipsis", t, i, <<Stop>>, e)
<1>1. RunStop(t, i) = e
  BY RunIsRun DEF Families
<1>2. RunAt(t, i)[1] = Dot /\ Len(RunAt(t, i)) >= 3
  <2>1. t[i] = Dot
    BY DEF RunOf
  <2>2. RunAt(t, i)[1] = t[i] /\ Len(RunAt(t, i)) = e - i
    BY <1>1, RunText
  <2> QED
    BY <2>1, <2>2
<1>3. ReadRun("ellipsis", RunAt(t, i)) = <<Stop>>
  BY <1>2, ReadRuns
<1> QED
  BY <1>1, <1>3, RunsStep, Zenon DEF Written

\* The first scan at two ellipses.
LEMMA EllipsesByRule ==
    ASSUME NEW t, NEW i, t \in Seq(Char), i \in 1 .. Len(t) - 1,
           t[i] = Ellipsis, t[i + 1] = Ellipsis
    PROVE  Written("ellipsis", t, i, <<Stop>>, i + 2)
<1>0. i \in 1 .. Len(t) /\ {Ellipsis} \in Families /\ <<Stop>> \in Seq(Char)
  BY Kinds DEF Families
<1>1. PICK e : e = RunStop(t, i)
  OBVIOUS
<1>2. e \in i + 2 .. Len(t) + 1
  <2>1. SameFamily(t[i], t[i + 1])
    BY <1>0, OneFamily
  <2>2. e \in i + 1 .. Len(t) + 1 /\ e # i + 1
    BY <1>0, <1>1, <2>1, RunGoesOn
  <2> QED
    BY <2>2
<1>3. RunAt(t, i)[1] = Ellipsis /\ Len(RunAt(t, i)) = e - i
  BY <1>0, <1>1, RunText
<1>4. ReadRun("ellipsis", RunAt(t, i)) = Ellipses(e - i)
  BY <1>3, ReadRuns
<1>5. CASE e = i + 2
  <2>1. e - i = 2
    BY <1>0, <1>5
  <2>2. ReadRun("ellipsis", RunAt(t, i)) = <<Stop>>
    BY <1>4, <2>1, TwoEllipses
  <2> QED
    BY <1>0, <1>1, <1>5, <2>2, RunsStep, Zenon DEF Written
<1>6. CASE e > i + 2
  <2>1. PICK k : k = i + 2
    OBVIOUS
  <2>2. k \in i + 1 .. Len(t) /\ k < e /\ k \in 1 .. Len(t) /\ SameFamily(t[i], t[k])
    BY <1>0, <1>1, <1>2, <1>6, <2>1, RunGoesOn
  <2>3. t[k] = Ellipsis
    BY <1>0, <2>2, OneFamily
  <2>4. RunStop(t, k) = e
    BY <1>0, <1>1, <2>2, RestOfRun
  <2>5. RunAt(t, k)[1] = Ellipsis /\ Len(RunAt(t, k)) = e - k
    BY <2>2, <2>3, <2>4, RunText
  <2>6. PICK n : n = e - k /\ n \in Nat /\ e - i = n + 2
    BY <1>0, <1>2, <1>6, <2>1
  <2>7. ReadRun("ellipsis", RunAt(t, k)) = Ellipses(n)
    BY <2>5, <2>6, ReadRuns
  <2>8. ReadRun("ellipsis", RunAt(t, i)) = <<Stop>> \o ReadRun("ellipsis", RunAt(t, k))
    BY <1>4, <2>6, <2>7, TwoEllipses, Zenon
  <2>9. Written("ellipsis", t, i, <<Stop>>, k)
    BY <1>0, <1>1, <2>2, <2>8, PartOfRun
  <2> QED
    BY <2>1, <2>9
<1> QED
  BY <1>2, <1>5, <1>6

\* The first scan at what begins no ellipsis.
LEMMA CopyByRule ==
    ASSUME NEW t, NEW i, t \in Seq(Char), i \in 1 .. Len(t),
           ~(i < Len(t) /\ t[i] = Ellipsis /\ t[i + 1] = Ellipsis),
           ~ \E e \in i + 3 .. Len(t) + 1 : RunOf({Dot}, t, i, e)
    PROVE  Written("ellipsis", t, i, <<t[i]>>, i + 1)
<1>1. PICK e : e = RunStop(t, i) /\ e \in i + 1 .. Len(t) + 1
  BY RunGoesOn
<1>2. /\ RunAt(t, i)[1] = t[i] /\ Len(RunAt(t, i)) = e - i /\ RunAt(t, i) \in Seq(Char)
      /\ {Ellipsis} \in Families /\ {Dot} \in Families
  BY <1>1, RunText DEF Families
<1>3. i + 1 < e => /\ RunStop(t, i + 1) = e /\ SameFamily(t[i], t[i + 1])
                   /\ RunAt(t, i + 1)[1] = t[i + 1] /\ Len(RunAt(t, i + 1)) = e - (i + 1)
  <2> SUFFICES ASSUME i + 1 < e
               PROVE  /\ RunStop(t, i + 1) = e /\ SameFamily(t[i], t[i + 1])
                      /\ RunAt(t, i + 1)[1] = t[i + 1] /\ Len(RunAt(t, i + 1)) = e - (i + 1)
    OBVIOUS
  <2>1. i + 1 \in i + 1 .. Len(t) /\ i + 1 \in 1 .. Len(t) /\ SameFamily(t[i], t[i + 1])
    BY <1>1, RunGoesOn
  <2>2. RunStop(t, i + 1) = e
    BY <1>1, <2>1, RestOfRun
  <2> QED
    BY <2>1, <2>2, RunText
<1>4. CASE t[i] = Ellipsis
  <2>1. e = i + 1
    <3> SUFFICES ASSUME i + 1 < e PROVE FALSE
      BY <1>1
    <3>1. t[i + 1] = Ellipsis /\ i < Len(t)
      BY <1>1, <1>2, <1>3, <1>4, OneFamily
    <3> QED
      BY <1>4, <3>1
  <2>2. ReadRun("ellipsis", RunAt(t, i)) = <<t[i]>>
    <3>1. e - i = 1
      BY <2>1
    <3>2. ReadRun("ellipsis", RunAt(t, i)) = Ellipses(1)
      BY <1>2, <1>4, <3>1, ReadRuns
    <3> QED
      BY <1>4, <3>2, TwoEllipses
  <2> QED
    BY <1>1, <2>1, <2>2, RunsStep, Zenon DEF Written
<1>5. CASE t[i] # Ellipsis
  <2>1. t[i] = Dot => e < i + 3
    <3> SUFFICES ASSUME t[i] = Dot, e >= i + 3 PROVE FALSE
      BY <1>1
    <3>1. e \in i + 3 .. Len(t) + 1
      BY <1>1
    <3>2. RunOver(t, i, e)
      BY <1>1, RunStops
    <3>3. RunOf({Dot}, t, i, e)
      <4>1. ASSUME NEW q \in i .. e - 1 PROVE t[q] \in {Dot}
        <5>1. CASE q = i
          BY <5>1
        <5>2. CASE q # i
          <6>1. SameFamily(t[i], t[q])
            BY <3>2, <5>2 DEF RunOver
          <6> QED
            BY <1>2, <6>1, OneFamily
        <5> QED
          BY <5>1, <5>2
      <4>2. e <= Len(t) => t[e] \notin {Dot}
        <5>1. e <= Len(t) => ~SameFamily(t[i], t[e])
          BY <3>2 DEF RunOver
        <5> QED
          BY <1>2, <5>1, OneFamily
      <4> QED
        BY <1>1, <4>1, <4>2 DEF RunOf
    <3> QED
      BY <3>1, <3>3
  <2>2. ReadRun("ellipsis", RunAt(t, i)) = RunAt(t, i)
    <3>1. ~(t[i] = Dot /\ Len(RunAt(t, i)) >= 3)
      BY <1>1, <1>2, <2>1
    <3> QED
      BY <1>2, <1>5, <3>1, ReadRuns
  <2>3. ASSUME i + 1 < e PROVE ReadRun("ellipsis", RunAt(t, i + 1)) = RunAt(t, i + 1)
    <3>1. t[i + 1] # Ellipsis /\ (t[i + 1] = Dot => t[i] = Dot)
      BY <1>2, <1>3, <1>5, <2>3, OneFamily
    <3>2. ~(t[i + 1] = Dot /\ Len(RunAt(t, i + 1)) >= 3)
      BY <1>1, <1>3, <2>1, <2>3, <3>1
    <3> QED
      BY <1>3, <2>3, <3>1, <3>2, ReadRuns
  <2> QED
    BY <1>1, <2>2, <2>3, CopiedRun
<1> QED
  BY <1>4, <1>5
\* The second scan at a run of full stops or of commas.
LEMMA StopsByRule ==
    ASSUME NEW t, NEW i, NEW e, t \in Seq(Char), i \in 1 .. Len(t)
    PROVE  /\ RunOf(Stops, t, i, e) => Written("repeat", t, i, <<t[i]>>, e)
           /\ RunOf(Commas, t, i, e) => Written("repeat", t, i, <<WComma>>, e)
<1>1. RunAt(t, i)[1] = t[i] /\ Stops \in Families /\ Commas \in Families
  BY RunText DEF Families
<1>2. ASSUME RunOf(Stops, t, i, e) PROVE Written("repeat", t, i, <<t[i]>>, e)
  <2>1. RunStop(t, i) = e
    BY <1>1, <1>2, RunIsRun
  <2>2. t[i] \in Stops
    BY <1>2 DEF RunOf
  <2>3. ReadRun("repeat", RunAt(t, i)) = <<t[i]>>
    BY <1>1, <2>2, ReadRuns
  <2> QED
    BY <2>1, <2>3, RunsStep, Zenon DEF Written
<1>3. ASSUME RunOf(Commas, t, i, e) PROVE Written("repeat", t, i, <<WComma>>, e)
  <2>1. RunStop(t, i) = e
    BY <1>1, <1>3, RunIsRun
  <2>2. t[i] \in Commas
    BY <1>3 DEF RunOf
  <2>3. ReadRun("repeat", RunAt(t, i)) = <<WComma>>
    BY <1>1, <2>2, ReadRuns
  <2> QED
    BY <2>1, <2>3, RunsStep, Zenon DEF Written
<1> QED
  BY <1>2, <1>3

\* The second scan at a run of tone marks.
LEMMA TonesByRule ==
    ASSUME NEW t, NEW i, NEW e, t \in Seq(Char), i \in 1 .. Len(t), RunOf(Tones, t, i, e)
    PROVE  Written("repeat", t, i, ToneReading(t, i, e), e)
<1>1. RunStop(t, i) = e /\ e \in i + 1 .. Len(t) + 1
  BY RunIsRun DEF Families, RunOf
<1>2. \A q \in i .. e - 1 : t[q] \in Tones
  BY DEF RunOf
<1>3. PICK r : r = RunAt(t, i)
  OBVIOUS
<1>4. /\ r \in Seq(Char) /\ Len(r) = e - i /\ r[1] = t[i]
      /\ \A q \in 1 .. e - i : r[q] = t[i + q - 1]
  <2>1. /\ RunAt(t, i) \in Seq(Char) /\ Len(RunAt(t, i)) = RunStop(t, i) - i
        /\ RunAt(t, i)[1] = t[i]
        /\ \A q \in 1 .. RunStop(t, i) - i : RunAt(t, i)[q] = t[i + q - 1]
    BY RunText
  <2> QED
    BY <1>1, <1>3, <2>1, Zenon
<1>5. r[1] \in Tones /\ r[1] \notin Stops /\ r[1] \notin Commas
  <2>1. r[1] \in Tones
    BY <1>1, <1>2, <1>4
  <2> QED
    BY <2>1 DEF Stops, Commas, Tones, Stop, WideDot, Comma, WComma, Bang, WBang, Quest, WQuest
<1>6. MarkRun(r) = ToneReading(t, i, e)
  <2>1. CASE e = i + 1
    <3>1. Len(r) = 1 /\ ~(Len(r) > 1)
      BY <1>4, <2>1
    <3>2. r = <<t[i]>>
      <4>1. r \in Seq(Char) /\ Len(r) = 1 /\ r[1] = t[i]
        BY <1>4, <3>1
      <4> QED
        BY ONLY <4>1
    <3>3. MarkRun(r) = r
      BY <1>5, <3>1 DEF MarkRun
    <3> QED
      BY <2>1, <3>2, <3>3 DEF ToneReading
  <2>2. CASE e > i + 1
    <3>1. PICK kinds : kinds = {t[q] : q \in i .. e - 1}
      OBVIOUS
    <3>2. Len(r) > 1 /\ Len(r) = e - i
      BY <1>1, <1>4, <2>2
    <3>3. ASSUME NEW x PROVE x \in kinds <=> \E j \in 1 .. Len(r) : r[j] = x
      <4>1. ASSUME x \in kinds PROVE \E j \in 1 .. Len(r) : r[j] = x
        <5>1. PICK q \in i .. e - 1 : t[q] = x
          BY <3>1, <4>1
        <5>2. q - i + 1 \in 1 .. e - i /\ i + (q - i + 1) - 1 = q
          BY <1>1, <5>1
        <5>3. r[q - i + 1] = x /\ q - i + 1 \in 1 .. Len(r)
          BY <1>4, <5>1, <5>2
        <5> QED
          BY <5>3
      <4>2. ASSUME NEW j \in 1 .. Len(r), r[j] = x PROVE x \in kinds
        <5>1. i + j - 1 \in i .. e - 1 /\ t[i + j - 1] = x
          BY <1>1, <1>4, <4>2
        <5> QED
          BY <3>1, <5>1
      <4> QED
        BY <4>1, <4>2
    <3>4. \A x \in kinds : x \in Tones
      BY <1>2, <3>1
    <3>5. kinds # {}
      BY <1>1, <3>1
    <3>6. /\ kinds \cap {Quest, WQuest} = {} <=> ~ \E j \in 1 .. Len(r) : r[j] \in {Quest, WQuest}
          /\ kinds \cap {Bang, WBang} = {} <=> ~ \E j \in 1 .. Len(r) : r[j] \in {Bang, WBang}
      BY <3>3
    <3>7. ~(kinds \cap {Quest, WQuest} = {} /\ kinds \cap {Bang, WBang} = {})
      BY <3>4, <3>5 DEF Tones
    <3>8. ToneReading(t, i, e) =
            CASE kinds \cap {Quest, WQuest} = {} -> <<WBang>>
              [] kinds \cap {Bang, WBang} = {}   -> <<WQuest>>
              [] OTHER                           -> <<WQuest, WBang>>
      <4>1. e # i + 1
        BY <1>1, <2>2
      <4> QED
        BY <3>1, <4>1, Zenon DEF ToneReading
    <3>9. MarkRun(r) =
            (IF \E j \in 1 .. Len(r) : r[j] \in {Quest, WQuest} THEN <<WQuest>> ELSE <<>>)
            \o (IF \E j \in 1 .. Len(r) : r[j] \in {Bang, WBang} THEN <<WBang>> ELSE <<>>)
      BY <1>5, <3>2 DEF MarkRun
    <3>10. /\ <<WQuest>> \o <<WBang>> = <<WQuest, WBang>>
           /\ <<WQuest>> \o <<>> = <<WQuest>> /\ <<>> \o <<WBang>> = <<WBang>>
      <4>1. WQuest \in Char /\ WBang \in Char
        BY Kinds
      <4>2. <<WQuest>> \in Seq(Char) /\ <<WBang>> \in Seq(Char)
        BY <4>1
      <4>3. <<WQuest>> \o <<WBang>> = <<WQuest, WBang>>
        <5>1. PICK a, b, c, d : /\ a = <<WQuest>> /\ b = <<WBang>> /\ c = a \o b
                                /\ d = <<WQuest, WBang>>
          OBVIOUS
        <5>2. /\ a \in Seq(Char) /\ b \in Seq(Char) /\ Len(a) = 1 /\ Len(b) = 1
              /\ a[1] = WQuest /\ b[1] = WBang
          BY <4>1, <5>1
        <5>3. d \in Seq(Char) /\ Len(d) = 2 /\ d[1] = WQuest /\ d[2] = WBang
          BY <4>1, <5>1
        <5>4. c \in Seq(Char) /\ Len(c) = 2 /\ c[1] = WQuest /\ c[2] = WBang
          BY <5>1, <5>2
        <5>5. c = d
          BY <5>3, <5>4, SeqEqual
        <5> QED
          BY <5>1, <5>5
      <4> QED
        BY <4>2, <4>3
    <3> QED
      BY <3>6, <3>7, <3>8, <3>9, <3>10
  <2> QED
    BY <1>1, <2>1, <2>2
<1>7. ReadRun("repeat", RunAt(t, i)) = ToneReading(t, i, e)
  BY <1>3, <1>6 DEF ReadRun
<1> QED
  BY <1>1, <1>7, RunsStep, Zenon DEF Written

\* The second scan at any other character.
LEMMA OtherByRule ==
    ASSUME NEW t, NEW i, t \in Seq(Char), i \in 1 .. Len(t),
           t[i] \notin Stops \cup Commas \cup Tones
    PROVE  Written("repeat", t, i, <<t[i]>>, i + 1)
<1>1. RunAt(t, i)[1] = t[i] /\ {Stops, Commas, Tones} \subseteq Families
  BY RunText DEF Families
<1>2. ReadRun("repeat", RunAt(t, i)) = RunAt(t, i)
  BY <1>1, ReadRuns
<1>3. ASSUME i + 1 < RunStop(t, i)
      PROVE  ReadRun("repeat", RunAt(t, i + 1)) = RunAt(t, i + 1)
  <2>1. i + 1 \in 1 .. Len(t) /\ SameFamily(t[i], t[i + 1])
    BY <1>3, RunGoesOn
  <2>2. t[i + 1] \notin Stops \cup Commas \cup Tones
    BY <1>1, <2>1, OneFamily
  <2>3. RunAt(t, i + 1)[1] = t[i + 1]
    BY <2>1, RunText
  <2> QED
    BY <2>2, <2>3, ReadRuns
<1> QED
  BY <1>2, <1>3, CopiedRun
-----------------------------------------------------------------------------
(***************************************************************************)
(* One step of a scan that writes what the rule says for what it reads.    *)
(***************************************************************************)
LEMMA StepByRule ==
    ASSUME TypeOK, RuleInv, stage \in Scans, p <= Len(s),
           NEW out, NEW e, out \in Seq(Char), e \in p + 1 .. Len(s) + 1,
           Emit(out, e), Written(stage, s, p, out, e)
    PROVE  RuleInv'
<1>1. /\ result' = result \o out /\ p' = e
      /\ stage' = stage /\ s' = s /\ input' = input /\ calls' = calls
  BY DEF Emit
<1>2. result \in Seq(Char) /\ s \in Seq(Char) /\ e \in 1 .. Len(s) + 1
  BY DEF TypeOK
<1>3. PICK rest : rest = RunsFrom(stage, s, e) /\ rest \in Seq(Char)
  BY <1>2, RunsStep
<1>4. result \o RunsFrom(stage, s, p) = EachRun(stage, s)
  BY DEF RuleInv
<1>5. RunsFrom(stage, s, p) = out \o rest
  BY <1>3 DEF Written
<1>6. (result \o out) \o rest = result \o (out \o rest)
  BY ONLY SMTT(60), <1>2, <1>3, out \in Seq(Char), ThreeTexts
<1>7. result' \o RunsFrom(stage', s', p') = EachRun(stage', s')
  BY <1>1, <1>3, <1>4, <1>5, <1>6, Zenon
<1>8. stage # "terminal"
  BY DEF Scans
<1>9. /\ stage' = "ellipsis" => s' = input'
      /\ stage' = "repeat" => s' = EachRun("ellipsis", input')
      /\ stage' # "terminal"
  BY <1>1, <1>8 DEF RuleInv
<1> QED
  BY <1>7, <1>9 DEF RuleInv, RepeatedByRule

\* A scan that begins has the whole text to read.
LEMMA ScanBegins ==
    ASSUME NEW scan, NEW t, t \in Seq(Char)
    PROVE  <<>> \o RunsFrom(scan, t, 1) = EachRun(scan, t)
<1>1. 1 \in 1 .. Len(t) + 1
  OBVIOUS
<1>2. PICK all : all = RunsFrom(scan, t, 1) /\ all \in Seq(Char)
  BY <1>1, RunsStep
<1>3. <<>> \o all = all
  BY <1>2
<1> QED
  BY <1>2, <1>3 DEF EachRun

\* A scan that is over has written the whole text by the rule.
LEMMA ScanEnds ==
    ASSUME TypeOK, RuleInv, EndScan
    PROVE  RuleInv'
<1>1. /\ stage \in Scans /\ s' = result /\ result' = <<>> /\ p' = 1
      /\ stage' = NextStage[stage] /\ input' = input
      /\ s \in Seq(Char) /\ result \in Seq(Char) /\ p = Len(s) + 1
  BY DEF EndScan, TypeOK
<1>2. result = EachRun(stage, s)
  <2>1. RunsFrom(stage, s, p) = <<>>
    BY <1>1, RunsStep
  <2>2. result \o <<>> = result
    BY <1>1
  <2>3. result \o RunsFrom(stage, s, p) = EachRun(stage, s)
    BY <1>1 DEF RuleInv
  <2> QED
    BY <2>1, <2>2, <2>3, Zenon
<1>3. CASE stage = "ellipsis"
  <2>1. stage' = "repeat" /\ stage' # "ellipsis" /\ stage' # "terminal"
    BY <1>1, <1>3 DEF NextStage
  <2>2. s' = EachRun("ellipsis", input')
    BY <1>1, <1>2, <1>3 DEF RuleInv
  <2>3. result' \o RunsFrom(stage', s', p') = EachRun(stage', s')
    BY <1>1, ScanBegins
  <2> QED
    BY <2>1, <2>2, <2>3 DEF RuleInv, RepeatedByRule
<1>4. CASE stage = "repeat"
  <2>1. stage' = "terminal" /\ stage' # "ellipsis" /\ stage' # "repeat" /\ stage' \notin Scans
    BY <1>1, <1>4 DEF NextStage, Scans
  <2>2. s' = EachRun("repeat", EachRun("ellipsis", input'))
    BY <1>1, <1>2, <1>4 DEF RuleInv
  <2> QED
    BY <2>1, <2>2 DEF RuleInv, RepeatedByRule
<1> QED
  BY <1>1, <1>3, <1>4 DEF Scans

(***************************************************************************)
(* RuleInv holds: at every position, what a scan has written and what the  *)
(* rule makes of the runs from there on is the text read by the rule.      *)
(***************************************************************************)
THEOREM RuleInvariant == Spec => []RuleInv
<1>1. Init => RuleInv
  <2> SUFFICES ASSUME Init PROVE RuleInv
    OBVIOUS
  <2>1. stage = "ellipsis" /\ s \in Seq(Char) /\ p = 1 /\ result = <<>> /\ input = s
    BY TextsAssumption DEF Init, NextStage
  <2>2. result \o RunsFrom(stage, s, p) = EachRun(stage, s)
    BY <2>1, ScanBegins
  <2> QED
    BY <2>1, <2>2 DEF RuleInv, RepeatedByRule
<1>2. TypeOK /\ RuleInv /\ [Next]_vars => RuleInv'
  <2> SUFFICES ASSUME TypeOK, RuleInv, [Next]_vars PROVE RuleInv'
    OBVIOUS
  <2>0. s \in Seq(Char) /\ p \in 1 .. Len(s) + 1 /\ "ellipsis" \in Scans /\ "repeat" \in Scans
    BY DEF TypeOK, Scans
  <2>1. CASE DotsToStop
    <3>1. PICK e \in p + 3 .. Len(s) + 1 : RunOf({Dot}, s, p, e) /\ Emit(<<Stop>>, e)
      BY <2>1 DEF DotsToStop
    <3>2. stage = "ellipsis" /\ p <= Len(s) /\ p \in 1 .. Len(s) /\ <<Stop>> \in Seq(Char)
          /\ e \in p + 1 .. Len(s) + 1
      BY <2>0, <2>1, Kinds DEF DotsToStop, Reading
    <3>3. Written(stage, s, p, <<Stop>>, e)
      BY <2>0, <3>1, <3>2, DotsByRule
    <3> QED
      BY <2>0, <3>1, <3>2, <3>3, StepByRule
  <2>2. CASE EllipsesToStop
    <3>1. /\ stage = "ellipsis" /\ p <= Len(s) /\ p \in 1 .. Len(s) - 1 /\ <<Stop>> \in Seq(Char)
          /\ s[p] = Ellipsis /\ s[p + 1] = Ellipsis /\ Emit(<<Stop>>, p + 2)
          /\ p + 2 \in p + 1 .. Len(s) + 1
      BY <2>0, <2>2, Kinds DEF EllipsesToStop, EllipsisPair, Reading
    <3>2. Written(stage, s, p, <<Stop>>, p + 2)
      BY <2>0, <3>1, EllipsesByRule
    <3> QED
      BY <2>0, <3>1, <3>2, StepByRule
  <2>3. CASE CopyNoEllipsis
    <3>1. /\ stage = "ellipsis" /\ p <= Len(s) /\ p \in 1 .. Len(s)
          /\ Emit(<<s[p]>>, p + 1) /\ p + 1 \in p + 1 .. Len(s) + 1 /\ <<s[p]>> \in Seq(Char)
      BY <2>0, <2>3 DEF CopyNoEllipsis, Reading
    <3>2. Written(stage, s, p, <<s[p]>>, p + 1)
      BY <2>0, <2>3, <3>1, CopyByRule DEF CopyNoEllipsis, EllipsisPair
    <3> QED
      BY <2>0, <3>1, <3>2, StepByRule
  <2>4. CASE ReduceStops
    <3>1. PICK e \in p + 1 .. Len(s) + 1 : RunOf(Stops, s, p, e) /\ Emit(<<s[p]>>, e)
      BY <2>4 DEF ReduceStops
    <3>2. stage = "repeat" /\ p <= Len(s) /\ p \in 1 .. Len(s) /\ <<s[p]>> \in Seq(Char)
      BY <2>0, <2>4 DEF ReduceStops, Reading
    <3>3. Written(stage, s, p, <<s[p]>>, e)
      BY <2>0, <3>1, <3>2, StopsByRule
    <3> QED
      BY <2>0, <3>1, <3>2, <3>3, StepByRule
  <2>5. CASE ReduceCommas
    <3>1. PICK e \in p + 1 .. Len(s) + 1 : RunOf(Commas, s, p, e) /\ Emit(<<WComma>>, e)
      BY <2>5 DEF ReduceCommas
    <3>2. stage = "repeat" /\ p <= Len(s) /\ p \in 1 .. Len(s) /\ <<WComma>> \in Seq(Char)
      BY <2>0, <2>5, Kinds DEF ReduceCommas, Reading
    <3>3. Written(stage, s, p, <<WComma>>, e)
      BY <2>0, <3>1, <3>2, StopsByRule
    <3> QED
      BY <2>0, <3>1, <3>2, <3>3, StepByRule
  <2>6. CASE ReduceTones
    <3>1. PICK e \in p + 1 .. Len(s) + 1 : RunOf(Tones, s, p, e) /\ Emit(ToneReading(s, p, e), e)
      BY <2>6 DEF ReduceTones
    <3>2. stage = "repeat" /\ p <= Len(s) /\ p \in 1 .. Len(s)
      BY <2>0, <2>6 DEF ReduceTones, Reading
    <3>3. Written(stage, s, p, ToneReading(s, p, e), e)
      BY <2>0, <3>1, <3>2, TonesByRule
    <3>4. ToneReading(s, p, e) \in Seq(Char)
      <4>1. s[p] \in Char /\ WQuest \in Char /\ WBang \in Char
        BY <2>0, <3>2, Kinds
      <4> QED
        BY <4>1 DEF ToneReading
    <3> QED
      BY <2>0, <3>1, <3>2, <3>3, <3>4, StepByRule
  <2>7. CASE CopyOther
    <3>1. /\ stage = "repeat" /\ p <= Len(s) /\ p \in 1 .. Len(s)
          /\ Emit(<<s[p]>>, p + 1) /\ p + 1 \in p + 1 .. Len(s) + 1 /\ <<s[p]>> \in Seq(Char)
      BY <2>0, <2>7 DEF CopyOther, Reading
    <3>2. Written(stage, s, p, <<s[p]>>, p + 1)
      BY <2>0, <2>7, <3>1, OtherByRule DEF CopyOther
    <3> QED
      BY <2>0, <3>1, <3>2, StepByRule
  <2>8. CASE EndScan
    BY <2>8, ScanEnds
  <2>9. CASE EnsureTerminalPunctuationByLine
    BY <2>9 DEF EnsureTerminalPunctuationByLine, RuleInv, RepeatedByRule, Scans
  <2>10. CASE RunAgain
    <3>1. /\ stage' = "ellipsis" /\ s' = s /\ input' = s /\ p' = 1 /\ result' = <<>>
      BY <2>10 DEF RunAgain, NextStage, TypeOK, Scans
    <3>2. result' \o RunsFrom(stage', s', p') = EachRun(stage', s')
      BY <2>0, <3>1, ScanBegins
    <3> QED
      BY <3>1, <3>2 DEF RuleInv, RepeatedByRule
  <2>11. CASE UNCHANGED vars
    BY <2>11 DEF vars, RuleInv, RepeatedByRule
  <2> QED
    BY <2>1, <2>2, <2>3, <2>4, <2>5, <2>6, <2>7, <2>8, <2>9, <2>10, <2>11 DEF Next, Finished
<1> QED
  BY <1>1, <1>2, PunctuationTypeCorrect, PTL DEF Spec

(***************************************************************************)
(* NormalizeRepeatedPunctuation, two scans with a moving position, reads   *)
(* every text run by run as the rule says, for every text.                 *)
(***************************************************************************)
THEOREM RepeatsAreReadByRule == Spec => []RepeatedByRule
<1>1. RuleInv => RepeatedByRule
  BY DEF RuleInv
<1> QED
  BY <1>1, RuleInvariant, PTL

=============================================================================
