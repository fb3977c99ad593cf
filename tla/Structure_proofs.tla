-------------------------- MODULE Structure_proofs --------------------------
(***************************************************************************)
(* Proofs about Structure for texts of every length: its type invariant;   *)
(* that no word and no address is lost, repeated or moved; that no arrow,  *)
(* no run of dashes and no pair of brackets that were not nested is left;  *)
(* what the second call may change; that joined lines are kept apart; and  *)
(* which prefix may be left at the beginning of the text.                  *)
(***************************************************************************)
EXTENDS Structure, TextOps_proofs, FiniteSetTheorems

\* the symbols that are neither a word nor an address
Silent == Symbol \ {Ink, Url, LinkUrl}

\* the symbols of t from a to b are all silent
SilentFrom(t, a, b) == \A k \in a .. b : t[k] \in Silent

\* what Content is made of
Spoken == {"word", "address"}

-----------------------------------------------------------------------------
(***************************************************************************)
(* The symbols.                                                            *)
(***************************************************************************)

\* The marks that the passes look for, drop or put in are silent.
LEMMA SilentSymbols ==
  /\ Blank \subseteq Silent /\ {Space} \subseteq Silent /\ Shaft \subseteq Silent
  /\ Dashes \subseteq Silent /\ Openers \subseteq Silent /\ Closers \subseteq Silent
  /\ {Newline, Hash, Slashes, Star, Number, Less, Greater, Arrow, Quote, Comma, Stop, Hyphen}
       \subseteq Silent
<1>1. Blank \cup Shaft \cup Dashes \cup Openers \cup Closers \cup
        {Newline, Hash, Slashes, Star, Number, Less, Greater, Arrow, Quote, Comma, Stop}
          \subseteq Symbol
  BY DEF Symbol
<1>2. {Ink, Url, LinkUrl} \cap
        (Blank \cup Shaft \cup Dashes \cup
         {Newline, Hash, Slashes, Star, Number, Less, Greater, Arrow, Quote, Comma, Stop}) = {}
  BY DEF Blank, Shaft, Dashes, Ink, Url, LinkUrl, Space, Tab, Hyphen, Equal, Dash, Newline, Hash,
         Slashes, Star, Number, Less, Greater, Arrow, Quote, Comma, Stop
<1>3. Openers \cap {Ink, Url, LinkUrl} = {} /\ Closers \cap {Ink, Url, LinkUrl} = {}
  <2>1. DOMAIN Opener = {"square", "curly", "lenticular", "corner"} /\ DOMAIN Closer = DOMAIN Opener
    BY DEF Opener, Closer
  <2>2. /\ Opener["square"] = "[" /\ Opener["curly"] = "{" /\ Opener["lenticular"] = "L"
        /\ Opener["corner"] = "C"
        /\ Closer["square"] = "]" /\ Closer["curly"] = "}" /\ Closer["lenticular"] = "l"
        /\ Closer["corner"] = "c"
    BY DEF Opener, Closer
  <2>3. Ink \notin Openers \cup Closers /\ Url \notin Openers \cup Closers
        /\ LinkUrl \notin Openers \cup Closers
    BY <2>1, <2>2 DEF Openers, Closers, Range, Ink, Url, LinkUrl
  <2> QED
    BY <2>3
<1>4. Space \in Blank /\ Hyphen \in Shaft
  BY DEF Blank, Shaft
<1> QED
  BY <1>1, <1>2, <1>3, <1>4 DEF Silent

\* A bracket of a kind is an opening or a closing one.
LEMMA BracketKinds ==
  ASSUME NEW kind \in {"square", "curly", "lenticular", "corner"}
  PROVE  Opener[kind] \in Silent /\ Closer[kind] \in Silent
<1>1. Opener[kind] \in Openers /\ Closer[kind] \in Closers
  BY DEF Openers, Closers, Range, Opener, Closer
<1> QED
  BY <1>1, SilentSymbols

\* What Meaning puts in the place of a symbol.
LEMMA Meanings ==
  /\ Meaning \in Images(Symbol, Spoken)
  /\ \A x \in Silent : x \in Symbol /\ Meaning[x] = <<>>
  /\ Url \in Symbol /\ LinkUrl \in Symbol
  /\ Meaning[Url] = Meaning[LinkUrl]
<1>1. \A x \in Symbol : Meaning[x] = IF x = Ink THEN <<"word">>
                                     ELSE IF x \in {Url, LinkUrl} THEN <<"address">> ELSE <<>>
  BY DEF Meaning, Ink, Url, LinkUrl
<1>2. DOMAIN Meaning = Symbol /\ Meaning = [x \in Symbol |-> Meaning[x]]
  BY DEF Meaning
<1>3. <<"word">> \in Seq(Spoken) /\ <<"address">> \in Seq(Spoken) /\ <<>> \in Seq(Spoken)
  BY DEF Spoken
<1>4. \A x \in Symbol : Meaning[x] \in Seq(Spoken)
  BY <1>1, <1>3
<1>5. Meaning \in Images(Symbol, Spoken)
  BY <1>2, <1>4 DEF Images
<1>6. Url \in Symbol /\ LinkUrl \in Symbol
  BY DEF Symbol
<1> QED
  BY <1>1, <1>5, <1>6 DEF Silent, Ink, Url, LinkUrl

-----------------------------------------------------------------------------
(***************************************************************************)
(* The content of a text and of its parts.                                 *)
(***************************************************************************)

\* The content of two texts behind each other is that of the one and the other.
LEMMA ContentTwo ==
  ASSUME NEW a, NEW b, a \in Seq(Symbol) /\ b \in Seq(Symbol)
  PROVE  /\ Content(a \o b) = Content(a) \o Content(b)
         /\ Content(a) \in Seq(Spoken) /\ Content(b) \in Seq(Spoken)
<1>1. Spread(Meaning, a \o b) = Spread(Meaning, a) \o Spread(Meaning, b)
  BY Meanings, SpreadConcat
<1>2. Spread(Meaning, a) \in Seq(Spoken) /\ Spread(Meaning, b) \in Seq(Spoken)
  BY Meanings, SpreadType
<1> QED
  BY <1>1, <1>2 DEF Content

\* A text of one symbol has the content of the symbol.
LEMMA ContentOne ==
  ASSUME NEW x, x \in Symbol
  PROVE  Content(<<x>>) = Meaning[x]
<1>1. Spread(Meaning, <<x>>) = Meaning[x]
  BY Meanings, SpreadSingle
<1> QED
  BY <1>1 DEF Content

\* A text of silent symbols has no content.
LEMMA ContentSilent ==
  ASSUME NEW t, t \in Seq(Silent)
  PROVE  Content(t) = <<>>
<1> DEFINE G == {u \in Seq(Silent) : Content(u) = <<>>}
<1>1. <<>> \in G
  BY EmptySeq, SpreadEmpty DEF Content
<1>2. ASSUME NEW u, NEW c, u \in Seq(Silent) /\ u \in G /\ c \in Silent
      PROVE  Append(u, c) \in G
  <2>1. u \in Seq(Symbol) /\ c \in Symbol /\ Append(u, c) \in Seq(Silent)
    BY <1>2 DEF Silent
  <2>2. Content(Append(u, c)) = Content(u) \o Meaning[c]
    BY <2>1, Meanings, SpreadAppend DEF Content
  <2>3. Content(u) = <<>> /\ Meaning[c] = <<>>
    BY <1>2, Meanings
  <2>4. <<>> \o <<>> = <<>>
    OBVIOUS
  <2> QED
    BY <2>1, <2>2, <2>3, <2>4
<1> HIDE DEF G
<1>3. t \in G
  BY <1>1, <1>2, TextInduction
<1> QED
  BY <1>3 DEF G

\* A part of a text, cut in two.
LEMMA PartSplit ==
  ASSUME NEW t, NEW a, NEW b, NEW m, t \in Seq(Symbol),
         a \in Nat /\ b \in Nat /\ m \in Nat /\ 1 <= a /\ a <= m /\ m <= b + 1 /\ b <= Len(t)
  PROVE  /\ SubSeq(t, a, b) = SubSeq(t, a, m - 1) \o SubSeq(t, m, b)
         /\ SubSeq(t, a, b) \in Seq(Symbol) /\ SubSeq(t, a, m - 1) \in Seq(Symbol)
         /\ SubSeq(t, m, b) \in Seq(Symbol)
<1>1. PICK k : k = m - 1 /\ k + 1 = m
  OBVIOUS
<1>2. a \in 1 .. Len(t) + 1 /\ k \in a - 1 .. Len(t) /\ b \in k .. Len(t)
  BY <1>1
<1>3. SubSeq(t, a, k) \o SubSeq(t, k + 1, b) = SubSeq(t, a, b)
  BY <1>2, ConcatAdjacentSubSeq
<1>4. SubSeq(t, a, b) \in Seq(Symbol) /\ SubSeq(t, a, k) \in Seq(Symbol) /\ SubSeq(t, m, b) \in Seq(Symbol)
  BY <1>1, <1>2
<1> QED
  BY <1>1, <1>3, <1>4

\* A part of one symbol.
LEMMA OneSymbol ==
  ASSUME NEW t, NEW i, t \in Seq(Symbol), i \in 1 .. Len(t)
  PROVE  SubSeq(t, i, i) = <<t[i]>> /\ t[i] \in Symbol
<1>1. i \in i .. Len(t) /\ i \in Int /\ i + 1 \in Int /\ i < i + 1
  OBVIOUS
<1>2. SubSeq(t, i, i) = <<t[i]>> \o SubSeq(t, i + 1, i)
  BY <1>1, SubSeqRecursiveFirst
<1>3. SubSeq(t, i + 1, i) = <<>>
  BY <1>1, SubSeqEmpty
<1>4. t[i] \in Symbol
  OBVIOUS
<1>5. <<t[i]>> \o <<>> = <<t[i]>>
  BY <1>4
<1> QED
  BY <1>2, <1>3, <1>4, <1>5

\* A part that ends where it begins or later is not empty.
LEMMA PartNotEmpty ==
  ASSUME NEW t, NEW a, NEW b, t \in Seq(Symbol), a \in 1 .. Len(t) /\ b \in a .. Len(t)
  PROVE  SubSeq(t, a, b) # <<>>
<1>1. Len(SubSeq(t, a, b)) = IF a <= b THEN b - a + 1 ELSE 0
  BY SubSeqProperties
<1>2. b - a + 1 > 0 /\ a <= b
  OBVIOUS
<1>3. Len(SubSeq(t, a, b)) # 0
  BY <1>1, <1>2
<1> QED
  BY <1>3

\* A part of a text in which every symbol is silent has no content.
LEMMA SilentPart ==
  ASSUME NEW t, NEW a, NEW b, t \in Seq(Symbol),
         a \in Nat /\ b \in Nat /\ 1 <= a /\ b <= Len(t),
         SilentFrom(t, a, b)
  PROVE  Content(SubSeq(t, a, b)) = <<>>
<1>1. CASE a > b
  <2>1. SubSeq(t, a, b) = <<>>
    BY <1>1
  <2> QED
    BY <2>1, EmptySeq, ContentSilent
<1>2. CASE a <= b
  <2>1. PICK n, u : n = b - a + 1 /\ u = SubSeq(t, a, b)
    OBVIOUS
  <2>2. n \in Nat /\ u \in Seq(Symbol) /\ Len(u) = n /\ \A i \in 1 .. n : u[i] = t[a + i - 1]
    BY <1>2, <2>1
  <2>3. \A i \in 1 .. n : a + i - 1 \in a .. b
    BY <1>2, <2>1
  <2>4. \A i \in 1 .. n : u[i] \in Silent
    BY <2>2, <2>3 DEF SilentFrom
  <2>5. u = [i \in 1 .. n |-> u[i]]
    BY <2>2
  <2>6. u \in Seq(Silent)
    BY <2>2, <2>4, <2>5
  <2> QED
    BY <2>1, <2>6, ContentSilent
<1> QED
  BY <1>1, <1>2

\* Silent symbols at the two ends of a part add nothing to its content.
LEMMA SilentEnds ==
  ASSUME NEW t, NEW a, NEW b, NEW c, NEW d, t \in Seq(Symbol),
         a \in Nat /\ b \in Nat /\ c \in Nat /\ d \in Nat,
         1 <= a /\ a <= c /\ c <= d + 1 /\ d <= b /\ b <= Len(t),
         SilentFrom(t, a, c - 1) /\ SilentFrom(t, d + 1, b)
  PROVE  /\ Content(SubSeq(t, a, b)) = Content(SubSeq(t, c, d))
         /\ SubSeq(t, a, b) \in Seq(Symbol) /\ SubSeq(t, c, d) \in Seq(Symbol)
<1>1. PICK e, x, y, z, v, w : e = d + 1 /\ x = SubSeq(t, a, c - 1) /\ y = SubSeq(t, c, d)
                              /\ z = SubSeq(t, e, b) /\ v = SubSeq(t, a, b) /\ w = SubSeq(t, c, b)
  OBVIOUS
<1>2. e \in Nat /\ d = e - 1 /\ c <= e /\ e <= b + 1 /\ c <= b + 1
  BY <1>1
<1>3. v = x \o w /\ x \in Seq(Symbol) /\ w \in Seq(Symbol) /\ v \in Seq(Symbol)
  <2>1. /\ SubSeq(t, a, b) = SubSeq(t, a, c - 1) \o SubSeq(t, c, b)
        /\ SubSeq(t, a, b) \in Seq(Symbol) /\ SubSeq(t, a, c - 1) \in Seq(Symbol)
        /\ SubSeq(t, c, b) \in Seq(Symbol)
    BY <1>2, PartSplit, Zenon
  <2> QED
    BY <1>1, <2>1, Zenon
<1>4. w = y \o z /\ y \in Seq(Symbol) /\ z \in Seq(Symbol)
  <2>1. 1 <= c
    OBVIOUS
  <2>2. /\ SubSeq(t, c, b) = SubSeq(t, c, e - 1) \o SubSeq(t, e, b)
        /\ SubSeq(t, c, e - 1) \in Seq(Symbol) /\ SubSeq(t, e, b) \in Seq(Symbol)
    BY <1>2, <2>1, PartSplit
  <2> QED
    BY <1>1, <1>2, <2>2, Zenon
<1>5. Content(z) = <<>>
  <2>1. 1 <= e
    BY <1>2
  <2> QED
    BY <1>1, <1>2, <2>1, SilentPart
<1>6. Content(x) = <<>>
  <2>1. PICK g : g = c - 1 /\ g \in Nat /\ g <= Len(t)
    OBVIOUS
  <2>2. Content(SubSeq(t, a, g)) = <<>>
    BY <2>1, SilentPart
  <2> QED
    BY <1>1, <2>1, <2>2
<1>7. Content(v) = Content(x) \o (Content(y) \o Content(z)) /\ Content(y) \in Seq(Spoken)
  <2>1. Content(x \o w) = Content(x) \o Content(w)
    BY <1>3, ContentTwo
  <2>2. Content(y \o z) = Content(y) \o Content(z) /\ Content(y) \in Seq(Spoken)
    BY <1>4, ContentTwo
  <2> QED
    BY <1>3, <1>4, <2>1, <2>2, Zenon
<1>8. PICK cy : cy = Content(y)
  OBVIOUS
<1>9. <<>> \o (cy \o <<>>) = cy
  <2>1. cy \o <<>> = cy /\ <<>> \o cy = cy
    BY <1>7, <1>8
  <2> QED
    BY <2>1
<1>10. Content(v) = <<>> \o (cy \o <<>>)
  BY <1>5, <1>6, <1>7, <1>8, Zenon
<1>11. Content(v) = Content(y)
  BY <1>8, <1>9, <1>10, Zenon
<1> QED
  BY <1>1, <1>3, <1>4, <1>11, Zenon

-----------------------------------------------------------------------------
(***************************************************************************)
(* The ends of runs and of sets of positions.                              *)
(***************************************************************************)

\* A set of positions that is not empty has a first and a last one.
LEMMA FirstAndLast ==
  ASSUME NEW S, NEW n, n \in Nat, S \subseteq 1 .. n, S # {}
  PROVE  /\ Min(S) \in S /\ \A x \in S : Min(S) <= x
         /\ Max(S) \in S /\ \A x \in S : x <= Max(S)
<1>1. S \subseteq Nat
  OBVIOUS
<1>2. \E x \in S : \A y \in S : x <= y
  BY <1>1, LeastNumber
<1>3. \E x \in S : \A y \in S : x >= y
  <2> DEFINE T == {n - x : x \in S}
  <2>1. T \subseteq Nat
    OBVIOUS
  <2>2. T # {}
    OBVIOUS
  <2>3. PICK m \in T : \A y \in T : m <= y
    <3> HIDE DEF T
    <3> QED
      BY <2>1, <2>2, LeastNumber
  <2>4. PICK x \in S : m = n - x
    OBVIOUS
  <2>5. ASSUME NEW y \in S PROVE x >= y
    <3>1. n - y \in T
      OBVIOUS
    <3>2. n - x <= n - y
      BY <2>3, <2>4, <3>1
    <3>3. x \in Nat /\ y \in Nat
      BY <1>1
    <3> QED
      BY <3>2, <3>3
  <2> QED
    BY <2>5
<1> QED
  BY <1>1, <1>2, <1>3 DEF Min, Max

\* RunEnd is the first position that holds no member of the set.
LEMMA RunEnds ==
  ASSUME NEW set, NEW t, NEW i, t \in Seq(Symbol), i \in Nat /\ 1 <= i /\ i <= Len(t) + 1
  PROVE  /\ RunEnd(set, t, i) \in Nat /\ i <= RunEnd(set, t, i) /\ RunEnd(set, t, i) <= Len(t) + 1
         /\ \A k \in i .. RunEnd(set, t, i) - 1 : t[k] \in set
         /\ RunEnd(set, t, i) <= Len(t) => t[RunEnd(set, t, i)] \notin set
<1>0. PICK n : n = Len(t) /\ n \in Nat
  OBVIOUS
<1> DEFINE R == {j \in i .. n : \A k \in i .. j : t[k] \in set}
           T == {j \in i .. n + 1 : j = n + 1 \/ t[j] \notin set}
<1>1. T \subseteq Nat /\ n + 1 \in T
  BY <1>0
<1>2. PICK e \in T : \A y \in T : e <= y
  <2> HIDE DEF T
  <2> QED
    BY <1>1, LeastNumber
<1>3. e \in Nat /\ i <= e /\ e <= n + 1 /\ (e <= n => t[e] \notin set)
  BY <1>0
<1>4. \A k \in i .. e - 1 : t[k] \in set
  <2> SUFFICES ASSUME NEW k \in i .. e - 1, t[k] \notin set PROVE FALSE
    OBVIOUS
  <2>1. k \in T /\ ~(e <= k)
    BY <1>0, <1>3
  <2> HIDE DEF T
  <2> QED
    BY <1>2, <2>1
<1>5. R = i .. e - 1
  <2>1. ASSUME NEW j \in R PROVE j \in i .. e - 1
    <3>1. j \in i .. n /\ \A k \in i .. j : t[k] \in set
      OBVIOUS
    <3>2. CASE e <= j
      <4>1. e \in i .. j /\ e <= n
        BY <1>0, <1>3, <3>1, <3>2
      <4> QED
        BY <1>3, <3>1, <4>1
    <3>3. CASE j < e
      BY <1>0, <1>3, <3>1, <3>3
    <3> QED
      BY <1>0, <1>3, <3>1, <3>2, <3>3
  <2>2. ASSUME NEW j \in i .. e - 1 PROVE j \in R
    <3>1. j \in i .. n /\ \A k \in i .. j : k \in i .. e - 1
      BY <1>0, <1>3
    <3> QED
      BY <1>4, <3>1
  <2> QED
    BY <2>1, <2>2
<1>6. Cardinality(i .. e - 1) = e - i
  <2>1. PICK g : g = e - 1 /\ g \in Int /\ i \in Int
    BY <1>3
  <2>2. Cardinality(i .. g) = IF i > g THEN 0 ELSE g - i + 1
    BY <2>1, FS_Interval
  <2> QED
    BY <1>3, <2>1, <2>2
<1>7. RunEnd(set, t, i) = i + Cardinality(R)
  BY <1>0 DEF RunEnd
<1>8. RunEnd(set, t, i) = e
  <2> HIDE DEF R
  <2> QED
    BY <1>3, <1>5, <1>6, <1>7
<1> QED
  BY <1>0, <1>3, <1>4, <1>8

\* Trim leaves out members of the set alone, and nothing but them if it leaves nothing.
LEMMA Trims ==
  ASSUME NEW set, NEW t, NEW a, NEW b, t \in Seq(Symbol), set \subseteq Silent,
         a \in Nat /\ b \in Nat /\ 1 <= a /\ a <= b + 1 /\ b <= Len(t)
  PROVE  /\ Trim(set, t, a, b) \in Seq(Symbol)
         /\ Content(Trim(set, t, a, b)) = Content(SubSeq(t, a, b))
         /\ Trim(set, t, a, b) = <<>> => \A k \in a .. b : t[k] \in set
<1> DEFINE inside == {i \in a .. b : t[i] \notin set}
<1>1. CASE inside = {}
  <2>1. Trim(set, t, a, b) = <<>>
    BY <1>1 DEF Trim
  <2>2. \A k \in a .. b : t[k] \in set
    BY <1>1
  <2>3. SilentFrom(t, a, b)
    BY <2>2 DEF SilentFrom
  <2>4. Content(SubSeq(t, a, b)) = <<>>
    BY <2>3, SilentPart
  <2>5. Content(<<>>) = <<>>
    BY EmptySeq, ContentSilent
  <2> QED
    BY <2>1, <2>2, <2>4, <2>5
<1>2. CASE inside # {}
  <2>1. PICK c, d : c = Min(inside) /\ d = Max(inside)
    OBVIOUS
  <2>2. inside \subseteq 1 .. b
    OBVIOUS
  <2>3. /\ c \in inside /\ \A x \in inside : c <= x
        /\ d \in inside /\ \A x \in inside : x <= d
    <3> HIDE DEF inside
    <3> QED
      BY <1>2, <2>1, <2>2, FirstAndLast
  <2>4. c \in a .. b /\ d \in a .. b /\ c <= d
    BY <2>3
  <2>5. SilentFrom(t, a, c - 1)
    <3> SUFFICES ASSUME NEW k \in a .. c - 1, t[k] \notin set PROVE FALSE
      BY DEF SilentFrom
    <3>1. k \in inside /\ ~(c <= k)
      BY <2>4
    <3> HIDE DEF inside
    <3> QED
      BY <2>3, <3>1
  <2>6. SilentFrom(t, d + 1, b)
    <3> SUFFICES ASSUME NEW k \in d + 1 .. b, t[k] \notin set PROVE FALSE
      BY DEF SilentFrom
    <3>1. k \in inside /\ ~(k <= d)
      BY <2>4
    <3> HIDE DEF inside
    <3> QED
      BY <2>3, <3>1
  <2>7. Content(SubSeq(t, a, b)) = Content(SubSeq(t, c, d)) /\ SubSeq(t, c, d) \in Seq(Symbol)
    <3>1. a \in Nat /\ b \in Nat /\ c \in Nat /\ d \in Nat
      BY <2>4
    <3>2. 1 <= a /\ a <= c /\ c <= d + 1 /\ d <= b /\ b <= Len(t)
      BY <2>4
    <3> HIDE DEF inside
    <3> QED
      BY <2>5, <2>6, <3>1, <3>2, SilentEnds
  <2>8. Trim(set, t, a, b) = SubSeq(t, c, d)
    BY <1>2, <2>1 DEF Trim
  <2>9. SubSeq(t, c, d) # <<>>
    <3>1. c \in 1 .. Len(t) /\ d \in c .. Len(t)
      BY <2>4
    <3> QED
      BY <3>1, PartNotEmpty
  <2> QED
    BY <2>7, <2>8, <2>9
<1> QED
  BY <1>1, <1>2

-----------------------------------------------------------------------------
(***************************************************************************)
(* One turn of a pass.                                                     *)
(***************************************************************************)

\* What a turn puts out has the content of what it consumed, which is something.
TurnOK(t, i, m) ==
    /\ m.put \in Seq(Symbol)
    /\ m.next \in i + 1 .. Len(t) + 1
    /\ Content(m.put) = Content(SubSeq(t, i, m.next - 1))

\* A symbol that is copied.
LEMMA CopyOK ==
  ASSUME NEW t, NEW i, t \in Seq(Symbol), i \in 1 .. Len(t)
  PROVE  TurnOK(t, i, Copy(t, i))
<1>1. PICK x : x = t[i] /\ x \in Symbol
  OBVIOUS
<1>2. Copy(t, i).put = <<x>> /\ Copy(t, i).next = i + 1
  BY <1>1 DEF Copy
<1>3. SubSeq(t, i, i) = <<x>>
  BY <1>1, OneSymbol
<1>4. PICK m : m = Copy(t, i) /\ m.put = <<x>> /\ m.next - 1 = i /\ m.next \in i + 1 .. Len(t) + 1
  BY <1>2
<1>5. m.put \in Seq(Symbol)
  BY <1>1, <1>4
<1>6. Content(m.put) = Content(SubSeq(t, i, m.next - 1))
  BY <1>3, <1>4
<1> QED
  BY <1>4, <1>5, <1>6 DEF TurnOK

\* Silent symbols that a silent one takes the place of.
LEMMA SilentOK ==
  ASSUME NEW t, NEW i, NEW e, NEW x, t \in Seq(Symbol), i \in 1 .. Len(t), x \in Silent,
         e \in Nat /\ i < e /\ e <= Len(t) + 1, SilentFrom(t, i, e - 1)
  PROVE  TurnOK(t, i, Replaced(<<x>>, e))
<1>1. Replaced(<<x>>, e).put = <<x>> /\ Replaced(<<x>>, e).next = e
  BY DEF Replaced
<1>2. PICK b : b = e - 1 /\ b \in Nat /\ b <= Len(t) /\ i \in Nat /\ 1 <= i
  OBVIOUS
<1>3. Content(SubSeq(t, i, b)) = <<>>
  BY <1>2, SilentPart
<1>4. Content(<<x>>) = <<>> /\ x \in Symbol
  BY Meanings, ContentOne
<1>5. <<x>> \in Seq(Symbol) /\ e \in i + 1 .. Len(t) + 1
  BY <1>4
<1> QED
  BY <1>1, <1>2, <1>3, <1>4, <1>5 DEF TurnOK

\* The inside of a pair of silent symbols has the content of the pair.
LEMMA PairInside ==
  ASSUME NEW t, NEW i, NEW j, t \in Seq(Symbol), i \in 1 .. Len(t),
         j \in i + 1 .. Len(t), t[i] \in Silent, t[j] \in Silent
  PROVE  /\ Content(SubSeq(t, i, j)) = Content(SubSeq(t, i + 1, j - 1))
         /\ SubSeq(t, i + 1, j - 1) \in Seq(Symbol)
<1>1. PICK c, d : c = i + 1 /\ d = j - 1
  OBVIOUS
<1>2. i \in Nat /\ j \in Nat /\ c \in Nat /\ d \in Nat
  BY <1>1
<1>3. 1 <= i /\ i <= c /\ c <= d + 1 /\ d <= j /\ j <= Len(t)
  BY <1>1
<1>4. SilentFrom(t, i, c - 1) /\ SilentFrom(t, d + 1, j)
  <2>1. (\A k \in i .. c - 1 : k = i) /\ (\A k \in d + 1 .. j : k = j)
    BY <1>1
  <2> QED
    BY <2>1 DEF SilentFrom
<1>5. Content(SubSeq(t, i, j)) = Content(SubSeq(t, c, d)) /\ SubSeq(t, c, d) \in Seq(Symbol)
  BY ONLY t \in Seq(Symbol), <1>2, <1>3, <1>4, SilentEnds
<1> QED
  BY <1>1, <1>5

\* A pair of silent symbols around a part that quotation marks take the place of.
LEMMA QuotedOK ==
  ASSUME NEW t, NEW i, NEW j, NEW inner, t \in Seq(Symbol), i \in 1 .. Len(t),
         j \in i + 1 .. Len(t), t[i] \in Silent, t[j] \in Silent, inner \in Seq(Symbol),
         Content(inner) = Content(SubSeq(t, i + 1, j - 1))
  PROVE  TurnOK(t, i, Replaced(<<Quote>> \o inner \o <<Quote>>, j + 1))
<1>1. PICK q, u, m : q = <<Quote>> /\ u = q \o inner /\ m = Replaced(u \o q, j + 1)
  OBVIOUS
<1>2. m.put = u \o q /\ m.next = j + 1 /\ m = Replaced(<<Quote>> \o inner \o <<Quote>>, j + 1)
  BY <1>1 DEF Replaced
<1>3. q \in Seq(Symbol) /\ Content(q) = <<>>
  <2>1. Quote \in Silent
    BY SilentSymbols
  <2>2. Quote \in Symbol /\ Meaning[Quote] = <<>>
    BY <2>1, Meanings
  <2> QED
    BY <1>1, <2>2, ContentOne
<1>4. u \in Seq(Symbol) /\ u \o q \in Seq(Symbol)
  BY <1>1, <1>3
<1>5. Content(u \o q) = (Content(q) \o Content(inner)) \o Content(q) /\ Content(inner) \in Seq(Spoken)
  <2>1. Content(u \o q) = Content(u) \o Content(q)
    BY <1>3, <1>4, ContentTwo
  <2>2. Content(q \o inner) = Content(q) \o Content(inner) /\ Content(inner) \in Seq(Spoken)
    BY <1>3, ContentTwo
  <2> QED
    BY <1>1, <2>1, <2>2, Zenon
<1>6. PICK ci : ci = Content(inner)
  OBVIOUS
<1>7. (<<>> \o ci) \o <<>> = ci
  <2>1. ci \o <<>> = ci /\ <<>> \o ci = ci
    BY <1>5, <1>6
  <2> QED
    BY <2>1
<1>8. Content(u \o q) = (<<>> \o ci) \o <<>>
  BY <1>3, <1>5, <1>6, Zenon
<1>9. Content(SubSeq(t, i, j)) = Content(SubSeq(t, i + 1, j - 1))
  BY PairInside
<1>10. j + 1 - 1 = j /\ j + 1 \in i + 1 .. Len(t) + 1
  OBVIOUS
<1>11. Content(m.put) = Content(SubSeq(t, i, m.next - 1))
  BY <1>2, <1>6, <1>7, <1>8, <1>9, <1>10
<1>12. TurnOK(t, i, m)
  BY <1>2, <1>4, <1>10, <1>11 DEF TurnOK
<1> QED
  BY <1>2, <1>12

\* Where a pair of ASCII brackets ends.
LEMMA PairEnds ==
  ASSUME NEW kind, NEW t, NEW i, t \in Seq(Symbol), i \in 1 .. Len(t), kind \in {"square", "curly"}
  PROVE  \/ PairEnd(kind, t, i) = 0
         \/ /\ PairEnd(kind, t, i) \in i + 2 .. Len(t)
            /\ t[i] \in Silent /\ t[PairEnd(kind, t, i)] \in Silent
<1> DEFINE next == {j \in i + 1 .. Len(t) : t[j] \in {Opener[kind], Closer[kind]}}
<1>1. CASE t[i] = Opener[kind] /\ next # {} /\ Min(next) > i + 1 /\ t[Min(next)] = Closer[kind]
  <2>1. PairEnd(kind, t, i) = Min(next)
    BY <1>1 DEF PairEnd
  <2>2. next \subseteq 1 .. Len(t) /\ Len(t) \in Nat
    OBVIOUS
  <2>3. Min(next) \in next
    <3> HIDE DEF next
    <3> QED
      BY <1>1, <2>2, FirstAndLast
  <2>4. PICK j : j = Min(next) /\ j \in i + 1 .. Len(t) /\ j > i + 1 /\ t[j] = Closer[kind]
    BY <1>1, <2>3
  <2>5. j \in i + 2 .. Len(t)
    BY <2>4
  <2> QED
    BY <1>1, <2>1, <2>4, <2>5, BracketKinds
<1>2. CASE ~(t[i] = Opener[kind] /\ next # {} /\ Min(next) > i + 1 /\ t[Min(next)] = Closer[kind])
  BY <1>2 DEF PairEnd
<1> QED
  BY <1>1, <1>2

\* A link becomes its text, a space and the address.
LEMMA LinkOK ==
  ASSUME NEW t, NEW i, t \in Seq(Symbol), i \in 1 .. Len(t)
  PROVE  TurnOK(t, i, Link(t, i))
<1>1. PICK j : j = PairEnd("square", t, i)
  OBVIOUS
<1>2. CASE ~(j > 0 /\ Holds(t, j + 1, {LinkUrl}))
  <2>1. Link(t, i) = Copy(t, i)
    BY <1>1, <1>2 DEF Link
  <2> QED
    BY <2>1, CopyOK
<1>3. CASE j > 0 /\ Holds(t, j + 1, {LinkUrl})
  <2>1. j \in i + 2 .. Len(t) /\ t[i] \in Silent /\ t[j] \in Silent
    BY <1>1, <1>3, PairEnds
  <2>2. PICK e : e = j + 1 /\ e \in 1 .. Len(t) /\ t[e] = LinkUrl
    BY <1>3, <2>1 DEF Holds
  <2>3. PICK inner, tail, m : /\ inner = SubSeq(t, i + 1, j - 1) /\ tail = <<Space, Url>>
                              /\ m = Link(t, i)
    OBVIOUS
  <2>4. m.put = inner \o tail /\ m.next = j + 2
    BY <1>1, <1>3, <2>3 DEF Link, Replaced
  <2>5. tail \in Seq(Symbol) /\ Content(tail) = Meaning[Url]
    <3>1. PICK a, b : a = <<Space>> /\ b = <<Url>>
      OBVIOUS
    <3>2. Space \in Symbol /\ Meaning[Space] = <<>> /\ Url \in Symbol
      BY SilentSymbols, Meanings
    <3>3. a \in Seq(Symbol) /\ b \in Seq(Symbol) /\ tail = a \o b
      BY <2>3, <3>1, <3>2
    <3>4. Content(a) = <<>> /\ Content(b) = Meaning[Url]
      BY <3>1, <3>2, ContentOne
    <3>5. Content(a \o b) = Content(a) \o Content(b) /\ Content(b) \in Seq(Spoken)
      BY <3>3, ContentTwo
    <3>6. PICK cb : cb = Content(b)
      OBVIOUS
    <3>7. <<>> \o cb = cb
      BY <3>5, <3>6
    <3>8. Content(tail) = <<>> \o cb
      BY <3>3, <3>4, <3>5, <3>6, Zenon
    <3>9. tail \in Seq(Symbol)
      BY <3>3
    <3> QED
      BY <3>4, <3>6, <3>7, <3>8, <3>9, Zenon
  <2>6. PICK last, w : last = SubSeq(t, e, e) /\ w = SubSeq(t, i, j)
    OBVIOUS
  <2>7. Content(last) = Meaning[Url] /\ last \in Seq(Symbol)
    <3>1. last = <<LinkUrl>>
      BY <2>2, <2>6, OneSymbol
    <3>2. LinkUrl \in Symbol /\ Meaning[LinkUrl] = Meaning[Url]
      BY Meanings
    <3>3. Content(<<LinkUrl>>) = Meaning[LinkUrl] /\ <<LinkUrl>> \in Seq(Symbol)
      BY <3>2, ContentOne
    <3> QED
      BY <3>1, <3>2, <3>3
  <2>8. SubSeq(t, i, e) = w \o last /\ w \in Seq(Symbol)
    <3>1. /\ i \in Nat /\ e \in Nat /\ e \in Nat /\ 1 <= i /\ i <= e /\ e <= e + 1 /\ e <= Len(t)
          /\ e - 1 = j
      BY <2>1, <2>2
    <3>2. SubSeq(t, i, e) = SubSeq(t, i, e - 1) \o SubSeq(t, e, e) /\ SubSeq(t, i, e - 1) \in Seq(Symbol)
      BY <3>1, PartSplit
    <3> QED
      BY <2>6, <3>1, <3>2
  <2>9. Content(w) = Content(inner) /\ inner \in Seq(Symbol)
    <3>1. j \in i + 1 .. Len(t)
      BY <2>1
    <3> QED
      BY <2>1, <2>3, <2>6, <3>1, PairInside
  <2>10. Content(w \o last) = Content(w) \o Content(last)
    BY <2>7, <2>8, ContentTwo
  <2>11. Content(inner \o tail) = Content(inner) \o Content(tail) /\ inner \o tail \in Seq(Symbol)
    <3>1. Content(inner \o tail) = Content(inner) \o Content(tail)
      BY <2>5, <2>9, ContentTwo
    <3> QED
      BY <2>5, <2>9, <3>1
  <2>12. m.next \in i + 1 .. Len(t) + 1 /\ m.next - 1 = e
    BY <2>1, <2>2, <2>4
  <2>13. Content(m.put) = Content(SubSeq(t, i, e))
    BY <2>4, <2>5, <2>7, <2>8, <2>9, <2>10, <2>11, Zenon
  <2> QED
    BY <2>3, <2>4, <2>11, <2>12, <2>13 DEF TurnOK
<1> QED
  BY <1>2, <1>3

\* Brackets with something between them become quotation marks.
LEMMA BracketOK ==
  ASSUME NEW kind, NEW t, NEW i, t \in Seq(Symbol), i \in 1 .. Len(t), kind \in {"square", "curly"}
  PROVE  TurnOK(t, i, Bracket(kind, t, i))
<1>1. PICK j, inner : j = PairEnd(kind, t, i) /\ inner = Trim(Blank, t, i + 1, j - 1)
  OBVIOUS
<1>2. CASE j = 0
  <2>1. Bracket(kind, t, i) = Copy(t, i)
    BY <1>1, <1>2 DEF Bracket
  <2> QED
    BY <2>1, CopyOK
<1>3. CASE j # 0
  <2>1. j \in i + 2 .. Len(t) /\ j \in i + 1 .. Len(t) /\ t[i] \in Silent /\ t[j] \in Silent
    BY <1>1, <1>3, PairEnds
  <2>2. PICK a, b : a = i + 1 /\ b = j - 1
    OBVIOUS
  <2>3. a \in Nat /\ b \in Nat /\ 1 <= a /\ a <= b + 1 /\ b <= Len(t) /\ a <= b /\ b \in 1 .. Len(t)
    BY <2>1, <2>2
  <2>4. /\ inner \in Seq(Symbol) /\ Content(inner) = Content(SubSeq(t, a, b))
        /\ inner = <<>> => \A k \in a .. b : t[k] \in Blank
    BY <1>1, <2>2, <2>3, SilentSymbols, Trims
  <2>5. PICK put : put = IF inner = <<>> THEN <<t[b]>> ELSE inner
    OBVIOUS
  <2>6. put \in Seq(Symbol) /\ Content(put) = Content(SubSeq(t, a, b))
    <3>1. CASE inner # <<>>
      BY <2>4, <2>5, <3>1
    <3>2. CASE inner = <<>>
      <4>1. t[b] \in Silent
        BY <2>3, <2>4, <3>2, SilentSymbols
      <4>2. t[b] \in Symbol /\ Meaning[t[b]] = <<>>
        BY <4>1, Meanings
      <4>3. Content(<<t[b]>>) = <<>> /\ <<t[b]>> \in Seq(Symbol)
        BY <4>2, ContentOne
      <4>4. Content(<<>>) = <<>>
        BY EmptySeq, ContentSilent
      <4> QED
        BY <2>4, <2>5, <3>2, <4>3, <4>4
    <3> QED
      BY <3>1, <3>2
  <2>7. Bracket(kind, t, i) = Replaced(<<Quote>> \o put \o <<Quote>>, j + 1)
    BY <1>1, <1>3, <2>2, <2>5 DEF Bracket
  <2>8. Content(put) = Content(SubSeq(t, i + 1, j - 1))
    BY <2>2, <2>6
  <2> QED
    BY <2>1, <2>6, <2>7, <2>8, QuotedOK
<1> QED
  BY <1>2, <1>3

\* So do wide brackets, whatever is between them.
LEMMA WideBracketOK ==
  ASSUME NEW kind, NEW t, NEW i, t \in Seq(Symbol), i \in 1 .. Len(t), kind \in {"lenticular", "corner"}
  PROVE  TurnOK(t, i, WideBracket(kind, t, i))
<1>1. PICK start : start = RunEnd({Space}, t, i + 1)
  OBVIOUS
<1> DEFINE ends == {j \in start .. Len(t) : t[j] = Closer[kind]}
<1>2. CASE ~(t[i] = Opener[kind] /\ ends # {})
  <2>1. WideBracket(kind, t, i) = Copy(t, i)
    BY <1>1, <1>2 DEF WideBracket
  <2> QED
    BY <2>1, CopyOK
<1>3. CASE t[i] = Opener[kind] /\ ends # {}
  <2>0. i + 1 \in Nat /\ 1 <= i + 1 /\ i + 1 <= Len(t) + 1
    OBVIOUS
  <2>1. /\ start \in Nat /\ i + 1 <= start /\ start <= Len(t) + 1
        /\ \A k \in i + 1 .. start - 1 : t[k] \in {Space}
    BY <1>1, <2>0, RunEnds
  <2>2. ends \subseteq 1 .. Len(t) /\ Len(t) \in Nat
    BY <2>1
  <2>3. Min(ends) \in ends
    <3> HIDE DEF ends
    <3> QED
      BY <1>3, <2>2, FirstAndLast
  <2>4. PICK j : j = Min(ends) /\ j \in start .. Len(t) /\ t[j] = Closer[kind]
    BY <2>3
  <2>5. j \in i + 1 .. Len(t) /\ t[i] \in Silent /\ t[j] \in Silent
    BY <1>3, <2>1, <2>4, BracketKinds
  <2>6. PICK a, b, inner : a = i + 1 /\ b = j - 1 /\ inner = Trim({Space}, t, start, b)
    OBVIOUS
  <2>7. start \in Nat /\ b \in Nat /\ 1 <= start /\ start <= b + 1 /\ b <= Len(t)
    BY <2>1, <2>4, <2>5, <2>6
  <2>8. inner \in Seq(Symbol) /\ Content(inner) = Content(SubSeq(t, start, b))
    BY <2>6, <2>7, SilentSymbols, Trims
  <2>9. Content(SubSeq(t, a, b)) = Content(SubSeq(t, start, b))
    <3>1. a \in Nat /\ b \in Nat /\ start \in Nat /\ b \in Nat
      BY <2>6, <2>7
    <3>2. 1 <= a /\ a <= start /\ start <= b + 1 /\ b <= b /\ b <= Len(t)
      BY <2>1, <2>6, <2>7
    <3>3. SilentFrom(t, a, start - 1)
      BY <2>1, <2>6, SilentSymbols DEF SilentFrom
    <3>4. SilentFrom(t, b + 1, b)
      BY <2>7 DEF SilentFrom
    <3> QED
      BY ONLY t \in Seq(Symbol), <3>1, <3>2, <3>3, <3>4, SilentEnds
  <2>10. WideBracket(kind, t, i) = Replaced(<<Quote>> \o inner \o <<Quote>>, j + 1)
    BY <1>1, <1>3, <2>4, <2>6 DEF WideBracket
  <2>11. Content(inner) = Content(SubSeq(t, i + 1, j - 1))
    BY <2>6, <2>8, <2>9
  <2> QED
    BY <2>5, <2>8, <2>10, <2>11, QuotedOK
<1> QED
  BY <1>2, <1>3

\* Silent up to a position and from there on.
LEMMA SilentJoin ==
  ASSUME NEW t, NEW a, NEW m, NEW e, a \in Nat /\ m \in Nat /\ e \in Nat,
         SilentFrom(t, a, m - 1) /\ SilentFrom(t, m, e - 1)
  PROVE  SilentFrom(t, a, e - 1)
<1> SUFFICES ASSUME NEW k \in a .. e - 1 PROVE t[k] \in Silent
  BY DEF SilentFrom
<1>1. k \in a .. m - 1 \/ k \in m .. e - 1
  OBVIOUS
<1> QED
  BY <1>1 DEF SilentFrom

\* A run of silent symbols.
LEMMA SilentRun ==
  ASSUME NEW set, NEW t, NEW i, NEW e, t \in Seq(Symbol), i \in Nat /\ 1 <= i /\ i <= Len(t) + 1,
         set \subseteq Silent, e = RunEnd(set, t, i)
  PROVE  e \in Nat /\ i <= e /\ e <= Len(t) + 1 /\ SilentFrom(t, i, e - 1)
<1>1. e \in Nat /\ i <= e /\ e <= Len(t) + 1 /\ \A k \in i .. e - 1 : t[k] \in set
  BY RunEnds
<1> QED
  BY <1>1 DEF SilentFrom

\* A silent symbol.
LEMMA SilentOne ==
  ASSUME NEW t, NEW i, NEW set, i \in Nat, Holds(t, i, set), set \subseteq Silent
  PROVE  SilentFrom(t, i, i + 1 - 1)
<1>1. \A k \in i .. i + 1 - 1 : k = i
  OBVIOUS
<1> QED
  BY <1>1 DEF SilentFrom, Holds

\* Where an ASCII arrow ends.
LEMMA AsciiArrowEnds ==
  ASSUME NEW t, NEW a, NEW e, t \in Seq(Symbol), a \in Nat /\ 1 <= a /\ a <= Len(t) + 1,
         e = AsciiArrowEnd(t, a), ~(e = 0)
  PROVE  e \in Nat /\ a < e /\ e <= Len(t) + 1 /\ SilentFrom(t, a, e - 1)
<1>1. PICK b : b = IF Holds(t, a, {Less}) THEN a + 1 ELSE a
  OBVIOUS
<1>2. b \in Nat /\ a <= b /\ b <= Len(t) + 1 /\ 1 <= b /\ SilentFrom(t, a, b - 1)
  <2>1. CASE Holds(t, a, {Less})
    <3>1. SilentFrom(t, a, a + 1 - 1)
      BY <2>1, SilentOne, SilentSymbols
    <3>2. a \in 1 .. Len(t)
      BY <2>1 DEF Holds
    <3> QED
      BY <1>1, <2>1, <3>1, <3>2
  <2>2. CASE ~Holds(t, a, {Less})
    <3>1. SilentFrom(t, a, a - 1)
      BY DEF SilentFrom
    <3> QED
      BY <1>1, <2>2, <3>1
  <2> QED
    BY <2>1, <2>2
<1>3. PICK c : c = RunEnd(Shaft, t, b)
  OBVIOUS
<1>4. c \in Nat /\ b <= c /\ c <= Len(t) + 1 /\ SilentFrom(t, b, c - 1)
  BY <1>2, <1>3, SilentRun, SilentSymbols
<1>5. SilentFrom(t, a, c - 1)
  BY <1>2, <1>4, SilentJoin
<1>6. \/ c > b /\ Holds(t, c, {Greater}) /\ e = c + 1
      \/ c > b /\ e = c
  BY <1>1, <1>3 DEF AsciiArrowEnd
<1>7. CASE c > b /\ e = c
  BY <1>2, <1>4, <1>5, <1>7
<1>8. CASE c > b /\ Holds(t, c, {Greater}) /\ e = c + 1
  <2>1. SilentFrom(t, c, c + 1 - 1)
    BY <1>4, <1>8, SilentOne, SilentSymbols
  <2>2. c \in 1 .. Len(t) /\ e \in Nat /\ SilentFrom(t, c, e - 1)
    BY <1>4, <1>8, <2>1 DEF Holds
  <2>3. SilentFrom(t, a, e - 1)
    BY <1>4, <1>5, <2>2, SilentJoin
  <2> QED
    BY <1>2, <1>4, <1>8, <2>2, <2>3
<1> QED
  BY <1>6, <1>7, <1>8

\* Blanks, silent symbols and blanks become one silent symbol.
LEMMA RunReplacedOK ==
  ASSUME NEW set, NEW t, NEW i, NEW a, NEW e, NEW x, t \in Seq(Symbol), i \in 1 .. Len(t),
         set \subseteq Silent, x \in Silent, a = RunEnd(set, t, i),
         e \in Nat /\ a < e /\ e <= Len(t) + 1 /\ SilentFrom(t, a, e - 1)
  PROVE  TurnOK(t, i, Replaced(<<x>>, RunEnd(set, t, e)))
<1>1. i \in Nat /\ 1 <= i /\ i <= Len(t) + 1
  OBVIOUS
<1>2. a \in Nat /\ i <= a /\ a <= Len(t) + 1 /\ SilentFrom(t, i, a - 1)
  BY <1>1, SilentRun
<1>3. PICK b : b = RunEnd(set, t, e)
  OBVIOUS
<1>4. 1 <= e
  BY <1>1, <1>2
<1>5. b \in Nat /\ e <= b /\ b <= Len(t) + 1 /\ SilentFrom(t, e, b - 1)
  BY <1>3, <1>4, SilentRun
<1>6. SilentFrom(t, i, e - 1)
  BY <1>1, <1>2, SilentJoin
<1>7. SilentFrom(t, i, b - 1)
  BY <1>1, <1>5, <1>6, SilentJoin
<1>8. b \in Nat /\ i < b /\ b <= Len(t) + 1
  BY <1>1, <1>2, <1>5
<1>9. TurnOK(t, i, Replaced(<<x>>, b))
  BY <1>7, <1>8, SilentOK
<1> QED
  BY <1>3, <1>9

\* An ASCII arrow becomes a comma.
LEMMA AsciiArrowOK ==
  ASSUME NEW t, NEW i, t \in Seq(Symbol), i \in 1 .. Len(t)
  PROVE  TurnOK(t, i, AsciiArrow(t, i))
<1>1. PICK a, e : a = RunEnd(Blank, t, i) /\ e = AsciiArrowEnd(t, a)
  OBVIOUS
<1>2. i \in Nat /\ 1 <= i /\ i <= Len(t) + 1
  OBVIOUS
<1>3. a \in Nat /\ i <= a /\ a <= Len(t) + 1 /\ 1 <= a
  <2>1. a \in Nat /\ i <= a /\ a <= Len(t) + 1
    BY <1>1, <1>2, RunEnds
  <2> QED
    BY <1>2, <2>1
<1>4. CASE ~(e = 0)
  <2>1. e \in Nat /\ a < e /\ e <= Len(t) + 1 /\ SilentFrom(t, a, e - 1)
    BY <1>1, <1>3, <1>4, AsciiArrowEnds
  <2>2. e > 0
    BY <1>3, <2>1
  <2>3. AsciiArrow(t, i) = Replaced(<<Comma>>, RunEnd(Blank, t, e))
    BY <1>1, <2>2 DEF AsciiArrow
  <2>4. Blank \subseteq Silent /\ Comma \in Silent
    BY SilentSymbols
  <2> QED
    BY <1>1, <2>1, <2>3, <2>4, RunReplacedOK
<1>5. CASE e = 0
  <2>1. AsciiArrow(t, i) = Copy(t, i)
    BY <1>1, <1>5 DEF AsciiArrow
  <2> QED
    BY <2>1, CopyOK
<1> QED
  BY <1>4, <1>5

\* So does a Unicode arrow.
LEMMA WideArrowOK ==
  ASSUME NEW t, NEW i, t \in Seq(Symbol), i \in 1 .. Len(t)
  PROVE  TurnOK(t, i, WideArrow(t, i))
<1>1. PICK a, e : a = RunEnd({Space}, t, i) /\ e = a + 1
  OBVIOUS
<1>2. i \in Nat /\ 1 <= i /\ i <= Len(t) + 1
  OBVIOUS
<1>3. a \in Nat
  BY <1>1, <1>2, RunEnds
<1>4. CASE Holds(t, a, {Arrow})
  <2>1. SilentFrom(t, a, a + 1 - 1)
    BY <1>3, <1>4, SilentOne, SilentSymbols
  <2>2. e \in Nat /\ a < e /\ e <= Len(t) + 1 /\ SilentFrom(t, a, e - 1)
    BY <1>1, <1>3, <1>4, <2>1 DEF Holds
  <2>3. WideArrow(t, i) = Replaced(<<Comma>>, RunEnd({Space}, t, e))
    BY <1>1, <1>4 DEF WideArrow
  <2>4. {Space} \subseteq Silent /\ Comma \in Silent
    BY SilentSymbols
  <2> QED
    BY <1>1, <2>2, <2>3, <2>4, RunReplacedOK
<1>5. CASE ~Holds(t, a, {Arrow})
  <2>1. WideArrow(t, i) = Copy(t, i)
    BY <1>1, <1>5 DEF WideArrow
  <2> QED
    BY <2>1, CopyOK
<1> QED
  BY <1>4, <1>5

\* Two or more dashes become a full stop.
LEMMA LongDashOK ==
  ASSUME NEW t, NEW i, t \in Seq(Symbol), i \in 1 .. Len(t)
  PROVE  TurnOK(t, i, LongDash(t, i))
<1>1. PICK a, e : a = RunEnd(Blank, t, i) /\ e = RunEnd(Dashes, t, a)
  OBVIOUS
<1>2. i \in Nat /\ 1 <= i /\ i <= Len(t) + 1
  OBVIOUS
<1>3. a \in Nat /\ i <= a /\ a <= Len(t) + 1
  BY <1>1, <1>2, RunEnds
<1>4. e \in Nat /\ a <= e /\ e <= Len(t) + 1 /\ SilentFrom(t, a, e - 1)
  <2>1. 1 <= a
    BY <1>2, <1>3
  <2> QED
    BY <1>1, <1>3, <2>1, SilentRun, SilentSymbols
<1>5. CASE e >= a + 2
  <2>1. e \in Nat /\ a < e /\ e <= Len(t) + 1 /\ SilentFrom(t, a, e - 1)
    BY <1>3, <1>4, <1>5
  <2>2. LongDash(t, i) = Replaced(<<Stop>>, RunEnd(Blank, t, e))
    BY <1>1, <1>5 DEF LongDash
  <2>3. Blank \subseteq Silent /\ Stop \in Silent
    BY SilentSymbols
  <2> QED
    BY <1>1, <2>1, <2>2, <2>3, RunReplacedOK
<1>6. CASE ~(e >= a + 2)
  <2>1. LongDash(t, i) = Copy(t, i)
    BY <1>1, <1>6 DEF LongDash
  <2> QED
    BY <2>1, CopyOK
<1> QED
  BY <1>5, <1>6

\* the names of the passes
Passes == {"links"} \cup DOMAIN Following

\* Every turn of every pass keeps the content.
LEMMA TurnsOK ==
  ASSUME NEW name, NEW t, NEW i, name \in Passes, t \in Seq(Symbol), i \in 1 .. Len(t)
  PROVE  TurnOK(t, i, Turn(name, t, i))
<1>1. name \in {"links", "arrows", "wide", "square", "curly", "lenticular", "corner", "arrows2",
                "wide2", "dashes"}
  BY DEF Passes, Following
<1>2. CASE name = "links"
  BY <1>2, LinkOK DEF Turn
<1>3. CASE name \in {"arrows", "arrows2"}
  <2>1. Turn(name, t, i) = AsciiArrow(t, i)
    BY <1>3 DEF Turn
  <2> QED
    BY <2>1, AsciiArrowOK
<1>4. CASE name \in {"wide", "wide2"}
  <2>1. Turn(name, t, i) = WideArrow(t, i)
    BY <1>4 DEF Turn
  <2> QED
    BY <2>1, WideArrowOK
<1>5. CASE name \in {"square", "curly"}
  <2>1. Turn(name, t, i) = Bracket(name, t, i)
    BY <1>5 DEF Turn
  <2> QED
    BY <1>5, <2>1, BracketOK
<1>6. CASE name \in {"lenticular", "corner"}
  <2>1. Turn(name, t, i) = WideBracket(name, t, i)
    BY <1>6 DEF Turn
  <2> QED
    BY <1>6, <2>1, WideBracketOK
<1>7. CASE name = "dashes"
  <2>1. Turn(name, t, i) = LongDash(t, i)
    BY <1>7 DEF Turn
  <2> QED
    BY <2>1, LongDashOK
<1> QED
  BY <1>1, <1>2, <1>3, <1>4, <1>5, <1>6, <1>7

-----------------------------------------------------------------------------
(***************************************************************************)
(* A pass: what its turns put out, from a position on.                     *)
(***************************************************************************)

\* f is what the turns from each position on put out.
FromTurns(f, name, t) ==
    f = [i \in 1 .. Len(t) + 1 |->
           IF i > Len(t) THEN <<>> ELSE Turn(name, t, i).put \o f[Turn(name, t, i).next]]

\* The turns from any position on put something out.
LEMMA TurnsExist ==
  ASSUME NEW name, NEW t, name \in Passes, t \in Seq(Symbol)
  PROVE  \E f : FromTurns(f, name, t)
<1>0. PICK n : n = Len(t) /\ n \in Nat
  OBVIOUS
<1>1. PICK put, next : /\ put = [i \in 1 .. n |-> Turn(name, t, i).put]
                       /\ next = [i \in 1 .. n |-> Turn(name, t, i).next]
  OBVIOUS
<1>2. \A i \in 1 .. n : next[i] \in i + 1 .. n + 1
  BY <1>0, <1>1, TurnsOK DEF TurnOK
<1>3. PICK f : Walks(f, n, put, next)
  BY <1>0, <1>2, WalkExists
<1>4. \A i \in 1 .. n : put[i] = Turn(name, t, i).put /\ next[i] = Turn(name, t, i).next
  BY <1>1
<1>5. \A i \in 1 .. n + 1 : ~(i > n) => i \in 1 .. n
  BY <1>0
<1>6. f = [i \in 1 .. n + 1 |->
            IF i > n THEN <<>> ELSE Turn(name, t, i).put \o f[Turn(name, t, i).next]]
  BY <1>3, <1>4, <1>5, Zenon DEF Walks
<1> QED
  BY <1>0, <1>6 DEF FromTurns

\* A pass is what the turns from the first position on put out.
LEMMA PassTurns ==
  ASSUME NEW name, NEW t, name \in Passes, t \in Seq(Symbol)
  PROVE  \E f : FromTurns(f, name, t) /\ Pass(name, t) = f[1]
<1> DEFINE from == CHOOSE f : FromTurns(f, name, t)
<1>1. FromTurns(from, name, t)
  BY TurnsExist
<1>2. Pass(name, t) = from[1]
  BY DEF Pass, FromTurns
<1> QED
  BY <1>1, <1>2

\* A pass keeps the content of the text.
LEMMA PassOK ==
  ASSUME NEW name, NEW t, name \in Passes, t \in Seq(Symbol)
  PROVE  Pass(name, t) \in Seq(Symbol) /\ Content(Pass(name, t)) = Content(t)
<1>0. PICK n : n = Len(t) /\ n \in Nat
  OBVIOUS
<1>1. PICK f : FromTurns(f, name, t) /\ Pass(name, t) = f[1]
  BY PassTurns
<1> DEFINE S == {k \in 1 .. n + 1 : f[k] \in Seq(Symbol) /\ Content(f[k]) = Content(SubSeq(t, k, n))}
<1>2. n + 1 \in S
  <2>1. f[n + 1] = <<>>
    BY <1>0, <1>1 DEF FromTurns
  <2>2. SubSeq(t, n + 1, n) = <<>>
    BY <1>0
  <2>3. <<>> \in Seq(Symbol) /\ n + 1 \in 1 .. n + 1
    BY <1>0
  <2> QED
    BY <2>1, <2>2, <2>3
<1>3. ASSUME NEW k \in 1 .. n, \A j \in k + 1 .. n + 1 : j \in S PROVE k \in S
  <2>1. PICK put, next : put = Turn(name, t, k).put /\ next = Turn(name, t, k).next
    OBVIOUS
  <2>2. f[k] = put \o f[next] /\ k \in 1 .. n + 1
    <3>1. k \in 1 .. n + 1
      BY <1>0
    <3>2. \A i \in 1 .. Len(t) + 1 :
            f[i] = IF i > Len(t) THEN <<>> ELSE Turn(name, t, i).put \o f[Turn(name, t, i).next]
      BY <1>1, Zenon DEF FromTurns
    <3>3. k \in 1 .. Len(t) + 1 /\ ~(k > Len(t))
      BY <1>0
    <3> QED
      BY <2>1, <3>1, <3>2, <3>3, Zenon
  <2>3. /\ put \in Seq(Symbol) /\ next \in k + 1 .. n + 1
        /\ Content(put) = Content(SubSeq(t, k, next - 1))
    BY <1>0, <2>1, TurnsOK DEF TurnOK
  <2>4. PICK rest, a, b : rest = f[next] /\ a = SubSeq(t, k, next - 1) /\ b = SubSeq(t, next, n)
    OBVIOUS
  <2>5. rest \in Seq(Symbol) /\ Content(rest) = Content(b)
    BY <1>3, <2>3, <2>4
  <2>6. SubSeq(t, k, n) = a \o b /\ a \in Seq(Symbol) /\ b \in Seq(Symbol)
    <3>1. k \in Nat /\ n \in Nat /\ next \in Nat /\ 1 <= k /\ k <= next /\ next <= n + 1 /\ n <= Len(t)
      BY <1>0, <2>3
    <3>2. /\ SubSeq(t, k, n) = SubSeq(t, k, next - 1) \o SubSeq(t, next, n)
          /\ SubSeq(t, k, next - 1) \in Seq(Symbol) /\ SubSeq(t, next, n) \in Seq(Symbol)
      BY ONLY t \in Seq(Symbol), <3>1, PartSplit
    <3> QED
      BY <2>4, <3>2, Zenon
  <2>7. Content(put \o rest) = Content(put) \o Content(rest)
    BY <2>3, <2>5, ContentTwo
  <2>8. Content(a \o b) = Content(a) \o Content(b)
    BY <2>6, ContentTwo
  <2>9. Content(f[k]) = Content(SubSeq(t, k, n))
    BY <2>2, <2>3, <2>4, <2>5, <2>6, <2>7, <2>8, Zenon
  <2>10. f[k] \in Seq(Symbol)
    BY <2>2, <2>3, <2>4, <2>5
  <2> QED
    BY <2>2, <2>9, <2>10, Zenon
<1>4. 1 \in S
  <2> HIDE DEF S
  <2>1. 1 \in 1 .. n + 1
    BY <1>0
  <2> QED
    BY <1>0, <1>2, <1>3, <2>1, DownInduction
<1>5. SubSeq(t, 1, n) = t
  BY <1>0, SubSeqFull
<1> QED
  BY <1>1, <1>4, <1>5

-----------------------------------------------------------------------------
(***************************************************************************)
(* A line.                                                                 *)
(***************************************************************************)

\* u is a text with the content of t
KeepsContent(t, u) == u \in Seq(Symbol) /\ Content(u) = Content(t)

\* Silent symbols at the beginning of a text add nothing to its content.
LEMMA WithoutHead ==
  ASSUME NEW t, NEW e, t \in Seq(Symbol), e \in Nat /\ 1 <= e /\ e <= Len(t) + 1,
         SilentFrom(t, 1, e - 1)
  PROVE  KeepsContent(t, SubSeq(t, e, Len(t)))
<1>1. PICK n : n = Len(t) /\ n \in Nat
  OBVIOUS
<1>2. 1 \in Nat /\ n \in Nat /\ e \in Nat /\ n \in Nat
  BY <1>1
<1>3. 1 <= 1 /\ 1 <= e /\ e <= n + 1 /\ n <= n /\ n <= Len(t)
  BY <1>1
<1>4. SilentFrom(t, n + 1, n)
  BY <1>1 DEF SilentFrom
<1>5. Content(SubSeq(t, 1, n)) = Content(SubSeq(t, e, n)) /\ SubSeq(t, e, n) \in Seq(Symbol)
  BY <1>2, <1>3, <1>4, SilentEnds
<1>6. SubSeq(t, 1, n) = t
  BY <1>1, SubSeqFull
<1> QED
  BY <1>1, <1>5, <1>6 DEF KeepsContent

\* A mark of silent symbols is dropped with the blanks behind it.
LEMMA DropMarkOK ==
  ASSUME NEW t, NEW n, t \in Seq(Symbol), n \in Nat, SilentFrom(t, 1, n)
  PROVE  KeepsContent(t, DropMark(t, n))
<1>1. CASE n \in 1 .. Len(t) - 1 /\ t[n + 1] \in Blank
  <2>1. PICK m, e : m = n + 1 /\ e = RunEnd(Blank, t, m)
    OBVIOUS
  <2>2. m \in Nat /\ 1 <= m /\ m <= Len(t) + 1 /\ SilentFrom(t, 1, m - 1)
    BY <1>1, <2>1
  <2>3. e \in Nat /\ m <= e /\ e <= Len(t) + 1 /\ SilentFrom(t, m, e - 1)
    BY <2>1, <2>2, SilentRun, SilentSymbols
  <2>4. SilentFrom(t, 1, e - 1)
    <3>1. 1 \in Nat
      OBVIOUS
    <3> QED
      BY <2>2, <2>3, <3>1, SilentJoin
  <2>5. 1 <= e
    BY <2>2, <2>3
  <2>6. DropMark(t, n) = SubSeq(t, e, Len(t))
    BY <1>1, <2>1 DEF DropMark
  <2> QED
    BY <2>3, <2>4, <2>5, <2>6, WithoutHead
<1>2. CASE ~(n \in 1 .. Len(t) - 1 /\ t[n + 1] \in Blank)
  BY <1>2 DEF DropMark, KeepsContent
<1> QED
  BY <1>1, <1>2

\* One mark of a set of silent ones.
LEMMA DropIfOK ==
  ASSUME NEW t, NEW set, t \in Seq(Symbol), set \subseteq Silent
  PROVE  KeepsContent(t, DropIf(t, set))
<1>1. CASE Holds(t, 1, set)
  <2>1. SilentFrom(t, 1, 1)
    <3>1. \A k \in 1 .. 1 : k = 1
      OBVIOUS
    <3> QED
      BY <1>1, <3>1 DEF SilentFrom, Holds
  <2>2. KeepsContent(t, DropMark(t, 1))
    BY <2>1, DropMarkOK
  <2> QED
    BY <1>1, <2>2 DEF DropIf
<1>2. CASE ~Holds(t, 1, set)
  BY <1>2 DEF DropIf, KeepsContent
<1> QED
  BY <1>1, <1>2

\* A heading mark or a comment mark.
LEMMA DropHeadingOK ==
  ASSUME NEW t, t \in Seq(Symbol)
  PROVE  KeepsContent(t, DropHeading(t))
<1>1. PICK m, n : m = RunEnd({Hash}, t, 1) /\ n = m - 1
  OBVIOUS
<1>2. 1 \in Nat /\ 1 <= 1 /\ 1 <= Len(t) + 1
  OBVIOUS
<1>3. m \in Nat /\ 1 <= m /\ m <= Len(t) + 1 /\ \A k \in 1 .. m - 1 : t[k] \in {Hash}
  BY <1>1, <1>2, RunEnds
<1>4. n \in Nat /\ SilentFrom(t, 1, n)
  <2>1. Hash \in Silent
    BY SilentSymbols
  <2>2. n \in Nat /\ \A k \in 1 .. n : k \in 1 .. m - 1
    BY <1>1, <1>3
  <2>3. \A k \in 1 .. n : t[k] = Hash
    BY <1>3, <2>2
  <2> QED
    BY <2>1, <2>2, <2>3, Zenon DEF SilentFrom
<1>5. CASE Holds(t, 1, {Slashes})
  <2>1. PICK e : e = RunEnd(Blank, t, 2)
    OBVIOUS
  <2>2. 1 \in 1 .. Len(t) /\ 2 \in Nat /\ 1 <= 2 /\ 2 <= Len(t) + 1
    BY <1>5 DEF Holds
  <2>3. e \in Nat /\ 2 <= e /\ e <= Len(t) + 1 /\ SilentFrom(t, 2, e - 1)
    BY <2>1, <2>2, SilentRun, SilentSymbols
  <2>4. SilentFrom(t, 1, 2 - 1)
    <3>1. \A k \in 1 .. 2 - 1 : k = 1
      OBVIOUS
    <3> QED
      BY <1>5, <3>1, SilentSymbols DEF SilentFrom, Holds
  <2>5. SilentFrom(t, 1, e - 1) /\ 1 <= e
    <3>1. 1 <= e
      BY <2>3
    <3>2. SilentFrom(t, 1, e - 1)
      BY ONLY 1 \in Nat, <2>2, <2>3, <2>4, SilentJoin
    <3> QED
      BY <3>1, <3>2
  <2>6. ~(n \in 1 .. 6)
    <3> SUFFICES ASSUME n \in 1 .. 6 PROVE FALSE
      OBVIOUS
    <3>1. 1 \in 1 .. m - 1
      BY <1>1, <1>3
    <3>2. t[1] = Hash /\ t[1] = Slashes
      BY <1>3, <1>5, <3>1 DEF Holds
    <3> QED
      BY <3>2 DEF Hash, Slashes
  <2>7. DropHeading(t) = SubSeq(t, e, Len(t))
    BY <1>1, <1>5, <2>1, <2>6 DEF DropHeading
  <2> QED
    BY <2>3, <2>5, <2>7, WithoutHead
<1>6. CASE ~Holds(t, 1, {Slashes}) /\ n \in 1 .. 6
  <2>1. DropHeading(t) = DropMark(t, n)
    BY <1>1, <1>6 DEF DropHeading
  <2> QED
    BY <1>4, <2>1, DropMarkOK
<1>7. CASE ~Holds(t, 1, {Slashes}) /\ ~(n \in 1 .. 6)
  <2>1. DropHeading(t) = t
    BY <1>1, <1>7 DEF DropHeading
  <2> QED
    BY <2>1 DEF KeepsContent
<1> QED
  BY <1>5, <1>6, <1>7

\* All the prefixes of a line.
LEMMA WithoutPrefixesOK ==
  ASSUME NEW t, t \in Seq(Symbol)
  PROVE  KeepsContent(t, WithoutPrefixes(t))
<1>1. PICK a, b, c, d : /\ a = DropHeading(t) /\ b = DropIf(a, {Greater})
                        /\ c = DropIf(b, {Hyphen, Star}) /\ d = DropIf(c, {Number})
  OBVIOUS
<1>2. {Greater} \subseteq Silent /\ {Hyphen, Star} \subseteq Silent /\ {Number} \subseteq Silent
  BY SilentSymbols
<1>3. a \in Seq(Symbol) /\ Content(a) = Content(t)
  BY <1>1, DropHeadingOK DEF KeepsContent
<1>4. b \in Seq(Symbol) /\ Content(b) = Content(a)
  BY <1>1, <1>2, <1>3, DropIfOK DEF KeepsContent
<1>5. c \in Seq(Symbol) /\ Content(c) = Content(b)
  BY <1>1, <1>2, <1>4, DropIfOK DEF KeepsContent
<1>6. d \in Seq(Symbol) /\ Content(d) = Content(c)
  BY <1>1, <1>2, <1>5, DropIfOK DEF KeepsContent
<1>7. WithoutPrefixes(t) = d
  BY <1>1 DEF WithoutPrefixes
<1> QED
  BY <1>3, <1>4, <1>5, <1>6, <1>7 DEF KeepsContent

\* A full stop may be put behind the text.
LEMMA EndMarkOK ==
  ASSUME NEW t, t \in Seq(Symbol)
  PROVE  KeepsContent(t, EnsureTerminalPunctuation(t))
<1>1. EnsureTerminalPunctuation(t) \in {t, Append(t, Stop)}
  BY DEF EnsureTerminalPunctuation
<1>2. Stop \in Symbol /\ Meaning[Stop] = <<>>
  BY SilentSymbols, Meanings
<1>3. Content(Append(t, Stop)) = Content(t) \o <<>>
  <2>1. Spread(Meaning, Append(t, Stop)) = Spread(Meaning, t) \o Meaning[Stop]
    <3>1. PICK x, f : x = Stop /\ x \in Symbol /\ f = Meaning /\ f \in Images(Symbol, Spoken)
      BY <1>2, Meanings
    <3>2. Spread(f, Append(t, x)) = Spread(f, t) \o f[x]
      BY <3>1, SpreadAppend
    <3> QED
      BY <3>1, <3>2, Zenon
  <2> QED
    BY <1>2, <2>1, Zenon DEF Content
<1>4. Content(t) \in Seq(Spoken)
  BY ContentTwo
<1>5. PICK ct : ct = Content(t) /\ ct \o <<>> = ct
  BY <1>4
<1>6. Content(Append(t, Stop)) = Content(t) /\ Append(t, Stop) \in Seq(Symbol)
  BY <1>2, <1>3, <1>5
<1> QED
  BY <1>1, <1>6 DEF KeepsContent

-----------------------------------------------------------------------------
(***************************************************************************)
(* The inductive invariant: what is written and what is left to read have, *)
(* together, the content the call began with.                              *)
(***************************************************************************)
ContentInv ==
    /\ TypeOK
    /\ Content(s) \o Content(todo) = Content(input)

\* The contents of a text, and of nothing behind it.
LEMMA NothingLeft ==
  ASSUME NEW t, t \in Seq(Symbol)
  PROVE  Content(t) \o Content(<<>>) = Content(t) /\ Content(<<>>) \o Content(t) = Content(t)
<1>1. Content(<<>>) = <<>>
  BY EmptySeq, ContentSilent
<1>2. PICK c : c = Content(t) /\ c \in Seq(Spoken)
  BY ContentTwo
<1>3. c \o <<>> = c /\ <<>> \o c = c
  BY <1>2
<1> QED
  BY <1>1, <1>2, <1>3

\* A call begins with the invariant.
LEMMA InitContent == Init => ContentInv
<1> SUFFICES ASSUME Init PROVE ContentInv
  OBVIOUS
<1>1. s \in Seq(Symbol) /\ input = s /\ todo = <<>> /\ stage = "links" /\ calls = 1
  BY TextsAssumption DEF Init
<1>2. TypeOK
  BY <1>1 DEF TypeOK
<1>3. Content(s) \o Content(todo) = Content(input)
  BY <1>1, NothingLeft
<1> QED
  BY <1>2, <1>3 DEF ContentInv

\* What is read of the text, and the end of the line, make the text with the rest.
LEMMA LineTaken ==
  ASSUME NEW t, NEW e, t \in Seq(Symbol), e = RunEnd(Symbol \ {Newline}, t, 1)
  PROVE  /\ e \in Nat /\ 1 <= e /\ e <= Len(t) + 1
         /\ SubSeq(t, e + 1, Len(t)) \in Seq(Symbol)
         /\ Content(t) = Content(SubSeq(t, 1, e - 1)) \o Content(SubSeq(t, e + 1, Len(t)))
<1>0. PICK n, f : n = Len(t) /\ n \in Nat /\ f = e + 1
  OBVIOUS
<1>1. /\ e \in Nat /\ 1 <= e /\ e <= n + 1
      /\ e <= n => t[e] \notin Symbol \ {Newline}
  <2>1. 1 \in Nat /\ 1 <= 1 /\ 1 <= Len(t) + 1
    OBVIOUS
  <2> QED
    BY <1>0, <2>1, RunEnds
<1>2. PICK a, b, c : a = SubSeq(t, 1, e - 1) /\ b = SubSeq(t, e, n) /\ c = SubSeq(t, f, n)
  OBVIOUS
<1>3. t = a \o b /\ a \in Seq(Symbol) /\ b \in Seq(Symbol)
  <2>1. e \in 1 .. Len(t) + 1
    BY <1>0, <1>1
  <2> QED
    BY <1>0, <1>2, <2>1, TextSplit
<1>4. Content(t) = Content(a) \o Content(b)
  BY <1>3, ContentTwo
<1>5. Content(b) = Content(c) /\ c \in Seq(Symbol)
  <2>1. CASE e = n + 1
    <3>1. e \in Int /\ f \in Int /\ n \in Int /\ n < e /\ n < f
      BY <1>0, <1>1, <2>1
    <3>2. b = <<>> /\ c = <<>>
      BY <1>2, <3>1, SubSeqEmpty
    <3> QED
      BY <3>2
  <2>2. CASE e <= n
    <3>1. t[e] = Newline
      BY <1>0, <1>1, <2>2
    <3>2. e \in Nat /\ n \in Nat /\ f \in Nat /\ n \in Nat
      BY <1>0, <1>1
    <3>3. 1 <= e /\ e <= f /\ f <= n + 1 /\ n <= n /\ n <= Len(t)
      BY <1>0, <1>1, <2>2
    <3>4. SilentFrom(t, e, f - 1) /\ SilentFrom(t, n + 1, n)
      <4>1. (\A k \in e .. f - 1 : k = e) /\ (\A k \in n + 1 .. n : FALSE)
        BY <1>0, <1>1
      <4>2. Newline \in Silent
        BY SilentSymbols
      <4> QED
        BY <3>1, <4>1, <4>2, Zenon DEF SilentFrom
    <3>5. /\ Content(SubSeq(t, e, n)) = Content(SubSeq(t, f, n))
          /\ SubSeq(t, e, n) \in Seq(Symbol) /\ SubSeq(t, f, n) \in Seq(Symbol)
      BY ONLY t \in Seq(Symbol), <3>2, <3>3, <3>4, SilentEnds
    <3> QED
      BY <1>2, <3>5, Zenon
  <2> QED
    BY <1>0, <1>1, <2>1, <2>2
<1> QED
  BY <1>0, <1>1, <1>2, <1>4, <1>5

\* Taking a line moves its content from what is left to what is written.
LEMMA TakeLineContent == ContentInv /\ TakeLine => ContentInv'
<1> SUFFICES ASSUME ContentInv, TakeLine PROVE ContentInv'
  OBVIOUS
<1>1. /\ s \in Seq(Symbol) /\ todo \in Seq(Symbol) /\ input \in Seq(Symbol)
      /\ Content(s) \o Content(todo) = Content(input)
  BY DEF ContentInv, TypeOK
<1>2. PICK e, n, head, line : /\ e = LineEnd /\ n = Len(todo) /\ head = SubSeq(todo, 1, e - 1)
                              /\ line = Trim(Blank, todo, 1, e - 1)
  OBVIOUS
<1>3. /\ s' = IF line = <<>> THEN s ELSE Merged(s, WithoutPrefixes(line))
      /\ todo' = SubSeq(todo, e + 1, n)
      /\ stage = "lines" /\ stage' = stage /\ input' = input /\ calls' = calls
  BY <1>2 DEF TakeLine
<1>4. /\ e \in Nat /\ 1 <= e /\ e <= n + 1
      /\ todo' \in Seq(Symbol)
      /\ Content(todo) = Content(head) \o Content(todo')
  BY <1>1, <1>2, <1>3, LineTaken DEF LineEnd
<1>5. line \in Seq(Symbol) /\ Content(line) = Content(head) /\ head \in Seq(Symbol)
  <2>1. PICK d : d = e - 1
    OBVIOUS
  <2>2. 1 \in Nat /\ d \in Nat /\ 1 <= 1 /\ 1 <= d + 1 /\ d <= Len(todo)
    BY <1>1, <1>2, <1>4, <2>1
  <2>3. Blank \subseteq Silent
    BY SilentSymbols
  <2>4. /\ Trim(Blank, todo, 1, d) \in Seq(Symbol)
        /\ Content(Trim(Blank, todo, 1, d)) = Content(SubSeq(todo, 1, d))
    <3>1. todo \in Seq(Symbol)
      BY <1>1
    <3> QED
      BY ONLY <2>2, <2>3, <3>1, Trims
  <2>5. SubSeq(todo, 1, d) \in Seq(Symbol)
    BY <1>1, <2>2
  <2> QED
    BY <1>2, <2>1, <2>4, <2>5
<1>6. s' \in Seq(Symbol) /\ Content(s') = Content(s) \o Content(line)
  <2>1. CASE line = <<>>
    BY <1>1, <1>3, <2>1, NothingLeft
  <2>2. CASE line # <<>>
    <3>1. PICK a, b : a = EnsureTerminalPunctuation(s) /\ b = WithoutPrefixes(line)
      OBVIOUS
    <3>2. a \in Seq(Symbol) /\ Content(a) = Content(s)
      BY <1>1, <3>1, EndMarkOK DEF KeepsContent
    <3>3. b \in Seq(Symbol) /\ Content(b) = Content(line)
      BY <1>5, <3>1, WithoutPrefixesOK DEF KeepsContent
    <3>4. s' = a \o b
      BY <1>3, <2>2, <3>1 DEF Merged
    <3>5. Content(a \o b) = Content(a) \o Content(b)
      BY <3>2, <3>3, ContentTwo
    <3>6. s' \in Seq(Symbol)
      BY <3>2, <3>3, <3>4
    <3> QED
      BY <3>2, <3>3, <3>4, <3>5, <3>6, Zenon
  <2> QED
    BY <2>1, <2>2
<1>7. PICK cs, ch, ct : cs = Content(s) /\ ch = Content(head) /\ ct = Content(todo')
  OBVIOUS
<1>8. cs \in Seq(Spoken) /\ ch \in Seq(Spoken) /\ ct \in Seq(Spoken)
  BY <1>1, <1>4, <1>5, <1>7, ContentTwo
<1>9. (cs \o ch) \o ct = cs \o (ch \o ct)
  BY <1>8, SMTT(30)
<1>10. Content(s') \o Content(todo') = Content(input')
  BY <1>1, <1>3, <1>4, <1>5, <1>6, <1>7, <1>9, Zenon
<1>11. TypeOK'
  BY <1>3, <1>4, <1>6 DEF ContentInv, TypeOK
<1> QED
  BY <1>10, <1>11 DEF ContentInv

\* Every step keeps the invariant.
LEMMA NextContent == ContentInv /\ [Next]_vars => ContentInv'
<1> SUFFICES ASSUME ContentInv, [Next]_vars PROVE ContentInv'
  OBVIOUS
<1>1. /\ s \in Seq(Symbol) /\ todo \in Seq(Symbol) /\ input \in Seq(Symbol)
      /\ calls \in {1, 2} /\ (stage # "lines" => todo = <<>>)
      /\ stage \in {"links", "lines", "done"} \cup DOMAIN Following
      /\ Content(s) \o Content(todo) = Content(input)
  BY DEF ContentInv, TypeOK
<1>2. CASE RewriteLinks
  <2>1. /\ stage = "links" /\ stage' = "lines" /\ todo' = Pass("links", s) /\ s' = <<>>
        /\ input' = input /\ calls' = calls
    BY <1>2 DEF RewriteLinks
  <2>2. todo' \in Seq(Symbol) /\ Content(todo') = Content(s)
    BY <1>1, <2>1, PassOK DEF Passes
  <2>3. Content(s) = Content(input)
    BY <1>1, <2>1, NothingLeft
  <2>4. Content(s') \o Content(todo') = Content(todo')
    BY <2>1, <2>2, NothingLeft
  <2>5. Content(s') \o Content(todo') = Content(input')
    BY <2>1, <2>2, <2>3, <2>4, Zenon
  <2>6. TypeOK'
    BY <1>1, <2>1, <2>2 DEF TypeOK
  <2> QED
    BY <2>5, <2>6 DEF ContentInv
<1>3. CASE TakeLine
  BY <1>3, TakeLineContent
<1>4. CASE EndOfLines
  <2>1. stage' = "arrows" /\ todo = <<>> /\ UNCHANGED <<s, todo, input, calls>>
    BY <1>4 DEF EndOfLines
  <2>2. "arrows" \in DOMAIN Following
    BY DEF Following
  <2>3. TypeOK'
    BY <1>1, <2>1, <2>2 DEF TypeOK
  <2> QED
    BY <1>1, <2>1, <2>3 DEF ContentInv
<1>5. CASE Rewrite
  <2>1. /\ stage \in DOMAIN Following /\ s' = Pass(stage, s) /\ stage' = Following[stage]
        /\ todo' = todo /\ input' = input /\ calls' = calls
    BY <1>5 DEF Rewrite
  <2>2. stage # "lines" /\ Following[stage] \in {"done"} \cup DOMAIN Following
    BY <2>1 DEF Following
  <2>3. s' \in Seq(Symbol) /\ Content(s') = Content(s)
    BY <1>1, <2>1, PassOK DEF Passes
  <2>4. TypeOK'
    BY <1>1, <2>1, <2>2, <2>3 DEF TypeOK
  <2>5. Content(s') \o Content(todo') = Content(input')
    BY <1>1, <2>1, <2>3, Zenon
  <2> QED
    BY <2>4, <2>5 DEF ContentInv
<1>6. CASE RunAgain
  <2>1. /\ stage = "done" /\ stage' = "links" /\ input' = s /\ calls' = 2 /\ s' = s /\ todo' = todo
    BY <1>6 DEF RunAgain
  <2>2. TypeOK'
    BY <1>1, <2>1 DEF TypeOK
  <2>3. Content(s') \o Content(todo') = Content(input')
    BY <1>1, <2>1, NothingLeft
  <2> QED
    BY <2>2, <2>3 DEF ContentInv
<1>7. CASE UNCHANGED vars
  BY <1>7 DEF ContentInv, TypeOK, vars
<1>8. CASE Finished
  BY <1>7, <1>8 DEF Finished
<1> QED
  BY <1>2, <1>3, <1>4, <1>5, <1>6, <1>7, <1>8 DEF Next

(***************************************************************************)
(* The type invariant of NormalizeMarkdownAndLines, NormalizeFlowArrows    *)
(* and NormalizeStructuralPunctuation: every line is read before the next  *)
(* pass begins.                                                            *)
(***************************************************************************)
THEOREM TypeInvariant == Spec => []TypeOK
<1>1. ContentInv => TypeOK
  BY DEF ContentInv
<1> QED
  BY <1>1, InitContent, NextContent, PTL DEF Spec

(***************************************************************************)
(* Whatever the text, no call of the three functions loses, repeats or     *)
(* moves a word or an address.                                             *)
(***************************************************************************)
THEOREM ContentIsKept == Spec => []ContentKept
<1>1. ContentInv => ContentKept
  <2> SUFFICES ASSUME ContentInv, stage = "done" PROVE Content(s) = Content(input)
    BY DEF ContentKept
  <2>1. s \in Seq(Symbol) /\ todo = <<>> /\ Content(s) \o Content(todo) = Content(input)
    BY DEF ContentInv, TypeOK
  <2> QED
    BY <2>1, NothingLeft
<1> QED
  BY <1>1, InitContent, NextContent, PTL DEF Spec

-----------------------------------------------------------------------------
(***************************************************************************)
(* The marks that a pass leaves.                                           *)
(***************************************************************************)

\* f[k] is what the turns of the pass put out from k on.
Rests(f, name, t) ==
    /\ f[Len(t) + 1] = <<>>
    /\ \A k \in 1 .. Len(t) + 1 : f[k] \in Seq(Symbol)
    /\ \A k \in 1 .. Len(t) : /\ f[k] = Turn(name, t, k).put \o f[Turn(name, t, k).next]
                              /\ Turn(name, t, k).next \in k + 1 .. Len(t) + 1
                              /\ Turn(name, t, k).put \in Seq(Symbol)

\* A pass is the first of such rests.
LEMMA PassRests ==
  ASSUME NEW name, NEW t, name \in Passes, t \in Seq(Symbol)
  PROVE  \E f : Rests(f, name, t) /\ Pass(name, t) = f[1]
<1>0. PICK n : n = Len(t) /\ n \in Nat
  OBVIOUS
<1>1. PICK f : FromTurns(f, name, t) /\ Pass(name, t) = f[1]
  BY PassTurns
<1>2. f[n + 1] = <<>>
  BY <1>0, <1>1 DEF FromTurns
<1>3. ASSUME NEW k \in 1 .. n
      PROVE  /\ f[k] = Turn(name, t, k).put \o f[Turn(name, t, k).next]
             /\ Turn(name, t, k).next \in k + 1 .. n + 1
             /\ Turn(name, t, k).put \in Seq(Symbol)
  <2>1. \A i \in 1 .. Len(t) + 1 :
          f[i] = IF i > Len(t) THEN <<>> ELSE Turn(name, t, i).put \o f[Turn(name, t, i).next]
    BY <1>1, Zenon DEF FromTurns
  <2>2. k \in 1 .. Len(t) + 1 /\ ~(k > Len(t))
    BY <1>0
  <2>3. f[k] = Turn(name, t, k).put \o f[Turn(name, t, k).next]
    BY <2>1, <2>2, Zenon
  <2>4. Turn(name, t, k).next \in k + 1 .. n + 1 /\ Turn(name, t, k).put \in Seq(Symbol)
    BY <1>0, TurnsOK DEF TurnOK
  <2> QED
    BY <2>3, <2>4
<1> DEFINE S == {k \in 1 .. n + 1 : f[k] \in Seq(Symbol)}
<1>4. n + 1 \in S
  <2>1. <<>> \in Seq(Symbol) /\ n + 1 \in 1 .. n + 1
    BY <1>0
  <2> QED
    BY <1>2, <2>1
<1>5. ASSUME NEW k \in 1 .. n, \A j \in k + 1 .. n + 1 : j \in S PROVE k \in S
  <2>1. PICK put, next : /\ put = Turn(name, t, k).put /\ next = Turn(name, t, k).next
                         /\ f[k] = put \o f[next] /\ next \in k + 1 .. n + 1 /\ put \in Seq(Symbol)
    BY <1>3
  <2>2. f[next] \in Seq(Symbol)
    BY <1>5, <2>1
  <2>3. put \o f[next] \in Seq(Symbol) /\ k \in 1 .. n + 1
    BY <1>0, <2>1, <2>2
  <2> QED
    BY <2>1, <2>3
<1>6. \A k \in 1 .. n + 1 : k \in S
  <2> HIDE DEF S
  <2> QED
    BY <1>0, <1>4, <1>5, DownInduction
<1> QED
  BY <1>0, <1>1, <1>2, <1>3, <1>6 DEF Rests

\* A symbol in front of a text.
LEMMA InFront ==
  ASSUME NEW c, NEW r, c \in Symbol, r \in Seq(Symbol)
  PROVE  /\ <<c>> \o r \in Seq(Symbol) /\ Len(<<c>> \o r) = Len(r) + 1 /\ (<<c>> \o r)[1] = c
         /\ \A i \in 1 .. Len(r) : (<<c>> \o r)[i + 1] = r[i]
OBVIOUS

\* Two symbols next to each other are found behind the first one, or are the first two.
LEMMA AdjacentInFront ==
  ASSUME NEW c, NEW r, NEW A, NEW B, c \in Symbol, r \in Seq(Symbol),
         ~Adjacent(r, A, B), ~(r # <<>> /\ c \in A /\ r[1] \in B)
  PROVE  ~Adjacent(<<c>> \o r, A, B)
<1>1. PICK u, n : u = <<c>> \o r /\ n = Len(r)
  OBVIOUS
<1>2. n \in Nat /\ Len(u) = n + 1 /\ u[1] = c /\ \A i \in 1 .. n : u[i + 1] = r[i]
  BY <1>1, InFront
<1> SUFFICES ASSUME NEW i \in 1 .. Len(u) - 1, u[i] \in A, u[i + 1] \in B PROVE FALSE
  BY <1>1 DEF Adjacent
<1>3. i \in 1 .. n /\ u[i + 1] = r[i]
  BY <1>1, <1>2
<1>4. CASE i = 1
  BY <1>1, <1>2, <1>3, <1>4
<1>5. CASE i # 1
  <2>1. PICK j : j = i - 1 /\ j \in 1 .. n /\ j + 1 = i /\ j \in 1 .. Len(r) - 1
    BY <1>1, <1>3, <1>5
  <2>2. r[j] \in A /\ r[j + 1] \in B
    BY <1>2, <1>3, <2>1
  <2> QED
    BY <2>1, <2>2 DEF Adjacent
<1> QED
  BY <1>4, <1>5

\* each turn of the pass copies a symbol or puts out the mark x
Marking(name, t, x) ==
    \A i \in 1 .. Len(t) : Turn(name, t, i) = Copy(t, i) \/ Turn(name, t, i).put = <<x>>

\* the pass does not copy the first of two symbols from a and b
Sought(name, t, a, b) ==
    \A i \in 1 .. Len(t) - 1 : t[i] \in a /\ t[i + 1] \in b => Turn(name, t, i) # Copy(t, i)

\* A pass that looks for two symbols next to each other leaves none.
LEMMA SoughtGone ==
  ASSUME NEW name, NEW t, NEW x, NEW A, NEW B, name \in Passes, t \in Seq(Symbol), x \in Symbol,
         Marking(name, t, x), Sought(name, t, A, B), x \notin A, x \notin B
  PROVE  ~Adjacent(Pass(name, t), A, B)
<1>0. PICK n : n = Len(t) /\ n \in Nat
  OBVIOUS
<1>1. PICK f : Rests(f, name, t) /\ Pass(name, t) = f[1]
  BY PassRests
<1> DEFINE S == {k \in 1 .. n + 1 : /\ ~Adjacent(f[k], A, B)
                                    /\ f[k] # <<>> => k \in 1 .. n /\ f[k][1] \in {t[k], x}}
<1>2. n + 1 \in S
  <2>1. f[n + 1] = <<>>
    BY <1>0, <1>1 DEF Rests
  <2>2. ~Adjacent(<<>>, A, B)
    BY DEF Adjacent
  <2> QED
    BY <1>0, <2>1, <2>2
<1>3. ASSUME NEW k \in 1 .. n, \A j \in k + 1 .. n + 1 : j \in S PROVE k \in S
  <2>0. PICK put, next, rest : /\ put = Turn(name, t, k).put /\ next = Turn(name, t, k).next
                               /\ rest = f[next]
    OBVIOUS
  <2>1. f[k] = put \o rest /\ next \in k + 1 .. n + 1 /\ rest \in Seq(Symbol)
    <3>1. f[k] = put \o rest /\ next \in k + 1 .. n + 1
      BY <1>0, <1>1, <2>0 DEF Rests
    <3>2. next \in 1 .. n + 1
      BY <1>0, <3>1
    <3> QED
      BY <1>0, <1>1, <2>0, <3>1, <3>2 DEF Rests
  <2>2. ~Adjacent(rest, A, B) /\ (rest # <<>> => next \in 1 .. n /\ rest[1] \in {t[next], x})
    BY <1>3, <2>0, <2>1
  <2>3. t[k] \in Symbol
    BY <1>0
  <2>4. \/ put = <<x>>
        \/ put = <<t[k]>> /\ next = k + 1 /\ Turn(name, t, k) = Copy(t, k)
    BY <1>0, <2>0 DEF Marking, Copy
  <2>5. PICK c : put = <<c>> /\ c \in Symbol /\ c \in {t[k], x} /\ ~(rest # <<>> /\ c \in A /\ rest[1] \in B)
    <3>1. CASE put = <<x>>
      BY <3>1
    <3>2. CASE put = <<t[k]>> /\ next = k + 1 /\ Turn(name, t, k) = Copy(t, k)
      <4>1. ASSUME rest # <<>>, t[k] \in A, rest[1] \in B PROVE FALSE
        <5>1. next \in 1 .. n /\ rest[1] = t[next]
          BY <2>2, <4>1
        <5>2. k \in 1 .. Len(t) - 1 /\ t[k + 1] \in B
          BY <1>0, <3>2, <4>1, <5>1
        <5> QED
          BY <3>2, <4>1, <5>2 DEF Sought
      <4> QED
        BY <2>3, <3>2, <4>1
    <3> QED
      BY <2>4, <3>1, <3>2
  <2>6. ~Adjacent(<<c>> \o rest, A, B)
    BY <2>1, <2>2, <2>5, AdjacentInFront
  <2>7. (<<c>> \o rest)[1] = c
    BY <2>1, <2>5, InFront
  <2>8. k \in 1 .. n + 1
    BY <1>0
  <2> QED
    BY <2>1, <2>5, <2>6, <2>7, <2>8
<1>4. 1 \in S
  <2> HIDE DEF S
  <2>1. 1 \in 1 .. n + 1
    BY <1>0
  <2> QED
    BY <1>0, <1>2, <1>3, <2>1, DownInduction
<1> QED
  BY <1>1, <1>4

\* A pass that looks for a symbol leaves none.
LEMMA MarkGone ==
  ASSUME NEW name, NEW t, NEW x, NEW y, name \in Passes, t \in Seq(Symbol), x \in Symbol,
         Marking(name, t, x), \A i \in 1 .. Len(t) : t[i] = y => Turn(name, t, i) # Copy(t, i), x # y
  PROVE  y \notin Range(Pass(name, t))
<1>0. PICK n : n = Len(t) /\ n \in Nat
  OBVIOUS
<1>1. PICK f : Rests(f, name, t) /\ Pass(name, t) = f[1]
  BY PassRests
<1> DEFINE S == {k \in 1 .. n + 1 : f[k] \in Seq(Symbol) /\ \A i \in 1 .. Len(f[k]) : f[k][i] # y}
<1>2. n + 1 \in S
  <2>1. f[n + 1] = <<>>
    BY <1>0, <1>1 DEF Rests
  <2>2. <<>> \in Seq(Symbol) /\ Len(<<>>) = 0 /\ n + 1 \in 1 .. n + 1
    BY <1>0
  <2>3. \A i \in 1 .. Len(<<>>) : <<>>[i] # y
    BY <2>2
  <2> QED
    BY <2>1, <2>2, <2>3
<1>3. ASSUME NEW k \in 1 .. n, \A j \in k + 1 .. n + 1 : j \in S PROVE k \in S
  <2>1. PICK put, next, rest : /\ put = Turn(name, t, k).put /\ next = Turn(name, t, k).next
                               /\ f[k] = put \o rest /\ next \in k + 1 .. n + 1 /\ rest = f[next]
    BY <1>0, <1>1 DEF Rests
  <2>2. rest \in Seq(Symbol) /\ \A i \in 1 .. Len(rest) : rest[i] # y
    BY <1>3, <2>1
  <2>3. PICK c : put = <<c>> /\ c \in Symbol /\ c # y
    <3>1. t[k] \in Symbol
      BY <1>0
    <3>2. put = <<x>> \/ (put = <<t[k]>> /\ Turn(name, t, k) = Copy(t, k))
      BY <1>0, <2>1 DEF Marking, Copy
    <3> QED
      BY <1>0, <3>1, <3>2
  <2>4. PICK u, m : u = <<c>> \o rest /\ m = Len(rest)
    OBVIOUS
  <2>5. /\ u \in Seq(Symbol) /\ m \in Nat /\ Len(u) = m + 1 /\ u[1] = c
        /\ \A i \in 1 .. m : u[i + 1] = rest[i]
    BY <2>2, <2>3, <2>4, InFront
  <2>6. ASSUME NEW i \in 1 .. Len(u) PROVE u[i] # y
    <3>1. CASE i = 1
      BY <2>3, <2>5, <3>1
    <3>2. CASE i # 1
      <4>1. PICK j : j \in 1 .. m /\ j + 1 = i
        <5>1. i - 1 \in 1 .. m /\ (i - 1) + 1 = i
          BY <2>4, <2>5, <3>2
        <5> QED
          BY <5>1
      <4> QED
        BY <2>2, <2>4, <2>5, <4>1
    <3> QED
      BY <3>1, <3>2
  <2>7. k \in 1 .. n + 1
    BY <1>0
  <2>8. f[k] = u
    BY <2>1, <2>3, <2>4
  <2> QED
    BY <2>5, <2>6, <2>7, <2>8
<1>4. 1 \in S
  <2> HIDE DEF S
  <2>1. 1 \in 1 .. n + 1
    BY <1>0
  <2> QED
    BY <1>0, <1>2, <1>3, <2>1, DownInduction
<1> QED
  BY <1>1, <1>4 DEF Range

\* What turns the passes for arrows and dashes take.
LEMMA MarkTurns ==
  ASSUME NEW t, NEW i
  PROVE  /\ Turn("arrows", t, i) = AsciiArrow(t, i) /\ Turn("arrows2", t, i) = AsciiArrow(t, i)
         /\ Turn("wide", t, i) = WideArrow(t, i) /\ Turn("wide2", t, i) = WideArrow(t, i)
         /\ Turn("dashes", t, i) = LongDash(t, i)
         /\ AsciiArrow(t, i) = Copy(t, i) \/ AsciiArrow(t, i).put = <<Comma>>
         /\ WideArrow(t, i) = Copy(t, i) \/ WideArrow(t, i).put = <<Comma>>
         /\ LongDash(t, i) = Copy(t, i) \/ LongDash(t, i).put = <<Stop>>
<1>1. /\ Turn("arrows", t, i) = AsciiArrow(t, i) /\ Turn("arrows2", t, i) = AsciiArrow(t, i)
      /\ Turn("wide", t, i) = WideArrow(t, i) /\ Turn("wide2", t, i) = WideArrow(t, i)
      /\ Turn("dashes", t, i) = LongDash(t, i)
  BY DEF Turn
<1>2. \A put, e : Replaced(put, e).put = put
  BY DEF Replaced
<1>3. AsciiArrow(t, i) = Copy(t, i) \/ AsciiArrow(t, i).put = <<Comma>>
  BY <1>2, Zenon DEF AsciiArrow
<1>4. WideArrow(t, i) = Copy(t, i) \/ WideArrow(t, i).put = <<Comma>>
  BY <1>2, Zenon DEF WideArrow
<1>5. LongDash(t, i) = Copy(t, i) \/ LongDash(t, i).put = <<Stop>>
  BY <1>2, Zenon DEF LongDash
<1> QED
  BY <1>1, <1>3, <1>4, <1>5

\* The marks that are put out are none that are looked for.
LEMMA MarkSymbols ==
  /\ Comma \in Symbol /\ Stop \in Symbol
  /\ Comma \notin {Less, Greater, Arrow} \cup Shaft \cup Dashes \cup Blank
  /\ Stop \notin {Less, Greater, Arrow} \cup Shaft \cup Dashes \cup Blank
  /\ Less \notin Blank \cup Shaft /\ Greater \notin Blank \cup Shaft /\ Less # Greater
  /\ Arrow \notin Blank /\ Blank \cap Shaft = {} /\ Blank \cap Dashes = {} /\ Less \notin Dashes
  /\ {Space} \subseteq Blank
<1>1. Comma \in Symbol /\ Stop \in Symbol
  BY DEF Symbol
<1> QED
  BY <1>1 DEF Blank, Shaft, Dashes, Space, Tab, Hyphen, Equal, Dash, Less, Greater, Arrow, Comma, Stop

\* A run that is not begun is empty, and one that is goes on.
LEMMA RunBegins ==
  ASSUME NEW set, NEW t, NEW i, t \in Seq(Symbol), i \in 1 .. Len(t)
  PROVE  /\ t[i] \notin set => RunEnd(set, t, i) = i
         /\ t[i] \in set => RunEnd(set, t, i) \in i + 1 .. Len(t) + 1
         /\ t[i] \in set /\ i + 1 \in 1 .. Len(t) /\ t[i + 1] \notin set => RunEnd(set, t, i) = i + 1
         /\ t[i] \in set /\ i + 1 \in 1 .. Len(t) /\ t[i + 1] \in set => RunEnd(set, t, i) >= i + 2
<1>1. PICK e, n : e = RunEnd(set, t, i) /\ n = Len(t)
  OBVIOUS
<1>2. i \in Nat /\ 1 <= i /\ i <= Len(t) + 1 /\ n \in Nat
  BY <1>1
<1>3. /\ e \in Nat /\ i <= e /\ e <= n + 1
      /\ \A k \in i .. e - 1 : t[k] \in set
      /\ e <= n => t[e] \notin set
  BY <1>1, <1>2, RunEnds
<1>4. t[i] \notin set => e = i
  <2>1. i \in i .. e - 1 \/ e = i
    BY <1>2, <1>3
  <2> QED
    BY <1>3, <2>1
<1>5. t[i] \in set => e \in i + 1 .. n + 1
  BY <1>1, <1>2, <1>3
<1>6. i + 1 \in 1 .. n /\ t[i + 1] \notin set => e <= i + 1
  <2>1. i + 1 \in i .. e - 1 \/ e <= i + 1
    BY <1>2, <1>3
  <2> QED
    BY <1>3, <2>1
<1>7. t[i] \in set /\ i + 1 \in 1 .. n /\ t[i + 1] \in set => e >= i + 2
  <2>1. e \in i + 1 .. n + 1 /\ e # i + 1 => e >= i + 2
    BY <1>2
  <2>2. e = i + 1 /\ i + 1 \in 1 .. n => t[i + 1] \notin set
    BY <1>3
  <2> QED
    BY <1>5, <2>1, <2>2
<1> QED
  BY <1>1, <1>2, <1>3, <1>4, <1>5, <1>6, <1>7

\* An ASCII arrow is not copied.
LEMMA AsciiArrowSought ==
  ASSUME NEW t, NEW i, t \in Seq(Symbol), i \in 1 .. Len(t) - 1,
         (t[i] = Less /\ t[i + 1] \in Shaft) \/ (t[i] \in Shaft /\ t[i + 1] = Greater)
  PROVE  AsciiArrow(t, i) # Copy(t, i)
<1>1. PICK j : j = i + 1 /\ i \in 1 .. Len(t) /\ j \in 1 .. Len(t)
  OBVIOUS
<1>2. t[i] \notin Blank /\ t[i] # Comma
  BY MarkSymbols
<1>3. RunEnd(Blank, t, i) = i
  BY <1>1, <1>2, RunBegins
<1>4. AsciiArrowEnd(t, i) > 0
  <2>1. CASE t[i] = Less /\ t[i + 1] \in Shaft
    <3>1. Holds(t, i, {Less})
      BY <1>1, <2>1 DEF Holds
    <3>2. PICK e : e = RunEnd(Shaft, t, j) /\ e \in j + 1 .. Len(t) + 1
      BY <1>1, <2>1, RunBegins
    <3>3. e > j /\ e > 0 /\ e + 1 > 0 /\ j > i
      BY <1>1, <3>2
    <3> QED
      BY <1>1, <3>1, <3>2, <3>3 DEF AsciiArrowEnd
  <2>2. CASE t[i] \in Shaft /\ t[i + 1] = Greater
    <3>1. ~Holds(t, i, {Less})
      BY <2>2, MarkSymbols DEF Holds
    <3>2. RunEnd(Shaft, t, i) = j
      BY <1>1, <2>2, MarkSymbols, RunBegins
    <3>3. Holds(t, j, {Greater}) /\ j > i /\ j + 1 > 0
      BY <1>1, <2>2 DEF Holds
    <3> QED
      BY <3>1, <3>2, <3>3 DEF AsciiArrowEnd
  <2> QED
    BY <2>1, <2>2
<1>5. AsciiArrow(t, i).put = <<Comma>> /\ Copy(t, i).put = <<t[i]>>
  BY <1>3, <1>4 DEF AsciiArrow, Replaced, Copy
<1>6. <<Comma>>[1] = Comma /\ <<t[i]>>[1] = t[i]
  OBVIOUS
<1> QED
  BY <1>2, <1>5, <1>6

\* A Unicode arrow is not copied.
LEMMA WideArrowSought ==
  ASSUME NEW t, NEW i, t \in Seq(Symbol), i \in 1 .. Len(t), t[i] = Arrow
  PROVE  WideArrow(t, i) # Copy(t, i)
<1>1. t[i] \notin {Space} /\ t[i] # Comma
  BY MarkSymbols
<1>2. RunEnd({Space}, t, i) = i
  BY <1>1, RunBegins
<1>3. Holds(t, i, {Arrow})
  BY DEF Holds
<1>4. WideArrow(t, i).put = <<Comma>> /\ Copy(t, i).put = <<t[i]>>
  BY <1>2, <1>3 DEF WideArrow, Replaced, Copy
<1>5. <<Comma>>[1] = Comma /\ <<t[i]>>[1] = t[i]
  OBVIOUS
<1> QED
  BY <1>1, <1>4, <1>5

\* Neither are two dashes.
LEMMA LongDashSought ==
  ASSUME NEW t, NEW i, t \in Seq(Symbol), i \in 1 .. Len(t) - 1,
         t[i] \in Dashes /\ t[i + 1] \in Dashes
  PROVE  LongDash(t, i) # Copy(t, i)
<1>1. i \in 1 .. Len(t) /\ i + 1 \in 1 .. Len(t)
  OBVIOUS
<1>2. t[i] \notin Blank /\ t[i] # Stop
  BY MarkSymbols
<1>3. RunEnd(Blank, t, i) = i
  BY <1>1, <1>2, RunBegins
<1>4. RunEnd(Dashes, t, i) >= i + 2
  BY <1>1, RunBegins
<1>5. LongDash(t, i).put = <<Stop>> /\ Copy(t, i).put = <<t[i]>>
  BY <1>3, <1>4 DEF LongDash, Replaced, Copy
<1>6. <<Stop>>[1] = Stop /\ <<t[i]>>[1] = t[i]
  OBVIOUS
<1> QED
  BY <1>2, <1>5, <1>6

\* What the second search for ASCII arrows leaves.
LEMMA AsciiArrowsGone ==
  ASSUME NEW t, t \in Seq(Symbol)
  PROVE  /\ ~Adjacent(Pass("arrows2", t), {Less}, Shaft)
         /\ ~Adjacent(Pass("arrows2", t), Shaft, {Greater})
<1>1. "arrows2" \in Passes
  BY DEF Passes, Following
<1>2. Marking("arrows2", t, Comma)
  BY MarkTurns DEF Marking
<1>3. Sought("arrows2", t, {Less}, Shaft)
  <2> SUFFICES ASSUME NEW i \in 1 .. Len(t) - 1, t[i] \in {Less}, t[i + 1] \in Shaft
               PROVE  Turn("arrows2", t, i) # Copy(t, i)
    BY DEF Sought
  <2>1. AsciiArrow(t, i) # Copy(t, i)
    BY AsciiArrowSought
  <2> QED
    BY <2>1, MarkTurns
<1>4. Sought("arrows2", t, Shaft, {Greater})
  <2> SUFFICES ASSUME NEW i \in 1 .. Len(t) - 1, t[i] \in Shaft, t[i + 1] \in {Greater}
               PROVE  Turn("arrows2", t, i) # Copy(t, i)
    BY DEF Sought
  <2>1. AsciiArrow(t, i) # Copy(t, i)
    BY AsciiArrowSought
  <2> QED
    BY <2>1, MarkTurns
<1>5. Comma \in Symbol /\ Comma \notin {Less} /\ Comma \notin Shaft /\ Comma \notin {Greater}
  BY MarkSymbols
<1> QED
  BY <1>1, <1>2, <1>3, <1>4, <1>5, SoughtGone

\* A pass for marks brings no two symbols together that were not.
LEMMA AdjacentKept ==
  ASSUME NEW name, NEW t, NEW x, NEW A, NEW B, name \in Passes, t \in Seq(Symbol), x \in Symbol,
         Marking(name, t, x), ~Adjacent(t, A, B), x \notin A, x \notin B
  PROVE  ~Adjacent(Pass(name, t), A, B)
<1>1. Sought(name, t, A, B)
  BY DEF Sought, Adjacent
<1> QED
  BY <1>1, SoughtGone

\* The search for Unicode arrows leaves none, and no ASCII arrow if there was none.
LEMMA WideArrowsGone ==
  ASSUME NEW t, t \in Seq(Symbol), ~Adjacent(t, {Less}, Shaft), ~Adjacent(t, Shaft, {Greater})
  PROVE  /\ Arrow \notin Range(Pass("wide2", t))
         /\ ~Adjacent(Pass("wide2", t), {Less}, Shaft)
         /\ ~Adjacent(Pass("wide2", t), Shaft, {Greater})
<1>1. "wide2" \in Passes
  BY DEF Passes, Following
<1>2. Marking("wide2", t, Comma)
  BY MarkTurns DEF Marking
<1>3. \A i \in 1 .. Len(t) : t[i] = Arrow => Turn("wide2", t, i) # Copy(t, i)
  BY WideArrowSought, MarkTurns
<1>4. /\ Comma \in Symbol /\ Comma \notin {Less} /\ Comma \notin Shaft /\ Comma \notin {Greater}
      /\ Comma # Arrow
  BY MarkSymbols
<1>5. Arrow \notin Range(Pass("wide2", t))
  BY <1>1, <1>2, <1>3, <1>4, MarkGone
<1>6. ~Adjacent(Pass("wide2", t), {Less}, Shaft)
  BY <1>1, <1>2, <1>4, AdjacentKept
<1>7. ~Adjacent(Pass("wide2", t), Shaft, {Greater})
  BY <1>1, <1>2, <1>4, AdjacentKept
<1> QED
  BY <1>5, <1>6, <1>7

\* The search for dashes leaves no two of them, and no arrow if there was none.
LEMMA DashesGone ==
  ASSUME NEW t, t \in Seq(Symbol), Arrow \notin Range(t),
         ~Adjacent(t, {Less}, Shaft), ~Adjacent(t, Shaft, {Greater})
  PROVE  MarksGone(Pass("dashes", t))
<1>1. "dashes" \in Passes
  BY DEF Passes, Following
<1>2. Marking("dashes", t, Stop)
  BY MarkTurns DEF Marking
<1>3. \A i \in 1 .. Len(t) : t[i] # Arrow
  BY DEF Range
<1>4. /\ Stop \in Symbol /\ Stop \notin {Less} /\ Stop \notin Shaft /\ Stop \notin {Greater}
      /\ Stop # Arrow /\ Stop \notin Dashes
  BY MarkSymbols
<1>5. Arrow \notin Range(Pass("dashes", t))
  BY <1>1, <1>2, <1>3, <1>4, MarkGone
<1>6. ~Adjacent(Pass("dashes", t), {Less}, Shaft)
  BY <1>1, <1>2, <1>4, AdjacentKept
<1>7. ~Adjacent(Pass("dashes", t), Shaft, {Greater})
  BY <1>1, <1>2, <1>4, AdjacentKept
<1>8. Sought("dashes", t, Dashes, Dashes)
  BY LongDashSought, MarkTurns DEF Sought
<1>9. ~Adjacent(Pass("dashes", t), Dashes, Dashes)
  BY <1>1, <1>2, <1>4, <1>8, SoughtGone
<1> QED
  BY <1>5, <1>6, <1>7, <1>9 DEF MarksGone

\* What each of the last passes may rely on.
MarksInv ==
    /\ ContentInv
    /\ stage \in {"wide2", "dashes", "done"} =>
          ~Adjacent(s, {Less}, Shaft) /\ ~Adjacent(s, Shaft, {Greater})
    /\ stage \in {"dashes", "done"} => Arrow \notin Range(s)
    /\ stage = "done" => MarksGone(s)

\* No step brings out a mark that an earlier pass had to rewrite.
LEMMA NextMarks == MarksInv /\ [Next]_vars => MarksInv'
<1> SUFFICES ASSUME MarksInv, [Next]_vars PROVE MarksInv'
  OBVIOUS
<1>1. ContentInv /\ ContentInv' /\ s \in Seq(Symbol)
  BY NextContent DEF MarksInv, ContentInv, TypeOK
<1>2. CASE RewriteLinks \/ TakeLine \/ EndOfLines \/ RunAgain
  <2>1. stage' \in {"links", "lines", "arrows"}
    BY <1>2 DEF RewriteLinks, TakeLine, EndOfLines, RunAgain
  <2> QED
    BY <1>1, <2>1 DEF MarksInv
<1>3. CASE Rewrite
  <2>1. stage \in DOMAIN Following /\ s' = Pass(stage, s) /\ stage' = Following[stage]
    BY <1>3 DEF Rewrite
  <2>2. CASE stage = "arrows2"
    <3>1. stage' = "wide2"
      BY <2>1, <2>2 DEF Following
    <3>2. ~Adjacent(s', {Less}, Shaft) /\ ~Adjacent(s', Shaft, {Greater})
      BY <1>1, <2>1, <2>2, AsciiArrowsGone
    <3> QED
      BY <1>1, <3>1, <3>2 DEF MarksInv
  <2>3. CASE stage = "wide2"
    <3>1. stage' = "dashes"
      BY <2>1, <2>3 DEF Following
    <3>2. Arrow \notin Range(s') /\ ~Adjacent(s', {Less}, Shaft) /\ ~Adjacent(s', Shaft, {Greater})
      BY <1>1, <2>1, <2>3, WideArrowsGone DEF MarksInv
    <3> QED
      BY <1>1, <3>1, <3>2 DEF MarksInv
  <2>4. CASE stage = "dashes"
    <3>1. stage' = "done"
      BY <2>1, <2>4 DEF Following
    <3>2. MarksGone(s')
      BY <1>1, <2>1, <2>4, DashesGone DEF MarksInv
    <3> QED
      BY <1>1, <3>1, <3>2 DEF MarksInv, MarksGone
  <2>5. CASE stage \notin {"arrows2", "wide2", "dashes"}
    <3>1. stage' \notin {"wide2", "dashes", "done"}
      BY <2>1, <2>5 DEF Following
    <3> QED
      BY <1>1, <3>1 DEF MarksInv
  <2> QED
    BY <2>2, <2>3, <2>4, <2>5
<1>4. CASE UNCHANGED vars
  BY <1>1, <1>4 DEF MarksInv, vars
<1>5. CASE Finished
  BY <1>1, <1>5 DEF MarksInv, Finished, vars
<1> QED
  BY <1>2, <1>3, <1>4, <1>5 DEF Next

(***************************************************************************)
(* Whatever the text, a call leaves no arrow and no two dashes next to     *)
(* each other, although brackets are rewritten between the two searches.   *)
(***************************************************************************)
THEOREM MarksAreRewritten == Spec => []MarksRewritten
<1>1. Init => MarksInv
  BY InitContent DEF Init, MarksInv
<1>2. MarksInv => MarksRewritten
  BY DEF MarksInv, MarksRewritten
<1> QED
  BY <1>1, <1>2, NextMarks, PTL DEF Spec

-----------------------------------------------------------------------------
(***************************************************************************)
(* Texts without line ends and without blanks at their ends, which is what *)
(* the reading of lines leaves and every later pass keeps.                 *)
(***************************************************************************)
OneLine(t) == t \in Seq(Symbol) /\ \A k \in 1 .. Len(t) : t[k] # Newline

Neat(t) == OneLine(t) /\ (t # <<>> => t[1] \notin Blank /\ t[Len(t)] \notin Blank)

\* u is the part of t from a to b, and not empty
PartOf(u, t, a, b) ==
    t \in Seq(Symbol) /\ a \in 1 .. Len(t) /\ b \in a .. Len(t) /\ u = SubSeq(t, a, b)

\* u is a and b behind each other
Joined(u, a, b) == a \in Seq(Symbol) /\ b \in Seq(Symbol) /\ u = a \o b

\* The symbols of a part are those of the text.
LEMMA PartSymbols ==
  ASSUME NEW t, NEW a, NEW b, NEW u, PartOf(u, t, a, b)
  PROVE  /\ u \in Seq(Symbol) /\ u # <<>> /\ u[1] = t[a] /\ u[Len(u)] = t[b]
         /\ OneLine(t) => OneLine(u)
<1>0. t \in Seq(Symbol) /\ a \in 1 .. Len(t) /\ b \in a .. Len(t) /\ u = SubSeq(t, a, b)
  BY DEF PartOf
<1>1. PICK n : n = b - a + 1
  OBVIOUS
<1>2. n \in Nat /\ u \in Seq(Symbol) /\ Len(u) = n /\ \A i \in 1 .. n : u[i] = t[a + i - 1]
  BY <1>0, <1>1
<1>3. 1 \in 1 .. n /\ n \in 1 .. n /\ a + 1 - 1 = a /\ a + n - 1 = b
  BY <1>0, <1>1
<1>4. u[1] = t[a] /\ u[n] = t[b]
  BY <1>2, <1>3
<1>5. \A i \in 1 .. n : a + i - 1 \in 1 .. Len(t)
  BY <1>0, <1>1
<1>6. OneLine(t) => OneLine(u)
  BY <1>0, <1>2, <1>5 DEF OneLine
<1>7. u # <<>>
  BY <1>0, PartNotEmpty
<1> QED
  BY <1>2, <1>4, <1>6, <1>7

\* What is left of a part when its ends are trimmed.
LEMMA TrimParts ==
  ASSUME NEW set, NEW t, NEW a, NEW b, t \in Seq(Symbol), a \in Nat /\ b \in Nat /\ 1 <= a /\ b <= Len(t)
  PROVE  \/ Trim(set, t, a, b) = <<>> /\ \A k \in a .. b : t[k] \in set
         \/ \E c, d \in a .. b : /\ c <= d /\ Trim(set, t, a, b) = SubSeq(t, c, d)
                                 /\ t[c] \notin set /\ t[d] \notin set
                                 /\ (t[a] \notin set => c = a) /\ (t[b] \notin set => d = b)
<1> DEFINE inside == {i \in a .. b : t[i] \notin set}
<1>1. CASE inside = {}
  <2>1. Trim(set, t, a, b) = <<>>
    BY <1>1 DEF Trim
  <2> QED
    BY <1>1, <2>1
<1>2. CASE inside # {}
  <2>1. PICK c, d : c = Min(inside) /\ d = Max(inside)
    OBVIOUS
  <2>2. inside \subseteq 1 .. b
    OBVIOUS
  <2>3. /\ c \in inside /\ \A x \in inside : c <= x
        /\ d \in inside /\ \A x \in inside : x <= d
    <3> HIDE DEF inside
    <3> QED
      BY <1>2, <2>1, <2>2, FirstAndLast
  <2>4. c \in a .. b /\ d \in a .. b /\ c <= d /\ t[c] \notin set /\ t[d] \notin set
    BY <2>3
  <2>5. Trim(set, t, a, b) = SubSeq(t, c, d)
    BY <1>2, <2>1 DEF Trim
  <2>6. t[a] \notin set => c = a
    <3>1. t[a] \notin set => a \in inside
      BY <2>4
    <3>2. a \in inside => c <= a
      BY <2>3
    <3> QED
      BY <2>4, <3>1, <3>2
  <2>7. t[b] \notin set => d = b
    <3>1. t[b] \notin set => b \in inside
      BY <2>4
    <3>2. b \in inside => b <= d
      BY <2>3
    <3> QED
      BY <2>4, <3>1, <3>2
  <2> QED
    BY <2>4, <2>5, <2>6, <2>7
<1> QED
  BY <1>1, <1>2

\* What is left of one line is a part of it, or nothing.
LEMMA TrimOneLine ==
  ASSUME NEW set, NEW t, NEW a, NEW b, OneLine(t), a \in Nat /\ b \in Nat /\ 1 <= a /\ b <= Len(t)
  PROVE  OneLine(Trim(set, t, a, b))
<1>0. t \in Seq(Symbol)
  BY DEF OneLine
<1>1. CASE Trim(set, t, a, b) = <<>>
  BY <1>1 DEF OneLine
<1>2. CASE Trim(set, t, a, b) # <<>>
  <2>1. PICK c, d \in a .. b : c <= d /\ Trim(set, t, a, b) = SubSeq(t, c, d)
    BY <1>0, <1>2, TrimParts
  <2>2. c \in 1 .. Len(t) /\ d \in c .. Len(t)
    BY <1>0, <2>1
  <2>3. PartOf(Trim(set, t, a, b), t, c, d)
    BY <1>0, <2>1, <2>2 DEF PartOf
  <2> QED
    BY <2>3, PartSymbols
<1> QED
  BY <1>1, <1>2

\* Two texts behind each other.
LEMMA TwoTexts ==
  ASSUME NEW a, NEW b, NEW u, Joined(u, a, b)
  PROVE  /\ u \in Seq(Symbol) /\ (OneLine(a) /\ OneLine(b) => OneLine(u))
         /\ a # <<>> => u # <<>> /\ u[1] = a[1]
         /\ b # <<>> => u # <<>> /\ u[Len(u)] = b[Len(b)]
         /\ a = <<>> => u = b
         /\ b = <<>> => u = a
<1>0. a \in Seq(Symbol) /\ b \in Seq(Symbol) /\ u = a \o b
  BY DEF Joined
<1>1. PICK m, n : m = Len(a) /\ n = Len(b)
  OBVIOUS
<1>2. /\ m \in Nat /\ n \in Nat /\ u \in Seq(Symbol) /\ Len(u) = m + n
      /\ \A i \in 1 .. m + n : u[i] = IF i <= m THEN a[i] ELSE b[i - m]
  BY <1>0, <1>1
<1>3. OneLine(a) /\ OneLine(b) => OneLine(u)
  <2> SUFFICES ASSUME OneLine(a), OneLine(b), NEW i \in 1 .. m + n PROVE u[i] # Newline
    BY <1>2 DEF OneLine
  <2>1. i <= m => i \in 1 .. m
    BY <1>2
  <2>2. ~(i <= m) => i - m \in 1 .. n
    BY <1>2
  <2> QED
    BY <1>1, <1>2, <2>1, <2>2 DEF OneLine
<1>4. a # <<>> => m > 0
  BY <1>0, <1>1
<1>5. b # <<>> => n > 0
  BY <1>0, <1>1
<1>6. m > 0 => u # <<>> /\ u[1] = a[1]
  <2> SUFFICES ASSUME m > 0 PROVE u # <<>> /\ u[1] = a[1]
    OBVIOUS
  <2>1. 1 \in 1 .. m + n /\ 1 <= m /\ m + n # 0
    BY <1>2
  <2> QED
    BY <1>2, <2>1
<1>7. n > 0 => u # <<>> /\ u[m + n] = b[n]
  <2> SUFFICES ASSUME n > 0 PROVE u # <<>> /\ u[m + n] = b[n]
    OBVIOUS
  <2>1. m + n \in 1 .. m + n /\ ~(m + n <= m) /\ (m + n) - m = n /\ m + n # 0
    BY <1>2
  <2>2. u[m + n] = b[(m + n) - m]
    BY <1>2, <2>1
  <2> QED
    BY <1>2, <2>1, <2>2
<1>8. (a = <<>> => u = b) /\ (b = <<>> => u = a)
  BY <1>0
<1> QED
  BY <1>1, <1>2, <1>3, <1>4, <1>5, <1>6, <1>7, <1>8

\* What a turn puts out on one line: it ends in a blank only if it copies one.
PutsNeat(t, i, m) ==
    /\ OneLine(m.put) /\ m.put # <<>>
    /\ m.put[1] = t[i] \/ m.put[1] \notin Blank
    /\ m = Copy(t, i) \/ m.put[Len(m.put)] \notin Blank

\* A symbol that is copied.
LEMMA CopyNeat ==
  ASSUME NEW t, NEW i, OneLine(t), i \in 1 .. Len(t)
  PROVE  PutsNeat(t, i, Copy(t, i))
<1>1. PICK x : x = t[i] /\ x \in Symbol /\ x # Newline
  BY DEF OneLine
<1>2. Copy(t, i).put = <<x>>
  BY <1>1 DEF Copy
<1>3. <<x>> \in Seq(Symbol) /\ Len(<<x>>) = 1 /\ <<x>>[1] = x /\ <<x>> # <<>>
  BY <1>1
<1>4. OneLine(<<x>>)
  BY <1>1, <1>3 DEF OneLine
<1> QED
  BY <1>1, <1>2, <1>3, <1>4 DEF PutsNeat

\* A mark.
LEMMA MarkNeat ==
  ASSUME NEW t, NEW i, NEW x, NEW m, x \in {Comma, Stop, Quote}, m.put = <<x>>
  PROVE  PutsNeat(t, i, m)
<1>1. x \in Symbol /\ x # Newline /\ x \notin Blank
  BY DEF Symbol, Blank, Comma, Stop, Quote, Newline, Space, Tab
<1>3. <<x>> \in Seq(Symbol) /\ Len(<<x>>) = 1 /\ <<x>>[1] = x /\ <<x>> # <<>>
  BY <1>1
<1>4. OneLine(<<x>>)
  BY <1>1, <1>3 DEF OneLine
<1> QED
  BY <1>1, <1>3, <1>4 DEF PutsNeat

\* A part between quotation marks.
LEMMA QuotedNeat ==
  ASSUME NEW t, NEW i, NEW inner, NEW e, OneLine(inner)
  PROVE  PutsNeat(t, i, Replaced(<<Quote>> \o inner \o <<Quote>>, e))
<1>1. PICK q, u, v : q = <<Quote>> /\ u = q \o inner /\ v = u \o q
  OBVIOUS
<1>2. Replaced(<<Quote>> \o inner \o <<Quote>>, e).put = v
  BY <1>1 DEF Replaced
<1>3. Quote \in Symbol /\ Quote # Newline /\ Quote \notin Blank
  BY DEF Symbol, Blank, Quote, Newline, Space, Tab
<1>4. q \in Seq(Symbol) /\ Len(q) = 1 /\ q[1] = Quote /\ q # <<>>
  BY <1>1, <1>3
<1>5. OneLine(q) /\ inner \in Seq(Symbol)
  BY <1>3, <1>4 DEF OneLine
<1>6. u \in Seq(Symbol) /\ OneLine(u) /\ u # <<>> /\ u[1] = Quote
  <2>1. Joined(u, q, inner)
    BY <1>1, <1>4, <1>5 DEF Joined
  <2>2. u \in Seq(Symbol) /\ OneLine(u) /\ u # <<>> /\ u[1] = q[1]
    BY ONLY OneLine(inner), <1>4, <1>5, <2>1, TwoTexts
  <2> QED
    BY <1>4, <2>2
<1>7. OneLine(v) /\ v # <<>> /\ v[1] = u[1] /\ v[Len(v)] = q[Len(q)]
  <2>1. Joined(v, u, q)
    BY <1>1, <1>4, <1>6 DEF Joined
  <2>2. u # <<>> /\ q # <<>> /\ OneLine(u) /\ OneLine(q)
    BY <1>4, <1>5, <1>6
  <2> QED
    BY ONLY <2>1, <2>2, TwoTexts
<1> QED
  BY <1>2, <1>3, <1>4, <1>6, <1>7 DEF PutsNeat

\* The passes after the reading of lines put out nothing else.
LEMMA TurnsNeat ==
  ASSUME NEW name, NEW t, NEW i, name \in DOMAIN Following, OneLine(t), i \in 1 .. Len(t)
  PROVE  PutsNeat(t, i, Turn(name, t, i))
<1>0. t \in Seq(Symbol)
  BY DEF OneLine
<1>1. name \in {"arrows", "wide", "square", "curly", "lenticular", "corner", "arrows2",
                "wide2", "dashes"}
  BY DEF Following
<1>2. CASE name \in {"arrows", "arrows2", "wide", "wide2", "dashes"}
  <2>1. Turn(name, t, i) = Copy(t, i) \/ Turn(name, t, i).put = <<Comma>> \/ Turn(name, t, i).put = <<Stop>>
    BY <1>2, MarkTurns
  <2> QED
    BY <2>1, CopyNeat, MarkNeat
<1>3. CASE name \in {"square", "curly"}
  <2>1. Turn(name, t, i) = Bracket(name, t, i)
    BY <1>3 DEF Turn
  <2>2. PICK j, inner : j = PairEnd(name, t, i) /\ inner = Trim(Blank, t, i + 1, j - 1)
    OBVIOUS
  <2>3. CASE j = 0
    BY <2>1, <2>2, <2>3, CopyNeat DEF Bracket
  <2>4. CASE j # 0
    <3>1. j \in i + 2 .. Len(t)
      BY <1>0, <1>3, <2>2, <2>4, PairEnds
    <3>2. PICK a, b : a = i + 1 /\ b = j - 1 /\ a \in Nat /\ b \in Nat /\ 1 <= a /\ b <= Len(t) /\ b \in 1 .. Len(t)
      BY <1>0, <3>1
    <3>3. OneLine(inner)
      BY <2>2, <3>2, TrimOneLine
    <3>4. PICK put : put = IF inner = <<>> THEN <<t[b]>> ELSE inner
      OBVIOUS
    <3>5. OneLine(<<t[b]>>)
      <4>1. t[b] \in Symbol /\ t[b] # Newline
        BY <3>2 DEF OneLine
      <4> QED
        BY <4>1 DEF OneLine
    <3>6. OneLine(put)
      BY <3>3, <3>4, <3>5
    <3>7. Bracket(name, t, i) = Replaced(<<Quote>> \o put \o <<Quote>>, j + 1)
      BY <2>2, <2>4, <3>2, <3>4 DEF Bracket
    <3> QED
      BY <2>1, <3>6, <3>7, QuotedNeat
  <2> QED
    BY <2>3, <2>4
<1>4. CASE name \in {"lenticular", "corner"}
  <2>1. Turn(name, t, i) = WideBracket(name, t, i)
    BY <1>4 DEF Turn
  <2>2. PICK start : start = RunEnd({Space}, t, i + 1)
    OBVIOUS
  <2> DEFINE ends == {j \in start .. Len(t) : t[j] = Closer[name]}
  <2>3. CASE ~(t[i] = Opener[name] /\ ends # {})
    <3>1. WideBracket(name, t, i) = Copy(t, i)
      BY <2>2, <2>3 DEF WideBracket
    <3> QED
      BY <2>1, <3>1, CopyNeat
  <2>4. CASE t[i] = Opener[name] /\ ends # {}
    <3>0. i + 1 \in Nat /\ 1 <= i + 1 /\ i + 1 <= Len(t) + 1
      BY <1>0
    <3>1. start \in Nat /\ i + 1 <= start
      BY <1>0, <2>2, <3>0, RunEnds
    <3>2. ends \subseteq 1 .. Len(t) /\ Len(t) \in Nat
      BY <1>0, <3>1
    <3>3. Min(ends) \in ends
      <4> HIDE DEF ends
      <4> QED
        BY <2>4, <3>2, FirstAndLast
    <3>4. PICK b, inner : b = Min(ends) - 1 /\ inner = Trim({Space}, t, start, b)
      OBVIOUS
    <3>5. start \in Nat /\ b \in Nat /\ 1 <= start /\ b <= Len(t)
      BY <1>0, <3>0, <3>1, <3>3, <3>4
    <3>6. OneLine(inner)
      BY <3>4, <3>5, TrimOneLine
    <3>7. WideBracket(name, t, i) = Replaced(<<Quote>> \o inner \o <<Quote>>, Min(ends) + 1)
      BY <2>2, <2>4, <3>4 DEF WideBracket
    <3> QED
      BY <2>1, <3>6, <3>7, QuotedNeat
  <2> QED
    BY <2>3, <2>4
<1> QED
  BY <1>1, <1>2, <1>3, <1>4

\* What a pass leaves of a neat text is neat.
LEMMA PassNeat ==
  ASSUME NEW name, NEW t, name \in DOMAIN Following, Neat(t)
  PROVE  Neat(Pass(name, t))
<1>0. OneLine(t) /\ t \in Seq(Symbol) /\ name \in Passes
  BY DEF Neat, OneLine, Passes
<1>1. PICK n : n = Len(t) /\ n \in Nat
  BY <1>0
<1>2. PICK f : Rests(f, name, t) /\ Pass(name, t) = f[1]
  BY <1>0, PassRests
<1>3. t # <<>> => n \in 1 .. n /\ t[1] \notin Blank /\ t[n] \notin Blank
  BY <1>0, <1>1 DEF Neat
<1>4. ASSUME NEW k \in 1 .. n
      PROVE  \E put, next : /\ f[k] = put \o f[next] /\ next \in k + 1 .. n + 1 /\ put \in Seq(Symbol)
                            /\ OneLine(put) /\ put # <<>>
                            /\ put[1] = t[k] \/ put[1] \notin Blank
                            /\ (next = k + 1 /\ put = <<t[k]>>) \/ put[Len(put)] \notin Blank
  <2>1. PICK put, next : put = Turn(name, t, k).put /\ next = Turn(name, t, k).next
    OBVIOUS
  <2>2. f[k] = put \o f[next] /\ next \in k + 1 .. n + 1 /\ put \in Seq(Symbol)
    BY <1>1, <1>2, <2>1 DEF Rests
  <2>3. PutsNeat(t, k, Turn(name, t, k))
    BY <1>0, <1>1, TurnsNeat
  <2>4. Copy(t, k).put = <<t[k]>> /\ Copy(t, k).next = k + 1
    BY DEF Copy
  <2> QED
    BY <2>1, <2>2, <2>3, <2>4 DEF PutsNeat
<1> DEFINE S == {k \in 1 .. n + 1 : /\ OneLine(f[k])
                                    /\ k \in 1 .. n => f[k] # <<>> /\ f[k][Len(f[k])] \notin Blank}
<1>5. n + 1 \in S
  <2>1. f[n + 1] = <<>>
    BY <1>1, <1>2 DEF Rests
  <2>2. OneLine(<<>>)
    BY DEF OneLine
  <2>3. n + 1 \in 1 .. n + 1 /\ n + 1 \notin 1 .. n
    BY <1>1
  <2> QED
    BY <2>1, <2>2, <2>3
<1>6. ASSUME NEW k \in 1 .. n, \A j \in k + 1 .. n + 1 : j \in S PROVE k \in S
  <2>1. PICK put, next : /\ f[k] = put \o f[next] /\ next \in k + 1 .. n + 1 /\ put \in Seq(Symbol)
                         /\ OneLine(put) /\ put # <<>>
                         /\ (next = k + 1 /\ put = <<t[k]>>) \/ put[Len(put)] \notin Blank
    BY <1>4
  <2>2. PICK rest, u : rest = f[next] /\ u = put \o rest
    OBVIOUS
  <2>3. OneLine(rest) /\ (next \in 1 .. n => rest # <<>> /\ rest[Len(rest)] \notin Blank)
    BY <1>6, <2>1, <2>2
  <2>4. rest \in Seq(Symbol)
    BY <2>3 DEF OneLine
  <2>5. /\ OneLine(u) /\ u # <<>>
        /\ rest # <<>> => u[Len(u)] = rest[Len(rest)]
        /\ rest = <<>> => u = put
    <3>1. Joined(u, put, rest)
      BY <2>1, <2>2, <2>4 DEF Joined
    <3>2. OneLine(put) /\ put # <<>>
      BY <2>1
    <3> QED
      BY ONLY <2>3, <3>1, <3>2, TwoTexts
  <2>6. next \notin 1 .. n => rest = <<>> /\ next = n + 1
    <3>0. next \in k + 1 .. n + 1
      BY <2>1
    <3>1. next \notin 1 .. n => next = n + 1
      BY ONLY k \in 1 .. n, <1>1, <3>0
    <3>2. f[n + 1] = <<>>
      BY <1>1, <1>2 DEF Rests
    <3> QED
      BY <2>2, <3>1, <3>2
  <2>7. put = <<t[n]>> => put[Len(put)] = t[n]
    OBVIOUS
  <2>8. t[n] \notin Blank
    <3>1. t # <<>>
      BY <1>1
    <3> QED
      BY <1>3, <3>1
  <2>9. u[Len(u)] \notin Blank
    <3>1. CASE next \in 1 .. n
      BY <2>3, <2>5, <3>1
    <3>2. CASE next \notin 1 .. n
      <4>1. next = k + 1 => k = n
        BY <1>1, <2>6, <3>2
      <4> QED
        BY <2>1, <2>5, <2>6, <2>7, <2>8, <3>2, <4>1
    <3> QED
      BY <3>1, <3>2
  <2>10. k \in 1 .. n + 1
    BY <1>1
  <2> QED
    BY <2>1, <2>2, <2>5, <2>9, <2>10
<1>7. 1 \in S
  <2> HIDE DEF S
  <2>1. 1 \in 1 .. n + 1
    BY <1>1
  <2> QED
    BY <1>1, <1>5, <1>6, <2>1, DownInduction
<1>8. CASE t = <<>>
  <2>1. f[1] = <<>>
    BY <1>1, <1>2, <1>8 DEF Rests
  <2> QED
    BY <1>2, <1>7, <2>1 DEF Neat
<1>9. CASE t # <<>>
  <2>0. 1 \in 1 .. n
    BY <1>0, <1>1, <1>9
  <2>1. PICK put, next : /\ f[1] = put \o f[next] /\ next \in 1 + 1 .. n + 1 /\ put \in Seq(Symbol)
                         /\ put # <<>>
                         /\ put[1] = t[1] \/ put[1] \notin Blank
    BY <1>4, <2>0
  <2>2. f[next] \in Seq(Symbol)
    <3>1. next \in 1 .. n + 1
      BY <1>1, <2>1
    <3> QED
      BY <1>1, <1>2, <3>1 DEF Rests
  <2>3. f[1][1] = put[1]
    <3>1. Joined(f[1], put, f[next]) /\ put # <<>>
      BY <2>1, <2>2 DEF Joined
    <3> QED
      BY ONLY <3>1, TwoTexts
  <2>4. f[1][1] \notin Blank
    BY <1>3, <1>9, <2>1, <2>3
  <2> QED
    BY <1>2, <1>7, <2>0, <2>4 DEF Neat
<1> QED
  BY <1>8, <1>9

\* The rest of a neat text from where no blank is.
LEMMA NeatTail ==
  ASSUME NEW t, NEW e, Neat(t), e \in Nat /\ 1 <= e /\ e <= Len(t) + 1,
         e <= Len(t) => t[e] \notin Blank
  PROVE  Neat(SubSeq(t, e, Len(t)))
<1>0. PICK n, u : n = Len(t) /\ u = SubSeq(t, e, n)
  OBVIOUS
<1>1. t \in Seq(Symbol) /\ OneLine(t) /\ n \in Nat
  BY <1>0 DEF Neat, OneLine
<1>2. CASE e <= n
  <2>1. e \in 1 .. Len(t) /\ n \in e .. Len(t)
    BY <1>0, <1>1, <1>2
  <2>2. u \in Seq(Symbol) /\ u[1] = t[e] /\ u[Len(u)] = t[n] /\ OneLine(u)
    <3>1. PartOf(u, t, e, n)
      BY <1>0, <1>1, <2>1 DEF PartOf
    <3> QED
      BY ONLY <1>1, <3>1, PartSymbols
  <2>3. t # <<>>
    BY <2>1
  <2>4. t[n] \notin Blank
    BY <1>0, <2>3 DEF Neat
  <2> QED
    BY <1>0, <1>2, <2>2, <2>4 DEF Neat
<1>3. CASE e > n
  <2>1. u = <<>>
    BY <1>0, <1>1, <1>3
  <2>2. OneLine(<<>>)
    BY DEF OneLine
  <2> QED
    BY <1>0, <2>1, <2>2 DEF Neat
<1> QED
  BY <1>0, <1>1, <1>2, <1>3

\* A neat line without its mark and the blanks behind it.
LEMMA DropMarkNeat ==
  ASSUME NEW t, NEW n, Neat(t)
  PROVE  Neat(DropMark(t, n))
<1>0. t \in Seq(Symbol)
  BY DEF Neat, OneLine
<1>1. CASE n \in 1 .. Len(t) - 1 /\ t[n + 1] \in Blank
  <2>1. PICK m, e : m = n + 1 /\ e = RunEnd(Blank, t, m)
    OBVIOUS
  <2>2. m \in Nat /\ 1 <= m /\ m <= Len(t) + 1
    BY <1>0, <1>1, <2>1
  <2>3. e \in Nat /\ m <= e /\ e <= Len(t) + 1 /\ (e <= Len(t) => t[e] \notin Blank)
    BY <1>0, <2>1, <2>2, RunEnds
  <2>4. 1 <= e
    BY <2>2, <2>3
  <2>5. DropMark(t, n) = SubSeq(t, e, Len(t))
    BY <1>1, <2>1 DEF DropMark
  <2> QED
    BY <2>3, <2>4, <2>5, NeatTail
<1>2. CASE ~(n \in 1 .. Len(t) - 1 /\ t[n + 1] \in Blank)
  BY <1>2 DEF DropMark
<1> QED
  BY <1>1, <1>2

\* A neat line without its prefixes.
LEMMA WithoutPrefixesNeat ==
  ASSUME NEW t, Neat(t)
  PROVE  Neat(WithoutPrefixes(t))
<1>1. Neat(DropHeading(t))
  <2>0. t \in Seq(Symbol)
    BY DEF Neat, OneLine
  <2>1. DropHeading(t) \in {t, SubSeq(t, RunEnd(Blank, t, 2), Len(t)), DropMark(t, RunEnd({Hash}, t, 1) - 1)}
    BY DEF DropHeading
  <2>2. CASE Holds(t, 1, {Slashes})
    <3>1. PICK e : e = RunEnd(Blank, t, 2)
      OBVIOUS
    <3>2. 2 \in Nat /\ 1 <= 2 /\ 2 <= Len(t) + 1
      BY <2>0, <2>2 DEF Holds
    <3>3. e \in Nat /\ 2 <= e /\ e <= Len(t) + 1 /\ (e <= Len(t) => t[e] \notin Blank)
      BY <2>0, <3>1, <3>2, RunEnds
    <3>4. 1 <= e
      BY <3>3
    <3>5. Neat(SubSeq(t, e, Len(t)))
      BY <3>3, <3>4, NeatTail
    <3> QED
      BY <2>1, <3>1, <3>5, DropMarkNeat
  <2>3. CASE ~Holds(t, 1, {Slashes})
    <3>1. DropHeading(t) \in {t, DropMark(t, RunEnd({Hash}, t, 1) - 1)}
      BY <2>3 DEF DropHeading
    <3> QED
      BY <3>1, DropMarkNeat
  <2> QED
    BY <2>2, <2>3
<1>2. ASSUME NEW u, NEW set, Neat(u) PROVE Neat(DropIf(u, set))
  <2>1. DropIf(u, set) \in {u, DropMark(u, 1)}
    BY DEF DropIf
  <2> QED
    BY <1>2, <2>1, DropMarkNeat
<1> QED
  BY <1>1, <1>2 DEF WithoutPrefixes

\* A neat line behind a neat text.
LEMMA MergedNeat ==
  ASSUME NEW t, NEW u, Neat(t), Neat(u)
  PROVE  Neat(Merged(t, u))
<1>1. PICK a, v : a = EnsureTerminalPunctuation(t) /\ v = a \o u
  OBVIOUS
<1>2. Merged(t, u) = v
  BY <1>1 DEF Merged
<1>3. Neat(a)
  <2>1. a = t \/ a = Append(t, Stop)
    BY <1>1 DEF EnsureTerminalPunctuation
  <2>2. CASE a = t
    BY <2>2
  <2>3. CASE a = Append(t, Stop)
    <3>1. t \in Seq(Symbol) /\ OneLine(t)
      BY DEF Neat, OneLine
    <3>2. PICK q : q = <<Stop>>
      OBVIOUS
    <3>3. Stop \in Symbol /\ Stop # Newline /\ Stop \notin Blank
      BY DEF Symbol, Blank, Stop, Newline, Space, Tab
    <3>4. q \in Seq(Symbol) /\ Len(q) = 1 /\ q[1] = Stop /\ q # <<>>
      BY <3>2, <3>3
    <3>5. OneLine(q)
      BY <3>3, <3>4 DEF OneLine
    <3>6. a = t \o q
      BY <2>3, <3>1, <3>2, <3>3
    <3>7. /\ OneLine(a) /\ a[Len(a)] = q[Len(q)] /\ (t = <<>> => a = q) /\ (t # <<>> => a[1] = t[1])
      <4>1. Joined(a, t, q)
        BY <3>1, <3>4, <3>6 DEF Joined
      <4> QED
        BY ONLY <3>1, <3>4, <3>5, <4>1, TwoTexts
    <3>8. a[1] \notin Blank
      BY <3>3, <3>4, <3>7 DEF Neat
    <3> QED
      BY <3>3, <3>4, <3>7, <3>8 DEF Neat
  <2> QED
    BY <2>1, <2>2, <2>3
<1>4. a \in Seq(Symbol) /\ u \in Seq(Symbol) /\ OneLine(a) /\ OneLine(u)
  BY <1>3 DEF Neat, OneLine
<1>5. /\ OneLine(v) /\ (a # <<>> => v[1] = a[1]) /\ (u # <<>> => v[Len(v)] = u[Len(u)])
      /\ (a = <<>> => v = u) /\ (u = <<>> => v = a)
  <2>1. Joined(v, a, u)
    BY <1>1, <1>4 DEF Joined
  <2> QED
    BY ONLY <1>4, <2>1, TwoTexts
<1> QED
  BY <1>2, <1>3, <1>5 DEF Neat

-----------------------------------------------------------------------------
(***************************************************************************)
(* What the second call does not change.                                   *)
(***************************************************************************)

\* A pass that copies every symbol leaves the text as it is.
LEMMA PassCopies ==
  ASSUME NEW name, NEW t, name \in Passes, t \in Seq(Symbol),
         \A i \in 1 .. Len(t) : Turn(name, t, i) = Copy(t, i)
  PROVE  Pass(name, t) = t
<1>0. PICK n : n = Len(t) /\ n \in Nat
  OBVIOUS
<1>1. PICK f : Rests(f, name, t) /\ Pass(name, t) = f[1]
  BY PassRests
<1> DEFINE S == {k \in 1 .. n + 1 : f[k] = SubSeq(t, k, n)}
<1>2. n + 1 \in S
  <2>1. f[n + 1] = <<>>
    BY <1>0, <1>1 DEF Rests
  <2>2. SubSeq(t, n + 1, n) = <<>> /\ n + 1 \in 1 .. n + 1
    BY <1>0
  <2> QED
    BY <2>1, <2>2
<1>3. ASSUME NEW k \in 1 .. n, \A j \in k + 1 .. n + 1 : j \in S PROVE k \in S
  <2>1. f[k] = <<t[k]>> \o f[k + 1]
    <3>1. f[k] = Turn(name, t, k).put \o f[Turn(name, t, k).next]
      BY <1>0, <1>1 DEF Rests
    <3>2. Turn(name, t, k).put = <<t[k]>> /\ Turn(name, t, k).next = k + 1
      BY <1>0 DEF Copy
    <3> QED
      BY <3>1, <3>2
  <2>2. f[k + 1] = SubSeq(t, k + 1, n)
    <3>1. k + 1 \in k + 1 .. n + 1
      BY <1>0
    <3> QED
      BY <1>3, <3>1
  <2>3. SubSeq(t, k, n) = <<t[k]>> \o SubSeq(t, k + 1, n)
    <3>1. k \in 1 .. Len(t) /\ n \in k .. Len(t)
      BY <1>0
    <3>2. k \in Nat /\ n \in Nat /\ k + 1 \in Nat /\ 1 <= k /\ k <= k + 1 /\ k + 1 <= n + 1 /\ n <= Len(t)
      BY <1>0
    <3>3. SubSeq(t, k, n) = SubSeq(t, k, (k + 1) - 1) \o SubSeq(t, k + 1, n)
      BY ONLY t \in Seq(Symbol), <3>2, PartSplit
    <3>4. SubSeq(t, k, (k + 1) - 1) = <<t[k]>>
      <4>1. (k + 1) - 1 = k
        BY <3>2
      <4>2. SubSeq(t, k, k) = <<t[k]>>
        BY <3>1, OneSymbol
      <4> QED
        BY <4>1, <4>2
    <3> QED
      BY <3>3, <3>4
  <2>4. k \in 1 .. n + 1
    BY <1>0
  <2> QED
    BY <2>1, <2>2, <2>3, <2>4
<1>4. 1 \in S
  <2> HIDE DEF S
  <2>1. 1 \in 1 .. n + 1
    BY <1>0
  <2> QED
    BY <1>0, <1>2, <1>3, <2>1, DownInduction
<1>5. SubSeq(t, 1, n) = t
  BY <1>0, SubSeqFull
<1> QED
  BY <1>1, <1>4, <1>5

\* nothing in t that a pass rewrites
Rested(t) == MarksGone(t) /\ \A kind \in DOMAIN Opener : ~Pair(kind, t)

\* Where there is no arrow, none is found.
LEMMA NoAsciiArrow ==
  ASSUME NEW t, NEW i, t \in Seq(Symbol), i \in 1 .. Len(t), MarksGone(t)
  PROVE  AsciiArrow(t, i) = Copy(t, i)
<1>0. ~Adjacent(t, {Less}, Shaft) /\ ~Adjacent(t, Shaft, {Greater})
  BY DEF MarksGone
<1>1. PICK a, e, n : a = RunEnd(Blank, t, i) /\ e = AsciiArrowEnd(t, a) /\ n = Len(t)
  OBVIOUS
<1>2. i \in Nat /\ 1 <= i /\ i <= Len(t) + 1 /\ n \in Nat
  BY <1>1
<1>3. a \in Nat /\ 1 <= a /\ a <= n + 1
  <2>1. a \in Nat /\ i <= a /\ a <= n + 1
    BY <1>1, <1>2, RunEnds
  <2> QED
    BY <1>2, <2>1
<1>4. e = 0
  <2>1. CASE Holds(t, a, {Less})
    <3>1. a \in 1 .. n /\ t[a] = Less
      BY <1>1, <2>1 DEF Holds
    <3>2. PICK b : b = a + 1 /\ b \in Nat /\ 1 <= b /\ b <= n + 1
      BY <1>2, <3>1
    <3>3. RunEnd(Shaft, t, b) = b
      <4>1. CASE b = n + 1
        <5>1. RunEnd(Shaft, t, b) \in Nat /\ b <= RunEnd(Shaft, t, b) /\ RunEnd(Shaft, t, b) <= Len(t) + 1
          BY <1>1, <3>2, RunEnds
        <5> QED
          BY <1>1, <1>2, <4>1, <5>1
      <4>2. CASE b # n + 1
        <5>1. b \in 1 .. Len(t) /\ a \in 1 .. Len(t) - 1
          BY <1>1, <1>2, <3>1, <3>2, <4>2
        <5>2. t[b] \notin Shaft
          BY <1>0, <3>1, <3>2, <5>1 DEF Adjacent
        <5> QED
          BY <5>1, <5>2, RunBegins
      <4> QED
        BY <4>1, <4>2
    <3>4. ~(b > b)
      BY <3>2
    <3> QED
      BY <1>1, <2>1, <3>2, <3>3, <3>4 DEF AsciiArrowEnd
  <2>2. CASE ~Holds(t, a, {Less})
    <3>1. PICK c : c = RunEnd(Shaft, t, a)
      OBVIOUS
    <3>2. c \in Nat /\ a <= c /\ c <= n + 1 /\ \A k \in a .. c - 1 : t[k] \in Shaft
      BY <1>1, <1>3, <3>1, RunEnds
    <3>3. ~(c > a /\ Holds(t, c, {Greater}))
      <4> SUFFICES ASSUME c > a, Holds(t, c, {Greater}) PROVE FALSE
        OBVIOUS
      <4>1. c \in 1 .. n /\ t[c] = Greater
        BY <1>1 DEF Holds
      <4>2. PICK d : d = c - 1
        OBVIOUS
      <4>3. d \in a .. c - 1 /\ d \in 1 .. n - 1 /\ d + 1 = c
        BY <1>2, <1>3, <3>2, <4>1, <4>2
      <4>4. t[d] \in Shaft /\ t[d + 1] \in {Greater}
        BY <3>2, <4>1, <4>3
      <4> QED
        BY <1>0, <1>1, <4>3, <4>4 DEF Adjacent
    <3>4. ~(a > a)
      BY <1>3
    <3> QED
      BY <1>1, <2>2, <3>1, <3>3, <3>4 DEF AsciiArrowEnd
  <2> QED
    BY <2>1, <2>2
<1> QED
  BY <1>1, <1>4 DEF AsciiArrow

\* So for the arrows of one symbol, and for dashes.
LEMMA NoWideArrow ==
  ASSUME NEW t, NEW i, t \in Seq(Symbol), i \in 1 .. Len(t), MarksGone(t)
  PROVE  WideArrow(t, i) = Copy(t, i)
<1>1. \A a : ~Holds(t, a, {Arrow})
  BY DEF MarksGone, Holds, Range
<1> QED
  BY <1>1 DEF WideArrow

\* Where no two dashes are, no long one is found.
LEMMA NoLongDash ==
  ASSUME NEW t, NEW i, t \in Seq(Symbol), i \in 1 .. Len(t), MarksGone(t)
  PROVE  LongDash(t, i) = Copy(t, i)
<1>0. ~Adjacent(t, Dashes, Dashes)
  BY DEF MarksGone
<1>1. PICK a, e, n : a = RunEnd(Blank, t, i) /\ e = RunEnd(Dashes, t, a) /\ n = Len(t)
  OBVIOUS
<1>2. i \in Nat /\ 1 <= i /\ i <= Len(t) + 1 /\ n \in Nat
  BY <1>1
<1>3. a \in Nat /\ 1 <= a /\ a <= n + 1
  <2>1. a \in Nat /\ i <= a /\ a <= n + 1
    BY <1>1, <1>2, RunEnds
  <2> QED
    BY <1>2, <2>1
<1>4. e \in Nat /\ a <= e /\ e <= n + 1 /\ \A k \in a .. e - 1 : t[k] \in Dashes
  BY <1>1, <1>3, RunEnds
<1>5. ~(e >= a + 2)
  <2> SUFFICES ASSUME e >= a + 2 PROVE FALSE
    OBVIOUS
  <2>1. a \in a .. e - 1 /\ a + 1 \in a .. e - 1 /\ a \in 1 .. n - 1
    BY <1>2, <1>3, <1>4
  <2>2. t[a] \in Dashes /\ t[a + 1] \in Dashes
    BY <1>4, <2>1
  <2> QED
    BY <1>0, <1>1, <2>1, <2>2 DEF Adjacent
<1> QED
  BY <1>1, <1>5 DEF LongDash

\* Where there is no pair of ASCII brackets, none is found.
LEMMA NoPair ==
  ASSUME NEW kind, NEW t, NEW i, t \in Seq(Symbol), i \in 1 .. Len(t), kind \in {"square", "curly"},
         ~Pair(kind, t)
  PROVE  PairEnd(kind, t, i) = 0
<1> DEFINE next == {j \in i + 1 .. Len(t) : t[j] \in {Opener[kind], Closer[kind]}}
<1>1. CASE t[i] = Opener[kind] /\ next # {} /\ Min(next) > i + 1 /\ t[Min(next)] = Closer[kind]
  <2>1. next \subseteq 1 .. Len(t) /\ Len(t) \in Nat
    OBVIOUS
  <2>2. PICK j : j = Min(next) /\ j \in next /\ \A x \in next : j <= x
    <3> HIDE DEF next
    <3> QED
      BY <1>1, <2>1, FirstAndLast
  <2>3. j \in i + 1 .. Len(t) /\ j > i + 1 /\ t[j] = Closer[kind]
    BY <1>1, <2>2
  <2>4. ASSUME NEW k \in i + 1 .. j - 1 PROVE t[k] \notin {Opener[kind], Closer[kind]}
    <3>1. k \in i + 1 .. Len(t) /\ ~(j <= k)
      BY <2>3
    <3>2. k \notin next
      BY <2>2, <3>1
    <3> QED
      BY <3>1, <3>2
  <2>5. i \in DOMAIN t /\ j \in DOMAIN t /\ i < j
    BY <2>3
  <2>6. t[i] = Opener[kind]
    BY <1>1
  <2> HIDE DEF next
  <2> QED
    BY <2>3, <2>4, <2>5, <2>6 DEF Pair
<1>2. CASE ~(t[i] = Opener[kind] /\ next # {} /\ Min(next) > i + 1 /\ t[Min(next)] = Closer[kind])
  BY <1>2 DEF PairEnd
<1> QED
  BY <1>1, <1>2

\* Where there is no pair of wide brackets, none is found.
LEMMA NoWidePair ==
  ASSUME NEW kind, NEW t, NEW i, t \in Seq(Symbol), i \in 1 .. Len(t), kind \in {"lenticular", "corner"},
         ~Pair(kind, t)
  PROVE  WideBracket(kind, t, i) = Copy(t, i)
<1>1. PICK start : start = RunEnd({Space}, t, i + 1)
  OBVIOUS
<1> DEFINE ends == {j \in start .. Len(t) : t[j] = Closer[kind]}
<1>2. ~(t[i] = Opener[kind] /\ ends # {})
  <2> SUFFICES ASSUME t[i] = Opener[kind], ends # {} PROVE FALSE
    OBVIOUS
  <2>1. i + 1 \in Nat /\ 1 <= i + 1 /\ i + 1 <= Len(t) + 1
    OBVIOUS
  <2>2. start \in Nat /\ i + 1 <= start
    BY <1>1, <2>1, RunEnds
  <2>3. PICK j : j \in start .. Len(t) /\ t[j] = Closer[kind]
    OBVIOUS
  <2>4. i \in DOMAIN t /\ j \in DOMAIN t /\ i < j
    BY <2>2, <2>3
  <2>5. kind \notin {"square", "curly"}
    OBVIOUS
  <2> QED
    BY <2>3, <2>4, <2>5 DEF Pair
<1> QED
  BY <1>1, <1>2 DEF WideBracket

\* A pass leaves a text as it is that has nothing to be rewritten.
LEMMA PassRested ==
  ASSUME NEW name, NEW t, name \in Passes, t \in Seq(Symbol), Rested(t)
  PROVE  Pass(name, t) = t
<1>1. name \in {"links", "arrows", "wide", "square", "curly", "lenticular", "corner", "arrows2",
                "wide2", "dashes"}
  BY DEF Passes, Following
<1>2. /\ MarksGone(t) /\ ~Pair("square", t) /\ ~Pair("curly", t) /\ ~Pair("lenticular", t)
      /\ ~Pair("corner", t)
  BY DEF Rested, Opener
<1>3. ASSUME NEW i \in 1 .. Len(t) PROVE Turn(name, t, i) = Copy(t, i)
  <2>1. CASE name = "links"
    <3>1. PairEnd("square", t, i) = 0
      BY <1>2, NoPair
    <3>2. Link(t, i) = Copy(t, i)
      BY <3>1 DEF Link
    <3> QED
      BY <2>1, <3>2 DEF Turn
  <2>2. CASE name \in {"arrows", "arrows2", "wide", "wide2", "dashes"}
    BY <1>2, <2>2, MarkTurns, NoAsciiArrow, NoWideArrow, NoLongDash
  <2>3. CASE name \in {"square", "curly"}
    <3>1. PairEnd(name, t, i) = 0
      BY <1>2, <2>3, NoPair
    <3>2. Bracket(name, t, i) = Copy(t, i)
      BY <3>1 DEF Bracket
    <3> QED
      BY <2>3, <3>2 DEF Turn
  <2>4. CASE name \in {"lenticular", "corner"}
    <3>1. WideBracket(name, t, i) = Copy(t, i)
      BY <1>2, <2>4, NoWidePair
    <3> QED
      BY <2>4, <3>1 DEF Turn
  <2> QED
    BY <1>1, <2>1, <2>2, <2>3, <2>4
<1> QED
  BY <1>3, PassCopies

\* A line that has no prefix keeps its beginning.
LEMMA NotPrefixed ==
  ASSUME NEW t, t \in Seq(Symbol), ~Prefixed(t)
  PROVE  WithoutPrefixes(t) = t
<1>1. PICK n : n = Cardinality({i \in DOMAIN t : \A k \in 1 .. i : t[k] = Hash})
  OBVIOUS
<1>2. RunEnd({Hash}, t, 1) = 1 + n
  <2>1. {j \in 1 .. Len(t) : \A k \in 1 .. j : t[k] \in {Hash}}
          = {i \in DOMAIN t : \A k \in 1 .. i : t[k] = Hash}
    OBVIOUS
  <2> QED
    BY <1>1, <2>1, Zenon DEF RunEnd
<1>3. 1 + n <= Len(t) + 1 /\ \A k \in 1 .. (1 + n) - 1 : t[k] \in {Hash}
  <2>1. 1 \in Nat /\ 1 <= 1 /\ 1 <= Len(t) + 1
    OBVIOUS
  <2> QED
    BY <1>2, <2>1, RunEnds
<1>4. n \in Nat
  <2>1. IsFiniteSet({i \in DOMAIN t : \A k \in 1 .. i : t[k] = Hash})
    <3>1. DOMAIN t = 1 .. Len(t) /\ 1 \in Int /\ Len(t) \in Int
      OBVIOUS
    <3>2. IsFiniteSet(DOMAIN t)
      BY <3>1, FS_Interval
    <3> QED
      BY <3>2, FS_Subset
  <2> QED
    BY <1>1, <2>1, FS_CardinalityType
<1>5. n > 0 => 1 \in DOMAIN t /\ t[1] = Hash
  <2>1. n > 0 => 1 \in 1 .. (1 + n) - 1 /\ 1 \in 1 .. Len(t)
    BY <1>3, <1>4
  <2> QED
    BY <1>3, <2>1
<1>6. Holds(t, 1, DOMAIN Rank) => ~(n <= 6 /\ (t[1] = Slashes \/ Holds(t, IF n = 0 THEN 2 ELSE n + 1, Blank)))
  BY <1>1 DEF Prefixed
<1>7. DOMAIN Rank = {Hash, Slashes, Greater, Hyphen, Star, Number}
  BY DEF Rank, Hash, Slashes, Greater, Hyphen, Star, Number
<1>8. /\ Hash \notin {Slashes, Greater, Hyphen, Star, Number}
  BY DEF Hash, Slashes, Greater, Hyphen, Star, Number
<1>9. DropHeading(t) = t
  <2>1. ~Holds(t, 1, {Slashes})
    <3> SUFFICES ASSUME Holds(t, 1, {Slashes}) PROVE FALSE
      OBVIOUS
    <3>1. t[1] = Slashes /\ Holds(t, 1, DOMAIN Rank)
      BY <1>7 DEF Holds
    <3>2. n = 0
      BY <1>4, <1>5, <1>8, <3>1
    <3> QED
      BY <1>6, <3>1, <3>2
  <2>2. (1 + n) - 1 = n
    BY <1>4
  <2>3. n \in 1 .. 6 => DropMark(t, n) = t
    <3> SUFFICES ASSUME n \in 1 .. 6, n \in 1 .. Len(t) - 1, t[n + 1] \in Blank PROVE FALSE
      BY DEF DropMark
    <3>1. n > 0 /\ n <= 6 /\ n # 0 /\ n + 1 \in DOMAIN t
      OBVIOUS
    <3>2. Holds(t, 1, DOMAIN Rank) /\ Holds(t, n + 1, Blank)
      BY <1>5, <1>7, <3>1 DEF Holds
    <3> QED
      BY <1>6, <3>1, <3>2
  <2> QED
    BY <1>2, <2>1, <2>2, <2>3 DEF DropHeading
<1>10. ASSUME NEW set, set \subseteq {Greater, Hyphen, Star, Number} PROVE DropIf(t, set) = t
  <2> SUFFICES ASSUME Holds(t, 1, set), 1 \in 1 .. Len(t) - 1, t[1 + 1] \in Blank PROVE FALSE
    BY DEF DropIf, DropMark
  <2>1. Holds(t, 1, DOMAIN Rank) /\ t[1] # Hash
    BY <1>7, <1>8, <1>10 DEF Holds
  <2>2. n = 0
    BY <1>4, <1>5, <2>1
  <2>3. Holds(t, 2, Blank)
    <3>1. 1 + 1 = 2 /\ 2 \in DOMAIN t
      OBVIOUS
    <3> QED
      BY <3>1 DEF Holds
  <2> QED
    BY <1>6, <2>1, <2>2, <2>3
<1>11. DropIf(t, {Greater}) = t /\ DropIf(t, {Hyphen, Star}) = t /\ DropIf(t, {Number}) = t
  BY <1>10
<1> QED
  BY <1>9, <1>11, Zenon DEF WithoutPrefixes

\* Nothing is put behind an empty text.
LEMMA NothingToMark == EnsureTerminalPunctuation(<<>>) = <<>>
<1>1. PICK u : u = [i \in DOMAIN <<>> |-> KindOf(<<>>[i])]
  OBVIOUS
<1>2. u = <<>>
  BY <1>1
<1>3. Punct!EnsureTerminalPunctuation(<<>>) = <<>>
  BY DEF Punct!EnsureTerminalPunctuation
<1>4. ~(Len(<<>>) > Len(<<>>))
  OBVIOUS
<1> QED
  BY <1>1, <1>2, <1>3, <1>4 DEF EnsureTerminalPunctuation

-----------------------------------------------------------------------------
(***************************************************************************)
(* The invariant over both calls: what the reading of lines has written is *)
(* neat, and a second call on a text with no prefix and no pair has all of *)
(* it before it, or all of it behind it.                                   *)
(***************************************************************************)
Unchanged(t) == ~Prefixed(t) /\ Rested(t)

RestInv ==
    /\ MarksInv
    /\ (stage = "links" /\ calls = 1) \/ Neat(s)
    /\ calls = 2 => Neat(input) /\ MarksGone(input)
    /\ calls = 2 /\ Unchanged(input) =>
          IF stage = "lines" THEN (s = <<>> /\ todo = input) \/ (s = input /\ todo = <<>>)
                             ELSE s = input

\* The part of a neat text up to the end of its line is all of it.
LEMMA WholeLine ==
  ASSUME NEW t, Neat(t), t # <<>>
  PROVE  /\ RunEnd(Symbol \ {Newline}, t, 1) = Len(t) + 1
         /\ Trim(Blank, t, 1, Len(t)) = t
<1>1. PICK n : n = Len(t)
  OBVIOUS
<1>2. t \in Seq(Symbol) /\ n \in Nat /\ n >= 1 /\ t[1] \notin Blank /\ t[n] \notin Blank
  BY <1>1 DEF Neat, OneLine
<1>3. RunEnd(Symbol \ {Newline}, t, 1) = n + 1
  <2>1. PICK e : e = RunEnd(Symbol \ {Newline}, t, 1)
    OBVIOUS
  <2>2. 1 \in Nat /\ 1 <= 1 /\ 1 <= Len(t) + 1
    BY <1>2
  <2>3. e \in Nat /\ 1 <= e /\ e <= n + 1 /\ (e <= n => t[e] \notin Symbol \ {Newline})
    BY <1>1, <1>2, <2>1, <2>2, RunEnds
  <2>4. e <= n => e \in 1 .. n
    BY <1>2, <2>3
  <2>5. e \in 1 .. n => t[e] \in Symbol /\ t[e] # Newline
    BY <1>1, <1>2 DEF Neat, OneLine
  <2>6. ~(e <= n)
    BY <2>3, <2>4, <2>5
  <2> QED
    BY <1>2, <2>1, <2>3, <2>6
<1>4. Trim(Blank, t, 1, n) = t
  <2>1. 1 \in Nat /\ n \in Nat /\ 1 <= 1 /\ n <= Len(t)
    BY <1>1, <1>2
  <2>2. 1 \in 1 .. n
    BY <1>2
  <2>3. Trim(Blank, t, 1, n) = SubSeq(t, 1, n)
    BY <1>2, <2>1, <2>2, TrimParts
  <2>4. SubSeq(t, 1, n) = t
    BY <1>1, <1>2, SubSeqFull
  <2> QED
    BY <2>3, <2>4
<1> QED
  BY <1>1, <1>3, <1>4

\* A line that is read, without its blanks at the ends, is neat.
LEMMA LineNeat ==
  ASSUME NEW t, NEW e, t \in Seq(Symbol), e = RunEnd(Symbol \ {Newline}, t, 1)
  PROVE  Neat(Trim(Blank, t, 1, e - 1))
<1>1. PICK n, b, u : n = Len(t) /\ b = e - 1 /\ u = Trim(Blank, t, 1, b)
  OBVIOUS
<1>2. 1 \in Nat /\ 1 <= 1 /\ 1 <= Len(t) + 1 /\ n \in Nat
  BY <1>1
<1>3. e \in Nat /\ 1 <= e /\ e <= n + 1 /\ \A k \in 1 .. e - 1 : t[k] \in Symbol \ {Newline}
  BY <1>1, <1>2, RunEnds
<1>4. 1 \in Nat /\ b \in Nat /\ 1 <= 1 /\ b <= Len(t)
  BY <1>1, <1>2, <1>3
<1>5. CASE u = <<>>
  <2>1. OneLine(<<>>)
    BY DEF OneLine
  <2> QED
    BY <1>1, <1>5, <2>1 DEF Neat
<1>6. CASE u # <<>>
  <2>1. PICK c, d \in 1 .. b : c <= d /\ u = SubSeq(t, c, d) /\ t[c] \notin Blank /\ t[d] \notin Blank
    <3>1. Trim(Blank, t, 1, b) # <<>>
      BY <1>1, <1>6
    <3>2. \E c, d \in 1 .. b : /\ c <= d /\ Trim(Blank, t, 1, b) = SubSeq(t, c, d)
                              /\ t[c] \notin Blank /\ t[d] \notin Blank
      BY ONLY t \in Seq(Symbol), <1>4, <3>1, TrimParts
    <3> QED
      BY <1>1, <3>2
  <2>2. c \in 1 .. Len(t) /\ d \in c .. Len(t)
    BY <1>4, <2>1
  <2>3. PartOf(u, t, c, d)
    BY <2>1, <2>2 DEF PartOf
  <2>4. u \in Seq(Symbol) /\ u[1] = t[c] /\ u[Len(u)] = t[d]
    BY ONLY <2>3, PartSymbols
  <2>5. OneLine(u)
    <3>1. PICK m : m = d - c + 1
      OBVIOUS
    <3>2. Len(u) = m /\ \A i \in 1 .. m : u[i] = t[c + i - 1]
      BY <2>1, <2>2, <3>1
    <3>3. \A i \in 1 .. m : c + i - 1 \in 1 .. e - 1
      BY <1>1, <1>3, <2>1, <3>1
    <3>4. \A i \in 1 .. m : u[i] # Newline
      BY <1>3, <3>2, <3>3
    <3> QED
      BY <2>4, <3>2, <3>4 DEF OneLine
  <2> QED
    BY <1>1, <2>1, <2>4, <2>5 DEF Neat
<1> QED
  BY <1>5, <1>6

\* Reading a line keeps the invariant.
LEMMA TakeLineRest == RestInv /\ MarksInv' /\ TakeLine => RestInv'
<1> SUFFICES ASSUME RestInv, MarksInv', TakeLine PROVE RestInv'
  OBVIOUS
<1>1. PICK e, line : e = LineEnd /\ line = Trim(Blank, todo, 1, e - 1)
  OBVIOUS
<1>2. /\ s' = IF line = <<>> THEN s ELSE Merged(s, WithoutPrefixes(line))
      /\ todo' = SubSeq(todo, e + 1, Len(todo)) /\ todo # <<>>
      /\ stage = "lines" /\ stage' = "lines" /\ input' = input /\ calls' = calls
  BY <1>1 DEF TakeLine
<1>3. todo \in Seq(Symbol) /\ Neat(s)
  BY <1>2 DEF RestInv, MarksInv, ContentInv, TypeOK
<1>4. Neat(line)
  BY <1>1, <1>3, LineNeat DEF LineEnd
<1>5. Neat(s')
  BY <1>2, <1>3, <1>4, WithoutPrefixesNeat, MergedNeat
<1>6. ASSUME calls = 2, Unchanged(input)
      PROVE  s' = input /\ todo' = <<>>
  <2>1. s = <<>> /\ todo = input /\ Neat(input) /\ input # <<>>
    BY <1>2, <1>6 DEF RestInv
  <2>2. e = Len(todo) + 1 /\ Trim(Blank, todo, 1, Len(todo)) = todo
    BY <1>1, <2>1, WholeLine DEF LineEnd
  <2>3. e - 1 = Len(todo) /\ Len(todo) \in Nat
    BY <1>3, <2>2
  <2>4. line = input
    BY <1>1, <2>1, <2>2, <2>3
  <2>5. WithoutPrefixes(input) = input /\ input \in Seq(Symbol)
    BY <1>3, <1>6, <2>1, NotPrefixed DEF Unchanged
  <2>6. Merged(<<>>, input) = input
    <3>1. <<>> \o input = input
      BY <2>5
    <3> QED
      BY <3>1, NothingToMark DEF Merged
  <2>7. s' = input
    BY <1>2, <2>1, <2>4, <2>5, <2>6
  <2>8. todo' = <<>>
    BY <1>2, <1>3, <2>2, <2>3
  <2> QED
    BY <2>7, <2>8
<1>7. calls' = 2 => Neat(input') /\ MarksGone(input')
  BY <1>2 DEF RestInv
<1> QED
  BY <1>2, <1>5, <1>6, <1>7 DEF RestInv

\* Every step keeps the invariant.
LEMMA NextRest == RestInv /\ [Next]_vars => RestInv'
<1> SUFFICES ASSUME RestInv, [Next]_vars PROVE RestInv'
  OBVIOUS
<1>1. MarksInv /\ MarksInv' /\ s \in Seq(Symbol) /\ input \in Seq(Symbol)
  BY NextMarks DEF RestInv, MarksInv, ContentInv, TypeOK
<1>2. CASE RewriteLinks
  <2>1. /\ stage = "links" /\ stage' = "lines" /\ todo' = Pass("links", s) /\ s' = <<>>
        /\ input' = input /\ calls' = calls
    BY <1>2 DEF RewriteLinks
  <2>2. Neat(<<>>)
    BY DEF Neat, OneLine
  <2>3. ASSUME calls = 2, Unchanged(input) PROVE todo' = input
    <3>1. s = input /\ Rested(s)
      BY <2>1, <2>3 DEF RestInv, Unchanged
    <3>2. "links" \in Passes
      BY DEF Passes
    <3> QED
      BY <1>1, <2>1, <3>1, <3>2, PassRested
  <2>4. calls' = 2 => Neat(input') /\ MarksGone(input')
    BY <2>1 DEF RestInv
  <2> QED
    BY <1>1, <2>1, <2>2, <2>3, <2>4 DEF RestInv
<1>3. CASE TakeLine
  BY <1>1, <1>3, TakeLineRest
<1>4. CASE EndOfLines
  <2>1. /\ stage = "lines" /\ stage' = "arrows" /\ todo = <<>> /\ s' = s /\ todo' = todo
        /\ input' = input /\ calls' = calls
    BY <1>4 DEF EndOfLines
  <2>2. Neat(s')
    BY <2>1 DEF RestInv
  <2>3. ASSUME calls = 2, Unchanged(input) PROVE s' = input
    BY <2>1, <2>3 DEF RestInv
  <2>4. calls' = 2 => Neat(input') /\ MarksGone(input')
    BY <2>1 DEF RestInv
  <2> QED
    BY <1>1, <2>1, <2>2, <2>3, <2>4 DEF RestInv
<1>5. CASE Rewrite
  <2>1. /\ stage \in DOMAIN Following /\ s' = Pass(stage, s) /\ stage' = Following[stage]
        /\ input' = input /\ calls' = calls
    BY <1>5 DEF Rewrite
  <2>2. stage \notin {"links", "lines"} /\ stage' \notin {"links", "lines"}
    BY <2>1 DEF Following
  <2>3. Neat(s')
    BY <2>1, <2>2, PassNeat DEF RestInv
  <2>4. ASSUME calls = 2, Unchanged(input) PROVE s' = input
    <3>1. s = input /\ Rested(s) /\ stage \in Passes
      BY <2>1, <2>2, <2>4 DEF RestInv, Unchanged, Passes
    <3> QED
      BY <1>1, <2>1, <3>1, PassRested
  <2>5. calls' = 2 => Neat(input') /\ MarksGone(input')
    BY <2>1 DEF RestInv
  <2> QED
    BY <1>1, <2>1, <2>2, <2>3, <2>4, <2>5 DEF RestInv
<1>6. CASE RunAgain
  <2>1. /\ stage = "done" /\ stage' = "links" /\ input' = s /\ calls' = 2 /\ s' = s
    BY <1>6 DEF RunAgain
  <2>2. Neat(s) /\ MarksGone(s)
    BY <2>1 DEF RestInv, MarksInv
  <2> QED
    BY <1>1, <2>1, <2>2 DEF RestInv
<1>7. CASE UNCHANGED vars \/ Finished
  <2>1. stage' = stage /\ s' = s /\ todo' = todo /\ input' = input /\ calls' = calls
    BY <1>7 DEF Finished, vars
  <2> QED
    BY <1>1, <2>1 DEF RestInv
<1> QED
  BY <1>2, <1>3, <1>4, <1>5, <1>6, <1>7 DEF Next

(***************************************************************************)
(* Whatever the text, the second call, in Post, changes it only if the     *)
(* first one left a prefix or a pair of brackets: arrows, dashes, links,   *)
(* line ends and the marks between lines are settled by the first call.    *)
(***************************************************************************)
THEOREM ChangedOnlyByTheRest == Spec => []ChangedOnlyByRest
<1>1. Init => RestInv
  <2> SUFFICES ASSUME Init PROVE RestInv
    OBVIOUS
  <2>1. MarksInv
    BY InitContent DEF Init, MarksInv
  <2> QED
    BY <2>1 DEF Init, RestInv
<1>2. RestInv => ChangedOnlyByRest
  <2> SUFFICES ASSUME RestInv, stage = "done", calls = 2, s # input,
                      ~Prefixed(input), \A kind \in DOMAIN Opener : ~Pair(kind, input)
               PROVE  FALSE
    BY DEF ChangedOnlyByRest
  <2>1. Unchanged(input)
    BY DEF RestInv, Unchanged, Rested
  <2> QED
    BY <2>1 DEF RestInv
<1> QED
  BY <1>1, <1>2, NextRest, PTL DEF Spec
-----------------------------------------------------------------------------
(***************************************************************************)
(* The brackets of one kind in a text.                                     *)
(***************************************************************************)
Holding(t, x)    == \E i \in 1 .. Len(t) : t[i] = x
Ordered(t, x, y) == \E i, j \in 1 .. Len(t) : i < j /\ t[i] = x /\ t[j] = y

Opens(kind, t)      == Holding(t, Opener[kind])
Closes(kind, t)     == Holding(t, Closer[kind])
OpensTwice(kind, t) == Ordered(t, Opener[kind], Opener[kind])
Encloses(kind, t)   == Ordered(t, Opener[kind], Closer[kind])

\* u has no brackets that t does not have in the same order
NoMore(kind, u, t) ==
    /\ Opens(kind, u) => Opens(kind, t)
    /\ Closes(kind, u) => Closes(kind, t)
    /\ OpensTwice(kind, u) => OpensTwice(kind, t)
    /\ Encloses(kind, u) => Encloses(kind, t)
    /\ Nested(kind, u) => Nested(kind, t)

\* The symbols of two texts behind each other, and their order.
LEMMA SymbolsOfTwo ==
  ASSUME NEW a, NEW b, NEW u, Joined(u, a, b)
  PROVE  /\ \A z : Holding(u, z) <=> Holding(a, z) \/ Holding(b, z)
         /\ \A z, w : Ordered(u, z, w) <=> Ordered(a, z, w) \/ Ordered(b, z, w)
                                            \/ (Holding(a, z) /\ Holding(b, w))
<1>0. a \in Seq(Symbol) /\ b \in Seq(Symbol) /\ u = a \o b
  BY DEF Joined
<1>1. PICK m, n : m = Len(a) /\ n = Len(b)
  OBVIOUS
<1>2. m \in Nat /\ n \in Nat /\ Len(u) = m + n /\ Len(a) = m /\ Len(b) = n
  BY <1>0, <1>1
<1>3. \A i \in 1 .. m : i \in 1 .. m + n /\ u[i] = a[i]
  BY <1>0, <1>1
<1>4. \A i \in 1 .. n : m + i \in 1 .. m + n /\ u[m + i] = b[i]
  BY <1>0, <1>1
<1>5. \A i \in 1 .. m + n : i > m => i - m \in 1 .. n /\ u[i] = b[i - m]
  BY <1>0, <1>1
<1>6. \A i \in 1 .. m + n : ~(i > m) => i \in 1 .. m /\ u[i] = a[i]
  BY <1>0, <1>1
<1>8. ASSUME NEW z
      PROVE  Holding(u, z) <=> Holding(a, z) \/ Holding(b, z)
  <2>1. ASSUME NEW i \in 1 .. m + n, u[i] = z
        PROVE  (\E l \in 1 .. m : a[l] = z) \/ (\E l \in 1 .. n : b[l] = z)
    BY ONLY <1>2, <1>5, <1>6, <2>1
  <2>2. ASSUME NEW i \in 1 .. m, a[i] = z PROVE \E l \in 1 .. m + n : u[l] = z
    <3>1. i \in 1 .. m + n /\ ~(i > m) /\ u[i] = z
      BY ONLY <1>2, <1>3, <2>2
    <3> QED
      BY <3>1
  <2>3. ASSUME NEW i \in 1 .. n, b[i] = z PROVE \E l \in 1 .. m + n : u[l] = z
    <3>1. m + i \in 1 .. m + n /\ m + i > m /\ u[m + i] = z
      BY ONLY <1>2, <1>4, <2>3
    <3> QED
      BY <3>1
  <2> QED
    BY ONLY <1>2, <2>1, <2>2, <2>3 DEF Holding
<1>9. ASSUME NEW z, NEW w
      PROVE  Ordered(u, z, w) <=> \/ Ordered(a, z, w) \/ Ordered(b, z, w)
                                  \/ Holding(a, z) /\ Holding(b, w)
  <2>1. ASSUME NEW i \in 1 .. m + n, NEW j \in 1 .. m + n, i < j, u[i] = z, u[j] = w
        PROVE  \/ \E k, l \in 1 .. m : k < l /\ a[k] = z /\ a[l] = w
               \/ \E k, l \in 1 .. n : k < l /\ b[k] = z /\ b[l] = w
               \/ (\E k \in 1 .. m : a[k] = z) /\ (\E k \in 1 .. n : b[k] = w)
    <3>1. CASE i > m
      <4>1. j > m /\ i - m < j - m
        BY ONLY <1>2, <2>1, <3>1
      <4>2. i - m \in 1 .. n /\ j - m \in 1 .. n /\ b[i - m] = z /\ b[j - m] = w
        BY ONLY <1>5, <2>1, <3>1, <4>1
      <4> QED
        BY <4>1, <4>2
    <3>2. CASE ~(j > m)
      <4>1. ~(i > m)
        BY ONLY <1>2, <2>1, <3>2
      <4>2. i \in 1 .. m /\ j \in 1 .. m /\ a[i] = z /\ a[j] = w
        BY ONLY <1>6, <2>1, <3>2, <4>1
      <4> QED
        BY <2>1, <4>2
    <3>3. CASE ~(i > m) /\ j > m
      <4>1. i \in 1 .. m /\ a[i] = z /\ j - m \in 1 .. n /\ b[j - m] = w
        BY ONLY <1>5, <1>6, <2>1, <3>3
      <4> QED
        BY <4>1
    <3> QED
      BY <3>1, <3>2, <3>3
  <2>2. ASSUME NEW i \in 1 .. m, NEW j \in 1 .. m, i < j, a[i] = z, a[j] = w
        PROVE  \E k, l \in 1 .. m + n : k < l /\ u[k] = z /\ u[l] = w
    <3>1. i \in 1 .. m + n /\ j \in 1 .. m + n /\ ~(j > m) /\ u[i] = z /\ u[j] = w
      BY ONLY <1>2, <1>3, <2>2
    <3> QED
      BY <2>2, <3>1
  <2>3. ASSUME NEW i \in 1 .. n, NEW j \in 1 .. n, i < j, b[i] = z, b[j] = w
        PROVE  \E k, l \in 1 .. m + n : k < l /\ u[k] = z /\ u[l] = w
    <3>1. PICK k, l : k = m + i /\ l = m + j
      OBVIOUS
    <3>2. k \in 1 .. m + n /\ l \in 1 .. m + n /\ k < l /\ k > m /\ u[k] = z /\ u[l] = w
      BY ONLY <1>2, <1>4, <2>3, <3>1
    <3> QED
      BY <3>2
  <2>4. ASSUME NEW i \in 1 .. m, NEW j \in 1 .. n, a[i] = z, b[j] = w
        PROVE  \E k, l \in 1 .. m + n : k < l /\ u[k] = z /\ u[l] = w
    <3>1. PICK l : l = m + j
      OBVIOUS
    <3>2. i \in 1 .. m + n /\ l \in 1 .. m + n /\ i < l /\ u[i] = z /\ u[l] = w
      BY ONLY <1>2, <1>3, <1>4, <2>4, <3>1
    <3> QED
      BY <3>2
  <2> QED
    BY ONLY <1>2, <2>1, <2>2, <2>3, <2>4 DEF Ordered, Holding
<1> QED
  BY <1>8, <1>9

\* The brackets of two texts behind each other.
LEMMA BracketsOfTwo ==
  ASSUME NEW kind, NEW a, NEW b, NEW u, a \in Seq(Symbol), b \in Seq(Symbol), u = a \o b
  PROVE  /\ Opens(kind, u) <=> Opens(kind, a) \/ Opens(kind, b)
         /\ Closes(kind, u) <=> Closes(kind, a) \/ Closes(kind, b)
         /\ OpensTwice(kind, u) <=> \/ OpensTwice(kind, a) \/ OpensTwice(kind, b)
                                    \/ Opens(kind, a) /\ Opens(kind, b)
         /\ Encloses(kind, u) <=> \/ Encloses(kind, a) \/ Encloses(kind, b)
                                  \/ Opens(kind, a) /\ Closes(kind, b)
         /\ Nested(kind, u) <=> \/ Nested(kind, a) \/ Nested(kind, b)
                                \/ Opens(kind, a) /\ Encloses(kind, b)
                                \/ OpensTwice(kind, a) /\ Closes(kind, b)
<1>1. PICK m, n, x, y : m = Len(a) /\ n = Len(b) /\ x = Opener[kind] /\ y = Closer[kind]
  OBVIOUS
<1>2. m \in Nat /\ n \in Nat /\ Len(u) = m + n /\ Len(a) = m /\ Len(b) = n
  BY <1>1
<1>3. \A i \in 1 .. m : i \in 1 .. m + n /\ u[i] = a[i]
  BY <1>1
<1>4. \A i \in 1 .. n : m + i \in 1 .. m + n /\ u[m + i] = b[i]
  BY <1>1
<1>5. \A i \in 1 .. m + n : i > m => i - m \in 1 .. n /\ u[i] = b[i - m]
  BY <1>1
<1>6. \A i \in 1 .. m + n : ~(i > m) => i \in 1 .. m /\ u[i] = a[i]
  BY <1>1
<1>7. DOMAIN u = 1 .. m + n /\ DOMAIN a = 1 .. m /\ DOMAIN b = 1 .. n
  BY <1>1, <1>2
<1>0. Joined(u, a, b)
  BY DEF Joined
<1>8. \A z : Holding(u, z) <=> Holding(a, z) \/ Holding(b, z)
  BY <1>0, SymbolsOfTwo
<1>9. \A z, w : Ordered(u, z, w) <=> Ordered(a, z, w) \/ Ordered(b, z, w)
                                      \/ (Holding(a, z) /\ Holding(b, w))
  BY <1>0, SymbolsOfTwo
<1>10. /\ Opens(kind, u) <=> Opens(kind, a) \/ Opens(kind, b)
       /\ Closes(kind, u) <=> Closes(kind, a) \/ Closes(kind, b)
  BY <1>8 DEF Opens, Closes
<1>11. OpensTwice(kind, u) <=> \/ OpensTwice(kind, a) \/ OpensTwice(kind, b)
                               \/ Opens(kind, a) /\ Opens(kind, b)
  BY <1>9 DEF OpensTwice, Opens
<1>12. Encloses(kind, u) <=> \/ Encloses(kind, a) \/ Encloses(kind, b)
                             \/ Opens(kind, a) /\ Closes(kind, b)
  BY <1>9 DEF Encloses, Opens, Closes
<1>13. Nested(kind, u) => \/ Nested(kind, a) \/ Nested(kind, b)
                          \/ Opens(kind, a) /\ Encloses(kind, b)
                          \/ OpensTwice(kind, a) /\ Closes(kind, b)
  <2> SUFFICES ASSUME NEW i \in 1 .. m + n, NEW j \in 1 .. m + n, NEW k \in 1 .. m + n,
                      i < j, j < k, u[i] = x, u[j] = x, u[k] = y
               PROVE  \/ Nested(kind, a) \/ Nested(kind, b)
                      \/ Opens(kind, a) /\ Encloses(kind, b)
                      \/ OpensTwice(kind, a) /\ Closes(kind, b)
    BY <1>1, <1>7 DEF Nested
  <2>1. CASE ~(k > m)
    <3>1. ~(i > m) /\ ~(j > m)
      BY <1>2, <2>1
    <3>2. Nested(kind, a)
      BY <1>1, <1>6, <1>7, <2>1, <3>1 DEF Nested
    <3> QED
      BY <3>2
  <2>2. CASE k > m /\ ~(j > m)
    <3>1. ~(i > m)
      BY <1>2, <2>2
    <3>2. OpensTwice(kind, a) /\ Closes(kind, b)
      BY <1>1, <1>5, <1>6, <2>2, <3>1 DEF OpensTwice, Closes, Ordered, Holding
    <3> QED
      BY <3>2
  <2>3. CASE j > m /\ ~(i > m)
    <3>1. k > m /\ j - m < k - m
      BY <1>2, <2>3
    <3>2. Opens(kind, a) /\ Encloses(kind, b)
      BY <1>1, <1>5, <1>6, <2>3, <3>1 DEF Opens, Encloses, Ordered, Holding
    <3> QED
      BY <3>2
  <2>4. CASE i > m
    <3>1. j > m /\ k > m /\ i - m < j - m /\ j - m < k - m
      BY <1>2, <2>4
    <3>2. Nested(kind, b)
      <4>1. PICK q, r, v : q = i - m /\ r = j - m /\ v = k - m
        OBVIOUS
      <4>2. /\ q \in DOMAIN b /\ r \in DOMAIN b /\ v \in DOMAIN b
            /\ b[q] = x /\ b[r] = x /\ b[v] = y /\ q < r /\ r < v
        BY <1>5, <1>7, <2>4, <3>1, <4>1
      <4> QED
        BY ONLY <1>1, <4>2 DEF Nested
    <3> QED
      BY <3>2
  <2> QED
    BY <1>2, <2>1, <2>2, <2>3, <2>4
<1>14. Nested(kind, a) => Nested(kind, u)
  <2> SUFFICES ASSUME NEW i \in 1 .. m, NEW j \in 1 .. m, NEW k \in 1 .. m,
                      i < j, j < k, a[i] = x, a[j] = x, a[k] = y
               PROVE  Nested(kind, u)
    BY <1>1, <1>7 DEF Nested
  <2>1. /\ i \in DOMAIN u /\ j \in DOMAIN u /\ k \in DOMAIN u
        /\ u[i] = x /\ u[j] = x /\ u[k] = y /\ i < j /\ j < k
    BY <1>3, <1>7
  <2> QED
    BY ONLY <1>1, <2>1 DEF Nested
<1>15. Nested(kind, b) => Nested(kind, u)
  <2> SUFFICES ASSUME NEW i \in 1 .. n, NEW j \in 1 .. n, NEW k \in 1 .. n,
                      i < j, j < k, b[i] = x, b[j] = x, b[k] = y
               PROVE  Nested(kind, u)
    BY <1>1, <1>7 DEF Nested
  <2>1. PICK q, r, v : q = m + i /\ r = m + j /\ v = m + k
    OBVIOUS
  <2>2. q < r /\ r < v
    BY <1>2, <2>1
  <2>3. /\ q \in DOMAIN u /\ r \in DOMAIN u /\ v \in DOMAIN u
        /\ u[q] = x /\ u[r] = x /\ u[v] = y
    BY <1>4, <1>7, <2>1
  <2> QED
    BY ONLY <1>1, <2>2, <2>3 DEF Nested
<1>16. Opens(kind, a) /\ Encloses(kind, b) => Nested(kind, u)
  <2> SUFFICES ASSUME NEW i \in 1 .. m, a[i] = x,
                      NEW j \in 1 .. n, NEW k \in 1 .. n, j < k, b[j] = x, b[k] = y
               PROVE  Nested(kind, u)
    BY <1>1 DEF Opens, Encloses, Ordered, Holding
  <2>1. PICK r, v : r = m + j /\ v = m + k
    OBVIOUS
  <2>2. i < r /\ r < v
    BY <1>2, <2>1
  <2>3. /\ i \in DOMAIN u /\ r \in DOMAIN u /\ v \in DOMAIN u
        /\ u[i] = x /\ u[r] = x /\ u[v] = y
    BY <1>3, <1>4, <1>7, <2>1
  <2> QED
    BY ONLY <1>1, <2>2, <2>3 DEF Nested
<1>17. OpensTwice(kind, a) /\ Closes(kind, b) => Nested(kind, u)
  <2> SUFFICES ASSUME NEW i \in 1 .. m, NEW j \in 1 .. m, i < j, a[i] = x, a[j] = x,
                      NEW k \in 1 .. n, b[k] = y
               PROVE  Nested(kind, u)
    BY <1>1 DEF OpensTwice, Closes, Ordered, Holding
  <2>1. PICK v : v = m + k
    OBVIOUS
  <2>2. i < j /\ j < v
    BY <1>2, <2>1
  <2>3. /\ i \in DOMAIN u /\ j \in DOMAIN u /\ v \in DOMAIN u
        /\ u[i] = x /\ u[j] = x /\ u[v] = y
    BY <1>3, <1>4, <1>7, <2>1
  <2> QED
    BY ONLY <1>1, <2>2, <2>3 DEF Nested
<1> QED
  BY <1>10, <1>11, <1>12, <1>13, <1>14, <1>15, <1>16, <1>17

\* Texts behind each other have no more brackets when each has no more.
LEMMA NoMoreTwo ==
  ASSUME NEW kind, NEW a, NEW b, NEW c, NEW d, a \in Seq(Symbol), b \in Seq(Symbol),
         c \in Seq(Symbol), d \in Seq(Symbol), NoMore(kind, a, c), NoMore(kind, b, d)
  PROVE  NoMore(kind, a \o b, c \o d)
<1>1. PICK u, t : u = a \o b /\ t = c \o d
  OBVIOUS
<1>2. NoMore(kind, u, t)
  <2>1. /\ Opens(kind, u) <=> Opens(kind, a) \/ Opens(kind, b)
        /\ Closes(kind, u) <=> Closes(kind, a) \/ Closes(kind, b)
        /\ OpensTwice(kind, u) <=> \/ OpensTwice(kind, a) \/ OpensTwice(kind, b)
                                   \/ Opens(kind, a) /\ Opens(kind, b)
        /\ Encloses(kind, u) <=> \/ Encloses(kind, a) \/ Encloses(kind, b)
                                 \/ Opens(kind, a) /\ Closes(kind, b)
        /\ Nested(kind, u) <=> \/ Nested(kind, a) \/ Nested(kind, b)
                               \/ Opens(kind, a) /\ Encloses(kind, b)
                               \/ OpensTwice(kind, a) /\ Closes(kind, b)
    BY <1>1, BracketsOfTwo
  <2>2. /\ Opens(kind, t) <=> Opens(kind, c) \/ Opens(kind, d)
        /\ Closes(kind, t) <=> Closes(kind, c) \/ Closes(kind, d)
        /\ OpensTwice(kind, t) <=> \/ OpensTwice(kind, c) \/ OpensTwice(kind, d)
                                   \/ Opens(kind, c) /\ Opens(kind, d)
        /\ Encloses(kind, t) <=> \/ Encloses(kind, c) \/ Encloses(kind, d)
                                 \/ Opens(kind, c) /\ Closes(kind, d)
        /\ Nested(kind, t) <=> \/ Nested(kind, c) \/ Nested(kind, d)
                               \/ Opens(kind, c) /\ Encloses(kind, d)
                               \/ OpensTwice(kind, c) /\ Closes(kind, d)
    BY <1>1, BracketsOfTwo
  <2> QED
    BY <2>1, <2>2 DEF NoMore
<1> QED
  BY <1>1, <1>2

\* the symbols that are no brackets
Plain == Symbol \ (Openers \cup Closers)

\* The brackets are symbols, and the marks and blanks are not brackets.
LEMMA PlainSymbols ==
  /\ Blank \subseteq Plain /\ Shaft \subseteq Plain /\ Dashes \subseteq Plain
  /\ {Space, Less, Greater, Arrow, Quote, Comma, Stop, Url, LinkUrl} \subseteq Plain
  /\ \A kind \in DOMAIN Opener :
        /\ Opener[kind] \in Symbol /\ Closer[kind] \in Symbol
        /\ Opener[kind] \notin Plain /\ Closer[kind] \notin Plain
  /\ \A k, l \in DOMAIN Opener : Opener[k] # Closer[l] /\ (k # l => Opener[k] # Opener[l])
  /\ \A k, l \in DOMAIN Opener : k # l => Closer[k] # Closer[l]
  /\ DOMAIN Opener = {"square", "curly", "lenticular", "corner"}
<1>1. DOMAIN Opener = {"square", "curly", "lenticular", "corner"}
  BY DEF Opener
<1>2. /\ Opener["square"] = "[" /\ Opener["curly"] = "{" /\ Opener["lenticular"] = "L"
      /\ Opener["corner"] = "C" /\ Closer["square"] = "]" /\ Closer["curly"] = "}"
      /\ Closer["lenticular"] = "l" /\ Closer["corner"] = "c"
  BY DEF Opener, Closer
<1>3. Openers = {"[", "{", "L", "C"}
  BY <1>1, <1>2 DEF Openers, Range
<1>4. Closers = {"]", "}", "l", "c"}
  <2>1. DOMAIN Closer = {"square", "curly", "lenticular", "corner"}
    BY DEF Closer
  <2> QED
    BY <1>2, <2>1 DEF Closers, Range
<1>5. /\ Blank \subseteq Plain /\ Shaft \subseteq Plain /\ Dashes \subseteq Plain
      /\ {Space, Less, Greater, Arrow, Quote, Comma, Stop, Url, LinkUrl} \subseteq Plain
  BY <1>3, <1>4 DEF Plain, Symbol, Blank, Shaft, Dashes, Space, Tab, Hyphen, Equal, Dash, Less,
                    Greater, Arrow, Quote, Comma, Stop, Url, LinkUrl
<1>6. \A kind \in DOMAIN Opener :
        /\ Opener[kind] \in Symbol /\ Closer[kind] \in Symbol
        /\ Opener[kind] \notin Plain /\ Closer[kind] \notin Plain
  BY <1>1, <1>2, <1>3, <1>4 DEF Plain, Symbol
<1>7. \A k, l \in DOMAIN Opener : Opener[k] # Closer[l] /\ (k # l => Opener[k] # Opener[l])
  BY <1>1, <1>2
<1>8. \A k, l \in DOMAIN Opener : k # l => Closer[k] # Closer[l]
  BY <1>1, <1>2
<1> QED
  BY <1>1, <1>5, <1>6, <1>7, <1>8

\* A text without brackets has no more than any other.
LEMMA PlainNoMore ==
  ASSUME NEW kind \in DOMAIN Opener, NEW u, NEW t, u \in Seq(Plain)
  PROVE  NoMore(kind, u, t) /\ ~Opens(kind, u) /\ ~Closes(kind, u) /\ u \in Seq(Symbol)
<1>1. \A i \in 1 .. Len(u) : u[i] # Opener[kind] /\ u[i] # Closer[kind]
  BY PlainSymbols
<1>2. DOMAIN u = 1 .. Len(u)
  OBVIOUS
<1>3. u \in Seq(Symbol)
  BY DEF Plain
<1> QED
  BY <1>1, <1>2, <1>3 DEF NoMore, Opens, Closes, OpensTwice, Encloses, Nested, Ordered, Holding

\* To have no more brackets is transitive and reflexive.
LEMMA NoMoreOrder ==
  ASSUME NEW kind, NEW a, NEW b, NEW c
  PROVE  /\ NoMore(kind, a, a)
         /\ NoMore(kind, a, b) /\ NoMore(kind, b, c) => NoMore(kind, a, c)
BY DEF NoMore

\* A part of a text, and nothing else, has no more brackets than the text.
LEMMA PartNoMore ==
  ASSUME NEW kind \in DOMAIN Opener, NEW t, NEW a, NEW b, NEW c, NEW d, t \in Seq(Symbol),
         a \in Nat /\ b \in Nat /\ c \in Nat /\ d \in Nat,
         1 <= a /\ a <= c /\ c <= d + 1 /\ d <= b /\ b <= Len(t)
  PROVE  /\ NoMore(kind, SubSeq(t, c, d), SubSeq(t, a, b))
         /\ SubSeq(t, c, d) \in Seq(Symbol) /\ SubSeq(t, a, b) \in Seq(Symbol)
<1>1. PICK x, y, z, w : /\ x = SubSeq(t, a, c - 1) /\ y = SubSeq(t, c, d)
                        /\ z = SubSeq(t, d + 1, b) /\ w = SubSeq(t, c, b)
  OBVIOUS
<1>2. SubSeq(t, a, b) = x \o w /\ x \in Seq(Symbol) /\ w \in Seq(Symbol)
  <2>1. a \in Nat /\ b \in Nat /\ c \in Nat /\ 1 <= a /\ a <= c /\ c <= b + 1 /\ b <= Len(t)
    OBVIOUS
  <2>2. /\ SubSeq(t, a, b) = SubSeq(t, a, c - 1) \o SubSeq(t, c, b)
        /\ SubSeq(t, a, c - 1) \in Seq(Symbol) /\ SubSeq(t, c, b) \in Seq(Symbol)
    BY ONLY t \in Seq(Symbol), <2>1, PartSplit
  <2> QED
    BY <1>1, <2>2, Zenon
<1>3. w = y \o z /\ y \in Seq(Symbol) /\ z \in Seq(Symbol)
  <2>1. PICK m : m = d + 1
    OBVIOUS
  <2>2. /\ c \in Nat /\ b \in Nat /\ m \in Nat /\ 1 <= c /\ c <= m /\ m <= b + 1 /\ b <= Len(t)
        /\ m - 1 = d
    BY <2>1
  <2>3. /\ SubSeq(t, c, b) = SubSeq(t, c, m - 1) \o SubSeq(t, m, b)
        /\ SubSeq(t, c, m - 1) \in Seq(Symbol) /\ SubSeq(t, m, b) \in Seq(Symbol)
    BY ONLY t \in Seq(Symbol), <2>2, PartSplit
  <2> QED
    BY <1>1, <2>1, <2>2, <2>3
<1>4. <<>> \in Seq(Plain) /\ <<>> \in Seq(Symbol) /\ <<>> \o (y \o <<>>) = y
  BY <1>3
<1>5. NoMore(kind, y \o <<>>, y \o z)
  BY <1>3, <1>4, PlainNoMore, NoMoreOrder, NoMoreTwo
<1>6. NoMore(kind, <<>> \o (y \o <<>>), x \o (y \o z))
  <2>1. y \o <<>> \in Seq(Symbol) /\ y \o z \in Seq(Symbol) /\ NoMore(kind, <<>>, x)
    <3>1. y \o <<>> \in Seq(Symbol) /\ y \o z \in Seq(Symbol)
      BY <1>3
    <3> QED
      BY <1>4, <3>1, PlainNoMore
  <2> QED
    BY <1>2, <1>4, <1>5, <2>1, NoMoreTwo
<1>7. x \o w \in Seq(Symbol)
  BY <1>2
<1> QED
  BY <1>1, <1>2, <1>3, <1>4, <1>6, <1>7, Zenon
\* A part of a text between symbols that are no brackets.
LEMMA BetweenNoMore ==
  ASSUME NEW kind \in DOMAIN Opener, NEW t, NEW a, NEW b, NEW c, NEW d, NEW pre, NEW post,
         t \in Seq(Symbol), pre \in Seq(Plain), post \in Seq(Plain),
         a \in Nat /\ b \in Nat /\ c \in Nat /\ d \in Nat,
         1 <= a /\ a <= c /\ c <= d + 1 /\ d <= b /\ b <= Len(t)
  PROVE  NoMore(kind, pre \o SubSeq(t, c, d) \o post, SubSeq(t, a, b))
<1>1. PICK part, all : part = SubSeq(t, c, d) /\ all = SubSeq(t, a, b)
  OBVIOUS
<1>2. NoMore(kind, part, all) /\ part \in Seq(Symbol) /\ all \in Seq(Symbol)
  BY <1>1, PartNoMore
<1>3. /\ pre \in Seq(Symbol) /\ post \in Seq(Symbol) /\ NoMore(kind, pre, <<>>)
      /\ NoMore(kind, post, <<>>)
  BY PlainNoMore
<1>4. <<>> \in Seq(Symbol) /\ (<<>> \o all) \o <<>> = all
  BY <1>2
<1>5. NoMore(kind, pre \o part, <<>> \o all)
  BY <1>2, <1>3, <1>4, NoMoreTwo
<1>6. pre \o part \in Seq(Symbol) /\ <<>> \o all \in Seq(Symbol)
  BY <1>2, <1>3
<1>7. NoMore(kind, (pre \o part) \o post, (<<>> \o all) \o <<>>)
  BY <1>3, <1>4, <1>5, <1>6, NoMoreTwo
<1> QED
  BY <1>1, <1>4, <1>7, Zenon

\* What Trim leaves, and what it takes away.
LEMMA TrimmedPart ==
  ASSUME NEW set, NEW t, NEW a, NEW b, t \in Seq(Symbol),
         a \in Nat /\ b \in Nat /\ 1 <= a /\ a <= b + 1 /\ b <= Len(t)
  PROVE  \E c, d \in Nat :
            /\ a <= c /\ c <= d + 1 /\ d <= b
            /\ Trim(set, t, a, b) = SubSeq(t, c, d)
            /\ Trim(set, t, a, b) # <<>> => c <= d
            /\ \A k \in a .. b : k < c \/ k > d => t[k] \in set
<1> DEFINE inside == {i \in a .. b : t[i] \notin set}
<1>1. CASE inside = {}
  <2>1. Trim(set, t, a, b) = <<>>
    BY <1>1 DEF Trim
  <2>2. PICK d : d = a - 1
    OBVIOUS
  <2>3. d \in Nat /\ a <= a /\ a <= d + 1 /\ d <= b /\ SubSeq(t, a, d) = <<>>
    BY <2>2
  <2>4. \A k \in a .. b : t[k] \in set
    BY <1>1
  <2> HIDE DEF inside
  <2> QED
    BY <2>1, <2>3, <2>4
<1>2. CASE inside # {}
  <2>1. PICK c, d : c = Min(inside) /\ d = Max(inside)
    OBVIOUS
  <2>2. inside \subseteq 1 .. b
    OBVIOUS
  <2>3. /\ c \in inside /\ \A x \in inside : c <= x
        /\ d \in inside /\ \A x \in inside : x <= d
    <3> HIDE DEF inside
    <3> QED
      BY <1>2, <2>1, <2>2, FirstAndLast
  <2>4. c \in Nat /\ d \in Nat /\ a <= c /\ c <= d /\ d <= b
    BY <2>3
  <2>5. Trim(set, t, a, b) = SubSeq(t, c, d)
    BY <1>2, <2>1 DEF Trim
  <2>6. ASSUME NEW k \in a .. b, k < c \/ k > d PROVE t[k] \in set
    <3> SUFFICES ASSUME k \in inside PROVE FALSE
      OBVIOUS
    <3>1. c <= k /\ k <= d
      BY <2>3
    <3> QED
      BY <2>4, <2>6, <3>1
  <2>7. c <= d + 1
    BY <2>4
  <2> HIDE DEF inside
  <2> QED
    BY <2>4, <2>5, <2>6, <2>7
<1> QED
  BY <1>1, <1>2

\* The turn m puts the part of t between the brackets at i and j in quotation marks.
Quotes(kind, t, i, m, j, c, d) ==
    /\ j \in i + 1 .. Len(t) /\ t[i] = Opener[kind] /\ t[j] = Closer[kind]
    /\ \A k \in i + 1 .. j - 1 : t[k] # Closer[kind]
    /\ kind \in {"square", "curly"} => \A k \in i + 1 .. j - 1 : t[k] # Opener[kind]
    /\ c \in Nat /\ d \in Nat /\ i + 1 <= c /\ c <= d + 1 /\ d <= j - 1
    /\ \A k \in i + 1 .. j - 1 : k < c \/ k > d => t[k] \in Blank
    /\ m.put = <<Quote>> \o SubSeq(t, c, d) \o <<Quote>>
    /\ m.next = j + 1

\* What a pair of ASCII brackets encloses.
LEMMA PairFirst ==
  ASSUME NEW kind, NEW t, NEW i, NEW j, t \in Seq(Symbol), i \in 1 .. Len(t),
         j = PairEnd(kind, t, i), j # 0
  PROVE  /\ j \in i + 2 .. Len(t) /\ t[i] = Opener[kind] /\ t[j] = Closer[kind]
         /\ \A k \in i + 1 .. j - 1 : t[k] # Opener[kind] /\ t[k] # Closer[kind]
<1> DEFINE next == {k \in i + 1 .. Len(t) : t[k] \in {Opener[kind], Closer[kind]}}
<1>1. /\ t[i] = Opener[kind] /\ next # {} /\ Min(next) > i + 1 /\ t[Min(next)] = Closer[kind]
      /\ j = Min(next)
  BY DEF PairEnd
<1>2. next \subseteq 1 .. Len(t) /\ Len(t) \in Nat
  OBVIOUS
<1>3. j \in next /\ \A k \in next : j <= k
  <2> HIDE DEF next
  <2> QED
    BY <1>1, <1>2, FirstAndLast
<1>4. j \in i + 1 .. Len(t) /\ j > i + 1 /\ t[j] = Closer[kind]
  BY <1>1, <1>3
<1>5. ASSUME NEW k \in i + 1 .. j - 1 PROVE t[k] # Opener[kind] /\ t[k] # Closer[kind]
  <2> SUFFICES ASSUME k \in next PROVE FALSE
    BY <1>4
  <2>1. j <= k
    BY <1>3
  <2> QED
    BY <1>4, <2>1
<1>6. j \in i + 2 .. Len(t)
  BY <1>4
<1> HIDE DEF next
<1> QED
  BY <1>1, <1>4, <1>5, <1>6

\* The turn of an ASCII bracket.
LEMMA BracketTurn ==
  ASSUME NEW kind, NEW t, NEW i, t \in Seq(Symbol), i \in 1 .. Len(t), kind \in {"square", "curly"}
  PROVE  \/ Bracket(kind, t, i) = Copy(t, i) /\ PairEnd(kind, t, i) = 0
         \/ \E j, c, d : Quotes(kind, t, i, Bracket(kind, t, i), j, c, d)
<1>1. PICK j, inner : j = PairEnd(kind, t, i) /\ inner = Trim(Blank, t, i + 1, j - 1)
  OBVIOUS
<1>2. CASE j = 0
  BY <1>1, <1>2 DEF Bracket
<1>3. CASE j # 0
  <2>1. /\ j \in i + 2 .. Len(t) /\ t[i] = Opener[kind] /\ t[j] = Closer[kind]
        /\ \A k \in i + 1 .. j - 1 : t[k] # Opener[kind] /\ t[k] # Closer[kind]
    BY <1>1, <1>3, PairFirst
  <2>2. PICK a, b : a = i + 1 /\ b = j - 1
    OBVIOUS
  <2>3. a \in Nat /\ b \in Nat /\ 1 <= a /\ a <= b + 1 /\ b <= Len(t) /\ a <= b /\ b \in 1 .. Len(t)
    BY <2>1, <2>2
  <2>4. PICK c, d \in Nat : /\ a <= c /\ c <= d + 1 /\ d <= b /\ inner = SubSeq(t, c, d)
                            /\ inner # <<>> => c <= d
                            /\ \A k \in a .. b : k < c \/ k > d => t[k] \in Blank
    BY ZenonT(60), <1>1, <2>2, <2>3, TrimmedPart
  <2>5. PICK put : put = IF inner = <<>> THEN <<t[b]>> ELSE inner
    OBVIOUS
  <2>6. /\ Bracket(kind, t, i).put = <<Quote>> \o put \o <<Quote>>
        /\ Bracket(kind, t, i).next = j + 1
    BY <1>1, <1>3, <2>2, <2>5 DEF Bracket, Replaced
  <2>7. CASE inner # <<>>
    <3>1. put = SubSeq(t, c, d) /\ j \in i + 1 .. Len(t)
      BY <2>1, <2>4, <2>5, <2>7
    <3>2. Quotes(kind, t, i, Bracket(kind, t, i), j, c, d)
      BY <2>1, <2>2, <2>4, <2>6, <3>1 DEF Quotes
    <3> QED
      BY <3>2
  <2>8. CASE inner = <<>>
    <3>1. put = SubSeq(t, b, b) /\ j \in i + 1 .. Len(t)
      BY <2>1, <2>3, <2>5, <2>8, OneSymbol
    <3>2. ~(c <= d)
      <4> SUFFICES ASSUME c <= d PROVE FALSE
        OBVIOUS
      <4>1. c \in 1 .. Len(t) /\ d \in c .. Len(t)
        BY <2>3, <2>4
      <4> QED
        BY <2>4, <2>8, <4>1, PartNotEmpty
    <3>3. \A k \in a .. b : t[k] \in Blank
      BY <2>3, <2>4, <3>2
    <3>4. b \in Nat /\ i + 1 <= b /\ b <= b + 1 /\ b <= j - 1
      BY <2>2, <2>3
    <3>5. Quotes(kind, t, i, Bracket(kind, t, i), j, b, b)
      BY <2>1, <2>2, <2>6, <3>1, <3>3, <3>4 DEF Quotes
    <3> QED
      BY <3>5
  <2> QED
    BY <2>7, <2>8
<1> QED
  BY <1>2, <1>3

\* The turn of a wide bracket.
LEMMA WideTurn ==
  ASSUME NEW kind, NEW t, NEW i, t \in Seq(Symbol), i \in 1 .. Len(t), kind \in {"lenticular", "corner"}
  PROVE  \/ /\ WideBracket(kind, t, i) = Copy(t, i)
            /\ t[i] = Opener[kind] => \A k \in i + 1 .. Len(t) : t[k] # Closer[kind]
         \/ \E j, c, d : Quotes(kind, t, i, WideBracket(kind, t, i), j, c, d)
<1>0. Closer[kind] # Space /\ Space \in Blank /\ kind \notin {"square", "curly"}
  <2>1. kind \in DOMAIN Opener
    BY PlainSymbols
  <2>2. Closer[kind] \notin Plain /\ Space \in Plain
    BY <2>1, PlainSymbols
  <2> QED
    BY <2>2 DEF Blank
<1>1. PICK start, a : start = RunEnd({Space}, t, a) /\ a = i + 1
  OBVIOUS
<1> DEFINE ends == {j \in start .. Len(t) : t[j] = Closer[kind]}
<1>2. a \in Nat /\ 1 <= a /\ a <= Len(t) + 1
  BY <1>1
<1>3. /\ start \in Nat /\ a <= start /\ start <= Len(t) + 1
      /\ \A k \in a .. start - 1 : t[k] \in {Space}
  BY <1>1, <1>2, RunEnds
<1>4. CASE ~(t[i] = Opener[kind] /\ ends # {})
  <2>1. WideBracket(kind, t, i) = Copy(t, i)
    BY <1>1, <1>4 DEF WideBracket
  <2>2. ASSUME t[i] = Opener[kind], NEW k \in i + 1 .. Len(t), t[k] = Closer[kind] PROVE FALSE
    <3>1. k \notin ends
      BY <1>4, <2>2
    <3>2. k \in a .. start - 1
      BY <1>1, <1>3, <2>2, <3>1
    <3> QED
      BY <1>0, <1>3, <2>2, <3>2
  <2> QED
    BY <2>1, <2>2
<1>5. CASE t[i] = Opener[kind] /\ ends # {}
  <2>2. ends \subseteq 1 .. Len(t) /\ Len(t) \in Nat
    BY <1>2, <1>3
  <2>3. Min(ends) \in ends /\ \A k \in ends : Min(ends) <= k
    <3> HIDE DEF ends
    <3> QED
      BY <1>5, <2>2, FirstAndLast
  <2>4. PICK j : /\ j = Min(ends) /\ j \in start .. Len(t) /\ t[j] = Closer[kind]
                 /\ \A k \in ends : j <= k
    BY <2>3
  <2>5. PICK b, inner : b = j - 1 /\ inner = Trim({Space}, t, start, b)
    OBVIOUS
  <2>6. start \in Nat /\ b \in Nat /\ 1 <= start /\ start <= b + 1 /\ b <= Len(t)
    BY <1>2, <1>3, <2>4, <2>5
  <2>7. PICK c, d \in Nat : /\ start <= c /\ c <= d + 1 /\ d <= b /\ inner = SubSeq(t, c, d)
                            /\ \A k \in start .. b : k < c \/ k > d => t[k] \in {Space}
    BY <2>5, <2>6, TrimmedPart
  <2>8. WideBracket(kind, t, i) = Replaced(<<Quote>> \o inner \o <<Quote>>, j + 1)
    BY <1>1, <1>5, <2>4, <2>5 DEF WideBracket
  <2>9. /\ WideBracket(kind, t, i).put = <<Quote>> \o SubSeq(t, c, d) \o <<Quote>>
        /\ WideBracket(kind, t, i).next = j + 1
    BY <2>7, <2>8 DEF Replaced
  <2>10. ASSUME NEW k \in i + 1 .. j - 1 PROVE t[k] # Closer[kind] /\ (k < c \/ k > d => t[k] \in Blank)
    <3>1. CASE k < start
      <4>1. k \in a .. start - 1
        BY <1>1, <1>3, <3>1
      <4> QED
        BY <1>0, <1>3, <4>1
    <3>2. CASE ~(k < start)
      <4>1. k \in start .. b /\ k \in start .. Len(t) /\ ~(j <= k)
        BY <1>3, <2>4, <2>5, <3>2
      <4>2. k \notin ends
        <5> HIDE DEF ends
        <5> QED
          BY <2>4, <4>1
      <4> QED
        BY <1>0, <2>7, <4>1, <4>2
    <3> QED
      BY <3>1, <3>2
  <2>11. j \in i + 1 .. Len(t) /\ i + 1 <= c /\ d <= j - 1
    BY <1>1, <1>2, <1>3, <2>4, <2>5, <2>7
  <2>12. Quotes(kind, t, i, WideBracket(kind, t, i), j, c, d)
    BY <1>0, <1>5, <2>4, <2>7, <2>9, <2>10, <2>11 DEF Quotes
  <2> QED
    BY <2>12
<1> QED
  BY <1>4, <1>5
\* A turn that puts something in quotation marks puts out no more brackets.
LEMMA QuotesNoMore ==
  ASSUME NEW kind \in DOMAIN Opener, NEW other, NEW t, NEW i, NEW m, NEW j, NEW c, NEW d,
         t \in Seq(Symbol), i \in 1 .. Len(t), Quotes(other, t, i, m, j, c, d)
  PROVE  NoMore(kind, m.put, SubSeq(t, i, m.next - 1))
<1>1. /\ i \in Nat /\ j \in Nat /\ c \in Nat /\ d \in Nat
      /\ 1 <= i /\ i <= c /\ c <= d + 1 /\ d <= j /\ j <= Len(t)
      /\ m.put = <<Quote>> \o SubSeq(t, c, d) \o <<Quote>> /\ m.next - 1 = j
  BY DEF Quotes
<1>2. <<Quote>> \in Seq(Plain)
  BY PlainSymbols
<1>3. NoMore(kind, <<Quote>> \o SubSeq(t, c, d) \o <<Quote>>, SubSeq(t, i, j))
  BY <1>1, <1>2, BetweenNoMore
<1> QED
  BY <1>1, <1>3, Zenon

\* A copied symbol.
LEMMA CopyNoMore ==
  ASSUME NEW kind, NEW t, NEW i, t \in Seq(Symbol), i \in 1 .. Len(t)
  PROVE  NoMore(kind, Copy(t, i).put, SubSeq(t, i, Copy(t, i).next - 1))
<1>1. Copy(t, i).put = <<t[i]>> /\ Copy(t, i).next - 1 = i
  BY DEF Copy
<1>2. SubSeq(t, i, i) = <<t[i]>>
  BY OneSymbol
<1> QED
  BY <1>1, <1>2, NoMoreOrder

\* A link.
LEMMA LinkNoMore ==
  ASSUME NEW kind \in DOMAIN Opener, NEW t, NEW i, t \in Seq(Symbol), i \in 1 .. Len(t)
  PROVE  NoMore(kind, Link(t, i).put, SubSeq(t, i, Link(t, i).next - 1))
<1>1. PICK j : j = PairEnd("square", t, i)
  OBVIOUS
<1>2. CASE ~(j > 0 /\ Holds(t, j + 1, {LinkUrl}))
  <2>1. Link(t, i) = Copy(t, i)
    BY <1>1, <1>2 DEF Link
  <2> QED
    BY <2>1, CopyNoMore
<1>3. CASE j > 0 /\ Holds(t, j + 1, {LinkUrl})
  <2>1. PICK c, d, e, end : c = i + 1 /\ d = j - 1 /\ e = j + 1 /\ end = <<Space, Url>>
    OBVIOUS
  <2>2. Link(t, i).put = SubSeq(t, c, d) \o end /\ Link(t, i).next = j + 2
    BY <1>1, <1>3, <2>1 DEF Link, Replaced
  <2>3. j \in i + 2 .. Len(t)
    <3>1. j # 0
      BY <1>3
    <3> QED
      BY <1>1, <3>1, PairFirst
  <2>4. j + 1 \in 1 .. Len(t)
    BY <1>3 DEF Holds
  <2>5. /\ i \in Nat /\ e \in Nat /\ c \in Nat /\ d \in Nat
        /\ 1 <= i /\ i <= c /\ c <= d + 1 /\ d <= e /\ e <= Len(t) /\ Link(t, i).next - 1 = e
    BY <2>1, <2>2, <2>3, <2>4
  <2>6. <<>> \in Seq(Plain) /\ end \in Seq(Plain)
    <3>1. Space \in Plain /\ Url \in Plain
      BY PlainSymbols
    <3> QED
      BY <2>1, <3>1
  <2>7. NoMore(kind, <<>> \o SubSeq(t, c, d) \o end, SubSeq(t, i, e))
    BY <2>5, <2>6, BetweenNoMore
  <2>8. <<>> \o SubSeq(t, c, d) = SubSeq(t, c, d)
    <3>1. PICK part : part = SubSeq(t, c, d) /\ part \in Seq(Symbol)
      BY <2>5, PartNoMore
    <3> QED
      BY <3>1
  <2> QED
    BY <2>2, <2>5, <2>7, <2>8, Zenon
<1> QED
  BY <1>2, <1>3

\* No turn of any pass puts out more brackets than it has read.
LEMMA TurnsNoMore ==
  ASSUME NEW kind \in DOMAIN Opener, NEW name, NEW t, NEW i,
         name \in Passes, t \in Seq(Symbol), i \in 1 .. Len(t)
  PROVE  NoMore(kind, Turn(name, t, i).put, SubSeq(t, i, Turn(name, t, i).next - 1))
<1>1. CASE name = "links"
  <2>1. Turn(name, t, i) = Link(t, i)
    BY <1>1 DEF Turn
  <2> QED
    BY <2>1, LinkNoMore
<1>2. CASE name \in {"arrows", "arrows2", "wide", "wide2", "dashes"}
  <2>1. \/ Turn(name, t, i) = Copy(t, i) 
        \/ Turn(name, t, i).put = <<Comma>> \/ Turn(name, t, i).put = <<Stop>>
    BY <1>2, MarkTurns
  <2>2. <<Comma>> \in Seq(Plain) /\ <<Stop>> \in Seq(Plain)
    BY PlainSymbols
  <2> QED
    BY <2>1, <2>2, CopyNoMore, PlainNoMore
<1>3. CASE name \in {"square", "curly"}
  <2>1. Turn(name, t, i) = Bracket(name, t, i)
    BY <1>3 DEF Turn
  <2>2. CASE Bracket(name, t, i) = Copy(t, i)
    BY <2>1, <2>2, CopyNoMore
  <2>3. CASE \E j, c, d : Quotes(name, t, i, Bracket(name, t, i), j, c, d)
    BY <2>1, <2>3, QuotesNoMore
  <2> QED
    BY <1>3, <2>2, <2>3, BracketTurn
<1>4. CASE name \in {"lenticular", "corner"}
  <2>1. Turn(name, t, i) = WideBracket(name, t, i)
    BY <1>4 DEF Turn
  <2>2. CASE WideBracket(name, t, i) = Copy(t, i)
    BY <2>1, <2>2, CopyNoMore
  <2>3. CASE \E j, c, d : Quotes(name, t, i, WideBracket(name, t, i), j, c, d)
    BY <2>1, <2>3, QuotesNoMore
  <2> QED
    BY <1>4, <2>2, <2>3, WideTurn
<1> QED
  BY <1>1, <1>2, <1>3, <1>4 DEF Passes, Following

\* What the turns from k on put out has no more brackets than the text from k on.
LEMMA RestsNoMore ==
  ASSUME NEW kind \in DOMAIN Opener, NEW name, NEW t, NEW f,
         name \in Passes, t \in Seq(Symbol), Rests(f, name, t)
  PROVE  \A k \in 1 .. Len(t) + 1 : NoMore(kind, f[k], SubSeq(t, k, Len(t)))
<1>0. PICK n : n = Len(t) /\ n \in Nat
  OBVIOUS
<1> DEFINE S == {k \in 1 .. n + 1 : NoMore(kind, f[k], SubSeq(t, k, n))}
<1>1. n + 1 \in S
  <2>1. f[n + 1] = <<>> /\ <<>> \in Seq(Plain) /\ n + 1 \in 1 .. n + 1
    BY <1>0 DEF Rests
  <2>2. NoMore(kind, f[n + 1], SubSeq(t, n + 1, n))
    BY <2>1, PlainNoMore
  <2> QED
    BY <2>1, <2>2
<1>2. ASSUME NEW k \in 1 .. n, \A j \in k + 1 .. n + 1 : j \in S PROVE k \in S
  <2>1. PICK put, next, rest : /\ put = Turn(name, t, k).put /\ next = Turn(name, t, k).next
                               /\ rest = f[next]
    OBVIOUS
  <2>2. /\ f[k] = put \o rest /\ next \in k + 1 .. n + 1 /\ put \in Seq(Symbol)
        /\ rest \in Seq(Symbol) /\ k \in 1 .. n + 1 /\ next \in 1 .. n + 1
    <3>1. /\ f[k] = Turn(name, t, k).put \o f[Turn(name, t, k).next]
          /\ Turn(name, t, k).next \in k + 1 .. n + 1 /\ Turn(name, t, k).put \in Seq(Symbol)
      BY <1>0 DEF Rests
    <3>2. f[k] = put \o rest /\ next \in k + 1 .. n + 1 /\ put \in Seq(Symbol)
      BY <2>1, <3>1, Zenon
    <3>3. k \in 1 .. n + 1 /\ next \in 1 .. n + 1
      BY <1>0, <3>2
    <3>4. rest \in Seq(Symbol)
      BY <1>0, <2>1, <3>3 DEF Rests
    <3> QED
      BY <3>2, <3>3, <3>4
  <2>3. PICK a, b : a = SubSeq(t, k, next - 1) /\ b = SubSeq(t, next, n)
    OBVIOUS
  <2>4. SubSeq(t, k, n) = a \o b /\ a \in Seq(Symbol) /\ b \in Seq(Symbol)
    <3>1. k \in Nat /\ n \in Nat /\ next \in Nat /\ 1 <= k /\ k <= next /\ next <= n + 1 /\ n <= Len(t)
      BY <1>0, <2>2
    <3>2. /\ SubSeq(t, k, n) = SubSeq(t, k, next - 1) \o SubSeq(t, next, n)
          /\ SubSeq(t, k, next - 1) \in Seq(Symbol) /\ SubSeq(t, next, n) \in Seq(Symbol)
      BY ONLY t \in Seq(Symbol), <3>1, PartSplit
    <3> QED
      BY <2>3, <3>2, Zenon
  <2>5. NoMore(kind, put, a)
    BY <1>0, <2>1, <2>3, TurnsNoMore
  <2>6. NoMore(kind, rest, b)
    BY <1>2, <2>1, <2>2, <2>3
  <2>7. NoMore(kind, put \o rest, a \o b)
    BY <2>2, <2>4, <2>5, <2>6, NoMoreTwo
  <2> QED
    BY <2>2, <2>4, <2>7, Zenon
<1> HIDE DEF S
<1>3. \A k \in 1 .. n + 1 : k \in S
  BY <1>0, <1>1, <1>2, DownInduction
<1> QED
  BY <1>0, <1>3 DEF S

\* No pass adds a bracket or changes the order of two.
LEMMA PassNoMore ==
  ASSUME NEW kind \in DOMAIN Opener, NEW name, NEW t, name \in Passes, t \in Seq(Symbol)
  PROVE  NoMore(kind, Pass(name, t), t)
<1>1. PICK f : Rests(f, name, t) /\ Pass(name, t) = f[1]
  BY PassRests
<1>2. 1 \in 1 .. Len(t) + 1 /\ SubSeq(t, 1, Len(t)) = t
  BY SubSeqFull
<1>3. NoMore(kind, f[1], SubSeq(t, 1, Len(t)))
  BY <1>1, <1>2, RestsNoMore
<1> QED
  BY <1>1, <1>2, <1>3, Zenon
\* The end of a text has no more brackets than the text.
LEMMA TailNoMore ==
  ASSUME NEW kind \in DOMAIN Opener, NEW t, NEW e, t \in Seq(Symbol),
         e \in Nat /\ 1 <= e /\ e <= Len(t) + 1
  PROVE  NoMore(kind, SubSeq(t, e, Len(t)), t)
<1>1. PICK n : n = Len(t) /\ n \in Nat
  OBVIOUS
<1>2. 1 \in Nat /\ 1 <= 1 /\ 1 <= e /\ e <= n + 1 /\ n <= n /\ n <= Len(t) /\ SubSeq(t, 1, n) = t
  BY <1>1, SubSeqFull
<1>3. NoMore(kind, SubSeq(t, e, n), SubSeq(t, 1, n))
  BY <1>1, <1>2, PartNoMore
<1> QED
  BY <1>1, <1>2, <1>3, Zenon

\* Nor does a line without a mark at its beginning.
LEMMA DropMarkNoMore ==
  ASSUME NEW kind \in DOMAIN Opener, NEW t, NEW n, t \in Seq(Symbol)
  PROVE  NoMore(kind, DropMark(t, n), t)
<1>1. CASE n \in 1 .. Len(t) - 1 /\ t[n + 1] \in Blank
  <2>1. PICK m, e : m = n + 1 /\ e = RunEnd(Blank, t, m)
    OBVIOUS
  <2>2. m \in Nat /\ 1 <= m /\ m <= Len(t) + 1
    BY <1>1, <2>1
  <2>3. e \in Nat /\ m <= e /\ e <= Len(t) + 1
    BY <2>1, <2>2, RunEnds
  <2>4. 1 <= e
    BY <2>2, <2>3
  <2>5. DropMark(t, n) = SubSeq(t, e, Len(t))
    BY <1>1, <2>1 DEF DropMark
  <2> QED
    BY <2>3, <2>4, <2>5, TailNoMore
<1>2. CASE ~(n \in 1 .. Len(t) - 1 /\ t[n + 1] \in Blank)
  BY <1>2, NoMoreOrder DEF DropMark
<1> QED
  BY <1>1, <1>2

\* The prefixes of a line.
LEMMA PrefixesNoMore ==
  ASSUME NEW kind \in DOMAIN Opener, NEW t, t \in Seq(Symbol)
  PROVE  NoMore(kind, WithoutPrefixes(t), t)
<1>1. PICK a, b, c, d : /\ a = DropHeading(t) /\ b = DropIf(a, {Greater})
                        /\ c = DropIf(b, {Hyphen, Star}) /\ d = DropIf(c, {Number})
  OBVIOUS
<1>2. {Greater} \subseteq Silent /\ {Hyphen, Star} \subseteq Silent /\ {Number} \subseteq Silent
  BY SilentSymbols
<1>3. a \in Seq(Symbol) /\ b \in Seq(Symbol) /\ c \in Seq(Symbol)
  <2>1. a \in Seq(Symbol)
    BY <1>1, DropHeadingOK DEF KeepsContent
  <2>2. b \in Seq(Symbol)
    BY <1>1, <1>2, <2>1, DropIfOK DEF KeepsContent
  <2>3. c \in Seq(Symbol)
    BY <1>1, <1>2, <2>2, DropIfOK DEF KeepsContent
  <2> QED
    BY <2>1, <2>2, <2>3
<1>4. NoMore(kind, a, t)
  <2>1. CASE Holds(t, 1, {Slashes})
    <3>1. PICK e : e = RunEnd(Blank, t, 2)
      OBVIOUS
    <3>2. 2 \in Nat /\ 1 <= 2 /\ 2 <= Len(t) + 1
      BY <2>1 DEF Holds
    <3>3. e \in Nat /\ 2 <= e /\ e <= Len(t) + 1
      BY <3>1, <3>2, RunEnds
    <3>4. 1 <= e
      BY <3>3
    <3>5. NoMore(kind, SubSeq(t, e, Len(t)), t)
      BY <3>3, <3>4, TailNoMore
    <3>6. RunEnd({Hash}, t, 1) = 1
      <4>1. 1 \in 1 .. Len(t) /\ t[1] \notin {Hash}
        BY <2>1 DEF Holds, Hash, Slashes
      <4> QED
        BY <4>1, RunBegins
    <3>7. DropHeading(t) = SubSeq(t, e, Len(t))
      <4>1. PICK n : n = RunEnd({Hash}, t, 1) - 1 /\ ~(n \in 1 .. 6)
        BY <3>6
      <4> QED
        BY <2>1, <3>1, <4>1 DEF DropHeading
    <3> QED
      BY <1>1, <3>5, <3>7
  <2>2. CASE ~Holds(t, 1, {Slashes})
    <3>1. \/ DropHeading(t) = t
          \/ DropHeading(t) = DropMark(t, RunEnd({Hash}, t, 1) - 1)
      BY <2>2 DEF DropHeading
    <3> QED
      BY <1>1, <3>1, DropMarkNoMore, NoMoreOrder
  <2> QED
    BY <2>1, <2>2
<1>5. \A u \in Seq(Symbol) : \A set : NoMore(kind, DropIf(u, set), u)
  BY DropMarkNoMore, NoMoreOrder DEF DropIf
<1>6. NoMore(kind, b, a) /\ NoMore(kind, c, b) /\ NoMore(kind, d, c)
  BY <1>1, <1>3, <1>5
<1>7. NoMore(kind, d, t)
  BY <1>4, <1>6, NoMoreOrder
<1>8. WithoutPrefixes(t) = d
  BY <1>1 DEF WithoutPrefixes
<1> QED
  BY <1>7, <1>8

\* A full stop behind a text.
LEMMA EndMarkNoMore ==
  ASSUME NEW kind \in DOMAIN Opener, NEW t, t \in Seq(Symbol)
  PROVE  NoMore(kind, EnsureTerminalPunctuation(t), t)
<1>1. EnsureTerminalPunctuation(t) \in {t, Append(t, Stop)}
  BY DEF EnsureTerminalPunctuation
<1>2. <<Stop>> \in Seq(Plain)
  BY PlainSymbols
<1>3. NoMore(kind, <<Stop>>, <<>>) /\ <<Stop>> \in Seq(Symbol) /\ <<>> \in Seq(Symbol)
  <2>1. NoMore(kind, <<Stop>>, <<>>) /\ <<Stop>> \in Seq(Symbol)
    BY <1>2, PlainNoMore
  <2> QED
    BY <2>1
<1>4. NoMore(kind, t \o <<Stop>>, t \o <<>>)
  BY <1>3, NoMoreOrder, NoMoreTwo
<1>5. t \o <<>> = t /\ Append(t, Stop) = t \o <<Stop>>
  <2>1. Stop \in Symbol
    BY MarkSymbols
  <2> QED
    BY <2>1, AppendIsConcat
<1> QED
  BY <1>1, <1>4, <1>5, NoMoreOrder

\* A line that is joined to the text.
LEMMA LineNoMore ==
  ASSUME NEW kind \in DOMAIN Opener, TypeOK, TakeLine
  PROVE  NoMore(kind, s' \o todo', s \o todo)
<1>1. s \in Seq(Symbol) /\ todo \in Seq(Symbol)
  BY DEF TypeOK
<1>2. PICK e, n, head, line : /\ e = LineEnd /\ n = Len(todo) /\ head = SubSeq(todo, 1, e - 1)
                              /\ line = Trim(Blank, todo, 1, e - 1)
  OBVIOUS
<1>3. /\ s' = IF line = <<>> THEN s ELSE Merged(s, WithoutPrefixes(line))
      /\ todo' = SubSeq(todo, e + 1, n)
  BY <1>2 DEF TakeLine
<1>4. e \in Nat /\ 1 <= e /\ e <= n + 1 /\ todo' \in Seq(Symbol) /\ n \in Nat
  <2>1. /\ e \in Nat /\ 1 <= e /\ e <= Len(todo) + 1
        /\ SubSeq(todo, e + 1, Len(todo)) \in Seq(Symbol)
    BY <1>1, <1>2, LineTaken DEF LineEnd
  <2>2. Len(todo) \in Nat
    BY <1>1
  <2> QED
    BY <1>2, <1>3, <2>1, <2>2, Zenon
<1>5. PICK tail : tail = SubSeq(todo, e, n)
  OBVIOUS
<1>6. todo = head \o tail /\ head \in Seq(Symbol) /\ tail \in Seq(Symbol)
  <2>1. /\ 1 \in Nat /\ n \in Nat /\ e \in Nat /\ 1 <= 1 /\ 1 <= e /\ e <= n + 1 /\ n <= Len(todo)
    BY <1>2, <1>4
  <2>2. /\ SubSeq(todo, 1, n) = SubSeq(todo, 1, e - 1) \o SubSeq(todo, e, n)
        /\ SubSeq(todo, 1, e - 1) \in Seq(Symbol) /\ SubSeq(todo, e, n) \in Seq(Symbol)
    BY ONLY <1>1, <2>1, PartSplit
  <2>3. SubSeq(todo, 1, n) = todo
    BY <1>1, <1>2, SubSeqFull
  <2> QED
    BY <1>2, <1>5, <2>2, <2>3, Zenon
<1>7. NoMore(kind, todo', tail)
  <2>1. CASE e = n + 1
    <3>1. todo' = <<>> /\ <<>> \in Seq(Plain)
      BY <1>1, <1>3, <1>4, <2>1
    <3> QED
      BY <3>1, PlainNoMore
  <2>2. CASE e # n + 1
    <3>1. PICK c : c = e + 1
      OBVIOUS
    <3>2. /\ e \in Nat /\ n \in Nat /\ c \in Nat /\ 1 <= e /\ e <= c /\ c <= n + 1 /\ n <= n
          /\ n <= Len(todo)
      BY <1>2, <1>4, <2>2, <3>1
    <3>3. NoMore(kind, SubSeq(todo, c, n), SubSeq(todo, e, n))
      BY ONLY kind \in DOMAIN Opener, <1>1, <3>2, PartNoMore
    <3> QED
      BY <1>3, <1>5, <3>1, <3>3, Zenon
  <2> QED
    BY <2>1, <2>2
<1>8. NoMore(kind, line, head) /\ line \in Seq(Symbol)
  <2>1. PICK b : b = e - 1
    OBVIOUS
  <2>2. 1 \in Nat /\ b \in Nat /\ 1 <= 1 /\ 1 <= b + 1 /\ b <= Len(todo)
    BY <1>2, <1>4, <2>1
  <2>3. PICK c, d \in Nat : /\ 1 <= c /\ c <= d + 1 /\ d <= b
                            /\ Trim(Blank, todo, 1, b) = SubSeq(todo, c, d)
    <3>1. PICK a, t, set : a = 1 /\ t = todo /\ set = Blank
      OBVIOUS
    <3>2. a \in Nat /\ b \in Nat /\ 1 <= a /\ a <= b + 1 /\ b <= Len(t) /\ t \in Seq(Symbol)
      BY <1>1, <2>2, <3>1
    <3>3. \E c, d \in Nat : /\ a <= c /\ c <= d + 1 /\ d <= b
                            /\ Trim(set, t, a, b) = SubSeq(t, c, d)
                            /\ Trim(set, t, a, b) # <<>> => c <= d
                            /\ \A k \in a .. b : k < c \/ k > d => t[k] \in set
      BY ONLY <3>2, TrimmedPart
    <3> QED
      BY <3>1, <3>3
  <2>4. NoMore(kind, SubSeq(todo, c, d), SubSeq(todo, 1, b)) /\ SubSeq(todo, c, d) \in Seq(Symbol)
    BY ONLY kind \in DOMAIN Opener, <1>1, <2>2, <2>3, PartNoMore
  <2> QED
    BY <1>2, <2>1, <2>3, <2>4, Zenon
<1>9. NoMore(kind, s', s \o head) /\ s' \in Seq(Symbol)
  <2>1. CASE line = <<>>
    <3>1. NoMore(kind, <<>>, head) /\ s \o <<>> = s /\ <<>> \in Seq(Symbol)
      BY <1>1, <1>8, <2>1
    <3>2. NoMore(kind, s \o <<>>, s \o head)
      BY <1>1, <1>6, <3>1, NoMoreOrder, NoMoreTwo
    <3> QED
      BY <1>1, <1>3, <2>1, <3>1, <3>2
  <2>2. CASE line # <<>>
    <3>1. PICK a, b : a = EnsureTerminalPunctuation(s) /\ b = WithoutPrefixes(line)
      OBVIOUS
    <3>2. a \in Seq(Symbol) /\ NoMore(kind, a, s)
      BY <1>1, <3>1, EndMarkOK, EndMarkNoMore DEF KeepsContent
    <3>3. b \in Seq(Symbol) /\ NoMore(kind, b, line)
      BY <1>8, <3>1, WithoutPrefixesOK, PrefixesNoMore DEF KeepsContent
    <3>4. NoMore(kind, b, head)
      BY <1>8, <3>3, NoMoreOrder
    <3>5. s' = a \o b
      BY <1>3, <2>2, <3>1 DEF Merged
    <3>6. NoMore(kind, a \o b, s \o head)
      BY <1>1, <1>6, <3>2, <3>3, <3>4, NoMoreTwo
    <3>7. a \o b \in Seq(Symbol)
      BY <3>2, <3>3
    <3> QED
      BY <3>5, <3>6, <3>7, Zenon
  <2> QED
    BY <2>1, <2>2
<1>10. s \o head \in Seq(Symbol)
  BY <1>1, <1>6
<1>11. NoMore(kind, s' \o todo', (s \o head) \o tail)
  BY <1>4, <1>6, <1>7, <1>9, <1>10, NoMoreTwo
<1>12. (s \o head) \o tail = s \o (head \o tail)
  BY ONLY <1>1, <1>6, ConcatAssociative
<1> QED
  BY <1>6, <1>11, <1>12, Zenon
-----------------------------------------------------------------------------
(***************************************************************************)
(* The pass that rewrites the brackets of a kind.                          *)
(***************************************************************************)

\* no pair of the kind is left, but an ASCII one with nothing between
Unpaired(kind, t) ==
    Encloses(kind, t) =>
        kind \in {"square", "curly"} /\ Adjacent(t, {Opener[kind]}, {Closer[kind]})

\* Symbols next to each other in two texts behind each other.
LEMMA AdjacentTwo ==
  ASSUME NEW a, NEW b, NEW u, NEW A, NEW B, a \in Seq(Symbol), b \in Seq(Symbol), u = a \o b
  PROVE  /\ Adjacent(a, A, B) \/ Adjacent(b, A, B) => Adjacent(u, A, B)
         /\ a # <<>> /\ b # <<>> /\ a[Len(a)] \in A /\ b[1] \in B => Adjacent(u, A, B)
<1>1. PICK m, n : m = Len(a) /\ n = Len(b)
  OBVIOUS
<1>2. m \in Nat /\ n \in Nat /\ Len(u) = m + n /\ Len(a) = m /\ Len(b) = n
  BY <1>1
<1>3. \A i \in 1 .. m : i \in 1 .. m + n /\ u[i] = a[i]
  BY <1>1
<1>4. \A i \in 1 .. n : m + i \in 1 .. m + n /\ u[m + i] = b[i]
  BY <1>1
<1>5. ASSUME NEW i \in 1 .. m - 1, a[i] \in A, a[i + 1] \in B PROVE Adjacent(u, A, B)
  <2>1. i \in 1 .. m /\ i + 1 \in 1 .. m /\ i \in 1 .. (m + n) - 1
    BY <1>2
  <2>2. u[i] \in A /\ u[i + 1] \in B
    BY ONLY <1>3, <1>5, <2>1
  <2> QED
    BY ONLY <1>2, <2>1, <2>2 DEF Adjacent
<1>6. ASSUME NEW i \in 1 .. n - 1, b[i] \in A, b[i + 1] \in B PROVE Adjacent(u, A, B)
  <2>1. PICK k : k = m + i
    OBVIOUS
  <2>2. i \in 1 .. n /\ i + 1 \in 1 .. n /\ k \in 1 .. (m + n) - 1 /\ k + 1 = m + (i + 1)
    BY <1>2, <2>1
  <2>3. u[k] \in A /\ u[k + 1] \in B
    BY ONLY <1>4, <1>6, <2>1, <2>2
  <2> QED
    BY ONLY <1>2, <2>2, <2>3 DEF Adjacent
<1>7. ASSUME a # <<>>, b # <<>>, a[Len(a)] \in A, b[1] \in B PROVE Adjacent(u, A, B)
  <2>1. m > 0 /\ n > 0
    BY <1>1, <1>7
  <2>2. m \in 1 .. m /\ 1 \in 1 .. n /\ m \in 1 .. (m + n) - 1
    BY <1>2, <2>1
  <2>3. u[m] \in A /\ u[m + 1] \in B
    BY ONLY <1>2, <1>3, <1>4, <1>7, <2>2
  <2> QED
    BY ONLY <1>2, <2>2, <2>3 DEF Adjacent
<1> QED
  BY ONLY <1>2, <1>5, <1>6, <1>7 DEF Adjacent

\* The symbols of a part.
LEMMA PartHolds ==
  ASSUME NEW t, NEW a, NEW b, NEW x, t \in Seq(Symbol),
         a \in Nat /\ b \in Nat /\ 1 <= a /\ a <= b + 1 /\ b <= Len(t)
  PROVE  Holding(SubSeq(t, a, b), x) <=> \E q \in a .. b : t[q] = x
<1>1. PICK u, n : u = SubSeq(t, a, b) /\ n = b - a + 1
  OBVIOUS
<1>2. n \in Nat /\ Len(u) = n /\ \A i \in 1 .. n : u[i] = t[a + i - 1]
  BY <1>1
<1>3. ASSUME NEW i \in 1 .. n, u[i] = x PROVE \E q \in a .. b : t[q] = x
  <2>1. a + i - 1 \in a .. b /\ t[a + i - 1] = x
    BY <1>1, <1>2, <1>3
  <2> QED
    BY <2>1
<1>4. ASSUME NEW q \in a .. b, t[q] = x PROVE \E i \in 1 .. n : u[i] = x
  <2>1. PICK i : i = q - a + 1 /\ i \in 1 .. n /\ a + i - 1 = q
    BY <1>1
  <2> QED
    BY <1>2, <1>4, <2>1
<1>5. Holding(u, x) <=> \E q \in a .. b : t[q] = x
  BY ONLY <1>2, <1>3, <1>4 DEF Holding
<1> QED
  BY <1>1, <1>5

\* Nested brackets of a text are nested in its end, where they are.
LEMMA NestedFrom ==
  ASSUME NEW kind, NEW t, NEW k, NEW i, NEW j, NEW l, t \in Seq(Symbol), k \in 1 .. Len(t),
         i \in k .. Len(t), j \in k .. Len(t), l \in k .. Len(t), i < j, j < l,
         t[i] = Opener[kind], t[j] = Opener[kind], t[l] = Closer[kind]
  PROVE  Nested(kind, SubSeq(t, k, Len(t)))
<1>1. PICK u, n : u = SubSeq(t, k, Len(t)) /\ n = Len(t) - k + 1
  OBVIOUS
<1>2. n \in Nat /\ DOMAIN u = 1 .. n /\ \A q \in 1 .. n : u[q] = t[k + q - 1]
  BY <1>1
<1>3. PICK a, b, c : a = i - k + 1 /\ b = j - k + 1 /\ c = l - k + 1
  OBVIOUS
<1>4. /\ a \in 1 .. n /\ b \in 1 .. n /\ c \in 1 .. n /\ a < b /\ b < c
      /\ k + a - 1 = i /\ k + b - 1 = j /\ k + c - 1 = l
  BY <1>1, <1>3
<1>5. u[a] = Opener[kind] /\ u[b] = Opener[kind] /\ u[c] = Closer[kind]
  BY <1>2, <1>4
<1>6. Nested(kind, u)
  BY ONLY <1>2, <1>4, <1>5 DEF Nested
<1> QED
  BY <1>1, <1>6

\* One symbol encloses nothing.
LEMMA OneBracket ==
  ASSUME NEW kind, NEW x
  PROVE  /\ ~Encloses(kind, <<x>>)
         /\ Opens(kind, <<x>>) <=> x = Opener[kind]
         /\ Closes(kind, <<x>>) <=> x = Closer[kind]
<1>0. PICK u : u = <<x>>
  OBVIOUS
<1>1. u = <<x>> /\ Len(u) = 1 /\ u[1] = x
  BY <1>0
<1>2. \A i \in 1 .. 1 : i = 1
  OBVIOUS
<1>3. /\ ~Encloses(kind, u)
      /\ Opens(kind, u) <=> x = Opener[kind]
      /\ Closes(kind, u) <=> x = Closer[kind]
  BY ONLY <1>1, <1>2 DEF Encloses, Opens, Closes, Ordered, Holding
<1> QED
  BY <1>1, <1>3, Zenon

\* What encloses something closes.
LEMMA EnclosesCloses ==
  ASSUME NEW kind, NEW t
  PROVE  Encloses(kind, t) => Opens(kind, t) /\ Closes(kind, t)
BY DEF Encloses, Opens, Closes, Ordered, Holding

\* An ASCII bracket before a closing one, when the two are no pair to rewrite.
LEMMA NoPairEnd ==
  ASSUME NEW kind \in DOMAIN Opener, NEW t, NEW k, NEW q, t \in Seq(Symbol), k \in 1 .. Len(t),
         PairEnd(kind, t, k) = 0, t[k] = Opener[kind], q \in k + 1 .. Len(t), t[q] = Closer[kind]
  PROVE  \/ k + 1 \in 1 .. Len(t) /\ t[k + 1] = Closer[kind]
         \/ \E r \in k + 1 .. Len(t) : r < q /\ t[r] = Opener[kind]
<1> DEFINE next == {j \in k + 1 .. Len(t) : t[j] \in {Opener[kind], Closer[kind]}}
<1>1. q \in next /\ next \subseteq 1 .. Len(t) /\ Len(t) \in Nat
  OBVIOUS
<1>2. PICK j : j = Min(next) /\ j \in next /\ \A x \in next : j <= x
  <2>1. next # {}
    BY <1>1
  <2> HIDE DEF next
  <2> QED
    BY <1>1, <2>1, FirstAndLast
<1>3. j \in k + 1 .. Len(t) /\ j <= q /\ t[j] \in {Opener[kind], Closer[kind]}
  BY <1>1, <1>2
<1>4. Opener[kind] # Closer[kind]
  BY PlainSymbols
<1>5. CASE t[j] = Opener[kind]
  <2>1. j < q
    BY <1>3, <1>4, <1>5
  <2> QED
    BY <1>3, <1>5, <2>1
<1>6. CASE t[j] = Closer[kind]
  <2>1. ~(j > k + 1)
    <3> SUFFICES ASSUME j > k + 1 PROVE FALSE
      OBVIOUS
    <3>1. PairEnd(kind, t, k) = j
      BY <1>1, <1>2, <1>6 DEF PairEnd
    <3> QED
      BY <1>3, <3>1
  <2>2. j = k + 1 /\ k + 1 \in 1 .. Len(t)
    BY <1>3, <2>1
  <2> QED
    BY <1>6, <2>2
<1> HIDE DEF next
<1> QED
  BY <1>3, <1>5, <1>6

\* the turn at k copies the symbol there
Copies(name, t, k) == Turn(name, t, k) = Copy(t, k)

\* f goes on from k with the symbol of t there
GoesOn(f, t, k) ==
    /\ f[k] = <<t[k]>> \o f[k + 1] /\ f[k] \in Seq(Symbol) /\ f[k + 1] \in Seq(Symbol)
    /\ t[k] \in Symbol /\ f[k] # <<>> /\ f[k][1] = t[k]

\* What the turns put out from a copied symbol on.
LEMMA CopyStep ==
  ASSUME NEW name, NEW t, NEW f, NEW k, t \in Seq(Symbol), k \in 1 .. Len(t), Rests(f, name, t),
         Copies(name, t, k)
  PROVE  GoesOn(f, t, k)
<1>1. PICK put, next : put = Turn(name, t, k).put /\ next = Turn(name, t, k).next
  OBVIOUS
<1>2. put = <<t[k]>> /\ next = k + 1
  BY <1>1 DEF Copy, Copies
<1>3. f[k] = put \o f[next]
  BY <1>1, Zenon DEF Rests
<1>4. k \in 1 .. Len(t) + 1 /\ k + 1 \in 1 .. Len(t) + 1 /\ t[k] \in Symbol
  OBVIOUS
<1>5. f[k] \in Seq(Symbol) /\ f[k + 1] \in Seq(Symbol)
  BY <1>4, Zenon DEF Rests
<1>6. f[k] = <<t[k]>> \o f[k + 1]
  BY <1>2, <1>3, Zenon
<1>7. PICK x, r : x = t[k] /\ r = f[k + 1] /\ x \in Symbol /\ r \in Seq(Symbol)
  BY <1>4, <1>5
<1>8. Len(<<x>> \o r) = Len(r) + 1 /\ (<<x>> \o r)[1] = x /\ Len(r) \in Nat
  BY ONLY <1>7, InFront
<1>9. <<x>> \o r # <<>>
  BY <1>8
<1> QED
  BY <1>4, <1>5, <1>6, <1>7, <1>8, <1>9, Zenon DEF GoesOn

\* A bracket that the pass of its kind copies.
LEMMA OwnCopy ==
  ASSUME NEW kind \in DOMAIN Opener, NEW t, NEW f, NEW k, t \in Seq(Symbol), k \in 1 .. Len(t),
         Rests(f, kind, t), Copies(kind, t, k),
         ~Nested(kind, SubSeq(t, k, Len(t))), Unpaired(kind, f[k + 1])
  PROVE  Unpaired(kind, f[k])
<1>0. kind \in {"square", "curly", "lenticular", "corner"} /\ kind \in Passes
  BY PlainSymbols DEF Passes, Following
<1>1. PICK u, x, r, o, c : /\ u = f[k] /\ x = <<t[k]>> /\ r = f[k + 1]
                           /\ o = Opener[kind] /\ c = Closer[kind]
  OBVIOUS
<1>2. /\ u = x \o r /\ u \in Seq(Symbol) /\ r \in Seq(Symbol) /\ x \in Seq(Symbol)
      /\ x # <<>> /\ Len(x) = 1 /\ x[1] = t[k]
  <2>1. f[k] = <<t[k]>> \o f[k + 1] /\ f[k] \in Seq(Symbol) /\ f[k + 1] \in Seq(Symbol)
        /\ t[k] \in Symbol
    <3>1. GoesOn(f, t, k)
      BY CopyStep
    <3> QED
      BY <3>1, Zenon DEF GoesOn
  <2>2. x \in Seq(Symbol) /\ x # <<>> /\ Len(x) = 1 /\ x[1] = t[k]
    BY <1>1, <2>1
  <2> QED
    BY <1>1, <2>1, <2>2, Zenon
<1>3. Encloses(kind, u) <=> \/ Encloses(kind, x) \/ Encloses(kind, r)
                            \/ Opens(kind, x) /\ Closes(kind, r)
  BY <1>2, BracketsOfTwo
<1>4. ~Encloses(kind, x) /\ (Opens(kind, x) <=> t[k] = Opener[kind])
  BY <1>1, OneBracket
<1>5. CASE Encloses(kind, r)
  <2>1. kind \in {"square", "curly"} /\ Adjacent(r, {o}, {c})
    BY <1>1, <1>5, Zenon DEF Unpaired
  <2>2. Adjacent(u, {o}, {c})
    BY <1>2, <2>1, AdjacentTwo
  <2> QED
    BY <1>1, <2>1, <2>2, Zenon DEF Unpaired
<1>6. CASE t[k] = o /\ Closes(kind, r)
  <2>1. PICK n, l : n = Len(t) /\ n \in Nat /\ l = k + 1
    OBVIOUS
  <2>2. /\ l \in Nat /\ n \in Nat /\ 1 <= l /\ l <= n + 1 /\ n <= Len(t) /\ l \in 1 .. Len(t) + 1
    BY <2>1
  <2>3. NoMore(kind, r, SubSeq(t, l, n))
    BY <1>0, <1>1, <2>1, <2>2, RestsNoMore
  <2>4. PICK q \in l .. n : t[q] = c
    <3>1. Holding(SubSeq(t, l, n), c)
      BY <1>1, <1>6, <2>3, Zenon DEF NoMore, Closes
    <3> QED
      BY ONLY t \in Seq(Symbol), <2>2, <3>1, PartHolds
  <2>5. q \in k + 1 .. Len(t)
    BY <2>1, <2>4
  <2>6. \A m, j, a, b : Quotes(kind, t, k, m, j, a, b) => m # Copy(t, k)
    <3> SUFFICES ASSUME NEW m, NEW j, NEW a, NEW b, Quotes(kind, t, k, m, j, a, b), m = Copy(t, k)
                 PROVE  FALSE
      OBVIOUS
    <3>1. m.next = j + 1 /\ j \in k + 1 .. Len(t)
      BY DEF Quotes
    <3>2. m.next = k + 1
      BY DEF Copy
    <3> QED
      BY <3>1, <3>2
  <2>7. CASE kind \in {"lenticular", "corner"}
    <3>1. Turn(kind, t, k) = WideBracket(kind, t, k)
      BY <2>7 DEF Turn
    <3>2. \A p \in k + 1 .. Len(t) : t[p] # Closer[kind]
      BY <1>1, <1>6, <2>6, <2>7, <3>1, WideTurn DEF Copies
    <3> QED
      BY <1>1, <2>4, <2>5, <3>2
  <2>8. CASE kind \in {"square", "curly"}
    <3>1. Turn(kind, t, k) = Bracket(kind, t, k)
      BY <2>8 DEF Turn
    <3>2. PairEnd(kind, t, k) = 0
      BY <2>6, <2>8, <3>1, BracketTurn DEF Copies
    <3>3. \/ k + 1 \in 1 .. Len(t) /\ t[k + 1] = Closer[kind]
          \/ \E p \in k + 1 .. Len(t) : p < q /\ t[p] = Opener[kind]
      BY <1>1, <1>6, <2>4, <2>5, <3>2, NoPairEnd
    <3>4. ASSUME NEW p \in k + 1 .. Len(t), p < q, t[p] = Opener[kind] PROVE FALSE
      <4>1. k \in k .. Len(t) /\ p \in k .. Len(t) /\ q \in k .. Len(t) /\ k < p
        BY <2>5
      <4>2. Nested(kind, SubSeq(t, k, Len(t)))
        BY <1>1, <1>6, <2>4, <3>4, <4>1, NestedFrom
      <4> QED
        BY <4>2
    <3>5. l \in 1 .. Len(t) /\ t[l] = c
      BY <1>1, <2>1, <3>3, <3>4
    <3>6. Copies(kind, t, l)
      <4>1. Turn(kind, t, l) = Bracket(kind, t, l)
        BY <2>8 DEF Turn
      <4>2. t[l] # Opener[kind]
        BY <1>1, <3>5, PlainSymbols
      <4>3. \A m, j, a, b : ~Quotes(kind, t, l, m, j, a, b)
        BY <4>2 DEF Quotes
      <4> QED
        BY <2>8, <3>5, <4>1, <4>3, BracketTurn DEF Copies
    <3>7. r # <<>> /\ r[1] = c
      <4>1. f[l] # <<>> /\ f[l][1] = t[l]
        <5>1. GoesOn(f, t, l)
          BY <3>5, <3>6, CopyStep
        <5> QED
          BY <5>1, Zenon DEF GoesOn
      <4> QED
        BY <1>1, <2>1, <3>5, <4>1
    <3>8. x[Len(x)] \in {o} /\ r[1] \in {c}
      BY <1>2, <1>6, <3>7
    <3>9. Adjacent(u, {o}, {c})
      BY <1>2, <3>7, <3>8, AdjacentTwo
    <3> QED
      BY <1>1, <2>8, <3>9, Zenon DEF Unpaired
  <2> QED
    BY <1>0, <2>7, <2>8
<1>7. CASE ~Encloses(kind, u)
  BY <1>1, <1>7, Zenon DEF Unpaired
<1> QED
  BY <1>1, <1>3, <1>4, <1>5, <1>6, <1>7, Zenon

\* A pair of brackets that the pass of its kind rewrites.
LEMMA OwnQuotes ==
  ASSUME NEW kind \in DOMAIN Opener, NEW t, NEW f, NEW k, NEW m, NEW j, NEW c, NEW d,
         t \in Seq(Symbol), k \in 1 .. Len(t), Rests(f, kind, t),
         m = Turn(kind, t, k), Quotes(kind, t, k, m, j, c, d),
         ~Nested(kind, SubSeq(t, k, Len(t))),
         ~Nested(kind, SubSeq(t, j + 1, Len(t))) => Unpaired(kind, f[j + 1])
  PROVE  Unpaired(kind, f[k])
<1>1. PICK n, a, b, e : n = Len(t) /\ n \in Nat /\ a = k + 1 /\ b = j - 1 /\ e = j + 1
  OBVIOUS
<1>2. /\ j \in a .. n /\ t[k] = Opener[kind] /\ t[j] = Closer[kind]
      /\ \A p \in a .. b : t[p] # Closer[kind]
      /\ c \in Nat /\ d \in Nat /\ a <= c /\ c <= d + 1 /\ d <= b
      /\ m.put = <<Quote>> \o SubSeq(t, c, d) \o <<Quote>> /\ m.next = e
  BY <1>1 DEF Quotes
<1>3. /\ a \in Nat /\ b \in Nat /\ 1 <= a /\ a <= b + 1 /\ b <= Len(t) /\ e \in 1 .. Len(t) + 1
      /\ k \in Nat /\ n \in Nat /\ e \in Nat /\ 1 <= k /\ k <= e /\ e <= n + 1 /\ n <= n /\ n <= Len(t)
  <2>1. j \in a .. n
    BY <1>2
  <2> QED
    BY ONLY k \in 1 .. Len(t), <1>1, <2>1
<1>4. PICK u, put, r, o, cl : /\ u = f[k] /\ put = m.put /\ r = f[e]
                              /\ o = Opener[kind] /\ cl = Closer[kind]
  OBVIOUS
<1>5. u = put \o r /\ put \in Seq(Symbol) /\ r \in Seq(Symbol)
  <2>1. f[k] = m.put \o f[m.next] /\ m.put \in Seq(Symbol)
    BY Zenon DEF Rests
  <2>2. f[e] \in Seq(Symbol)
    BY <1>3, Zenon DEF Rests
  <2> QED
    BY <1>2, <1>4, <2>1, <2>2, Zenon
<1>6. NoMore(kind, put, SubSeq(t, a, b))
  <2>1. <<Quote>> \in Seq(Plain)
    BY PlainSymbols
  <2>2. NoMore(kind, <<Quote>> \o SubSeq(t, c, d) \o <<Quote>>, SubSeq(t, a, b))
    BY <1>2, <1>3, <2>1, BetweenNoMore
  <2> QED
    BY <1>2, <1>4, <2>2, Zenon
<1>7. ~Closes(kind, put)
  <2>1. ~Holding(SubSeq(t, a, b), Closer[kind])
    BY ONLY SMTT(60), t \in Seq(Symbol), <1>2, <1>3, PartHolds
  <2> QED
    BY <1>6, <2>1, Zenon DEF NoMore, Closes
<1>8. ~Opens(kind, put)
  <2> SUFFICES ASSUME Opens(kind, put) PROVE FALSE
    OBVIOUS
  <2>1. Holding(SubSeq(t, a, b), Opener[kind])
    BY <1>6, Zenon DEF NoMore, Opens
  <2>2. PICK q \in a .. b : t[q] = Opener[kind]
    BY ONLY t \in Seq(Symbol), <1>3, <2>1, PartHolds
  <2>3. k \in k .. Len(t) /\ q \in k .. Len(t) /\ j \in k .. Len(t) /\ k < q /\ q < j
    BY <1>1, <1>2, <2>2
  <2>4. Nested(kind, SubSeq(t, k, Len(t)))
    BY <1>2, <2>2, <2>3, NestedFrom
  <2> QED
    BY <2>4
<1>9. ~Nested(kind, SubSeq(t, e, Len(t)))
  <2>1. NoMore(kind, SubSeq(t, e, n), SubSeq(t, k, n))
    BY ONLY kind \in DOMAIN Opener, t \in Seq(Symbol), <1>3, PartNoMore
  <2> QED
    BY <1>1, <2>1, Zenon DEF NoMore
<1>10. Unpaired(kind, r)
  BY <1>1, <1>4, <1>9, Zenon
<1>11. Encloses(kind, u) <=> \/ Encloses(kind, put) \/ Encloses(kind, r)
                             \/ Opens(kind, put) /\ Closes(kind, r)
  BY <1>5, BracketsOfTwo
<1>12. Encloses(kind, u) => Encloses(kind, r)
  BY <1>7, <1>8, <1>11, EnclosesCloses
<1>13. Adjacent(r, {o}, {cl}) => Adjacent(u, {o}, {cl})
  BY <1>5, AdjacentTwo
<1>14. Unpaired(kind, u)
  BY <1>4, <1>10, <1>12, <1>13, Zenon DEF Unpaired
<1> QED
  BY <1>4, <1>14, Zenon

\* The pass of a kind leaves no pair of it where none was nested.
LEMMA OwnPass ==
  ASSUME NEW kind \in DOMAIN Opener, NEW t, t \in Seq(Symbol), ~Nested(kind, t)
  PROVE  Unpaired(kind, Pass(kind, t))
<1>0. kind \in {"square", "curly", "lenticular", "corner"} /\ kind \in Passes
  BY PlainSymbols DEF Passes, Following
<1>1. PICK n : n = Len(t) /\ n \in Nat
  OBVIOUS
<1>2. PICK f : Rests(f, kind, t) /\ Pass(kind, t) = f[1]
  BY <1>0, PassRests
<1> DEFINE S == {k \in 1 .. n + 1 : ~Nested(kind, SubSeq(t, k, Len(t))) => Unpaired(kind, f[k])}
<1>3. n + 1 \in S
  <2>1. f[n + 1] = <<>> /\ <<>> \in Seq(Plain) /\ n + 1 \in 1 .. n + 1
    BY <1>1, <1>2 DEF Rests
  <2>2. ~Opens(kind, f[n + 1])
    BY <2>1, PlainNoMore
  <2>3. Unpaired(kind, f[n + 1])
    BY <2>2, EnclosesCloses, Zenon DEF Unpaired
  <2> QED
    BY <2>1, <2>3
<1>4. ASSUME NEW k \in 1 .. n, \A j \in k + 1 .. n + 1 : j \in S,
             ~Nested(kind, SubSeq(t, k, Len(t)))
      PROVE  Unpaired(kind, f[k])
  <2>1. \A j \in k + 1 .. n + 1 : ~Nested(kind, SubSeq(t, j, Len(t))) => Unpaired(kind, f[j])
    BY <1>4
  <2>2. k \in 1 .. Len(t)
    BY <1>1
  <2> HIDE DEF S
  <2>3. \/ Copies(kind, t, k) \/ \E j, c, d : Quotes(kind, t, k, Turn(kind, t, k), j, c, d)
    <3>1. CASE kind \in {"square", "curly"}
      <4>1. Turn(kind, t, k) = Bracket(kind, t, k)
        BY <3>1 DEF Turn
      <4> QED
        BY <2>2, <3>1, <4>1, BracketTurn DEF Copies
    <3>2. CASE kind \in {"lenticular", "corner"}
      <4>1. Turn(kind, t, k) = WideBracket(kind, t, k)
        BY <3>2 DEF Turn
      <4> QED
        BY <2>2, <3>2, <4>1, WideTurn DEF Copies
    <3> QED
      BY <1>0, <3>1, <3>2
  <2>4. CASE Copies(kind, t, k)
    <3>1. k + 1 \in k + 1 .. n + 1
      BY <1>1
    <3>2. ~Nested(kind, SubSeq(t, k + 1, Len(t)))
      <4>1. PICK e : e = k + 1
        OBVIOUS
      <4>2. /\ k \in Nat /\ n \in Nat /\ e \in Nat /\ 1 <= k /\ k <= e /\ e <= n + 1 /\ n <= n
            /\ n <= Len(t)
        BY <1>1, <4>1
      <4>3. NoMore(kind, SubSeq(t, e, n), SubSeq(t, k, n))
        BY ONLY kind \in DOMAIN Opener, t \in Seq(Symbol), <4>2, PartNoMore
      <4> QED
        BY <1>1, <1>4, <4>1, <4>3, Zenon DEF NoMore
    <3>3. Unpaired(kind, f[k + 1])
      BY <2>1, <3>1, <3>2
    <3> QED
      BY <1>2, <1>4, <2>2, <2>4, <3>3, OwnCopy
  <2>5. CASE \E j, c, d : Quotes(kind, t, k, Turn(kind, t, k), j, c, d)
    <3>1. PICK m, j, c, d : m = Turn(kind, t, k) /\ Quotes(kind, t, k, m, j, c, d)
      BY <2>5
    <3>2. j + 1 \in k + 1 .. n + 1
      BY <1>1, <3>1 DEF Quotes
    <3>3. ~Nested(kind, SubSeq(t, j + 1, Len(t))) => Unpaired(kind, f[j + 1])
      BY <2>1, <3>2
    <3> QED
      BY <1>2, <1>4, <2>2, <3>1, <3>3, OwnQuotes
  <2> QED
    BY <2>3, <2>4, <2>5
<1>5. ASSUME NEW k \in 1 .. n, \A j \in k + 1 .. n + 1 : j \in S PROVE k \in S
  <2>1. k \in 1 .. n + 1
    BY <1>1
  <2> QED
    BY <1>4, <1>5, <2>1
<1>6. \A k \in 1 .. n + 1 : k \in S
  <2> HIDE DEF S
  <2> QED
    BY <1>1, <1>3, <1>5, DownInduction
<1>7. 1 \in 1 .. n + 1 /\ SubSeq(t, 1, Len(t)) = t
  BY <1>1, SubSeqFull
<1>8. 1 \in S
  BY <1>6, <1>7
<1>9. ~Nested(kind, SubSeq(t, 1, Len(t))) => Unpaired(kind, f[1])
  BY <1>8
<1> HIDE DEF S
<1> QED
  BY <1>2, <1>7, <1>9, Zenon
-----------------------------------------------------------------------------
(***************************************************************************)
(* The passes that come after: an empty pair of ASCII brackets stays.      *)
(***************************************************************************)

\* the symbols of t from a to b are in set
Within(set, t, a, b) == \A k \in a .. b : t[k] \in set

\* Within a set up to a position and from there on.
LEMMA WithinJoin ==
  ASSUME NEW all, NEW t, NEW a, NEW m, NEW e, a \in Nat /\ m \in Nat /\ e \in Nat,
         Within(all, t, a, m - 1) /\ Within(all, t, m, e - 1)
  PROVE  Within(all, t, a, e - 1)
<1> SUFFICES ASSUME NEW k \in a .. e - 1 PROVE t[k] \in all
  BY DEF Within
<1>1. k \in a .. m - 1 \/ k \in m .. e - 1
  OBVIOUS
<1> QED
  BY <1>1 DEF Within

\* A run of symbols of a part of the set.
LEMMA WithinRun ==
  ASSUME NEW all, NEW set, NEW t, NEW i, NEW e, t \in Seq(Symbol),
         i \in Nat /\ 1 <= i /\ i <= Len(t) + 1, set \subseteq all, e = RunEnd(set, t, i)
  PROVE  e \in Nat /\ 1 <= e /\ i <= e /\ e <= Len(t) + 1 /\ Within(all, t, i, e - 1)
<1>1. e \in Nat /\ i <= e /\ e <= Len(t) + 1 /\ \A k \in i .. e - 1 : t[k] \in set
  BY RunEnds
<1> QED
  BY <1>1 DEF Within

\* One symbol of the set.
LEMMA WithinOne ==
  ASSUME NEW all, NEW t, NEW i, NEW set, t \in Seq(Symbol), Holds(t, i, set), set \subseteq all
  PROVE  i \in 1 .. Len(t) /\ Within(all, t, i, i + 1 - 1)
<1>1. i \in 1 .. Len(t) /\ t[i] \in set
  BY DEF Holds
<1>2. \A k \in i .. i + 1 - 1 : k = i
  BY <1>1
<1> QED
  BY <1>1, <1>2 DEF Within

\* An ASCII arrow has no bracket in it.
LEMMA ArrowPlain ==
  ASSUME NEW t, NEW a, NEW e, t \in Seq(Symbol), a \in Nat /\ 1 <= a /\ a <= Len(t) + 1,
         e = AsciiArrowEnd(t, a), ~(e = 0)
  PROVE  e \in Nat /\ 1 <= e /\ e <= Len(t) + 1 /\ Within(Plain, t, a, e - 1)
<1>0. {Less} \subseteq Plain /\ {Greater} \subseteq Plain /\ Shaft \subseteq Plain
  BY PlainSymbols
<1>1. PICK b : b = IF Holds(t, a, {Less}) THEN a + 1 ELSE a
  OBVIOUS
<1>2. b \in Nat /\ b <= Len(t) + 1 /\ 1 <= b /\ Within(Plain, t, a, b - 1)
  <2>1. CASE Holds(t, a, {Less})
    <3>1. a \in 1 .. Len(t) /\ Within(Plain, t, a, a + 1 - 1)
      BY <1>0, <2>1, WithinOne
    <3> QED
      BY <1>1, <2>1, <3>1
  <2>2. CASE ~Holds(t, a, {Less})
    <3>1. Within(Plain, t, a, a - 1)
      BY DEF Within
    <3> QED
      BY <1>1, <2>2, <3>1
  <2> QED
    BY <2>1, <2>2
<1>3. PICK c : c = RunEnd(Shaft, t, b)
  OBVIOUS
<1>4. c \in Nat /\ 1 <= c /\ c <= Len(t) + 1 /\ Within(Plain, t, b, c - 1)
  BY <1>0, <1>2, <1>3, WithinRun
<1>5. Within(Plain, t, a, c - 1)
  BY <1>2, <1>4, WithinJoin
<1>6. \/ Holds(t, c, {Greater}) /\ e = c + 1
      \/ e = c
  BY <1>1, <1>3 DEF AsciiArrowEnd
<1>7. CASE e = c
  BY <1>4, <1>5, <1>7
<1>8. CASE Holds(t, c, {Greater}) /\ e = c + 1
  <2>1. c \in 1 .. Len(t) /\ Within(Plain, t, c, c + 1 - 1)
    BY <1>0, <1>8, WithinOne
  <2>2. e \in Nat /\ 1 <= e /\ e <= Len(t) + 1 /\ Within(Plain, t, c, e - 1)
    BY <1>8, <2>1
  <2>3. Within(Plain, t, a, e - 1)
    BY <1>4, <1>5, <2>2, WithinJoin
  <2> QED
    BY <2>2, <2>3
<1> QED
  BY <1>6, <1>7, <1>8

\* Nor has what is replaced with the blanks around it.
LEMMA ReplacedPlain ==
  ASSUME NEW set, NEW t, NEW i, NEW a, NEW e, NEW x, t \in Seq(Symbol), i \in 1 .. Len(t),
         set \subseteq Plain, a = RunEnd(set, t, i),
         e \in Nat /\ 1 <= e /\ e <= Len(t) + 1 /\ Within(Plain, t, a, e - 1)
  PROVE  Within(Plain, t, i, Replaced(<<x>>, RunEnd(set, t, e)).next - 1)
<1>1. i \in Nat /\ 1 <= i /\ i <= Len(t) + 1
  OBVIOUS
<1>2. a \in Nat /\ Within(Plain, t, i, a - 1)
  BY <1>1, WithinRun
<1>3. PICK b : b = RunEnd(set, t, e)
  OBVIOUS
<1>4. b \in Nat /\ Within(Plain, t, e, b - 1)
  BY <1>3, WithinRun
<1>5. Within(Plain, t, i, e - 1)
  BY <1>1, <1>2, WithinJoin
<1>6. Within(Plain, t, i, b - 1)
  BY <1>1, <1>4, <1>5, WithinJoin
<1>7. Replaced(<<x>>, b).next = b
  BY DEF Replaced
<1> QED
  BY <1>3, <1>6, <1>7

\* What the turns do: they copy, replace marks, or put in quotation marks.
LEMMA TurnKinds ==
  ASSUME NEW name, NEW t, NEW i, name \in DOMAIN Following, t \in Seq(Symbol), i \in 1 .. Len(t)
  PROVE  \/ Copies(name, t, i)
         \/ Within(Plain, t, i, Turn(name, t, i).next - 1)
         \/ name \in DOMAIN Opener /\ \E j, c, d : Quotes(name, t, i, Turn(name, t, i), j, c, d)
<1>0. /\ Blank \subseteq Plain /\ {Space} \subseteq Plain /\ {Arrow} \subseteq Plain
      /\ Dashes \subseteq Plain
  BY PlainSymbols
<1>1. i \in Nat /\ 1 <= i /\ i <= Len(t) + 1
  OBVIOUS
<1>2. CASE name \in {"arrows", "arrows2"}
  <2>1. Turn(name, t, i) = AsciiArrow(t, i)
    BY <1>2, MarkTurns
  <2>2. PICK a, e : a = RunEnd(Blank, t, i) /\ e = AsciiArrowEnd(t, a)
    OBVIOUS
  <2>3. a \in Nat /\ 1 <= a /\ a <= Len(t) + 1
    BY <1>0, <1>1, <2>2, WithinRun
  <2>4. CASE e = 0
    BY <2>1, <2>2, <2>4 DEF AsciiArrow, Copies
  <2>5. CASE ~(e = 0)
    <3>1. e \in Nat /\ 1 <= e /\ e <= Len(t) + 1 /\ Within(Plain, t, a, e - 1)
      BY <2>2, <2>3, <2>5, ArrowPlain
    <3>2. AsciiArrow(t, i) = Replaced(<<Comma>>, RunEnd(Blank, t, e))
      BY <2>2, <3>1 DEF AsciiArrow
    <3>3. Within(Plain, t, i, Replaced(<<Comma>>, RunEnd(Blank, t, e)).next - 1)
      BY <1>0, <2>2, <3>1, ReplacedPlain
    <3> QED
      BY <2>1, <3>2, <3>3
  <2> QED
    BY <2>4, <2>5
<1>3. CASE name \in {"wide", "wide2"}
  <2>1. Turn(name, t, i) = WideArrow(t, i)
    BY <1>3, MarkTurns
  <2>2. PICK a, e : a = RunEnd({Space}, t, i) /\ e = a + 1
    OBVIOUS
  <2>3. CASE ~Holds(t, a, {Arrow})
    BY <2>1, <2>2, <2>3 DEF WideArrow, Copies
  <2>4. CASE Holds(t, a, {Arrow})
    <3>1. a \in 1 .. Len(t) /\ Within(Plain, t, a, a + 1 - 1)
      BY <1>0, <2>4, WithinOne
    <3>2. e \in Nat /\ 1 <= e /\ e <= Len(t) + 1 /\ Within(Plain, t, a, e - 1)
      BY <2>2, <3>1
    <3>3. WideArrow(t, i) = Replaced(<<Comma>>, RunEnd({Space}, t, e))
      BY <2>2, <2>4 DEF WideArrow
    <3>4. Within(Plain, t, i, Replaced(<<Comma>>, RunEnd({Space}, t, e)).next - 1)
      BY <1>0, <2>2, <3>2, ReplacedPlain
    <3> QED
      BY <2>1, <3>3, <3>4
  <2> QED
    BY <2>3, <2>4
<1>4. CASE name = "dashes"
  <2>1. Turn(name, t, i) = LongDash(t, i)
    BY <1>4, MarkTurns
  <2>2. PICK a, e : a = RunEnd(Blank, t, i) /\ e = RunEnd(Dashes, t, a)
    OBVIOUS
  <2>3. a \in Nat /\ 1 <= a /\ a <= Len(t) + 1
    BY <1>0, <1>1, <2>2, WithinRun
  <2>4. e \in Nat /\ 1 <= e /\ e <= Len(t) + 1 /\ Within(Plain, t, a, e - 1)
    BY <1>0, <2>2, <2>3, WithinRun
  <2>5. CASE ~(e >= a + 2)
    BY <2>1, <2>2, <2>5 DEF LongDash, Copies
  <2>6. CASE e >= a + 2
    <3>1. LongDash(t, i) = Replaced(<<Stop>>, RunEnd(Blank, t, e))
      BY <2>2, <2>6 DEF LongDash
    <3>2. Within(Plain, t, i, Replaced(<<Stop>>, RunEnd(Blank, t, e)).next - 1)
      BY <1>0, <2>2, <2>4, ReplacedPlain
    <3> QED
      BY <2>1, <3>1, <3>2
  <2> QED
    BY <2>5, <2>6
<1>5. CASE name \in {"square", "curly"}
  <2>1. Turn(name, t, i) = Bracket(name, t, i) /\ name \in DOMAIN Opener
    BY <1>5, PlainSymbols DEF Turn
  <2> QED
    BY <1>5, <2>1, BracketTurn DEF Copies
<1>6. CASE name \in {"lenticular", "corner"}
  <2>1. Turn(name, t, i) = WideBracket(name, t, i) /\ name \in DOMAIN Opener
    BY <1>6, PlainSymbols DEF Turn
  <2> QED
    BY <1>6, <2>1, WideTurn DEF Copies
<1> QED
  BY <1>2, <1>3, <1>4, <1>5, <1>6 DEF Following

\* A bracket is copied by the passes that are not its own.
LEMMA AsideCopied ==
  ASSUME NEW kind \in DOMAIN Opener, NEW name, NEW t, NEW i, name \in DOMAIN Following, name # kind,
         t \in Seq(Symbol), i \in 1 .. Len(t), t[i] \in {Opener[kind], Closer[kind]}
  PROVE  Copies(name, t, i)
<1>1. CASE Within(Plain, t, i, Turn(name, t, i).next - 1)
  <2>1. name \in Passes
    BY DEF Passes
  <2>2. PICK e : e = Turn(name, t, i).next /\ e \in i + 1 .. Len(t) + 1
    BY <2>1, TurnsOK DEF TurnOK
  <2>3. i \in i .. e - 1
    BY <2>2
  <2>4. t[i] \in Plain
    BY <1>1, <2>2, <2>3 DEF Within
  <2> QED
    BY <2>4, PlainSymbols
<1>2. CASE name \in DOMAIN Opener /\ \E j, c, d : Quotes(name, t, i, Turn(name, t, i), j, c, d)
  <2>1. t[i] = Opener[name]
    BY <1>2 DEF Quotes
  <2> QED
    BY <1>2, <2>1, PlainSymbols
<1> QED
  BY <1>1, <1>2, TurnKinds

\* Neighbours in a text are neighbours in a part that has both.
LEMMA PartAdjacent ==
  ASSUME NEW t, NEW a, NEW b, NEW m, NEW A, NEW B, t \in Seq(Symbol),
         a \in Nat /\ b \in Nat /\ m \in Nat /\ 1 <= a /\ a <= m /\ m + 1 <= b /\ b <= Len(t),
         t[m] \in A, t[m + 1] \in B
  PROVE  Adjacent(SubSeq(t, a, b), A, B) /\ SubSeq(t, a, b) \in Seq(Symbol)
<1>1. PICK u, n, i : u = SubSeq(t, a, b) /\ n = b - a + 1 /\ i = m - a + 1
  OBVIOUS
<1>2. /\ n \in Nat /\ Len(u) = n /\ \A q \in 1 .. n : u[q] = t[a + q - 1]
      /\ u \in Seq(Symbol)
  BY <1>1
<1>3. i \in 1 .. n - 1 /\ i \in 1 .. n /\ i + 1 \in 1 .. n /\ a + i - 1 = m /\ a + (i + 1) - 1 = m + 1
  BY <1>1
<1>4. u[i] \in A /\ u[i + 1] \in B
  BY <1>2, <1>3
<1>5. Adjacent(u, A, B)
  BY ONLY <1>2, <1>3, <1>4 DEF Adjacent
<1> QED
  BY <1>1, <1>2, <1>5

\* the text has an empty pair of the kind
Empty(kind, t) == Adjacent(t, {Opener[kind]}, {Closer[kind]})

\* an empty pair of the kind begins at m
EmptyAt(kind, t, m) == t[m] = Opener[kind] /\ t[m + 1] = Closer[kind]

\* A turn of another pass puts an empty pair out again.
LEMMA TurnKeepsEmpty ==
  ASSUME NEW kind \in DOMAIN Opener, NEW name, NEW t, NEW f, NEW k, NEW m,
         name \in DOMAIN Following, name # kind, t \in Seq(Symbol), k \in 1 .. Len(t),
         Rests(f, name, t), m \in k .. Len(t) - 1, EmptyAt(kind, t, m),
         m >= Turn(name, t, k).next => Empty(kind, f[Turn(name, t, k).next])
  PROVE  Empty(kind, f[k])
<1>0. PICK o, c, n : o = Opener[kind] /\ c = Closer[kind] /\ n = Len(t) /\ n \in Nat
  OBVIOUS
<1>1. PICK put, e, r, u : /\ put = Turn(name, t, k).put /\ e = Turn(name, t, k).next
                          /\ r = f[e] /\ u = f[k]
  OBVIOUS
<1>2. u = put \o r /\ put \in Seq(Symbol) /\ e \in k + 1 .. Len(t) + 1 /\ r \in Seq(Symbol)
  <2>1. /\ f[k] = put \o f[e] /\ e \in k + 1 .. Len(t) + 1 /\ put \in Seq(Symbol)
    BY <1>1, Zenon DEF Rests
  <2>2. e \in 1 .. Len(t) + 1
    BY <2>1
  <2>3. f[e] \in Seq(Symbol)
    BY <2>2, Zenon DEF Rests
  <2> QED
    BY <1>1, <2>1, <2>3, Zenon
<1>3. t[m] = o /\ t[m + 1] = c /\ m \in Nat /\ m \in 1 .. n - 1 /\ k <= m
  BY <1>0 DEF EmptyAt
<1>4. CASE m >= e
  <2>1. Adjacent(r, {o}, {c})
    BY <1>0, <1>1, <1>4, Zenon DEF Empty
  <2>2. Adjacent(u, {o}, {c})
    BY <1>2, <2>1, AdjacentTwo
  <2> QED
    BY <1>0, <1>1, <2>2, Zenon DEF Empty
<1>5. CASE m = k
  <2>1. PICK l : l = k + 1
    OBVIOUS
  <2>2. l \in 1 .. Len(t) /\ t[l] = c /\ t[k] = o
    BY <1>0, <1>3, <1>5, <2>1
  <2>3. Copies(name, t, k) /\ Copies(name, t, l)
    BY <1>0, <2>2, AsideCopied
  <2>4. GoesOn(f, t, k) /\ GoesOn(f, t, l)
    BY <2>2, <2>3, CopyStep
  <2>5. PICK x, v : x = <<t[k]>> /\ v = f[l]
    OBVIOUS
  <2>6. u = x \o v /\ v \in Seq(Symbol) /\ v # <<>> /\ v[1] = c /\ t[k] \in Symbol
    BY <1>1, <2>1, <2>2, <2>4, <2>5, Zenon DEF GoesOn
  <2>7. x \in Seq(Symbol) /\ x # <<>> /\ x[Len(x)] \in {o} /\ v[1] \in {c}
    BY <2>2, <2>5, <2>6
  <2>8. Adjacent(u, {o}, {c})
    BY <2>6, <2>7, AdjacentTwo
  <2> QED
    BY <1>0, <1>1, <2>8, Zenon DEF Empty
<1>6. CASE ~(m >= e) /\ m # k
  <2>1. ~Copies(name, t, k)
    <3> SUFFICES ASSUME Copies(name, t, k) PROVE FALSE
      OBVIOUS
    <3>1. e = k + 1
      BY <1>1 DEF Copies, Copy
    <3> QED
      BY <1>3, <1>6, <3>1
  <2>2. ~Within(Plain, t, k, e - 1)
    <3>1. m \in k .. e - 1
      BY <1>2, <1>3, <1>6
    <3>2. t[m] \notin Plain
      BY <1>0, <1>3, PlainSymbols
    <3> QED
      BY <3>1, <3>2 DEF Within
  <2>3. PICK j, a, b : Quotes(name, t, k, Turn(name, t, k), j, a, b)
    BY <1>1, <2>1, <2>2, TurnKinds
  <2>4. name \in DOMAIN Opener
    BY <1>1, <2>1, <2>2, TurnKinds
  <2>5. /\ j \in k + 1 .. Len(t) /\ t[j] = Closer[name] /\ a \in Nat /\ b \in Nat
        /\ k + 1 <= a /\ b <= j - 1 /\ \A q \in k + 1 .. j - 1 : q < a \/ q > b => t[q] \in Blank
        /\ put = <<Quote>> \o SubSeq(t, a, b) \o <<Quote>> /\ e = j + 1
    BY <1>1, <2>3 DEF Quotes
  <2>6. t[m] \notin Blank /\ t[m + 1] \notin Blank /\ t[m] # Closer[name] /\ t[m + 1] # Closer[name]
    BY <1>0, <1>3, <2>4, PlainSymbols
  <2>7. m \in k + 1 .. j - 1 /\ m + 1 \in k + 1 .. j - 1
    <3>1. m # j /\ m + 1 # j
      BY <2>5, <2>6
    <3>2. k < m /\ m < j + 1
      BY <1>2, <1>3, <1>6, <2>5
    <3>3. j \in Nat /\ k \in Nat /\ m \in Nat
      BY <1>3, <2>5
    <3> QED
      BY ONLY <3>1, <3>2, <3>3
  <2>8. a <= m /\ m + 1 <= b
    BY <1>3, <2>5, <2>6, <2>7
  <2>9. PICK mid, q, x : mid = SubSeq(t, a, b) /\ q = <<Quote>> /\ x = q \o mid
    OBVIOUS
  <2>10. Adjacent(mid, {o}, {c}) /\ mid \in Seq(Symbol)
    <3>1. /\ a \in Nat /\ b \in Nat /\ m \in Nat /\ 1 <= a /\ a <= m /\ m + 1 <= b /\ b <= Len(t)
          /\ t[m] \in {o} /\ t[m + 1] \in {c}
      BY <1>3, <2>5, <2>8
    <3> QED
      BY <2>9, <3>1, PartAdjacent
  <2>11. q \in Seq(Symbol)
    <3>1. Quote \in Symbol
      BY PlainSymbols DEF Plain
    <3> QED
      BY <2>9, <3>1
  <2>12. Adjacent(x, {o}, {c}) /\ x \in Seq(Symbol)
    <3>1. x \in Seq(Symbol)
      BY <2>9, <2>10, <2>11
    <3> QED
      BY <2>9, <2>10, <2>11, <3>1, AdjacentTwo
  <2>13. put = x \o q
    BY <2>5, <2>9, Zenon
  <2>14. Adjacent(put, {o}, {c})
    BY <2>11, <2>12, <2>13, AdjacentTwo
  <2>15. Adjacent(u, {o}, {c})
    BY <1>2, <2>14, AdjacentTwo
  <2> QED
    BY <1>0, <1>1, <2>15, Zenon DEF Empty
<1> QED
  BY <1>4, <1>5, <1>6

\* The passes that are not its own leave an empty pair as it is.
LEMMA EmptyStays ==
  ASSUME NEW kind \in DOMAIN Opener, NEW name, NEW t, name \in DOMAIN Following, name # kind,
         t \in Seq(Symbol), Empty(kind, t)
  PROVE  Empty(kind, Pass(name, t))
<1>0. name \in Passes
  BY DEF Passes
<1>1. PICK n : n = Len(t) /\ n \in Nat
  OBVIOUS
<1>2. PICK f : Rests(f, name, t) /\ Pass(name, t) = f[1]
  BY <1>0, PassRests
<1> DEFINE S == {k \in 1 .. n + 1 : \A m \in k .. n - 1 : EmptyAt(kind, t, m) => Empty(kind, f[k])}
<1>3. n + 1 \in S
  BY <1>1
<1>4. ASSUME NEW k \in 1 .. n, \A j \in k + 1 .. n + 1 : j \in S,
             NEW m \in k .. n - 1, EmptyAt(kind, t, m)
      PROVE  Empty(kind, f[k])
  <2>1. PICK e : e = Turn(name, t, k).next
    OBVIOUS
  <2>2. e \in k + 1 .. n + 1
    BY <1>1, <1>2, <2>1 DEF Rests
  <2>3. ASSUME m >= e PROVE Empty(kind, f[e])
    <3>1. m \in e .. n - 1
      BY <1>1, <2>2, <2>3
    <3> QED
      BY <1>4, <2>2, <3>1
  <2> HIDE DEF S
  <2> QED
    BY <1>1, <1>2, <1>4, <2>1, <2>3, TurnKeepsEmpty
<1>5. ASSUME NEW k \in 1 .. n, \A j \in k + 1 .. n + 1 : j \in S PROVE k \in S
  <2>1. k \in 1 .. n + 1
    BY <1>1
  <2> QED
    BY <1>4, <1>5, <2>1
<1>6. \A k \in 1 .. n + 1 : k \in S
  <2> HIDE DEF S
  <2> QED
    BY <1>1, <1>3, <1>5, DownInduction
<1>7. PICK m \in 1 .. n - 1 : EmptyAt(kind, t, m)
  BY <1>1 DEF Empty, Adjacent, EmptyAt
<1>8. 1 \in S
  BY <1>1, <1>6
<1>9. Empty(kind, f[1])
  BY <1>7, <1>8
<1> HIDE DEF S
<1> QED
  BY <1>2, <1>9, Zenon

\* So no pass that comes after brings a pair out.
LEMMA UnpairedStays ==
  ASSUME NEW kind \in DOMAIN Opener, NEW name, NEW t, name \in DOMAIN Following, name # kind,
         t \in Seq(Symbol), Unpaired(kind, t)
  PROVE  Unpaired(kind, Pass(name, t))
<1>1. PICK u : u = Pass(name, t)
  OBVIOUS
<1>2. name \in Passes
  BY DEF Passes
<1>3. NoMore(kind, u, t)
  BY <1>1, <1>2, PassNoMore
<1>4. Empty(kind, t) => Empty(kind, u)
  BY <1>1, EmptyStays
<1>5. Unpaired(kind, u)
  BY <1>3, <1>4, Zenon DEF NoMore, Unpaired, Empty
<1> QED
  BY <1>1, <1>5

\* A pair that is left is one of a nest.
LEMMA PairLeft ==
  ASSUME NEW kind \in DOMAIN Opener, NEW t, t \in Seq(Symbol), Unpaired(kind, t), Pair(kind, t)
  PROVE  Nested(kind, t)
<1>1. PICK o, c, n : o = Opener[kind] /\ c = Closer[kind] /\ n = Len(t) /\ n \in Nat
  OBVIOUS
<1>2. DOMAIN t = 1 .. n
  BY <1>1
<1>3. PICK i \in 1 .. n, j \in 1 .. n :
         /\ i < j /\ t[i] = o /\ t[j] = c
         /\ kind \in {"square", "curly"} =>
               j > i + 1 /\ \A k \in i + 1 .. j - 1 : t[k] \notin {o, c}
  BY <1>1, <1>2 DEF Pair
<1>4. Encloses(kind, t)
  BY <1>1, <1>3 DEF Encloses, Ordered
<1>5. kind \in {"square", "curly"} /\ Adjacent(t, {o}, {c})
  BY <1>1, <1>4, Zenon DEF Unpaired
<1>6. PICK m \in 1 .. n - 1 : t[m] = o /\ t[m + 1] = c
  BY <1>1, <1>5 DEF Adjacent
<1>7. m # i
  <2> SUFFICES ASSUME m = i PROVE FALSE
    OBVIOUS
  <2>1. i + 1 \in i + 1 .. j - 1
    BY <1>3, <1>5
  <2>2. t[i + 1] \notin {o, c}
    BY <1>3, <1>5, <2>1
  <2> QED
    BY <1>6, <2>2
<1>8. m \in 1 .. n /\ m + 1 \in 1 .. n /\ m < m + 1
  BY <1>1, <1>6
<1>9. CASE m < i
  BY ONLY <1>1, <1>2, <1>3, <1>6, <1>8, <1>9 DEF Nested
<1>10. CASE i < m
  BY ONLY <1>1, <1>2, <1>3, <1>6, <1>8, <1>10 DEF Nested
<1> QED
  BY <1>6, <1>7, <1>9, <1>10

-----------------------------------------------------------------------------
\* the passes after the one that rewrites the brackets of a kind
Later ==
    [square     |-> {"curly", "lenticular", "corner", "arrows2", "wide2", "dashes", "done"},
     curly      |-> {"lenticular", "corner", "arrows2", "wide2", "dashes", "done"},
     lenticular |-> {"corner", "arrows2", "wide2", "dashes", "done"},
     corner     |-> {"arrows2", "wide2", "dashes", "done"}]

(***************************************************************************)
(* Brackets that were not nested never are, and once the pass of their     *)
(* kind is over no pair of them is left.                                   *)
(***************************************************************************)
KindInv(kind) ==
    ~Nested(kind, input) => /\ ~Nested(kind, s \o todo)
                            /\ stage \in Later[kind] => Unpaired(kind, s)

BracketsInv == ContentInv /\ \A kind \in DOMAIN Opener : KindInv(kind)

\* The order of the passes.
LEMMA LaterStages ==
  ASSUME NEW kind \in DOMAIN Opener
  PROVE  /\ {"links", "lines", "arrows"} \cap Later[kind] = {} /\ "done" \in Later[kind]
         /\ \A name \in DOMAIN Following :
              /\ name \in Later[kind] => name # kind
              /\ Following[name] \in Later[kind] => name = kind \/ name \in Later[kind]
<1>1. kind \in {"square", "curly", "lenticular", "corner"}
  BY PlainSymbols
<1>2. /\ Later["square"] = {"curly", "lenticular", "corner", "arrows2", "wide2", "dashes", "done"}
      /\ Later["curly"] = {"lenticular", "corner", "arrows2", "wide2", "dashes", "done"}
      /\ Later["lenticular"] = {"corner", "arrows2", "wide2", "dashes", "done"}
      /\ Later["corner"] = {"arrows2", "wide2", "dashes", "done"}
  BY DEF Later
<1>3. {"links", "lines", "arrows"} \cap Later[kind] = {} /\ "done" \in Later[kind]
  BY <1>1, <1>2
<1>4. ASSUME NEW name \in DOMAIN Following
      PROVE  /\ name \in Later[kind] => name # kind
             /\ Following[name] \in Later[kind] => name = kind \/ name \in Later[kind]
  <2>1. /\ DOMAIN Following = {"arrows", "wide", "square", "curly", "lenticular", "corner", "arrows2",
                               "wide2", "dashes"}
        /\ Following["arrows"] = "wide" /\ Following["wide"] = "square"
        /\ Following["square"] = "curly" /\ Following["curly"] = "lenticular"
        /\ Following["lenticular"] = "corner" /\ Following["corner"] = "arrows2"
        /\ Following["arrows2"] = "wide2" /\ Following["wide2"] = "dashes"
        /\ Following["dashes"] = "done"
    BY DEF Following
  <2> QED
    BY <1>1, <1>2, <2>1
<1> QED
  BY <1>3, <1>4

\* No step nests brackets of a kind, or brings a pair out after the pass of the kind.
LEMMA NextKind ==
  ASSUME NEW kind \in DOMAIN Opener, ContentInv, KindInv(kind), [Next]_vars
  PROVE  KindInv(kind)'
<1>1. /\ TypeOK /\ s \in Seq(Symbol) /\ todo \in Seq(Symbol) /\ (stage # "lines" => todo = <<>>)
  BY DEF ContentInv, TypeOK
<1>2. \A t : t \in Seq(Symbol) => t \o <<>> = t /\ <<>> \o t = t
  OBVIOUS
<1>3. stage # "lines" => s \o todo = s
  BY <1>1, <1>2
<1>4. CASE RewriteLinks
  <2>1. stage = "links" /\ stage' = "lines" /\ todo' = Pass("links", s) /\ s' = <<>> /\ input' = input
    BY <1>4 DEF RewriteLinks
  <2>2. "links" \in Passes
    BY DEF Passes
  <2>3. NoMore(kind, todo', s) /\ todo' \in Seq(Symbol)
    BY <1>1, <2>1, <2>2, PassNoMore, PassOK
  <2>4. s' \o todo' = todo' /\ s \o todo = s
    BY <1>2, <1>3, <2>1, <2>3
  <2>5. NoMore(kind, s' \o todo', s \o todo)
    BY <2>3, <2>4, Zenon
  <2>6. stage' \notin Later[kind]
    BY <2>1, LaterStages
  <2> QED
    BY <2>1, <2>5, <2>6, Zenon DEF KindInv, NoMore
<1>5. CASE TakeLine
  <2>1. stage' = "lines" /\ input' = input
    BY <1>5 DEF TakeLine
  <2>2. NoMore(kind, s' \o todo', s \o todo)
    BY <1>1, <1>5, LineNoMore
  <2>3. stage' \notin Later[kind]
    BY <2>1, LaterStages
  <2> QED
    BY <2>1, <2>2, <2>3, Zenon DEF KindInv, NoMore
<1>6. CASE EndOfLines
  <2>1. stage' = "arrows" /\ s' = s /\ todo' = todo /\ input' = input
    BY <1>6 DEF EndOfLines
  <2>2. stage' \notin Later[kind]
    BY <2>1, LaterStages
  <2> QED
    BY <2>1, <2>2, Zenon DEF KindInv
<1>7. CASE Rewrite
  <2>1. /\ stage \in DOMAIN Following /\ s' = Pass(stage, s) /\ stage' = Following[stage]
        /\ todo' = todo /\ input' = input
    BY <1>7 DEF Rewrite
  <2>2. stage # "lines" /\ stage \in Passes
    BY <2>1 DEF Following, Passes
  <2>3. NoMore(kind, s', s) /\ s' \in Seq(Symbol)
    BY <1>1, <2>1, <2>2, PassNoMore, PassOK
  <2>4. s' \o todo' = s' /\ s \o todo = s
    BY <1>1, <1>2, <1>3, <2>1, <2>2, <2>3
  <2>5. ASSUME ~Nested(kind, input) PROVE ~Nested(kind, s) /\ ~Nested(kind, s')
    BY <2>3, <2>4, <2>5, Zenon DEF KindInv, NoMore
  <2>6. ASSUME ~Nested(kind, input), stage' \in Later[kind] PROVE Unpaired(kind, s')
    <3>1. stage = kind \/ stage \in Later[kind]
      BY <2>1, <2>6, LaterStages
    <3>2. CASE stage = kind
      BY <1>1, <2>1, <2>5, <2>6, <3>2, OwnPass
    <3>3. CASE stage \in Later[kind]
      <4>1. stage # kind
        BY <2>1, <3>3, LaterStages
      <4>2. Unpaired(kind, s)
        BY <2>6, <3>3, Zenon DEF KindInv
      <4> QED
        BY <1>1, <2>1, <4>1, <4>2, UnpairedStays
    <3> QED
      BY <3>1, <3>2, <3>3
  <2> QED
    BY <2>1, <2>4, <2>5, <2>6, Zenon DEF KindInv
<1>8. CASE RunAgain
  <2>1. stage = "done" /\ stage' = "links" /\ input' = s /\ s' = s /\ todo' = todo
    BY <1>8 DEF RunAgain
  <2>2. stage' \notin Later[kind] /\ s' \o todo' = s
    BY <1>3, <2>1, LaterStages
  <2> QED
    BY <2>1, <2>2, Zenon DEF KindInv
<1>9. CASE UNCHANGED vars
  BY <1>9, Zenon DEF KindInv, vars
<1>10. CASE Finished
  BY <1>9, <1>10 DEF Finished
<1> QED
  BY <1>4, <1>5, <1>6, <1>7, <1>8, <1>9, <1>10 DEF Next

(***************************************************************************)
(* Whatever the text, a call leaves no arrow, no run of dashes and no pair *)
(* of brackets of a kind that was not nested in what it was given.         *)
(***************************************************************************)
THEOREM StructureIsRewritten == Spec => []StructureRewritten
<1>1. Init => BracketsInv
  <2> SUFFICES ASSUME Init PROVE BracketsInv
    OBVIOUS
  <2>1. ContentInv /\ s \in Seq(Symbol) /\ stage = "links" /\ todo = <<>> /\ input = s
    BY InitContent DEF Init, ContentInv, TypeOK
  <2>2. s \o todo = s
    BY <2>1
  <2>3. ASSUME NEW kind \in DOMAIN Opener PROVE KindInv(kind)
    <3>1. stage \notin Later[kind]
      BY <2>1, LaterStages
    <3> QED
      BY <2>1, <2>2, <3>1, Zenon DEF KindInv
  <2> QED
    BY <2>1, <2>3 DEF BracketsInv
<1>2. BracketsInv /\ [Next]_vars => BracketsInv'
  <2> SUFFICES ASSUME BracketsInv, [Next]_vars PROVE BracketsInv'
    OBVIOUS
  <2>1. ContentInv'
    BY NextContent DEF BracketsInv
  <2>2. \A kind \in DOMAIN Opener : KindInv(kind)'
    BY NextKind DEF BracketsInv
  <2> QED
    BY <2>1, <2>2 DEF BracketsInv
<1>3. BracketsInv /\ MarksRewritten => StructureRewritten
  <2> SUFFICES ASSUME BracketsInv, stage = "done", NEW kind \in DOMAIN Opener, Pair(kind, s),
                      ~Nested(kind, input)
               PROVE  FALSE
    BY DEF StructureRewritten
  <2>1. s \in Seq(Symbol) /\ todo = <<>> /\ KindInv(kind)
    BY DEF BracketsInv, ContentInv, TypeOK
  <2>2. s \o todo = s
    BY <2>1
  <2>3. stage \in Later[kind]
    BY LaterStages
  <2>4. ~Nested(kind, s) /\ Unpaired(kind, s)
    BY <2>1, <2>2, <2>3, Zenon DEF KindInv
  <2> QED
    BY <2>1, <2>4, PairLeft
<1> QED
  BY <1>1, <1>2, <1>3, MarksAreRewritten, PTL DEF Spec

-----------------------------------------------------------------------------
(***************************************************************************)
(* The words of a text, and where it is cut between them.                  *)
(***************************************************************************)
Words(t) == Len(Content(t))

\* the line ends, and what takes their place
Gaps == Marks \cup {Newline}

Shifted(n, set) == {n + m : m \in set}

\* The words of two texts behind each other.
LEMMA WordsTwo ==
  ASSUME NEW a, NEW b, a \in Seq(Symbol), b \in Seq(Symbol)
  PROVE  Words(a \o b) = Words(a) + Words(b) /\ Words(a) \in Nat /\ Words(b) \in Nat
<1>1. PICK x, y : x = Content(a) /\ y = Content(b)
  OBVIOUS
<1>2. Content(a \o b) = x \o y /\ x \in Seq(Spoken) /\ y \in Seq(Spoken)
  BY <1>1, ContentTwo
<1>3. Len(x \o y) = Len(x) + Len(y) /\ Len(x) \in Nat /\ Len(y) \in Nat
  BY <1>2
<1> QED
  BY <1>1, <1>2, <1>3 DEF Words

\* the words of u up to a position, when it is a and b behind each other
Begins(u, a, b) ==
    /\ \A i \in 1 .. Len(a) :
         /\ i \in 1 .. Len(u) /\ u[i] = a[i]
         /\ Words(SubSeq(u, 1, i)) = Words(SubSeq(a, 1, i))
    /\ \A j \in 1 .. Len(b) :
         /\ Len(a) + j \in 1 .. Len(u) /\ u[Len(a) + j] = b[j]
         /\ Words(SubSeq(u, 1, Len(a) + j)) = Words(a) + Words(SubSeq(b, 1, j))
    /\ Len(u) = Len(a) + Len(b)

\* The beginnings of two texts behind each other.
LEMMA BeginningsOfTwo ==
  ASSUME NEW a, NEW b, NEW u, a \in Seq(Symbol), b \in Seq(Symbol), u = a \o b
  PROVE  Begins(u, a, b)
<1>0. Len(a) \in Nat /\ Len(b) \in Nat
  OBVIOUS
<1>1. PICK m, n : m = Len(a) /\ n = Len(b) /\ m \in Nat /\ n \in Nat
  BY ONLY <1>0
<1>2. u \in Seq(Symbol) /\ Len(u) = m + n
  BY <1>1
<1>3. ASSUME NEW i \in 1 .. m
      PROVE  i \in 1 .. Len(u) /\ u[i] = a[i] /\ Words(SubSeq(u, 1, i)) = Words(SubSeq(a, 1, i))
  <2>1. i \in 1 .. Len(u) /\ u[i] = a[i]
    BY <1>1, <1>2
  <2>2. 1 \in 1 .. Len(a) + 1 /\ i \in 1 - 1 .. Len(a)
    BY <1>1
  <2>3. SubSeq(a \o b, 1, i) = SubSeq(a, 1, i)
    BY ONLY a \in Seq(Symbol), b \in Seq(Symbol), <2>2, SubSeqOfConcat1
  <2> QED
    BY <2>1, <2>3
<1>4. ASSUME NEW j \in 1 .. n
      PROVE  /\ m + j \in 1 .. Len(u) /\ u[m + j] = b[j]
             /\ Words(SubSeq(u, 1, m + j)) = Words(a) + Words(SubSeq(b, 1, j))
  <2>1. m + j \in 1 .. Len(u) /\ u[m + j] = b[j]
    BY <1>1, <1>2
  <2>2. PICK e, k : e = m + j /\ k = m + 1
    OBVIOUS
  <2>3. /\ 1 \in Nat /\ e \in Nat /\ k \in Nat /\ 1 <= 1 /\ 1 <= k /\ k <= e + 1 /\ e <= Len(u)
        /\ k - 1 = m /\ k - m = 1 /\ e - m = j
    BY <1>1, <1>2, <2>2
  <2>4. SubSeq(u, 1, e) = SubSeq(u, 1, k - 1) \o SubSeq(u, k, e)
    BY ONLY <1>2, <2>3, PartSplit
  <2>5. SubSeq(u, 1, k - 1) = a
    <3>1. SubSeq(a \o b, 1, m) = SubSeq(a, 1, m)
      <4>1. 1 \in 1 .. Len(a) + 1 /\ m \in 1 - 1 .. Len(a)
        BY <1>1
      <4> QED
        BY ONLY a \in Seq(Symbol), b \in Seq(Symbol), <4>1, SubSeqOfConcat1
    <3>2. SubSeq(a, 1, m) = a
      BY <1>1, SubSeqFull
    <3> QED
      BY <2>3, <3>1, <3>2
  <2>6. SubSeq(u, k, e) = SubSeq(b, 1, j)
    <3>1. SubSeq(a \o b, k, e) = SubSeq(b, k - Len(a), e - Len(a))
      <4>1. k \in Len(a) + 1 .. Len(a) + Len(b) + 1 /\ e \in k - 1 .. Len(a) + Len(b)
        BY <1>1, <2>2
      <4> QED
        BY ONLY a \in Seq(Symbol), b \in Seq(Symbol), <4>1, SubSeqOfConcat2
    <3> QED
      BY <1>1, <2>3, <3>1
  <2>7. SubSeq(b, 1, j) \in Seq(Symbol)
    BY <1>1
  <2>8. Words(a \o SubSeq(b, 1, j)) = Words(a) + Words(SubSeq(b, 1, j))
    BY <2>7, WordsTwo
  <2> QED
    BY <2>1, <2>2, <2>4, <2>5, <2>6, <2>8
<1> QED
  BY ONLY <1>1, <1>2, <1>3, <1>4 DEF Begins

\* The cuts of two texts behind each other.
LEMMA CutsTwo ==
  ASSUME NEW a, NEW b, NEW u, NEW set, Joined(u, a, b)
  PROVE  Cuts(set, u) = Cuts(set, a) \cup Shifted(Words(a), Cuts(set, b))
<1>0. Len(a) \in Nat /\ Len(b) \in Nat
  BY DEF Joined
<1>1. PICK m, n : m = Len(a) /\ n = Len(b) /\ m \in Nat /\ n \in Nat
  BY ONLY <1>0
<1>2. /\ \A i \in 1 .. m : /\ i \in 1 .. Len(u) /\ u[i] = a[i]
                           /\ Words(SubSeq(u, 1, i)) = Words(SubSeq(a, 1, i))
      /\ \A j \in 1 .. n : /\ m + j \in 1 .. Len(u) /\ u[m + j] = b[j]
                           /\ Words(SubSeq(u, 1, m + j)) = Words(a) + Words(SubSeq(b, 1, j))
      /\ Len(u) = m + n
  <2>1. Begins(u, a, b)
    BY BeginningsOfTwo DEF Joined
  <2> QED
    BY ONLY <1>1, <2>1 DEF Begins
<1>3. ASSUME NEW i \in 1 .. Len(u), u[i] \in set
      PROVE  Words(SubSeq(u, 1, i)) \in Cuts(set, a) \cup Shifted(Words(a), Cuts(set, b))
  <2>1. CASE i <= m
    <3>1. i \in 1 .. m
      BY <1>1, <2>1
    <3>2. a[i] \in set /\ Words(SubSeq(u, 1, i)) = Words(SubSeq(a, 1, i))
      BY <1>2, <1>3, <3>1
    <3>3. Words(SubSeq(a, 1, i)) \in Cuts(set, a)
      BY <1>1, <3>1, <3>2 DEF Cuts, Words
    <3> QED
      BY <3>2, <3>3
  <2>2. CASE ~(i <= m)
    <3>0. m \in Nat /\ n \in Nat /\ Len(u) = m + n
      BY <1>1, <1>2, Zenon
    <3>1. PICK j : j = i - m /\ j \in 1 .. n /\ i = m + j
      BY ONLY i \in 1 .. Len(u), <2>2, <3>0
    <3>2. b[j] \in set /\ Words(SubSeq(u, 1, i)) = Words(a) + Words(SubSeq(b, 1, j))
      BY <1>2, <1>3, <3>1
    <3>3. Words(SubSeq(b, 1, j)) \in Cuts(set, b)
      BY <1>1, <3>1, <3>2 DEF Cuts, Words
    <3> QED
      BY <3>2, <3>3 DEF Shifted
  <2> QED
    BY <2>1, <2>2
<1>4. ASSUME NEW i \in 1 .. m, a[i] \in set PROVE Words(SubSeq(a, 1, i)) \in Cuts(set, u)
  <2>1. i \in 1 .. Len(u) /\ u[i] \in set /\ Words(SubSeq(u, 1, i)) = Words(SubSeq(a, 1, i))
    BY <1>2, <1>4
  <2> QED
    BY <2>1 DEF Cuts, Words
<1>5. ASSUME NEW j \in 1 .. n, b[j] \in set
      PROVE  Words(a) + Words(SubSeq(b, 1, j)) \in Cuts(set, u)
  <2>1. PICK i : i = m + j
    OBVIOUS
  <2>2. /\ i \in 1 .. Len(u) /\ u[i] \in set
        /\ Words(SubSeq(u, 1, i)) = Words(a) + Words(SubSeq(b, 1, j))
    BY <1>2, <1>5, <2>1
  <2> QED
    BY <2>2 DEF Cuts, Words
<1>6. Cuts(set, u) \subseteq Cuts(set, a) \cup Shifted(Words(a), Cuts(set, b))
  BY <1>3 DEF Cuts, Words
<1>7. Cuts(set, a) \subseteq Cuts(set, u)
  BY <1>1, <1>4 DEF Cuts, Words
<1>8. Shifted(Words(a), Cuts(set, b)) \subseteq Cuts(set, u)
  BY <1>1, <1>5 DEF Cuts, Words, Shifted
<1> QED
  BY <1>6, <1>7, <1>8

\* u is a text with the words of t, cut wherever t is
KeepsCuts(t, u) ==
    u \in Seq(Symbol) /\ Words(u) = Words(t) /\ Cuts(Gaps, t) \subseteq Cuts(Gaps, u)

\* To keep the cuts is reflexive and transitive.
LEMMA KeepsCutsOrder ==
  ASSUME NEW t, NEW u, NEW v, t \in Seq(Symbol)
  PROVE  /\ KeepsCuts(t, t)
         /\ KeepsCuts(t, u) /\ KeepsCuts(u, v) => KeepsCuts(t, v)
BY DEF KeepsCuts

\* Two texts that keep the cuts, behind each other.
LEMMA KeepsCutsTwo ==
  ASSUME NEW a, NEW b, NEW c, NEW d, a \in Seq(Symbol), b \in Seq(Symbol),
         KeepsCuts(a, c), KeepsCuts(b, d)
  PROVE  KeepsCuts(a \o b, c \o d)
<1>1. c \in Seq(Symbol) /\ d \in Seq(Symbol) /\ Words(c) = Words(a) /\ Words(d) = Words(b)
  BY DEF KeepsCuts
<1>2. PICK t, u : t = a \o b /\ u = c \o d
  OBVIOUS
<1>3. Cuts(Gaps, t) = Cuts(Gaps, a) \cup Shifted(Words(a), Cuts(Gaps, b))
  <2>1. Joined(t, a, b)
    BY <1>2 DEF Joined
  <2> QED
    BY ONLY <2>1, CutsTwo
<1>4. Cuts(Gaps, u) = Cuts(Gaps, c) \cup Shifted(Words(c), Cuts(Gaps, d))
  <2>1. Joined(u, c, d)
    BY <1>1, <1>2 DEF Joined
  <2> QED
    BY ONLY <2>1, CutsTwo
<1>5. Shifted(Words(a), Cuts(Gaps, b)) \subseteq Shifted(Words(a), Cuts(Gaps, d))
  BY DEF KeepsCuts, Shifted
<1>6. Cuts(Gaps, t) \subseteq Cuts(Gaps, u)
  <2>1. Cuts(Gaps, a) \subseteq Cuts(Gaps, c)
    BY DEF KeepsCuts
  <2> QED
    BY ONLY <1>1, <1>3, <1>4, <1>5, <2>1
<1>7. Words(a \o b) = Words(a) + Words(b) /\ Words(c \o d) = Words(c) + Words(d)
  BY <1>1, WordsTwo
<1>8. c \o d \in Seq(Symbol)
  BY <1>1
<1>9. Words(c \o d) = Words(a \o b)
  BY ONLY <1>1, <1>7
<1> QED
  BY <1>2, <1>6, <1>8, <1>9, Zenon DEF KeepsCuts

\* the symbols that are no word, no address, no line end and no mark between lines
Idle == Silent \ Gaps

\* Blanks and prefixes are idle, and so are square brackets.
LEMMA IdleSymbols ==
  /\ Blank \subseteq Idle /\ {Opener["square"], Closer["square"], Space} \subseteq Idle
  /\ {Hash} \subseteq Idle /\ {Slashes} \subseteq Idle /\ {Greater} \subseteq Idle
  /\ {Hyphen, Star} \subseteq Idle /\ {Number} \subseteq Idle
  /\ Gaps \subseteq Silent /\ Url \notin Gaps /\ LinkUrl \notin Gaps
<1>1. Opener["square"] = "[" /\ Closer["square"] = "]" /\ Opener["lenticular"] = "L"
      /\ Opener["corner"] = "C"
  BY DEF Opener, Closer
<1>2. Opener["square"] \in Silent /\ Closer["square"] \in Silent
      /\ Opener["lenticular"] \in Silent /\ Opener["corner"] \in Silent
  BY BracketKinds
<1>3. Gaps = {Stop, Comma, "L", "C", Newline}
  BY <1>1 DEF Gaps, Marks
<1>4. Gaps \subseteq Silent
  BY <1>1, <1>2, <1>3, SilentSymbols
<1>5. /\ Blank \cap Gaps = {} /\ {"[", "]", Space} \cap Gaps = {} /\ Url \notin Gaps
      /\ LinkUrl \notin Gaps
      /\ {Hash, Slashes, Greater, Hyphen, Star, Number} \cap Gaps = {}
  BY <1>3 DEF Blank, Space, Tab, Stop, Comma, Newline, Url, LinkUrl, Hash, Slashes, Greater, Hyphen,
              Star, Number
<1> QED
  BY <1>1, <1>2, <1>4, <1>5, SilentSymbols DEF Idle

\* A text of idle symbols has no word and is not cut.
LEMMA IdleCuts ==
  ASSUME NEW t, t \in Seq(Idle)
  PROVE  /\ t \in Seq(Symbol) /\ Words(t) = 0 /\ Cuts(Gaps, t) = {}
         /\ KeepsCuts(t, <<>>)
<1>1. t \in Seq(Silent) /\ t \in Seq(Symbol)
  BY DEF Idle, Silent
<1>2. Words(t) = 0
  BY <1>1, ContentSilent DEF Words
<1>3. Cuts(Gaps, t) = {}
  BY DEF Cuts, Idle
<1>4. <<>> \in Seq(Silent) /\ <<>> \in Seq(Symbol)
  OBVIOUS
<1>5. Words(<<>>) = 0
  <2>1. Content(<<>>) = <<>>
    BY EmptySeq, ContentSilent
  <2> QED
    BY <2>1 DEF Words
<1> QED
  BY <1>1, <1>2, <1>3, <1>4, <1>5 DEF KeepsCuts

\* A part of idle symbols.
LEMMA IdlePart ==
  ASSUME NEW t, NEW a, NEW b, t \in Seq(Symbol),
         a \in Nat /\ b \in Nat /\ 1 <= a /\ a <= b + 1 /\ b <= Len(t), Within(Idle, t, a, b)
  PROVE  SubSeq(t, a, b) \in Seq(Idle)
<1>1. PICK u, n : u = SubSeq(t, a, b) /\ n = b - a + 1
  OBVIOUS
<1>2. n \in Nat /\ Len(u) = n /\ u \in Seq(Symbol) /\ \A i \in 1 .. n : u[i] = t[a + i - 1]
  BY <1>1
<1>3. \A i \in 1 .. n : a + i - 1 \in a .. b
  BY <1>1, <1>2
<1>4. \A i \in 1 .. n : u[i] \in Idle
  BY <1>2, <1>3 DEF Within
<1>5. u = [i \in 1 .. n |-> u[i]]
  BY <1>2
<1>6. u \in Seq(Idle)
  <2>1. n \in Nat
    BY <1>2
  <2> QED
    BY ONLY <1>4, <1>5, <2>1
<1> QED
  BY <1>1, <1>6

\* A part of a text without the idle symbols at its ends.
LEMMA IdleAround ==
  ASSUME NEW t, NEW a, NEW b, NEW c, NEW d, t \in Seq(Symbol),
         a \in Nat /\ b \in Nat /\ c \in Nat /\ d \in Nat,
         1 <= a /\ a <= c /\ c <= d + 1 /\ d <= b /\ b <= Len(t),
         Within(Idle, t, a, c - 1), Within(Idle, t, d + 1, b)
  PROVE  KeepsCuts(SubSeq(t, a, b), SubSeq(t, c, d))
<1>1. PICK x, y, z, w, all, e, g : /\ x = SubSeq(t, a, e) /\ y = SubSeq(t, c, d) /\ e = c - 1
                                   /\ z = SubSeq(t, g, b) /\ w = SubSeq(t, c, b) /\ g = d + 1
                                   /\ all = SubSeq(t, a, b)
  OBVIOUS
<1>2. all = x \o w /\ x \in Seq(Symbol) /\ w \in Seq(Symbol) /\ all \in Seq(Symbol)
  <2>1. a \in Nat /\ b \in Nat /\ c \in Nat /\ 1 <= a /\ a <= c /\ c <= b + 1 /\ b <= Len(t)
    OBVIOUS
  <2>2. /\ SubSeq(t, a, b) = SubSeq(t, a, c - 1) \o SubSeq(t, c, b)
        /\ SubSeq(t, a, b) \in Seq(Symbol)
        /\ SubSeq(t, a, c - 1) \in Seq(Symbol) /\ SubSeq(t, c, b) \in Seq(Symbol)
    BY ONLY t \in Seq(Symbol), <2>1, PartSplit
  <2> QED
    BY <1>1, <2>2, Zenon
<1>3. w = y \o z /\ y \in Seq(Symbol) /\ z \in Seq(Symbol)
  <2>1. /\ c \in Nat /\ b \in Nat /\ g \in Nat /\ 1 <= c /\ c <= g /\ g <= b + 1 /\ b <= Len(t)
        /\ g - 1 = d
    BY <1>1
  <2>2. /\ SubSeq(t, c, b) = SubSeq(t, c, g - 1) \o SubSeq(t, g, b)
        /\ SubSeq(t, c, g - 1) \in Seq(Symbol) /\ SubSeq(t, g, b) \in Seq(Symbol)
    BY ONLY t \in Seq(Symbol), <2>1, PartSplit
  <2> QED
    BY <1>1, <2>1, <2>2
<1>4. x \in Seq(Idle)
  <2>1. a \in Nat /\ e \in Nat /\ 1 <= a /\ a <= e + 1 /\ e <= Len(t) /\ Within(Idle, t, a, e)
    BY <1>1
  <2> QED
    BY ONLY t \in Seq(Symbol), <1>1, <2>1, IdlePart
<1>5. z \in Seq(Idle)
  <2>1. g \in Nat /\ b \in Nat /\ 1 <= g /\ g <= b + 1 /\ b <= Len(t) /\ Within(Idle, t, g, b)
    BY <1>1
  <2> QED
    BY ONLY t \in Seq(Symbol), <1>1, <2>1, IdlePart
<1>6. KeepsCuts(x, <<>>) /\ KeepsCuts(z, <<>>) /\ KeepsCuts(y, y)
  BY <1>3, <1>4, <1>5, IdleCuts, KeepsCutsOrder
<1>7. KeepsCuts(y \o z, y \o <<>>)
  BY <1>3, <1>6, KeepsCutsTwo
<1>8. KeepsCuts(x \o w, <<>> \o (y \o <<>>))
  <2>1. KeepsCuts(w, y \o <<>>)
    BY <1>3, <1>7, Zenon
  <2> QED
    BY <1>2, <1>6, <2>1, KeepsCutsTwo
<1>9. <<>> \o (y \o <<>>) = y
  BY <1>3
<1> QED
  BY <1>1, <1>2, <1>8, <1>9, Zenon
\* A text that is not cut may become any other with as many words.
LEMMA UncutKeeps ==
  ASSUME NEW t, NEW u, u \in Seq(Symbol), Words(u) = Words(t), Cuts(Gaps, t) = {}
  PROVE  KeepsCuts(t, u)
BY DEF KeepsCuts

\* An address of a link becomes a space and an address.
LEMMA AddressKeeps == KeepsCuts(<<LinkUrl>>, <<Space, Url>>)
<1>1. PICK a, b, l : a = <<Space>> /\ b = <<Url>> /\ l = <<LinkUrl>>
  OBVIOUS
<1>2. Space \in Silent /\ Space \in Symbol /\ Url \in Symbol /\ LinkUrl \in Symbol
  BY SilentSymbols, Meanings
<1>3. a \in Seq(Symbol) /\ b \in Seq(Symbol) /\ l \in Seq(Symbol) /\ <<Space, Url>> = a \o b
  BY <1>1, <1>2
<1>4. Words(a) = 0
  <2>1. Content(<<Space>>) = <<>>
    BY <1>2, ContentOne, Meanings
  <2> QED
    BY <1>1, <2>1 DEF Words
<1>5. Words(b) = Words(l)
  <2>1. Content(<<Url>>) = Content(<<LinkUrl>>)
    BY <1>2, ContentOne, Meanings
  <2> QED
    BY <1>1, <2>1 DEF Words
<1>6. Words(a \o b) = Words(a) + Words(b) /\ Words(b) \in Nat
  BY ONLY <1>3, WordsTwo
<1>7. Words(a \o b) = Words(l)
  BY ONLY <1>4, <1>5, <1>6
<1>8. Cuts(Gaps, l) = {}
  <2>1. Len(l) = 1 /\ l[1] = LinkUrl
    BY <1>1
  <2>2. LinkUrl \notin Gaps
    BY IdleSymbols
  <2>3. {j \in 1 .. Len(l) : l[j] \in Gaps} = {}
    <3>1. \A j \in 1 .. 1 : j = 1
      OBVIOUS
    <3> QED
      BY <2>1, <2>2, <3>1
  <2> QED
    BY ONLY <2>3 DEF Cuts
<1>9. a \o b \in Seq(Symbol)
  BY <1>3
<1>10. KeepsCuts(l, a \o b)
  BY ONLY <1>7, <1>8, <1>9, UncutKeeps
<1> QED
  BY <1>1, <1>3, <1>10, Zenon

\* A turn that copies.
LEMMA CopyKeeps ==
  ASSUME NEW t, NEW i, t \in Seq(Symbol), i \in 1 .. Len(t)
  PROVE  KeepsCuts(SubSeq(t, i, Copy(t, i).next - 1), Copy(t, i).put)
<1>1. Copy(t, i).put = <<t[i]>> /\ Copy(t, i).next = i + 1
  BY DEF Copy
<1>2. Copy(t, i).next - 1 = i
  BY <1>1
<1>3. SubSeq(t, i, i) = <<t[i]>> /\ t[i] \in Symbol
  BY OneSymbol
<1>4. KeepsCuts(<<t[i]>>, <<t[i]>>)
  <2>1. <<t[i]>> \in Seq(Symbol)
    BY <1>3
  <2> QED
    BY ONLY <2>1, KeepsCutsOrder
<1> QED
  BY <1>1, <1>2, <1>3, <1>4, Zenon

\* A link is cut where its text is, and keeps these cuts.
LEMMA LinkKeeps ==
  ASSUME NEW t, NEW i, t \in Seq(Symbol), i \in 1 .. Len(t)
  PROVE  KeepsCuts(SubSeq(t, i, Link(t, i).next - 1), Link(t, i).put)
<1>1. PICK j : j = PairEnd("square", t, i)
  OBVIOUS
<1>2. CASE ~(j > 0 /\ Holds(t, j + 1, {LinkUrl}))
  <2>1. Link(t, i) = Copy(t, i)
    BY <1>1, <1>2 DEF Link
  <2> QED
    BY <2>1, CopyKeeps
<1>3. CASE j > 0 /\ Holds(t, j + 1, {LinkUrl})
  <2>1. PICK c, d, e, end : c = i + 1 /\ d = j - 1 /\ e = j + 1 /\ end = <<Space, Url>>
    OBVIOUS
  <2>2. Link(t, i).put = SubSeq(t, c, d) \o end /\ Link(t, i).next = j + 2
    BY <1>1, <1>3, <2>1 DEF Link, Replaced
  <2>3. j \in i + 2 .. Len(t) /\ t[i] = Opener["square"] /\ t[j] = Closer["square"]
    <3>1. j # 0
      BY <1>3
    <3> QED
      BY <1>1, <3>1, PairFirst
  <2>4. e \in 1 .. Len(t) /\ t[e] = LinkUrl
    BY <1>3, <2>1 DEF Holds
  <2>5. /\ i \in Nat /\ j \in Nat /\ c \in Nat /\ d \in Nat /\ e \in Nat
        /\ 1 <= i /\ i <= c /\ c <= d + 1 /\ d <= j /\ j <= Len(t) /\ Link(t, i).next - 1 = e
        /\ i <= e /\ e <= e + 1 /\ e <= Len(t) /\ e - 1 = j
    BY <2>1, <2>2, <2>3, <2>4
  <2>6. Within(Idle, t, i, c - 1) /\ Within(Idle, t, d + 1, j)
    <3>1. (\A k \in i .. c - 1 : k = i) /\ (\A k \in d + 1 .. j : k = j)
      BY <2>1, <2>5
    <3>2. t[i] \in Idle /\ t[j] \in Idle
      BY <2>3, IdleSymbols
    <3> QED
      BY <3>1, <3>2, Zenon DEF Within
  <2>7. KeepsCuts(SubSeq(t, i, j), SubSeq(t, c, d))
    BY ONLY t \in Seq(Symbol), <2>5, <2>6, IdleAround
  <2>8. SubSeq(t, e, e) = <<LinkUrl>>
    BY <2>4, OneSymbol
  <2>9. KeepsCuts(SubSeq(t, e, e), end)
    BY <2>1, <2>8, AddressKeeps
  <2>10. /\ SubSeq(t, i, e) = SubSeq(t, i, j) \o SubSeq(t, e, e)
         /\ SubSeq(t, i, j) \in Seq(Symbol) /\ SubSeq(t, e, e) \in Seq(Symbol)
    <3>1. /\ SubSeq(t, i, e) = SubSeq(t, i, e - 1) \o SubSeq(t, e, e)
          /\ SubSeq(t, i, e - 1) \in Seq(Symbol) /\ SubSeq(t, e, e) \in Seq(Symbol)
      BY ONLY t \in Seq(Symbol), <2>5, PartSplit
    <3> QED
      BY <2>5, <3>1, Zenon
  <2>11. KeepsCuts(SubSeq(t, i, j) \o SubSeq(t, e, e), SubSeq(t, c, d) \o end)
    BY ONLY <2>7, <2>9, <2>10, KeepsCutsTwo
  <2> QED
    BY <2>2, <2>5, <2>10, <2>11, Zenon
<1> QED
  BY <1>2, <1>3

\* The pass over the links keeps the cuts.
LEMMA LinksKeep ==
  ASSUME NEW t, t \in Seq(Symbol)
  PROVE  KeepsCuts(t, Pass("links", t))
<1>0. PICK n, name : n = Len(t) /\ n \in Nat /\ name = "links"
  OBVIOUS
<1>1. PICK f : Rests(f, name, t) /\ Pass(name, t) = f[1]
  BY <1>0, PassRests DEF Passes
<1> DEFINE S == {k \in 1 .. n + 1 : KeepsCuts(SubSeq(t, k, n), f[k])}
<1>2. n + 1 \in S
  <2>1. f[n + 1] = <<>> /\ n + 1 \in 1 .. n + 1 /\ SubSeq(t, n + 1, n) = <<>>
    BY <1>0, <1>1 DEF Rests
  <2>2. KeepsCuts(<<>>, <<>>)
    BY EmptySeq, KeepsCutsOrder
  <2> QED
    BY <2>1, <2>2
<1>3. ASSUME NEW k \in 1 .. n, \A j \in k + 1 .. n + 1 : j \in S PROVE k \in S
  <2>1. PICK put, next, rest : /\ put = Turn(name, t, k).put /\ next = Turn(name, t, k).next
                               /\ rest = f[next]
    OBVIOUS
  <2>2. /\ f[k] = put \o rest /\ next \in k + 1 .. n + 1 /\ put \in Seq(Symbol)
        /\ k \in 1 .. n + 1 /\ next \in 1 .. n + 1
    <3>1. /\ f[k] = Turn(name, t, k).put \o f[Turn(name, t, k).next]
          /\ Turn(name, t, k).next \in k + 1 .. n + 1 /\ Turn(name, t, k).put \in Seq(Symbol)
      BY <1>0, <1>1 DEF Rests
    <3>2. f[k] = put \o rest /\ next \in k + 1 .. n + 1 /\ put \in Seq(Symbol)
      BY <2>1, <3>1, Zenon
    <3>3. k \in 1 .. n + 1 /\ next \in 1 .. n + 1
      BY <1>0, <3>2
    <3> QED
      BY <3>2, <3>3
  <2>3. PICK a, b : a = SubSeq(t, k, next - 1) /\ b = SubSeq(t, next, n)
    OBVIOUS
  <2>4. SubSeq(t, k, n) = a \o b /\ a \in Seq(Symbol) /\ b \in Seq(Symbol)
    <3>1. k \in Nat /\ n \in Nat /\ next \in Nat /\ 1 <= k /\ k <= next /\ next <= n + 1 /\ n <= Len(t)
      BY <1>0, <2>2
    <3>2. /\ SubSeq(t, k, n) = SubSeq(t, k, next - 1) \o SubSeq(t, next, n)
          /\ SubSeq(t, k, next - 1) \in Seq(Symbol) /\ SubSeq(t, next, n) \in Seq(Symbol)
      BY ONLY t \in Seq(Symbol), <3>1, PartSplit
    <3> QED
      BY <2>3, <3>2, Zenon
  <2>5. KeepsCuts(a, put)
    <3>1. Turn(name, t, k) = Link(t, k)
      BY <1>0 DEF Turn
    <3>2. KeepsCuts(SubSeq(t, k, Link(t, k).next - 1), Link(t, k).put)
      BY <1>0, LinkKeeps
    <3> QED
      BY <2>1, <2>3, <3>1, <3>2, Zenon
  <2>6. KeepsCuts(b, rest)
    BY <1>3, <2>1, <2>2, <2>3
  <2>7. KeepsCuts(a \o b, put \o rest)
    BY ONLY <2>4, <2>5, <2>6, KeepsCutsTwo
  <2> QED
    BY <2>2, <2>4, <2>7, Zenon
<1> HIDE DEF S
<1>4. \A k \in 1 .. n + 1 : k \in S
  BY <1>0, <1>2, <1>3, DownInduction
<1>5. KeepsCuts(SubSeq(t, 1, n), f[1]) /\ SubSeq(t, 1, n) = t
  <2>1. 1 \in 1 .. n + 1
    BY <1>0
  <2>2. KeepsCuts(SubSeq(t, 1, n), f[1])
    BY <1>4, <2>1 DEF S
  <2> QED
    BY <1>0, <2>2, SubSeqFull
<1> QED
  BY <1>0, <1>1, <1>5, Zenon
\* A text without the idle symbols it begins with.
LEMMA IdleHead ==
  ASSUME NEW t, NEW e, t \in Seq(Symbol), e \in Nat /\ 1 <= e /\ e <= Len(t) + 1,
         Within(Idle, t, 1, e - 1)
  PROVE  KeepsCuts(t, SubSeq(t, e, Len(t)))
<1>1. PICK n : n = Len(t) /\ n \in Nat
  OBVIOUS
<1>2. /\ 1 \in Nat /\ n \in Nat /\ e \in Nat /\ 1 <= 1 /\ 1 <= e /\ e <= n + 1 /\ n <= n
      /\ n <= Len(t)
  BY <1>1
<1>3. Within(Idle, t, n + 1, n)
  BY <1>1 DEF Within
<1>4. KeepsCuts(SubSeq(t, 1, n), SubSeq(t, e, n))
  BY ONLY t \in Seq(Symbol), Within(Idle, t, 1, e - 1), <1>2, <1>3, IdleAround
<1>5. SubSeq(t, 1, n) = t
  BY <1>1, SubSeqFull
<1> QED
  BY <1>1, <1>4, <1>5

\* A mark of idle symbols that is dropped with the blanks behind it.
LEMMA DropMarkKeeps ==
  ASSUME NEW t, NEW n, t \in Seq(Symbol), n \in Nat, Within(Idle, t, 1, n)
  PROVE  KeepsCuts(t, DropMark(t, n))
<1>1. CASE n \in 1 .. Len(t) - 1 /\ t[n + 1] \in Blank
  <2>1. PICK m, e : m = n + 1 /\ e = RunEnd(Blank, t, m)
    OBVIOUS
  <2>2. m \in Nat /\ 1 <= m /\ m <= Len(t) + 1 /\ Within(Idle, t, 1, m - 1)
    BY <1>1, <2>1
  <2>3. e \in Nat /\ 1 <= e /\ m <= e /\ e <= Len(t) + 1 /\ Within(Idle, t, m, e - 1)
    BY <2>1, <2>2, WithinRun, IdleSymbols
  <2>4. Within(Idle, t, 1, e - 1)
    <3>1. 1 \in Nat
      OBVIOUS
    <3> QED
      BY ONLY <2>2, <2>3, <3>1, WithinJoin
  <2>5. DropMark(t, n) = SubSeq(t, e, Len(t))
    BY <1>1, <2>1 DEF DropMark
  <2> QED
    BY <2>3, <2>4, <2>5, IdleHead
<1>2. CASE ~(n \in 1 .. Len(t) - 1 /\ t[n + 1] \in Blank)
  BY <1>2, KeepsCutsOrder DEF DropMark
<1> QED
  BY <1>1, <1>2

\* One mark of a set of idle ones.
LEMMA DropIfKeeps ==
  ASSUME NEW t, NEW set, t \in Seq(Symbol), set \subseteq Idle
  PROVE  KeepsCuts(t, DropIf(t, set))
<1>1. CASE Holds(t, 1, set)
  <2>1. Within(Idle, t, 1, 1)
    <3>1. \A k \in 1 .. 1 : k = 1
      OBVIOUS
    <3> QED
      BY <1>1, <3>1 DEF Within, Holds
  <2>2. KeepsCuts(t, DropMark(t, 1))
    BY <2>1, DropMarkKeeps
  <2> QED
    BY <1>1, <2>2 DEF DropIf
<1>2. CASE ~Holds(t, 1, set)
  BY <1>2, KeepsCutsOrder DEF DropIf
<1> QED
  BY <1>1, <1>2

\* A heading mark or a comment mark.
LEMMA DropHeadingKeeps ==
  ASSUME NEW t, t \in Seq(Symbol)
  PROVE  KeepsCuts(t, DropHeading(t))
<1>1. PICK m, n : m = RunEnd({Hash}, t, 1) /\ n = m - 1
  OBVIOUS
<1>2. 1 \in Nat /\ 1 <= 1 /\ 1 <= Len(t) + 1
  OBVIOUS
<1>3. m \in Nat /\ 1 <= m /\ m <= Len(t) + 1 /\ Within(Idle, t, 1, m - 1)
  <2>1. PICK set, i : set = {Hash} /\ i = 1
    OBVIOUS
  <2>2. set \subseteq Idle /\ i \in Nat /\ 1 <= i /\ i <= Len(t) + 1 /\ m = RunEnd(set, t, i)
    BY <1>1, <1>2, <2>1, IdleSymbols
  <2>3. m \in Nat /\ 1 <= m /\ m <= Len(t) + 1 /\ Within(Idle, t, i, m - 1)
    BY ONLY t \in Seq(Symbol), <2>2, WithinRun
  <2> QED
    BY <2>1, <2>3
<1>4. n \in Nat /\ Within(Idle, t, 1, n)
  BY <1>1, <1>3
<1>5. CASE Holds(t, 1, {Slashes})
  <2>1. PICK e : e = RunEnd(Blank, t, 2)
    OBVIOUS
  <2>2. 2 \in Nat /\ 1 <= 2 /\ 2 <= Len(t) + 1
    BY <1>5 DEF Holds
  <2>3. e \in Nat /\ 1 <= e /\ e <= Len(t) + 1 /\ Within(Idle, t, 2, e - 1)
    <3>1. PICK i : i = 2
      OBVIOUS
    <3>2. Blank \subseteq Idle /\ i \in Nat /\ 1 <= i /\ i <= Len(t) + 1 /\ e = RunEnd(Blank, t, i)
      BY <2>1, <2>2, <3>1, IdleSymbols
    <3>3. e \in Nat /\ 1 <= e /\ e <= Len(t) + 1 /\ Within(Idle, t, i, e - 1)
      BY ONLY t \in Seq(Symbol), <3>2, WithinRun
    <3> QED
      BY <3>1, <3>3
  <2>4. Within(Idle, t, 1, 2 - 1)
    <3>1. \A k \in 1 .. 2 - 1 : k = 1
      OBVIOUS
    <3> QED
      BY <1>5, <3>1, IdleSymbols DEF Within, Holds
  <2>5. Within(Idle, t, 1, e - 1)
    BY ONLY 1 \in Nat, <2>2, <2>3, <2>4, WithinJoin
  <2>6. RunEnd({Hash}, t, 1) = 1
    <3>1. 1 \in 1 .. Len(t) /\ t[1] \notin {Hash}
      BY <1>5 DEF Holds, Hash, Slashes
    <3> QED
      BY <3>1, RunBegins
  <2>7. ~(n \in 1 .. 6)
    BY <1>1, <2>6
  <2>8. DropHeading(t) = SubSeq(t, e, Len(t))
    BY <1>1, <1>5, <2>1, <2>7 DEF DropHeading
  <2> QED
    BY <2>3, <2>5, <2>8, IdleHead
<1>6. CASE ~Holds(t, 1, {Slashes}) /\ n \in 1 .. 6
  <2>1. DropHeading(t) = DropMark(t, n)
    BY <1>1, <1>6 DEF DropHeading
  <2> QED
    BY <1>4, <2>1, DropMarkKeeps
<1>7. CASE ~Holds(t, 1, {Slashes}) /\ ~(n \in 1 .. 6)
  <2>1. DropHeading(t) = t
    BY <1>1, <1>7 DEF DropHeading
  <2> QED
    BY <2>1, KeepsCutsOrder
<1> QED
  BY <1>5, <1>6, <1>7

\* All the prefixes of a line.
LEMMA PrefixesKeep ==
  ASSUME NEW t, t \in Seq(Symbol)
  PROVE  KeepsCuts(t, WithoutPrefixes(t))
<1>1. PICK a, b, c, d : /\ a = DropHeading(t) /\ b = DropIf(a, {Greater})
                        /\ c = DropIf(b, {Hyphen, Star}) /\ d = DropIf(c, {Number})
  OBVIOUS
<1>2. {Greater} \subseteq Idle /\ {Hyphen, Star} \subseteq Idle /\ {Number} \subseteq Idle
  BY IdleSymbols
<1>3. KeepsCuts(t, a) /\ a \in Seq(Symbol)
  BY <1>1, DropHeadingKeeps DEF KeepsCuts
<1>4. KeepsCuts(a, b) /\ b \in Seq(Symbol)
  BY <1>1, <1>2, <1>3, DropIfKeeps DEF KeepsCuts
<1>5. KeepsCuts(b, c) /\ c \in Seq(Symbol)
  BY <1>1, <1>2, <1>4, DropIfKeeps DEF KeepsCuts
<1>6. KeepsCuts(c, d)
  BY <1>1, <1>2, <1>5, DropIfKeeps DEF KeepsCuts
<1>7. WithoutPrefixes(t) = d
  BY <1>1 DEF WithoutPrefixes
<1>8. KeepsCuts(t, d)
  BY <1>3, <1>4, <1>5, <1>6, KeepsCutsOrder
<1> QED
  BY <1>7, <1>8
-----------------------------------------------------------------------------
(***************************************************************************)
(* The mark between two lines.                                             *)
(***************************************************************************)

\* The position at which the loop from the end of a text stops.
LEMMA LastFound ==
  ASSUME NEW set, NEW u, NEW top \in Nat
  PROVE  /\ Punct!LastOutside(set, u, top) \in 0 .. top
         /\ \A q \in Punct!LastOutside(set, u, top) + 1 .. top : u[q] \in set
<1> DEFINE T == {n \in 0 .. top : \A q \in n + 1 .. top : u[q] \in set}
<1>1. top \in T /\ T \subseteq Nat
  OBVIOUS
<1>2. PICK n \in T : \A y \in T : n <= y
  <2> HIDE DEF T
  <2> QED
    BY <1>1, LeastNumber
<1>3. n > 0 => u[n] \notin set
  <2> SUFFICES ASSUME n > 0, u[n] \in set
               PROVE  FALSE
    OBVIOUS
  <2>1. n - 1 \in 0 .. top /\ \A q \in n .. top : u[q] \in set
    BY <1>2
  <2>2. n - 1 \in T
    BY <2>1
  <2> QED
    BY <1>2, <2>2
<1>4. \E m \in 0 .. top : /\ m > 0 => u[m] \notin set
                          /\ \A q \in m + 1 .. top : u[q] \in set
  BY <1>2, <1>3
<1> QED
  BY <1>4 DEF Punct!LastOutside

\* What the loops tell apart: only marks end a line, and only silent symbols are skipped.
LEMMA KindsOf ==
  ASSUME NEW x \in Symbol
  PROVE  /\ KindOf(x) # Punct!Dot
         /\ KindOf(x) \in Punct!Terminal => x \in Marks
         /\ KindOf(x) \in {Punct!Blank, Punct!Closing} => x \in Silent
<1>1. \/ KindOf(x) = Punct!Stop /\ x = Stop
      \/ KindOf(x) = Punct!WComma /\ x = Comma
      \/ KindOf(x) = Punct!Closing /\ x \in Closers \cup {Quote}
      \/ KindOf(x) = Punct!Mark /\ x \in {Opener["lenticular"], Opener["corner"]}
      \/ KindOf(x) = Punct!Blank /\ x \in Blank
      \/ KindOf(x) = Punct!Ink
  BY DEF KindOf
<1>2. /\ Closers \subseteq Silent /\ Quote \in Silent /\ Blank \subseteq Silent
      /\ {Stop, Comma, Opener["lenticular"], Opener["corner"]} = Marks
  BY SilentSymbols DEF Marks
<1>3. /\ Punct!Dot \notin {Punct!Stop, Punct!WComma, Punct!Closing, Punct!Mark, Punct!Blank, Punct!Ink}
      /\ Punct!Closing \notin Punct!Terminal /\ Punct!Blank \notin Punct!Terminal
      /\ Punct!Ink \notin Punct!Terminal
      /\ {Punct!Stop, Punct!WComma, Punct!Mark, Punct!Ink} \cap {Punct!Blank, Punct!Closing} = {}
  BY DEF Punct!Dot, Punct!Stop, Punct!WComma, Punct!Closing, Punct!Mark, Punct!Blank, Punct!Ink,
         Punct!Terminal, Punct!Stops, Punct!Commas, Punct!Tones, Punct!Ellipsis, Punct!WideDot,
         Punct!Comma, Punct!Bang, Punct!WBang, Punct!Quest, Punct!WQuest
<1> QED
  BY <1>1, <1>2, <1>3

\* t ends in a mark, but for symbols without words behind it
EndsIn(t, m) == m \in 1 .. Len(t) /\ t[m] \in Marks /\ SilentFrom(t, m + 1, Len(t))

\* A line that gets no full stop has its mark already.
LEMMA MarkAtEnd ==
  ASSUME NEW t, t \in Seq(Symbol), t # <<>>, EnsureTerminalPunctuation(t) = t
  PROVE  \E m : EndsIn(t, m)
<1>1. PICK n, u : n = Len(t) /\ u = [i \in 1 .. n |-> KindOf(t[i])]
  OBVIOUS
<1>2. n \in Nat /\ n > 0 /\ \A i \in 1 .. n : u[i] = KindOf(t[i]) /\ t[i] \in Symbol
  BY <1>1
<1>3. u \in Seq({KindOf(t[i]) : i \in 1 .. n}) /\ Len(u) = n /\ u # <<>>
  BY <1>1, <1>2
<1>4. [i \in DOMAIN t |-> KindOf(t[i])] = u
  BY <1>1
<1>5. ~(Len(Punct!EnsureTerminalPunctuation(u)) > n)
  <2> SUFFICES ASSUME Len(Punct!EnsureTerminalPunctuation(u)) > n PROVE FALSE
    OBVIOUS
  <2>1. EnsureTerminalPunctuation(t) = Append(t, Stop)
    BY <1>1, <1>4 DEF EnsureTerminalPunctuation
  <2>2. Len(Append(t, Stop)) = n + 1
    BY <1>1
  <2> QED
    BY <1>1, <1>2, <2>1, <2>2
<1>6. PICK top, m : /\ top = Punct!LastOutside({Punct!Blank}, u, n)
                    /\ m = Punct!LastOutside({Punct!Closing}, u, top)
  OBVIOUS
<1>7. Punct!LastMark(u) = m
  BY <1>3, <1>6 DEF Punct!LastMark
<1>8. top \in 0 .. n /\ \A q \in top + 1 .. n : u[q] \in {Punct!Blank}
  BY <1>2, <1>6, LastFound
<1>9. m \in 0 .. top /\ \A q \in m + 1 .. top : u[q] \in {Punct!Closing}
  <2>1. top \in Nat
    BY <1>8
  <2> QED
    BY <1>6, <2>1, LastFound
<1>10. m > 0 /\ u[m] \in Punct!Terminal
  <2> SUFFICES ASSUME ~(m > 0 /\ u[m] \in Punct!Terminal) PROVE FALSE
    OBVIOUS
  <2>1. ~(m > 0 /\ u[m] = Punct!Dot)
    <3>1. m > 0 => m \in 1 .. n
      BY <1>2, <1>8, <1>9
    <3> QED
      BY <1>2, <3>1, KindsOf
  <2>2. Punct!EnsureTerminalPunctuation(u) = Append(u, Punct!Stop)
    BY <1>3, <1>7, <2>1 DEF Punct!EnsureTerminalPunctuation
  <2>3. Len(Append(u, Punct!Stop)) = n + 1
    BY <1>3
  <2> QED
    BY <1>2, <1>5, <2>2, <2>3
<1>11. m \in 1 .. n /\ t[m] \in Marks
  <2>1. m \in 1 .. n
    BY <1>2, <1>8, <1>9, <1>10
  <2> QED
    BY <1>2, <1>10, <2>1, KindsOf
<1>12. ASSUME NEW k \in m + 1 .. n PROVE t[k] \in Silent
  <2>1. k \in 1 .. n /\ (k \in m + 1 .. top \/ k \in top + 1 .. n)
    BY <1>8, <1>9
  <2>2. u[k] \in {Punct!Blank, Punct!Closing}
    BY <1>8, <1>9, <2>1
  <2> QED
    BY <1>2, <2>1, <2>2, KindsOf
<1> QED
  BY <1>1, <1>11, <1>12 DEF EndsIn, SilentFrom

\* The mark is behind all the words of the line.
LEMMA EndsCut ==
  ASSUME NEW t, NEW m, t \in Seq(Symbol), EndsIn(t, m)
  PROVE  Words(t) \in Cuts(Gaps, t)
<1>1. PICK n : n = Len(t) /\ n \in Nat
  OBVIOUS
<1>2. m \in 1 .. n /\ t[m] \in Gaps /\ SilentFrom(t, m + 1, n)
  BY <1>1 DEF EndsIn, Gaps
<1>3. /\ 1 \in Nat /\ n \in Nat /\ m \in Nat
      /\ 1 <= 1 /\ 1 <= m + 1 /\ m <= n /\ n <= Len(t)
  BY <1>1, <1>2
<1>4. SilentFrom(t, 1, 1 - 1)
  BY DEF SilentFrom
<1>5. Content(SubSeq(t, 1, n)) = Content(SubSeq(t, 1, m))
  BY ONLY t \in Seq(Symbol), <1>2, <1>3, <1>4, SilentEnds
<1>6. SubSeq(t, 1, n) = t
  BY <1>1, SubSeqFull
<1>7. Len(Content(t)) = Len(Content(SubSeq(t, 1, m)))
  BY <1>5, <1>6
<1> QED
  BY <1>1, <1>2, <1>7 DEF Cuts, Words

\* Behind every line but an empty one there is a mark, and the marks in it stay.
LEMMA EndMarkKeeps ==
  ASSUME NEW t, t \in Seq(Symbol)
  PROVE  /\ KeepsCuts(t, EnsureTerminalPunctuation(t))
         /\ t # <<>> => Words(t) \in Cuts(Gaps, EnsureTerminalPunctuation(t))
<1>1. EnsureTerminalPunctuation(t) \in {t, Append(t, Stop)}
  BY DEF EnsureTerminalPunctuation
<1>2. CASE EnsureTerminalPunctuation(t) = t
  <2>1. KeepsCuts(t, t)
    BY KeepsCutsOrder
  <2>2. t # <<>> => Words(t) \in Cuts(Gaps, t)
    BY <1>2, MarkAtEnd, EndsCut
  <2> QED
    BY <1>2, <2>1, <2>2
<1>3. CASE EnsureTerminalPunctuation(t) = Append(t, Stop)
  <2>1. PICK stop, u : stop = <<Stop>> /\ u = t \o stop
    OBVIOUS
  <2>2. Stop \in Symbol /\ stop \in Seq(Symbol) /\ Append(t, Stop) = u /\ <<>> \in Seq(Symbol)
    BY <2>1, MarkSymbols, AppendIsConcat
  <2>3. Words(stop) = 0 /\ Words(<<>>) = 0
    <3>1. Content(<<Stop>>) = <<>>
      BY <2>2, SilentSymbols, ContentOne, Meanings
    <3>2. Content(<<>>) = <<>>
      BY EmptySeq, ContentSilent
    <3> QED
      BY <2>1, <3>1, <3>2 DEF Words
  <2>4. Cuts(Gaps, <<>>) = {}
    BY DEF Cuts
  <2>5. KeepsCuts(<<>>, stop) /\ KeepsCuts(t, t)
    BY <2>2, <2>3, <2>4, UncutKeeps, KeepsCutsOrder
  <2>6. KeepsCuts(t \o <<>>, t \o stop)
    BY ONLY t \in Seq(Symbol), <2>2, <2>5, KeepsCutsTwo
  <2>7. t \o <<>> = t
    OBVIOUS
  <2>8. KeepsCuts(t, u)
    BY <2>1, <2>6, <2>7, Zenon
  <2>9. Words(t) \in Cuts(Gaps, u)
    <3>1. PICK n : n = Len(u)
      OBVIOUS
    <3>2. n \in 1 .. n /\ u[n] = Stop /\ u \in Seq(Symbol)
      BY <2>1, <2>2, <3>1
    <3>3. SubSeq(u, 1, n) = u
      BY <3>1, <3>2, SubSeqFull
    <3>4. Words(SubSeq(u, 1, n)) \in Cuts(Gaps, u)
      BY <3>1, <3>2 DEF Cuts, Words, Gaps, Marks
    <3>5. Words(u) = Words(t)
      BY <2>8 DEF KeepsCuts
    <3> QED
      BY <3>3, <3>4, <3>5
  <2> QED
    BY <1>3, <2>2, <2>8, <2>9
<1> QED
  BY <1>1, <1>2, <1>3
-----------------------------------------------------------------------------
(***************************************************************************)
(* The cuts of what is written and of what is left to read, and the one    *)
(* between them.                                                           *)
(***************************************************************************)
Reach(u, rest) == Cuts(Gaps, u) \cup {Words(u)} \cup Shifted(Words(u), Cuts(Gaps, rest))

\* Words are counted, and the cuts are numbers of words.
LEMMA CutsCount ==
  ASSUME NEW t, NEW set, t \in Seq(Symbol)
  PROVE  Words(t) \in Nat /\ Cuts(set, t) \subseteq Nat
<1>1. \A u \in Seq(Symbol) : Words(u) \in Nat
  BY WordsTwo
<1>2. ASSUME NEW i \in 1 .. Len(t) PROVE Len(Content(SubSeq(t, 1, i))) \in Nat
  <2>1. SubSeq(t, 1, i) \in Seq(Symbol)
    OBVIOUS
  <2> QED
    BY <1>1, <2>1 DEF Words
<1> QED
  BY <1>1, <1>2 DEF Cuts

\* An empty text.
LEMMA NoCuts == Words(<<>>) = 0 /\ \A set : Cuts(set, <<>>) = {}
<1>1. Content(<<>>) = <<>>
  BY EmptySeq, ContentSilent
<1>2. Words(<<>>) = 0
  BY <1>1 DEF Words
<1> QED
  BY <1>2 DEF Cuts

\* The line end in front of what is left cuts at its beginning.
LEMMA TailCuts ==
  ASSUME NEW t, NEW e, t \in Seq(Symbol), e = RunEnd(Symbol \ {Newline}, t, 1)
  PROVE  Cuts(Gaps, SubSeq(t, e, Len(t))) \subseteq {0} \cup Cuts(Gaps, SubSeq(t, e + 1, Len(t)))
<1>1. PICK n, f : n = Len(t) /\ n \in Nat /\ f = e + 1
  OBVIOUS
<1>2. e \in Nat /\ 1 <= e /\ e <= n + 1 /\ (e <= n => t[e] \notin Symbol \ {Newline})
  <2>1. 1 \in Nat /\ 1 <= 1 /\ 1 <= Len(t) + 1
    OBVIOUS
  <2> QED
    BY <1>1, <2>1, RunEnds
<1>3. CASE e = n + 1
  <2>1. SubSeq(t, e, n) = <<>>
    BY <1>1, <1>2, <1>3
  <2> QED
    BY <1>1, <2>1, NoCuts
<1>4. CASE e <= n
  <2>1. t[e] = Newline
    BY <1>1, <1>2, <1>4
  <2>2. /\ e \in Nat /\ n \in Nat /\ f \in Nat /\ 1 <= e /\ e <= f /\ f <= n + 1 /\ n <= Len(t)
        /\ f - 1 = e /\ e \in 1 .. Len(t)
    BY <1>1, <1>2, <1>4
  <2>3. PICK all, end, rest : /\ all = SubSeq(t, e, n) /\ end = SubSeq(t, e, e)
                              /\ rest = SubSeq(t, f, n)
    OBVIOUS
  <2>4. Joined(all, end, rest)
    <3>1. /\ SubSeq(t, e, n) = SubSeq(t, e, f - 1) \o SubSeq(t, f, n)
          /\ SubSeq(t, e, f - 1) \in Seq(Symbol) /\ SubSeq(t, f, n) \in Seq(Symbol)
      BY ONLY t \in Seq(Symbol), <2>2, PartSplit
    <3> QED
      BY <2>2, <2>3, <3>1, Zenon DEF Joined
  <2>5. end = <<Newline>> /\ Newline \in Silent /\ Newline \in Symbol
    BY <2>1, <2>2, <2>3, OneSymbol, SilentSymbols
  <2>6. Words(end) = 0
    <3>1. Content(<<Newline>>) = <<>>
      BY <2>5, ContentOne, Meanings
    <3> QED
      BY <2>5, <3>1 DEF Words
  <2>7. Cuts(Gaps, end) \subseteq {0}
    <3>1. Len(end) = 1 /\ end \in Seq(Symbol)
      BY <2>5
    <3>2. \A i \in 1 .. Len(end) : SubSeq(end, 1, i) = end
      <4>1. \A i \in 1 .. Len(end) : i = Len(end)
        BY <3>1
      <4>2. SubSeq(end, 1, Len(end)) = end
        BY <3>1, SubSeqFull
      <4> QED
        BY <4>1, <4>2, Zenon
    <3> QED
      BY <2>6, <3>2 DEF Cuts, Words
  <2>8. Cuts(Gaps, all) = Cuts(Gaps, end) \cup Shifted(Words(end), Cuts(Gaps, rest))
    BY ONLY <2>4, CutsTwo
  <2>9. Shifted(0, Cuts(Gaps, rest)) = Cuts(Gaps, rest)
    <3>1. Cuts(Gaps, rest) \subseteq Nat
      BY <2>4, CutsCount DEF Joined
    <3> QED
      BY <3>1 DEF Shifted
  <2> QED
    BY <1>1, <2>3, <2>6, <2>7, <2>8, <2>9, Zenon
<1>5. e = n + 1 \/ e <= n
  BY ONLY <1>1, <1>2
<1> QED
  BY <1>3, <1>4, <1>5, Zenon

\* A line without the blanks at its ends.
LEMMA TrimKeeps ==
  ASSUME NEW t, NEW b, t \in Seq(Symbol), b \in Nat, b <= Len(t)
  PROVE  KeepsCuts(SubSeq(t, 1, b), Trim(Blank, t, 1, b))
<1>1. PICK a, set : a = 1 /\ set = Blank
  OBVIOUS
<1>2. a \in Nat /\ b \in Nat /\ 1 <= a /\ a <= b + 1 /\ b <= Len(t) /\ set \subseteq Idle
  BY <1>1, IdleSymbols
<1>3. PICK c, d \in Nat : /\ a <= c /\ c <= d + 1 /\ d <= b
                          /\ Trim(set, t, a, b) = SubSeq(t, c, d)
                          /\ \A k \in a .. b : k < c \/ k > d => t[k] \in set
  <2>1. \E c, d \in Nat : /\ a <= c /\ c <= d + 1 /\ d <= b
                          /\ Trim(set, t, a, b) = SubSeq(t, c, d)
                          /\ Trim(set, t, a, b) # <<>> => c <= d
                          /\ \A k \in a .. b : k < c \/ k > d => t[k] \in set
    BY ONLY t \in Seq(Symbol), <1>2, TrimmedPart
  <2> QED
    BY <2>1
<1>4. Within(Idle, t, a, c - 1) /\ Within(Idle, t, d + 1, b)
  <2>1. \A k \in a .. c - 1 : k \in a .. b /\ k < c
    BY <1>2, <1>3
  <2>2. \A k \in d + 1 .. b : k \in a .. b /\ k > d
    BY <1>2, <1>3
  <2> QED
    BY <1>2, <1>3, <2>1, <2>2 DEF Within
<1>5. KeepsCuts(SubSeq(t, a, b), SubSeq(t, c, d))
  BY ONLY t \in Seq(Symbol), c \in Nat, d \in Nat, <1>2, <1>3, <1>4, IdleAround
<1> QED
  BY <1>1, <1>3, <1>5, Zenon
\* Numbers behind two counts are behind their sum.
LEMMA ShiftedTwice ==
  ASSUME NEW m \in Nat, NEW n \in Nat, NEW set, set \subseteq Nat
  PROVE  Shifted(m, Shifted(n, {0} \cup set)) \subseteq {m + n} \cup Shifted(m + n, set)
<1> SUFFICES ASSUME NEW x \in {0} \cup set
             PROVE  m + (n + x) \in {m + n} \cup Shifted(m + n, set)
  BY DEF Shifted
<1>1. x \in Nat /\ m + (n + x) = (m + n) + x
  OBVIOUS
<1>2. CASE x = 0
  BY <1>1, <1>2
<1>3. CASE x \in set
  BY <1>1, <1>3 DEF Shifted
<1> QED
  BY <1>2, <1>3

\* A line that is read, behind the text: nothing that was reached is lost.
LEMMA LineReaches ==
  ASSUME NEW u, NEW t, NEW head, NEW tail, NEW rest, NEW a, NEW b, NEW w,
         u \in Seq(Symbol), rest \in Seq(Symbol), Joined(t, head, tail), Joined(w, a, b),
         Cuts(Gaps, tail) \subseteq {0} \cup Cuts(Gaps, rest),
         KeepsCuts(u, a), KeepsCuts(head, b),
         Words(u) \in {0, Words(w)} \cup Cuts(Gaps, a)
  PROVE  Reach(u, t) \subseteq {0} \cup Reach(w, rest)
<1>1. PICK m, n, ct, ch, cr, cu, ca, cb, cw :
        /\ m = Words(u) /\ n = Words(head)
        /\ ct = Cuts(Gaps, t) /\ ch = Cuts(Gaps, head) /\ cr = Cuts(Gaps, rest)
        /\ cu = Cuts(Gaps, u) /\ ca = Cuts(Gaps, a) /\ cb = Cuts(Gaps, b) /\ cw = Cuts(Gaps, w)
  OBVIOUS
<1>2. /\ head \in Seq(Symbol) /\ a \in Seq(Symbol) /\ b \in Seq(Symbol)
      /\ Words(a) = m /\ Words(b) = n /\ cu \subseteq ca /\ ch \subseteq cb
  BY <1>1 DEF Joined, KeepsCuts
<1>3. m \in Nat /\ n \in Nat /\ cr \subseteq Nat
  BY <1>1, <1>2, CutsCount
<1>4. Words(w) = m + n
  <2>1. Words(a \o b) = Words(a) + Words(b)
    BY ONLY <1>2, WordsTwo
  <2>2. w = a \o b
    BY DEF Joined
  <2> QED
    BY ONLY <1>2, <2>1, <2>2
<1>5. ct \subseteq ch \cup Shifted(n, {0} \cup cr)
  <2>1. Cuts(Gaps, t) = Cuts(Gaps, head) \cup Shifted(Words(head), Cuts(Gaps, tail))
    BY ONLY Joined(t, head, tail), CutsTwo
  <2>2. Shifted(n, Cuts(Gaps, tail)) \subseteq Shifted(n, {0} \cup cr)
    BY <1>1 DEF Shifted
  <2> QED
    BY <1>1, <2>1, <2>2, Zenon
<1>6. cw = ca \cup Shifted(m, cb)
  <2>1. Cuts(Gaps, w) = Cuts(Gaps, a) \cup Shifted(Words(a), Cuts(Gaps, b))
    BY ONLY Joined(w, a, b), CutsTwo
  <2> QED
    BY <1>1, <1>2, <2>1, Zenon
<1>7. Shifted(m, ct) \subseteq Shifted(m, cb) \cup Shifted(m, Shifted(n, {0} \cup cr))
  BY <1>2, <1>5, Zenon DEF Shifted
<1>8. Shifted(m, Shifted(n, {0} \cup cr)) \subseteq {m + n} \cup Shifted(m + n, cr)
  BY ONLY <1>3, ShiftedTwice
<1>9. m \in {0, m + n} \cup ca
  BY ONLY <1>1, <1>4, Words(u) \in {0, Words(w)} \cup Cuts(Gaps, a)
<1>10. Reach(u, t) = cu \cup {m} \cup Shifted(m, ct)
  BY <1>1, Zenon DEF Reach
<1>11. Reach(w, rest) = cw \cup {m + n} \cup Shifted(m + n, cr)
  BY <1>1, <1>4, Zenon DEF Reach
<1> QED
  BY ONLY <1>2, <1>6, <1>7, <1>8, <1>9, <1>10, <1>11

\* Reading a line loses no line end that is not in front of all the words.
LEMMA TakeLineReaches ==
  ASSUME TypeOK, TakeLine
  PROVE  Reach(s, todo) \subseteq {0} \cup Reach(s', todo')
<1>1. s \in Seq(Symbol) /\ todo \in Seq(Symbol)
  BY DEF TypeOK
<1>2. PICK e, n, d, head, line, tail :
        /\ e = LineEnd /\ n = Len(todo) /\ d = e - 1 /\ head = SubSeq(todo, 1, d)
        /\ line = Trim(Blank, todo, 1, d) /\ tail = SubSeq(todo, e, n)
  OBVIOUS
<1>3. /\ s' = IF line = <<>> THEN s ELSE Merged(s, WithoutPrefixes(line))
      /\ todo' = SubSeq(todo, e + 1, n)
  BY <1>2 DEF TakeLine
<1>4. e \in Nat /\ 1 <= e /\ e <= n + 1 /\ todo' \in Seq(Symbol) /\ n \in Nat
  <2>1. /\ e \in Nat /\ 1 <= e /\ e <= Len(todo) + 1
        /\ SubSeq(todo, e + 1, Len(todo)) \in Seq(Symbol)
    BY <1>1, <1>2, LineTaken DEF LineEnd
  <2>2. Len(todo) \in Nat
    BY <1>1
  <2> QED
    BY <1>2, <1>3, <2>1, <2>2, Zenon
<1>5. Joined(todo, head, tail)
  <2>1. /\ 1 \in Nat /\ n \in Nat /\ e \in Nat /\ 1 <= 1 /\ 1 <= e /\ e <= n + 1 /\ n <= Len(todo)
    BY <1>2, <1>4
  <2>2. /\ SubSeq(todo, 1, n) = SubSeq(todo, 1, e - 1) \o SubSeq(todo, e, n)
        /\ SubSeq(todo, 1, e - 1) \in Seq(Symbol) /\ SubSeq(todo, e, n) \in Seq(Symbol)
    BY ONLY <1>1, <2>1, PartSplit
  <2>3. SubSeq(todo, 1, n) = todo
    BY <1>1, <1>2, SubSeqFull
  <2> QED
    BY <1>2, <2>2, <2>3, Zenon DEF Joined
<1>6. Cuts(Gaps, tail) \subseteq {0} \cup Cuts(Gaps, todo')
  <2>1. Cuts(Gaps, SubSeq(todo, e, Len(todo)))
          \subseteq {0} \cup Cuts(Gaps, SubSeq(todo, e + 1, Len(todo)))
    <3>1. e = RunEnd(Symbol \ {Newline}, todo, 1)
      BY <1>2 DEF LineEnd
    <3> QED
      BY ONLY <1>1, <3>1, TailCuts
  <2> QED
    BY <1>2, <1>3, <2>1, Zenon
<1>7. KeepsCuts(head, line)
  <2>1. d \in Nat /\ d <= Len(todo)
    BY <1>2, <1>4
  <2>2. KeepsCuts(SubSeq(todo, 1, d), Trim(Blank, todo, 1, d))
    BY ONLY <1>1, <2>1, TrimKeeps
  <2> QED
    BY <1>2, <2>2, Zenon
<1>8. CASE line = <<>>
  <2>0. <<>> \in Seq(Symbol) /\ s \o <<>> = s
    BY <1>1
  <2>1. PICK b : b = <<>> /\ b \in Seq(Symbol) /\ s \o b = s
    BY <2>0, Zenon
  <2>2. Joined(s', s, b)
    BY <1>1, <1>3, <1>8, <2>1, Zenon DEF Joined
  <2>3. KeepsCuts(head, b) /\ KeepsCuts(s, s)
    BY <1>1, <1>7, <1>8, <2>1, KeepsCutsOrder
  <2>4. Words(s) \in {0, Words(s')} \cup Cuts(Gaps, s)
    BY <1>3, <1>8, Zenon
  <2> QED
    BY ONLY <1>1, <1>4, <1>5, <1>6, <2>2, <2>3, <2>4, LineReaches
<1>9. CASE line # <<>>
  <2>1. PICK a, b : a = EnsureTerminalPunctuation(s) /\ b = WithoutPrefixes(line)
    OBVIOUS
  <2>2. line \in Seq(Symbol) /\ head \in Seq(Symbol)
    BY <1>5, <1>7 DEF KeepsCuts, Joined
  <2>3. KeepsCuts(s, a) /\ (s # <<>> => Words(s) \in Cuts(Gaps, a))
    BY <1>1, <2>1, EndMarkKeeps
  <2>4. KeepsCuts(line, b)
    BY <2>1, <2>2, PrefixesKeep
  <2>5. KeepsCuts(head, b)
    BY <1>7, <2>2, <2>4, KeepsCutsOrder
  <2>6. Joined(s', a, b)
    <3>1. s' = a \o b
      BY <1>3, <1>9, <2>1, Zenon DEF Merged
    <3> QED
      BY <2>3, <2>4, <3>1, Zenon DEF Joined, KeepsCuts
  <2>7. Words(s) \in {0, Words(s')} \cup Cuts(Gaps, a)
    BY <2>3, NoCuts
  <2> QED
    BY ONLY <1>1, <1>4, <1>5, <1>6, <2>3, <2>5, <2>6, <2>7, LineReaches
<1> QED
  BY <1>8, <1>9

(***************************************************************************)
(* The inductive invariant: until the lines are joined, every line end is  *)
(* in front of all the words, behind all of them, or at a cut of what is   *)
(* written, of what is left to read, or between the two.                   *)
(***************************************************************************)
GapInv ==
    /\ RestInv
    /\ stage = "links" => s = input
    /\ stage = "lines" => Cuts({Newline}, input) \subseteq {0, Words(input)} \cup Reach(s, todo)
    /\ LinesKeptApart

\* Every step keeps the invariant.
LEMMA NextGap == GapInv /\ [Next]_vars => GapInv'
<1> SUFFICES ASSUME GapInv, [Next]_vars PROVE GapInv'
  OBVIOUS
<1>1. /\ RestInv /\ RestInv' /\ TypeOK /\ ContentInv
      /\ s \in Seq(Symbol) /\ todo \in Seq(Symbol) /\ input \in Seq(Symbol)
  BY NextRest DEF GapInv, RestInv, MarksInv, ContentInv, TypeOK
<1>2. CASE RewriteLinks
  <2>1. /\ stage = "links" /\ stage' = "lines" /\ todo' = Pass("links", s) /\ s' = <<>>
        /\ input' = input
    BY <1>2 DEF RewriteLinks
  <2>2. s = input
    BY <2>1 DEF GapInv
  <2>3. KeepsCuts(input, todo')
    BY <1>1, <2>1, <2>2, LinksKeep
  <2>4. Cuts(Gaps, input) \subseteq Cuts(Gaps, todo') /\ Cuts(Gaps, todo') \subseteq Nat
    BY <2>3, CutsCount DEF KeepsCuts
  <2>5. Cuts({Newline}, input) \subseteq Cuts(Gaps, input)
    BY DEF Cuts, Gaps
  <2>6. Shifted(0, Cuts(Gaps, todo')) = Cuts(Gaps, todo')
    BY <2>4 DEF Shifted
  <2>7. Words(s') = 0
    BY <2>1, NoCuts
  <2>8. Cuts({Newline}, input) \subseteq Reach(s', todo')
    BY <2>4, <2>5, <2>6, <2>7, Zenon DEF Reach
  <2> QED
    BY <1>1, <2>1, <2>8 DEF GapInv, LinesKeptApart
<1>3. CASE TakeLine
  <2>1. stage = "lines" /\ stage' = "lines" /\ input' = input
    BY <1>3 DEF TakeLine
  <2>2. Reach(s, todo) \subseteq {0} \cup Reach(s', todo')
    BY <1>1, <1>3, TakeLineReaches
  <2>3. Cuts({Newline}, input) \subseteq {0, Words(input)} \cup Reach(s, todo)
    BY <2>1 DEF GapInv
  <2>4. Cuts({Newline}, input) \subseteq {0, Words(input)} \cup Reach(s', todo')
    BY <2>2, <2>3
  <2> QED
    BY <1>1, <2>1, <2>4 DEF GapInv, LinesKeptApart
<1>4. CASE EndOfLines
  <2>1. stage = "lines" /\ stage' = "arrows" /\ todo = <<>> /\ s' = s /\ input' = input
    BY <1>4 DEF EndOfLines
  <2>2. Cuts({Newline}, input) \subseteq {0, Words(input)} \cup Reach(s, <<>>)
    BY <2>1 DEF GapInv
  <2>3. Words(s) = Words(input)
    <3>1. Content(s) \o Content(<<>>) = Content(input)
      BY <1>1, <2>1 DEF ContentInv
    <3>2. Content(s) = Content(input)
      BY <1>1, <3>1, NothingLeft
    <3> QED
      BY <3>2 DEF Words
  <2>4. Reach(s, <<>>) \subseteq Cuts(Gaps, s) \cup {Words(s)}
    BY NoCuts DEF Reach, Shifted
  <2>5. Cuts(Gaps, s) \subseteq Cuts(Marks, s)
    <3>1. \A k \in 1 .. Len(s) : s[k] # Newline
      BY <1>1, <2>1 DEF RestInv, Neat, OneLine
    <3> QED
      BY <3>1 DEF Cuts, Gaps
  <2>6. Cuts({Newline}, input) \subseteq Cuts(Marks, s) \cup {0, Len(Content(input))}
    BY <2>2, <2>3, <2>4, <2>5 DEF Words
  <2> QED
    BY <1>1, <2>1, <2>6 DEF GapInv, LinesKeptApart
<1>5. CASE Rewrite
  <2>1. stage \in DOMAIN Following /\ stage' = Following[stage]
    BY <1>5 DEF Rewrite
  <2>2. stage' \notin {"links", "lines", "arrows"}
    BY <2>1 DEF Following
  <2> QED
    BY <1>1, <2>2 DEF GapInv, LinesKeptApart
<1>6. CASE RunAgain
  <2>1. stage' = "links" /\ input' = s /\ s' = s
    BY <1>6 DEF RunAgain
  <2> QED
    BY <1>1, <2>1 DEF GapInv, LinesKeptApart
<1>7. CASE UNCHANGED vars \/ Finished
  <2>1. stage' = stage /\ s' = s /\ todo' = todo /\ input' = input
    BY <1>7 DEF Finished, vars
  <2> QED
    BY <1>1, <2>1 DEF GapInv, LinesKeptApart
<1> QED
  BY <1>2, <1>3, <1>4, <1>5, <1>6, <1>7 DEF Next

(***************************************************************************)
(* Whatever the text, when its lines have been joined every line end       *)
(* between two words has become a mark between them: no empty line, no     *)
(* line of prefixes and no closing bracket lets two lines run together.    *)
(***************************************************************************)
THEOREM LinesAreKeptApart == Spec => []LinesKeptApart
<1>1. Init => GapInv
  <2> SUFFICES ASSUME Init PROVE GapInv
    OBVIOUS
  <2>1. MarksInv
    BY InitContent DEF Init, MarksInv
  <2>2. RestInv
    BY <2>1 DEF Init, RestInv
  <2> QED
    BY <2>2 DEF Init, GapInv, LinesKeptApart
<1>2. GapInv => LinesKeptApart
  BY DEF GapInv
<1> QED
  BY <1>1, <1>2, NextGap, PTL DEF Spec
-----------------------------------------------------------------------------
(***************************************************************************)
(* The prefixes of a text and their order.                                 *)
(***************************************************************************)
PrefixHeads == DOMAIN Rank

\* u has no prefixes that t does not have in the same order
NoNewPrefix(u, t) ==
    \A x \in PrefixHeads : /\ Holding(u, x) => Holding(t, x)
                           /\ \A y \in PrefixHeads : Ordered(u, x, y) => Ordered(t, x, y)

\* The symbols that prefixes are made of.
LEMMA PrefixSymbols ==
  /\ PrefixHeads = {Hash, Slashes, Greater, Hyphen, Star, Number}
  /\ PrefixHeads \cap Blank = {} /\ PrefixHeads \cap Marks = {}
  /\ {Quote, Comma, Stop, Space, Url} \cap PrefixHeads = {}
  /\ {Quote, Comma, Stop} \cap Blank = {}
  /\ Rank[Hash] = 1 /\ Rank[Slashes] = 1 /\ Rank[Greater] = 2 /\ Rank[Hyphen] = 3
  /\ Rank[Star] = 3 /\ Rank[Number] = 4
<1>1. PrefixHeads = {Hash, Slashes, Greater, Hyphen, Star, Number}
  BY DEF PrefixHeads, Rank, Hash, Slashes, Greater, Hyphen, Star, Number
<1>2. Opener["lenticular"] = "L" /\ Opener["corner"] = "C"
  BY DEF Opener
<1>3. PrefixHeads \cap Marks = {}
  BY <1>1, <1>2 DEF Marks, Stop, Comma, Hash, Slashes, Greater, Hyphen, Star, Number
<1>4. PrefixHeads \cap Blank = {} /\ {Quote, Comma, Stop} \cap Blank = {}
  BY <1>1 DEF Blank, Space, Tab, Quote, Comma, Stop, Hash, Slashes, Greater, Hyphen, Star, Number
<1>5. {Quote, Comma, Stop, Space, Url} \cap PrefixHeads = {}
  BY <1>1 DEF Space, Url, Quote, Comma, Stop, Hash, Slashes, Greater, Hyphen, Star, Number
<1>6. /\ Rank[Hash] = 1 /\ Rank[Slashes] = 1 /\ Rank[Greater] = 2 /\ Rank[Hyphen] = 3
      /\ Rank[Star] = 3 /\ Rank[Number] = 4
  BY DEF Rank, Hash, Slashes, Greater, Hyphen, Star, Number
<1> QED
  BY <1>1, <1>3, <1>4, <1>5, <1>6

\* A prefix that is preceded in u is in t.
LEMMA PrecededKept ==
  ASSUME NEW u, NEW t, NEW x \in PrefixHeads, u \in Seq(Symbol), t \in Seq(Symbol),
         NoNewPrefix(u, t), Preceded(u, x)
  PROVE  Preceded(t, x)
<1>1. DOMAIN u = 1 .. Len(u) /\ DOMAIN t = 1 .. Len(t)
  OBVIOUS
<1>2. PICK y \in PrefixHeads : Ordered(u, y, x) /\ Rank[y] >= Rank[x]
  BY <1>1 DEF Preceded, Ordered, PrefixHeads
<1>3. Ordered(t, y, x)
  BY <1>2 DEF NoNewPrefix
<1> QED
  BY <1>1, <1>2, <1>3 DEF Preceded, Ordered, PrefixHeads

\* To have no new prefix is reflexive and transitive, and a text without prefixes has none.
LEMMA NoNewPrefixOrder ==
  ASSUME NEW a, NEW b, NEW c
  PROVE  /\ NoNewPrefix(a, a)
         /\ NoNewPrefix(a, b) /\ NoNewPrefix(b, c) => NoNewPrefix(a, c)
         /\ (\A i \in 1 .. Len(a) : a[i] \notin PrefixHeads) => NoNewPrefix(a, b)
<1>1. (\A i \in 1 .. Len(a) : a[i] \notin PrefixHeads) => NoNewPrefix(a, b)
  BY DEF NoNewPrefix, Holding, Ordered
<1> QED
  BY <1>1 DEF NoNewPrefix

\* Texts behind each other.
LEMMA NoNewPrefixTwo ==
  ASSUME NEW a, NEW b, NEW c, NEW d, NEW u, NEW t, Joined(u, a, b), Joined(t, c, d),
         NoNewPrefix(a, c), NoNewPrefix(b, d)
  PROVE  NoNewPrefix(u, t)
<1>1. /\ \A z : Holding(u, z) <=> Holding(a, z) \/ Holding(b, z)
      /\ \A z, w : Ordered(u, z, w) <=> Ordered(a, z, w) \/ Ordered(b, z, w)
                                         \/ (Holding(a, z) /\ Holding(b, w))
  BY ONLY Joined(u, a, b), SymbolsOfTwo
<1>2. /\ \A z : Holding(t, z) <=> Holding(c, z) \/ Holding(d, z)
      /\ \A z, w : Ordered(t, z, w) <=> Ordered(c, z, w) \/ Ordered(d, z, w)
                                         \/ (Holding(c, z) /\ Holding(d, w))
  BY ONLY Joined(t, c, d), SymbolsOfTwo
<1> QED
  BY ONLY <1>1, <1>2, NoNewPrefix(a, c), NoNewPrefix(b, d) DEF NoNewPrefix

\* A part of a part.
LEMMA PartNoNewPrefix ==
  ASSUME NEW t, NEW a, NEW b, NEW c, NEW d, t \in Seq(Symbol),
         a \in Nat /\ b \in Nat /\ c \in Nat /\ d \in Nat,
         1 <= a /\ a <= c /\ c <= d + 1 /\ d <= b /\ b <= Len(t)
  PROVE  NoNewPrefix(SubSeq(t, c, d), SubSeq(t, a, b))
<1>1. PICK u, v, m, n : /\ u = SubSeq(t, c, d) /\ v = SubSeq(t, a, b) /\ m = d - c + 1
                        /\ n = b - a + 1
  OBVIOUS
<1>2. /\ m \in Nat /\ n \in Nat /\ Len(u) = m /\ Len(v) = n
      /\ \A i \in 1 .. m : u[i] = t[c + i - 1]
      /\ \A i \in 1 .. n : v[i] = t[a + i - 1]
  BY <1>1
<1>3. PICK k : k = c - a /\ k \in Nat /\ k + m <= n
  BY <1>1, <1>2
<1>4. ASSUME NEW i \in 1 .. m PROVE k + i \in 1 .. n /\ v[k + i] = u[i]
  <2>1. k + i \in 1 .. n /\ a + (k + i) - 1 = c + i - 1
    BY <1>2, <1>3
  <2> QED
    BY <1>2, <2>1
<1>5. ASSUME NEW i \in 1 .. m, NEW j \in 1 .. m, i < j PROVE k + i < k + j
  BY <1>2, <1>3, <1>5
<1>6. ASSUME NEW x PROVE Holding(u, x) => Holding(v, x)
  BY ONLY <1>2, <1>4 DEF Holding
<1>7. ASSUME NEW x, NEW y PROVE Ordered(u, x, y) => Ordered(v, x, y)
  BY ONLY <1>2, <1>4, <1>5 DEF Ordered
<1> QED
  BY <1>1, <1>6, <1>7 DEF NoNewPrefix

\* A link puts out no prefix but those of its text.
LEMMA LinkNoNewPrefix ==
  ASSUME NEW t, NEW i, t \in Seq(Symbol), i \in 1 .. Len(t)
  PROVE  NoNewPrefix(Link(t, i).put, SubSeq(t, i, Link(t, i).next - 1))
<1>1. PICK j : j = PairEnd("square", t, i)
  OBVIOUS
<1>2. CASE ~(j > 0 /\ Holds(t, j + 1, {LinkUrl}))
  <2>1. Link(t, i) = Copy(t, i)
    BY <1>1, <1>2 DEF Link
  <2>2. Copy(t, i).put = <<t[i]>> /\ Copy(t, i).next - 1 = i
    BY DEF Copy
  <2>3. SubSeq(t, i, i) = <<t[i]>>
    BY OneSymbol
  <2>4. NoNewPrefix(<<t[i]>>, <<t[i]>>)
    BY NoNewPrefixOrder
  <2> QED
    BY <2>1, <2>2, <2>3, <2>4, Zenon
<1>3. CASE j > 0 /\ Holds(t, j + 1, {LinkUrl})
  <2>1. PICK c, d, e, end, part, all, put :
          /\ c = i + 1 /\ d = j - 1 /\ e = j + 1 /\ end = <<Space, Url>>
          /\ part = SubSeq(t, c, d) /\ all = SubSeq(t, i, e) /\ put = Link(t, i).put
    OBVIOUS
  <2>2. put = part \o end /\ Link(t, i).next = j + 2
    BY <1>1, <1>3, <2>1 DEF Link, Replaced
  <2>3. j \in i + 2 .. Len(t)
    <3>1. j # 0
      BY <1>3
    <3> QED
      BY <1>1, <3>1, PairFirst
  <2>4. e \in 1 .. Len(t)
    BY <1>3, <2>1 DEF Holds
  <2>5. /\ i \in Nat /\ c \in Nat /\ d \in Nat /\ e \in Nat
        /\ 1 <= i /\ i <= c /\ c <= d + 1 /\ d <= e /\ e <= Len(t) /\ Link(t, i).next - 1 = e
    BY <2>1, <2>2, <2>3, <2>4
  <2>6. NoNewPrefix(part, all)
    BY <2>1, <2>5, PartNoNewPrefix
  <2>7. part \in Seq(Symbol) /\ all \in Seq(Symbol) /\ end \in Seq(Symbol)
    <3>1. Space \in Symbol /\ Url \in Symbol
      BY SilentSymbols, Meanings
    <3>2. PartOf(part, t, c, d) /\ PartOf(all, t, i, e)
      BY <2>1, <2>3, <2>4 DEF PartOf
    <3>3. part \in Seq(Symbol) /\ all \in Seq(Symbol)
      BY ONLY <3>2, PartSymbols
    <3> QED
      BY <2>1, <3>1, <3>3
  <2>8. NoNewPrefix(end, <<>>)
    <3>1. \A k \in 1 .. Len(end) : end[k] \in {Space, Url}
      BY <2>1
    <3>2. \A k \in 1 .. Len(end) : end[k] \notin PrefixHeads
      BY <3>1, PrefixSymbols
    <3> QED
      BY <3>2, NoNewPrefixOrder
  <2>9. Joined(put, part, end) /\ Joined(all, all, <<>>)
    <3>1. all \o <<>> = all /\ <<>> \in Seq(Symbol)
      BY <2>7
    <3> QED
      BY <2>2, <2>7, <3>1 DEF Joined
  <2>10. NoNewPrefix(put, all)
    BY ONLY <2>6, <2>8, <2>9, NoNewPrefixTwo
  <2> QED
    BY <2>1, <2>5, <2>10, Zenon
<1> QED
  BY <1>2, <1>3

\* The pass over the links brings no prefix in front of another.
LEMMA LinksNoNewPrefix ==
  ASSUME NEW t, t \in Seq(Symbol)
  PROVE  NoNewPrefix(Pass("links", t), t)
<1>0. PICK n, name : n = Len(t) /\ n \in Nat /\ name = "links"
  OBVIOUS
<1>1. PICK f : Rests(f, name, t) /\ Pass(name, t) = f[1]
  BY <1>0, PassRests DEF Passes
<1> DEFINE S == {k \in 1 .. n + 1 : NoNewPrefix(f[k], SubSeq(t, k, n))}
<1>2. n + 1 \in S
  <2>1. f[n + 1] = <<>> /\ n + 1 \in 1 .. n + 1 /\ SubSeq(t, n + 1, n) = <<>>
    BY <1>0, <1>1 DEF Rests
  <2>2. NoNewPrefix(<<>>, <<>>)
    BY NoNewPrefixOrder
  <2> QED
    BY <2>1, <2>2
<1>3. ASSUME NEW k \in 1 .. n, \A j \in k + 1 .. n + 1 : j \in S PROVE k \in S
  <2>1. PICK put, next, rest : /\ put = Turn(name, t, k).put /\ next = Turn(name, t, k).next
                               /\ rest = f[next]
    OBVIOUS
  <2>2. /\ f[k] = put \o rest /\ next \in k + 1 .. n + 1 /\ put \in Seq(Symbol)
        /\ rest \in Seq(Symbol) /\ k \in 1 .. n + 1 /\ next \in 1 .. n + 1
    <3>1. /\ f[k] = Turn(name, t, k).put \o f[Turn(name, t, k).next]
          /\ Turn(name, t, k).next \in k + 1 .. n + 1 /\ Turn(name, t, k).put \in Seq(Symbol)
      BY <1>0, <1>1 DEF Rests
    <3>2. f[k] = put \o rest /\ next \in k + 1 .. n + 1 /\ put \in Seq(Symbol)
      BY <2>1, <3>1, Zenon
    <3>3. k \in 1 .. n + 1 /\ next \in 1 .. n + 1
      BY <1>0, <3>2
    <3>4. rest \in Seq(Symbol)
      BY <1>0, <1>1, <2>1, <3>3 DEF Rests
    <3> QED
      BY <3>2, <3>3, <3>4
  <2>3. PICK a, b, all : a = SubSeq(t, k, next - 1) /\ b = SubSeq(t, next, n) /\ all = SubSeq(t, k, n)
    OBVIOUS
  <2>4. Joined(all, a, b)
    <3>1. k \in Nat /\ n \in Nat /\ next \in Nat /\ 1 <= k /\ k <= next /\ next <= n + 1 /\ n <= Len(t)
      BY <1>0, <2>2
    <3>2. /\ SubSeq(t, k, n) = SubSeq(t, k, next - 1) \o SubSeq(t, next, n)
          /\ SubSeq(t, k, next - 1) \in Seq(Symbol) /\ SubSeq(t, next, n) \in Seq(Symbol)
      BY ONLY t \in Seq(Symbol), <3>1, PartSplit
    <3> QED
      BY <2>3, <3>2, Zenon DEF Joined
  <2>5. NoNewPrefix(put, a)
    <3>1. Turn(name, t, k) = Link(t, k)
      BY <1>0 DEF Turn
    <3>2. NoNewPrefix(Link(t, k).put, SubSeq(t, k, Link(t, k).next - 1))
      BY <1>0, LinkNoNewPrefix
    <3> QED
      BY <2>1, <2>3, <3>1, <3>2, Zenon
  <2>6. NoNewPrefix(rest, b)
    BY <1>3, <2>1, <2>2, <2>3
  <2>7. Joined(f[k], put, rest)
    BY <2>2, Zenon DEF Joined
  <2>8. NoNewPrefix(f[k], all)
    BY ONLY <2>4, <2>5, <2>6, <2>7, NoNewPrefixTwo
  <2> QED
    BY <2>2, <2>3, <2>8, Zenon
<1> HIDE DEF S
<1>4. \A k \in 1 .. n + 1 : k \in S
  BY <1>0, <1>2, <1>3, DownInduction
<1>5. NoNewPrefix(f[1], SubSeq(t, 1, n)) /\ SubSeq(t, 1, n) = t
  <2>1. 1 \in 1 .. n + 1
    BY <1>0
  <2>2. NoNewPrefix(f[1], SubSeq(t, 1, n))
    BY <1>4, <2>1 DEF S
  <2> QED
    BY <1>0, <2>2, SubSeqFull
<1> QED
  BY <1>0, <1>1, <1>5, Zenon

-----------------------------------------------------------------------------
(***************************************************************************)
(* What a text begins with.                                                *)
(***************************************************************************)

\* t begins with a prefix of m symbols
LeadBy(t, m) ==
    /\ m \in 1 .. 6 /\ m \in 1 .. Len(t) /\ t[1] \in PrefixHeads
    /\ m > 1 => \A k \in 1 .. m : t[k] = Hash
    /\ t[1] = Slashes \/ Holds(t, m + 1, Blank)

\* The number signs that a text begins with.
LEMMA HashRun ==
  ASSUME NEW t, t \in Seq(Symbol)
  PROVE  \E n \in 0 .. Len(t) :
            /\ n = Cardinality({i \in DOMAIN t : \A k \in 1 .. i : t[k] = Hash})
            /\ RunEnd({Hash}, t, 1) = 1 + n
            /\ \A k \in 1 .. n : t[k] = Hash
            /\ n + 1 <= Len(t) => t[n + 1] # Hash
<1>1. PICK n, e : /\ n = Cardinality({i \in DOMAIN t : \A k \in 1 .. i : t[k] = Hash})
                  /\ e = RunEnd({Hash}, t, 1)
  OBVIOUS
<1>2. e = 1 + n
  <2>1. {j \in 1 .. Len(t) : \A k \in 1 .. j : t[k] \in {Hash}}
          = {i \in DOMAIN t : \A k \in 1 .. i : t[k] = Hash}
    OBVIOUS
  <2> QED
    BY <1>1, <2>1, Zenon DEF RunEnd
<1>3. n \in Nat
  <2>1. IsFiniteSet({i \in DOMAIN t : \A k \in 1 .. i : t[k] = Hash})
    <3>1. DOMAIN t = 1 .. Len(t) /\ 1 \in Int /\ Len(t) \in Int
      OBVIOUS
    <3>2. IsFiniteSet(DOMAIN t)
      BY <3>1, FS_Interval
    <3> QED
      BY <3>2, FS_Subset
  <2> QED
    BY <1>1, <2>1, FS_CardinalityType
<1>4. /\ e <= Len(t) + 1 /\ (\A k \in 1 .. e - 1 : t[k] \in {Hash})
      /\ e <= Len(t) => t[e] \notin {Hash}
  <2>1. 1 \in Nat /\ 1 <= 1 /\ 1 <= Len(t) + 1
    OBVIOUS
  <2> QED
    BY <1>1, <2>1, RunEnds
<1>5. n \in 0 .. Len(t) /\ e - 1 = n /\ n + 1 = e
  BY <1>2, <1>3, <1>4
<1> QED
  BY <1>1, <1>2, <1>4, <1>5

\* A text is prefixed if and only if it begins with a prefix of some length.
LEMMA LeadsPrefixed ==
  ASSUME NEW t, t \in Seq(Symbol)
  PROVE  /\ Prefixed(t) => \E m : LeadBy(t, m)
         /\ \A m : LeadBy(t, m) => Prefixed(t) /\ (t[1] = Hash => RunEnd({Hash}, t, 1) = 1 + m)
<1>1. PICK n \in 0 .. Len(t) :
        /\ n = Cardinality({i \in DOMAIN t : \A k \in 1 .. i : t[k] = Hash})
        /\ RunEnd({Hash}, t, 1) = 1 + n
        /\ \A k \in 1 .. n : t[k] = Hash
        /\ n + 1 <= Len(t) => t[n + 1] # Hash
  BY HashRun
<1>2. Prefixed(t) <=> /\ Holds(t, 1, PrefixHeads) /\ n <= 6
                      /\ t[1] = Slashes \/ Holds(t, IF n = 0 THEN 2 ELSE n + 1, Blank)
  BY <1>1 DEF Prefixed, PrefixHeads
<1>3. DOMAIN t = 1 .. Len(t) /\ Len(t) \in Nat /\ Hash # Slashes /\ Hash \notin Blank
  BY DEF Hash, Slashes, Blank, Space, Tab
<1>4. Prefixed(t) => \E m : LeadBy(t, m)
  <2> SUFFICES ASSUME Prefixed(t) PROVE \E m : LeadBy(t, m)
    OBVIOUS
  <2>1. CASE n = 0
    <3>1. 1 \in 1 .. 6 /\ ~(1 > 1) /\ 1 + 1 = 2
      OBVIOUS
    <3>2. LeadBy(t, 1)
      BY <1>2, <1>3, <2>1, <3>1 DEF LeadBy, Holds
    <3> QED
      BY <3>2
  <2>2. CASE n # 0
    <3>1. n \in 1 .. 6 /\ n \in 1 .. Len(t)
      BY <1>2, <2>2
    <3>2. LeadBy(t, n)
      BY <1>1, <1>2, <1>3, <2>2, <3>1 DEF LeadBy, Holds
    <3> QED
      BY <3>2
  <2> QED
    BY <2>1, <2>2
<1>5. ASSUME NEW m, LeadBy(t, m)
      PROVE  Prefixed(t) /\ (t[1] = Hash => RunEnd({Hash}, t, 1) = 1 + m)
  <2>1. /\ m \in 1 .. 6 /\ m \in 1 .. Len(t) /\ t[1] \in PrefixHeads
        /\ m > 1 => \A k \in 1 .. m : t[k] = Hash
        /\ t[1] = Slashes \/ (m + 1 \in 1 .. Len(t) /\ t[m + 1] \in Blank)
    BY <1>3, <1>5 DEF LeadBy, Holds
  <2>2. 1 \in 1 .. Len(t)
    BY <2>1
  <2>3. CASE t[1] = Hash
    <3>1. /\ \A k \in 1 .. m : t[k] = Hash
          /\ m + 1 \in 1 .. Len(t) /\ t[m + 1] \in Blank
      <4>1. m = 1 => \A k \in 1 .. m : k = 1
        OBVIOUS
      <4>2. m = 1 \/ m > 1
        BY <2>1
      <4> QED
        BY <1>3, <2>1, <2>3, <4>1, <4>2
    <3>2. ~(n < m)
      <4> SUFFICES ASSUME n < m PROVE FALSE
        OBVIOUS
      <4>1. n + 1 \in 1 .. m /\ n + 1 <= Len(t)
        BY <2>1
      <4> QED
        BY <1>1, <3>1, <4>1
    <3>3. ~(m < n)
      <4> SUFFICES ASSUME m < n PROVE FALSE
        OBVIOUS
      <4>1. m + 1 \in 1 .. n
        BY <2>1
      <4> QED
        BY <1>1, <1>3, <3>1, <4>1
    <3>4. n = m
      BY <2>1, <3>2, <3>3
    <3> QED
      BY <1>1, <1>2, <1>3, <2>1, <2>2, <3>1, <3>4 DEF Holds
  <2>4. CASE t[1] # Hash
    <3>1. n = 0
      <4> SUFFICES ASSUME n # 0 PROVE FALSE
        OBVIOUS
      <4>1. 1 \in 1 .. n
        OBVIOUS
      <4> QED
        BY <1>1, <2>4, <4>1
    <3>2. m = 1
      <4>1. m > 1 => 1 \in 1 .. m
        BY <2>1
      <4> QED
        BY <2>1, <2>4, <4>1
    <3>3. m + 1 = 2 /\ n <= 6
      BY <3>1, <3>2
    <3> QED
      BY <1>2, <1>3, <2>1, <2>2, <2>4, <3>1, <3>3 DEF Holds
  <2> QED
    BY <2>3, <2>4
<1> QED
  BY <1>4, <1>5

\* the symbols that a prefix is made of
Lead == PrefixHeads \cup Blank

\* as far as u consists of such symbols, they are those of t from i on
LeadFrom(u, t, i) ==
    \A m \in 1 .. Len(u) :
        (\A k \in 1 .. m : u[k] \in Lead) =>
            i + m - 1 <= Len(t) /\ \A k \in 1 .. m : u[k] = t[i + k - 1]

\* Then a prefix of u is one of t.
LEMMA LeadPrefixed ==
  ASSUME NEW u, NEW t, u \in Seq(Symbol), t \in Seq(Symbol), LeadFrom(u, t, 1), Prefixed(u)
  PROVE  Prefixed(t) /\ t[1] = u[1]
<1>1. PICK m : LeadBy(u, m)
  BY LeadsPrefixed
<1>2. DOMAIN u = 1 .. Len(u) /\ DOMAIN t = 1 .. Len(t) /\ Len(t) \in Nat /\ Len(u) \in Nat /\ Hash \in PrefixHeads
  BY PrefixSymbols
<1>3. /\ m \in 1 .. 6 /\ m \in 1 .. Len(u) /\ u[1] \in PrefixHeads
      /\ m > 1 => \A k \in 1 .. m : u[k] = Hash
      /\ u[1] = Slashes \/ (m + 1 \in 1 .. Len(u) /\ u[m + 1] \in Blank)
  BY <1>1, <1>2 DEF LeadBy, Holds
<1>4. \A k \in 1 .. m : u[k] \in Lead
  <2>1. m = 1 => \A k \in 1 .. m : k = 1
    OBVIOUS
  <2>2. m = 1 \/ m > 1
    BY <1>3
  <2> QED
    BY <1>2, <1>3, <2>1, <2>2 DEF Lead
<1>5. ASSUME NEW q \in 1 .. Len(u), \A k \in 1 .. q : u[k] \in Lead
      PROVE  q <= Len(t) /\ \A k \in 1 .. q : u[k] = t[k]
  <2>1. 1 + q - 1 = q /\ \A k \in 1 .. q : 1 + k - 1 = k
    OBVIOUS
  <2> QED
    BY <1>5, <2>1 DEF LeadFrom
<1>6. m \in 1 .. Len(t) /\ \A k \in 1 .. m : u[k] = t[k]
  BY <1>3, <1>4, <1>5
<1>7. t[1] = u[1]
  <2>1. 1 \in 1 .. m
    BY <1>3
  <2> QED
    BY <1>6, <2>1
<1>8. u[1] = Slashes \/ (m + 1 \in 1 .. Len(t) /\ t[m + 1] \in Blank)
  <2> SUFFICES ASSUME u[1] # Slashes PROVE m + 1 \in 1 .. Len(t) /\ t[m + 1] \in Blank
    OBVIOUS
  <2>1. m + 1 \in 1 .. Len(u) /\ u[m + 1] \in Blank
    BY <1>3
  <2>2. \A k \in 1 .. m + 1 : k \in 1 .. m \/ k = m + 1
    BY <1>3
  <2>3. \A k \in 1 .. m + 1 : u[k] \in Lead
    BY <1>4, <2>1, <2>2 DEF Lead
  <2>4. m + 1 <= Len(t) /\ \A k \in 1 .. m + 1 : u[k] = t[k]
    BY <1>5, <2>1, <2>3
  <2>5. m + 1 \in 1 .. Len(t) /\ m + 1 \in 1 .. m + 1
    BY <1>2, <1>3, <2>4
  <2> QED
    BY <2>1, <2>4, <2>5
<1>9. LeadBy(t, m)
  BY <1>2, <1>3, <1>6, <1>7, <1>8 DEF LeadBy, Holds
<1> QED
  BY <1>7, <1>9, LeadsPrefixed

\* A text that begins with none of them, and one that begins with a symbol of t.
LEMMA LeadSteps ==
  ASSUME NEW u, NEW t, NEW i, t \in Seq(Symbol), u \in Seq(Symbol), i \in 1 .. Len(t) + 1
  PROVE  /\ u = <<>> \/ u[1] \notin Lead => LeadFrom(u, t, i)
         /\ \A v : i <= Len(t) /\ Joined(u, <<t[i]>>, v) /\ LeadFrom(v, t, i + 1) => LeadFrom(u, t, i)
<1>1. u = <<>> \/ u[1] \notin Lead => LeadFrom(u, t, i)
  <2> SUFFICES ASSUME NEW m \in 1 .. Len(u), \A k \in 1 .. m : u[k] \in Lead
               PROVE  u # <<>> /\ u[1] \in Lead
    BY DEF LeadFrom
  <2>1. 1 \in 1 .. m
    OBVIOUS
  <2> QED
    BY <2>1
<1>2. ASSUME NEW v, i <= Len(t), Joined(u, <<t[i]>>, v), LeadFrom(v, t, i + 1)
      PROVE  LeadFrom(u, t, i)
  <2>1. PICK n : n = Len(v) /\ n \in Nat
    BY <1>2 DEF Joined
  <2>2. /\ Len(u) = n + 1 /\ u[1] = t[i]
        /\ \A k \in 1 .. n : u[k + 1] = v[k]
    <3>1. PICK h : h = <<t[i]>>
      OBVIOUS
    <3>2. h \in Seq(Symbol) /\ Len(h) = 1 /\ h[1] = t[i] /\ v \in Seq(Symbol) /\ u = h \o v
      BY <1>2, <3>1 DEF Joined
    <3>3. Len(u) = n + 1 /\ \A k \in 1 .. n + 1 : u[k] = IF k <= 1 THEN h[k] ELSE v[k - 1]
      <4>1. PICK m : m = Len(h)
        OBVIOUS
      <4>2. Len(u) = m + n /\ \A k \in 1 .. m + n : u[k] = IF k <= m THEN h[k] ELSE v[k - m]
        <5>1. h \in Seq(Symbol) /\ v \in Seq(Symbol) /\ u = h \o v
          BY <3>2
        <5>2. m = Len(h) /\ n = Len(v)
          BY <2>1, <4>1
        <5> QED
          BY ONLY <5>1, <5>2
      <4>3. m = 1 /\ m + n = n + 1
        BY <2>1, <3>2, <4>1
      <4> QED
        BY <4>2, <4>3
    <3>4. 1 \in 1 .. n + 1 /\ 1 <= 1
      BY <2>1
    <3>5. \A k \in 1 .. n : k + 1 \in 1 .. n + 1 /\ ~(k + 1 <= 1) /\ (k + 1) - 1 = k
      BY <2>1
    <3> QED
      BY <3>2, <3>3, <3>4, <3>5
  <2> SUFFICES ASSUME NEW m \in 1 .. n + 1, \A k \in 1 .. m : u[k] \in Lead
               PROVE  i + m - 1 <= Len(t) /\ \A k \in 1 .. m : u[k] = t[i + k - 1]
    BY <2>2 DEF LeadFrom
  <2>3. CASE m = 1
    <3>1. i + m - 1 = i /\ \A k \in 1 .. m : k = 1 /\ i + k - 1 = i
      BY <2>3
    <3> QED
      BY <1>2, <2>2, <3>1
  <2>4. CASE m # 1
    <3>1. PICK q : q = m - 1 /\ q \in 1 .. n /\ m = q + 1
      BY <2>1, <2>4
    <3>2. \A k \in 1 .. q : k + 1 \in 1 .. m /\ k \in 1 .. n
      BY <2>1, <3>1
    <3>3. \A k \in 1 .. q : v[k] \in Lead
      BY <2>2, <3>2
    <3>4. i + 1 + q - 1 <= Len(t) /\ \A k \in 1 .. q : v[k] = t[i + 1 + k - 1]
      BY <1>2, <2>1, <3>1, <3>3 DEF LeadFrom
    <3>5. i + 1 + q - 1 = i + m - 1
      BY <3>1
    <3>6. ASSUME NEW k \in 1 .. m PROVE u[k] = t[i + k - 1]
      <4>1. CASE k = 1
        <5>1. i + k - 1 = i
          BY <4>1
        <5> QED
          BY <2>2, <4>1, <5>1
      <4>2. CASE k # 1
        <5>0. PICK j : j = k - 1
          OBVIOUS
        <5>1. j \in 1 .. q /\ k = j + 1 /\ i + 1 + j - 1 = i + k - 1
          BY <3>1, <4>2, <5>0
        <5>2. u[j + 1] = v[j]
          BY <2>2, <3>2, <5>1
        <5> QED
          BY <3>4, <5>1, <5>2
      <4> QED
        BY <4>1, <4>2
    <3> QED
      BY <3>4, <3>5, <3>6
  <2> QED
    BY <2>3, <2>4
<1> QED
  BY <1>1, <1>2

\* A turn that does not copy puts out a mark or a quotation mark first.
LEMMA TurnLeads ==
  ASSUME NEW name, NEW t, NEW i, name \in DOMAIN Following, t \in Seq(Symbol), i \in 1 .. Len(t)
  PROVE  \/ Copies(name, t, i)
         \/ /\ Turn(name, t, i).put # <<>> /\ Turn(name, t, i).put[1] \notin Lead
<1>0. Comma \notin Lead /\ Stop \notin Lead /\ Quote \notin Lead
  BY PrefixSymbols DEF Lead
<1>1. CASE name \in {"arrows", "arrows2", "wide", "wide2", "dashes"}
  <2>1. \/ Turn(name, t, i) = Copy(t, i)
        \/ Turn(name, t, i).put = <<Comma>> \/ Turn(name, t, i).put = <<Stop>>
    BY <1>1, MarkTurns
  <2>2. /\ <<Comma>> # <<>> /\ <<Comma>>[1] = Comma
        /\ <<Stop>> # <<>> /\ <<Stop>>[1] = Stop
    OBVIOUS
  <2> QED
    BY <1>0, <2>1, <2>2 DEF Copies
<1>2. ASSUME NEW kind, NEW m, NEW j, NEW c, NEW d, Quotes(kind, t, i, m, j, c, d)
      PROVE  m.put # <<>> /\ m.put[1] \notin Lead
  <2>1. PICK q, part, rest, put : q = <<Quote>> /\ part = SubSeq(t, c, d) /\ rest = part \o q /\ put = m.put
    OBVIOUS
  <2>2. q \in Seq(Symbol) /\ q # <<>> /\ q[1] = Quote
    <3>1. Quote \in Symbol
      BY DEF Symbol
    <3> QED
      BY <2>1, <3>1
  <2>3. part \in Seq(Symbol)
    <3>1. /\ c \in Nat /\ d \in Nat /\ d + 1 \in Nat /\ 1 <= c /\ c <= d + 1 /\ d + 1 <= d + 1
          /\ d <= Len(t)
      BY SMTT(60), <1>2 DEF Quotes
    <3>2. SubSeq(t, c, d) \in Seq(Symbol)
      BY ONLY t \in Seq(Symbol), <3>1, PartSplit
    <3> QED
      BY <2>1, <3>2
  <2>4. put = q \o part \o q
    BY <1>2, <2>1, Zenon DEF Quotes
  <2>5. put = q \o rest /\ rest \in Seq(Symbol)
    <3>1. q \o part \o q = q \o (part \o q) /\ part \o q \in Seq(Symbol)
      BY ONLY <2>2, <2>3, ConcatAssociative
    <3> QED
      BY <2>1, <2>4, <3>1, Zenon
  <2>6. Joined(put, q, rest)
    BY <2>2, <2>5 DEF Joined
  <2>7. put # <<>> /\ put[1] = q[1]
    BY ONLY <2>2, <2>6, TwoTexts
  <2> QED
    BY <1>0, <2>1, <2>2, <2>7
<1>3. CASE name \in {"square", "curly"}
  <2>1. Turn(name, t, i) = Bracket(name, t, i)
    BY <1>3 DEF Turn
  <2> QED
    BY <1>2, <1>3, <2>1, BracketTurn DEF Copies
<1>4. CASE name \in {"lenticular", "corner"}
  <2>1. Turn(name, t, i) = WideBracket(name, t, i)
    BY <1>4 DEF Turn
  <2> QED
    BY <1>2, <1>4, <2>1, WideTurn DEF Copies
<1> QED
  BY <1>1, <1>3, <1>4 DEF Following

\* A pass brings no prefix to the beginning of the text.
LEMMA PassLeads ==
  ASSUME NEW name, NEW t, name \in DOMAIN Following, t \in Seq(Symbol)
  PROVE  Pass(name, t) \in Seq(Symbol) /\ LeadFrom(Pass(name, t), t, 1)
<1>0. PICK n : n = Len(t) /\ n \in Nat
  OBVIOUS
<1>1. PICK f : Rests(f, name, t) /\ Pass(name, t) = f[1]
  BY PassRests DEF Passes
<1> DEFINE S == {k \in 1 .. n + 1 : LeadFrom(f[k], t, k)}
<1>2. n + 1 \in S
  <2>1. f[n + 1] = <<>> /\ n + 1 \in 1 .. Len(t) + 1 /\ <<>> \in Seq(Symbol)
    BY <1>0, <1>1 DEF Rests
  <2>2. LeadFrom(<<>>, t, n + 1)
    BY <2>1, LeadSteps
  <2> QED
    BY <1>0, <2>1, <2>2
<1>3. ASSUME NEW k \in 1 .. n, \A j \in k + 1 .. n + 1 : j \in S PROVE k \in S
  <2>1. /\ k \in 1 .. Len(t) /\ k \in 1 .. Len(t) + 1 /\ k <= Len(t) /\ k + 1 \in k + 1 .. n + 1
        /\ f[k] \in Seq(Symbol)
    BY <1>0, <1>1 DEF Rests
  <2>2. CASE Copies(name, t, k)
    <3>1. GoesOn(f, t, k)
      BY <1>1, <2>1, <2>2, CopyStep
    <3>2. Joined(f[k], <<t[k]>>, f[k + 1])
      BY <3>1 DEF GoesOn, Joined
    <3>3. LeadFrom(f[k + 1], t, k + 1)
      BY <1>3, <2>1
    <3>4. LeadFrom(f[k], t, k)
      BY ONLY t \in Seq(Symbol), <2>1, <3>2, <3>3, LeadSteps
    <3> QED
      BY <1>0, <2>1, <3>4
  <2>3. CASE Turn(name, t, k).put # <<>> /\ Turn(name, t, k).put[1] \notin Lead
    <3>1. PICK put, next, rest : /\ put = Turn(name, t, k).put /\ next = Turn(name, t, k).next
                                 /\ rest = f[next]
      OBVIOUS
    <3>2. f[k] = put \o rest /\ next \in k + 1 .. n + 1 /\ put \in Seq(Symbol)
      <4>1. /\ f[k] = Turn(name, t, k).put \o f[Turn(name, t, k).next]
            /\ Turn(name, t, k).next \in k + 1 .. n + 1 /\ Turn(name, t, k).put \in Seq(Symbol)
        BY <1>0, <1>1 DEF Rests
      <4> QED
        BY <3>1, <4>1, Zenon
    <3>3. next \in 1 .. n + 1
      BY <1>0, <3>2
    <3>4. rest \in Seq(Symbol)
      BY <1>0, <1>1, <3>1, <3>3 DEF Rests
    <3>5. Joined(f[k], put, rest) /\ put # <<>>
      BY <2>3, <3>1, <3>2, <3>4, Zenon DEF Joined
    <3>6. f[k][1] = put[1]
      BY ONLY <3>5, TwoTexts
    <3>7. f[k][1] \notin Lead
      BY <2>3, <3>1, <3>6
    <3>8. LeadFrom(f[k], t, k)
      BY ONLY t \in Seq(Symbol), <2>1, <3>7, LeadSteps
    <3> QED
      BY <1>0, <2>1, <3>8
  <2> QED
    BY <2>1, <2>2, <2>3, TurnLeads
<1> HIDE DEF S
<1>4. \A k \in 1 .. n + 1 : k \in S
  BY <1>0, <1>2, <1>3, DownInduction
<1>5. 1 \in 1 .. n + 1
  BY <1>0
<1>6. LeadFrom(f[1], t, 1) /\ f[1] \in Seq(Symbol)
  BY <1>0, <1>1, <1>4, <1>5 DEF S, Rests
<1> QED
  BY <1>1, <1>6

\* Nor does a line that is put behind the text.
LEMMA MergedLeads ==
  ASSUME NEW t, NEW b, t \in Seq(Symbol), b \in Seq(Symbol), t # <<>>
  PROVE  Merged(t, b) \in Seq(Symbol) /\ LeadFrom(Merged(t, b), t, 1)
<1>0. PICK a, u, n : a = EnsureTerminalPunctuation(t) /\ u = a \o b /\ n = Len(t)
  OBVIOUS
<1>1. n = Len(t) /\ n \in Nat /\ a = EnsureTerminalPunctuation(t) /\ u = a \o b
  <2>1. n \in Nat
    BY <1>0
  <2> QED
    BY <1>0, <2>1, Zenon
<1>2. Merged(t, b) = u
  BY <1>1 DEF Merged
<1>3. Stop \in Symbol /\ Stop \notin Lead /\ \A x \in Marks : x \notin Lead
  <2>1. Marks \cap Blank = {}
    <3>1. Opener["lenticular"] = "L" /\ Opener["corner"] = "C"
      BY DEF Opener
    <3> QED
      BY <3>1 DEF Marks, Blank, Stop, Comma, Space, Tab
  <2> QED
    BY <2>1, MarkSymbols, PrefixSymbols DEF Lead
<1>4. /\ a \in Seq(Symbol) /\ Len(a) >= n /\ (\A k \in 1 .. n : a[k] = t[k])
      /\ \E q \in 1 .. Len(a) : q <= n + 1 /\ a[q] \notin Lead
  <2>1. a = t \/ a = Append(t, Stop)
    BY <1>1 DEF EnsureTerminalPunctuation
  <2>2. CASE a = t
    <3>1. PICK m : EndsIn(t, m)
      BY <1>1, <2>2, MarkAtEnd
    <3>2. m \in 1 .. n /\ t[m] \notin Lead
      BY <1>1, <1>3, <3>1 DEF EndsIn
    <3> QED
      BY <1>1, <2>2, <3>2
  <2>3. CASE a = Append(t, Stop)
    <3>1. /\ a \in Seq(Symbol) /\ Len(a) = n + 1 /\ (\A k \in 1 .. n : a[k] = t[k])
          /\ a[n + 1] = Stop
      BY <1>1, <1>3, <2>3
    <3>2. n + 1 \in 1 .. Len(a)
      BY <1>1, <3>1
    <3> QED
      BY <1>1, <1>3, <3>1, <3>2
  <2> QED
    BY <2>1, <2>2, <2>3
<1>5. PICK q \in 1 .. Len(a) : q <= n + 1 /\ a[q] \notin Lead
  BY <1>4
<1>6. u \in Seq(Symbol) /\ \A k \in 1 .. Len(a) : u[k] = a[k]
  BY ONLY <1>1, <1>4, b \in Seq(Symbol)
<1>7. ASSUME NEW m \in 1 .. Len(u), \A k \in 1 .. m : u[k] \in Lead
      PROVE  1 + m - 1 <= Len(t) /\ \A k \in 1 .. m : u[k] = t[1 + k - 1]
  <2>1. ~(q <= m)
    <3> SUFFICES ASSUME q <= m PROVE FALSE
      OBVIOUS
    <3>1. q \in 1 .. m
      BY <1>4, <1>5
    <3> QED
      BY <1>5, <1>6, <1>7, <3>1
  <2>2. m <= n /\ 1 + m - 1 = m
    BY <1>1, <1>4, <1>5, <1>6, <2>1
  <2>3. \A k \in 1 .. m : k \in 1 .. n /\ k \in 1 .. Len(a) /\ 1 + k - 1 = k
    BY <1>1, <1>4, <2>2
  <2> QED
    BY <1>1, <1>4, <1>6, <2>2, <2>3
<1>8. LeadFrom(u, t, 1)
  BY <1>7 DEF LeadFrom
<1> QED
  BY <1>2, <1>6, <1>8

-----------------------------------------------------------------------------
(***************************************************************************)
(* The removal of the prefixes of a line.                                  *)
(***************************************************************************)

\* u is t, or t without a prefix of rank r at its beginning
Shortens(t, u, r) ==
    \/ u = t
    \/ \E e : /\ e \in 2 .. Len(t) + 1 /\ 1 <= Len(t) /\ u = SubSeq(t, e, Len(t))
              /\ t[1] \in PrefixHeads /\ Rank[t[1]] = r

\* a step of the removal: no prefix is new, and what it brings forward was preceded
Removes(t, u, r) ==
    /\ t \in Seq(Symbol) /\ u \in Seq(Symbol) /\ NoNewPrefix(u, t)
    /\ \A x \in PrefixHeads : u # t /\ Rank[x] <= r /\ Holding(u, x) => Preceded(t, x)
    /\ Prefixed(t) /\ Rank[t[1]] = r => u # t

\* The rest of a text has fewer symbols.
LEMMA RestIsShorter ==
  ASSUME NEW t, NEW e, t \in Seq(Symbol), e \in 2 .. Len(t) + 1, 1 <= Len(t)
  PROVE  SubSeq(t, e, Len(t)) # t
<1>1. PICK n, u : n = Len(t) /\ u = SubSeq(t, e, n)
  OBVIOUS
<1>2. n \in Nat /\ e \in 2 .. n + 1 /\ 1 <= n
  BY <1>1
<1>3. Len(u) = IF e <= n THEN n - e + 1 ELSE 0
  BY ONLY t \in Seq(Symbol), <1>1, <1>2, SubSeqProperties
<1>4. Len(u) # n
  BY <1>2, <1>3
<1> QED
  BY <1>1, <1>4

\* What is shortened has no new prefix, and the one that was dropped was in front.
LEMMA ShortensRemoves ==
  ASSUME NEW t, NEW u, NEW r, t \in Seq(Symbol), Shortens(t, u, r),
         Prefixed(t) /\ Rank[t[1]] = r => u # t
  PROVE  Removes(t, u, r)
<1>1. CASE u = t
  BY <1>1, NoNewPrefixOrder DEF Removes
<1>2. CASE u # t
  <2>1. PICK e : /\ e \in 2 .. Len(t) + 1 /\ 1 <= Len(t) /\ u = SubSeq(t, e, Len(t))
                 /\ t[1] \in PrefixHeads /\ Rank[t[1]] = r
    BY <1>2 DEF Shortens
  <2>2. PICK n : n = Len(t) /\ n \in Nat
    OBVIOUS
  <2>3. /\ 1 \in Nat /\ n \in Nat /\ e \in Nat /\ 1 <= 1 /\ 1 <= e /\ e <= n + 1 /\ n <= n
        /\ n <= Len(t) /\ SubSeq(t, 1, n) = t /\ n + 1 \in Nat /\ e <= n + 1
    BY <2>1, <2>2, SubSeqFull
  <2>4. NoNewPrefix(SubSeq(t, e, n), SubSeq(t, 1, n)) /\ SubSeq(t, e, n) \in Seq(Symbol)
    <3>1. NoNewPrefix(SubSeq(t, e, n), SubSeq(t, 1, n))
      BY ONLY t \in Seq(Symbol), <2>3, PartNoNewPrefix
    <3>2. SubSeq(t, e, n) \in Seq(Symbol)
      BY ONLY t \in Seq(Symbol), <2>3, PartSplit
    <3> QED
      BY <3>1, <3>2
  <2>5. NoNewPrefix(u, t) /\ u \in Seq(Symbol)
    BY <2>1, <2>2, <2>3, <2>4, Zenon
  <2>6. ASSUME NEW x \in PrefixHeads, Rank[x] <= r, Holding(u, x) PROVE Preceded(t, x)
    <3>1. PICK k \in 1 .. Len(u) : u[k] = x
      BY <2>6 DEF Holding
    <3>2. e <= n /\ Len(u) = n - e + 1 /\ \A i \in 1 .. n - e + 1 : u[i] = t[e + i - 1]
      <4>1. Len(u) = IF e <= n THEN n - e + 1 ELSE 0
        BY ONLY t \in Seq(Symbol), <2>1, <2>2, <2>3, SubSeqProperties
      <4>2. e <= n
        BY <2>3, <3>1, <4>1
      <4>3. Len(u) = n - e + 1
        BY <4>1, <4>2
      <4>4. \A i \in 1 .. n - e + 1 : u[i] = t[e + i - 1]
        BY ONLY t \in Seq(Symbol), <2>1, <2>2, <2>3, <4>2
      <4> QED
        BY <4>2, <4>3, <4>4
    <3>3. PICK j : j = e + k - 1 /\ t[j] = x
      BY <3>1, <3>2
    <3>4. 1 \in DOMAIN t /\ j \in DOMAIN t /\ 1 < j
      BY <2>1, <2>2, <3>1, <3>2, <3>3
    <3>5. Rank[t[1]] >= Rank[x]
      <4>1. Rank[x] \in Nat /\ Rank[t[1]] \in Nat
        BY <2>1, PrefixSymbols
      <4> QED
        BY <2>1, <2>6, <4>1
    <3> QED
      BY <2>1, <3>3, <3>4, <3>5 DEF Preceded, PrefixHeads
  <2> QED
    BY <1>2, <2>5, <2>6 DEF Removes
<1> QED
  BY <1>1, <1>2

\* A mark of n symbols is dropped with the blanks behind it.
LEMMA MarkDropped ==
  ASSUME NEW t, NEW n, t \in Seq(Symbol), n \in Nat
  PROVE  /\ DropMark(t, n) = t \/ \E e \in 2 .. Len(t) + 1 : DropMark(t, n) = SubSeq(t, e, Len(t))
         /\ n >= 1 /\ n + 1 \in 1 .. Len(t) /\ t[n + 1] \in Blank => DropMark(t, n) # t
<1>1. CASE n \in 1 .. Len(t) - 1 /\ t[n + 1] \in Blank
  <2>1. PICK m, e : m = n + 1 /\ e = RunEnd(Blank, t, m)
    OBVIOUS
  <2>2. m \in Nat /\ 1 <= m /\ m <= Len(t) + 1
    BY <1>1, <2>1
  <2>3. e \in Nat /\ m <= e /\ e <= Len(t) + 1
    BY <2>1, <2>2, RunEnds
  <2>4. e \in 2 .. Len(t) + 1 /\ 1 <= Len(t)
    BY <1>1, <2>1, <2>3
  <2>5. DropMark(t, n) = SubSeq(t, e, Len(t))
    BY <1>1, <2>1 DEF DropMark
  <2>6. SubSeq(t, e, Len(t)) # t
    BY <2>4, RestIsShorter
  <2> QED
    BY <2>4, <2>5, <2>6
<1>2. CASE ~(n \in 1 .. Len(t) - 1 /\ t[n + 1] \in Blank)
  <2>1. DropMark(t, n) = t
    BY <1>2 DEF DropMark
  <2>2. n >= 1 /\ n + 1 \in 1 .. Len(t) => n \in 1 .. Len(t) - 1
    OBVIOUS
  <2> QED
    BY <1>2, <2>1, <2>2
<1> QED
  BY <1>1, <1>2

\* The quotation mark, the list mark or the number at the beginning of a line.
LEMMA DropIfRemoves ==
  ASSUME NEW t, NEW set, NEW r, t \in Seq(Symbol),
         \A x \in PrefixHeads : x \in set <=> Rank[x] = r, set \subseteq PrefixHeads \ {Hash, Slashes}
  PROVE  Removes(t, DropIf(t, set), r)
<1>1. DOMAIN t = 1 .. Len(t) /\ Len(t) \in Nat /\ 1 \in Nat
  OBVIOUS
<1>2. Shortens(t, DropIf(t, set), r)
  <2>1. CASE ~Holds(t, 1, set)
    BY <2>1 DEF DropIf, Shortens
  <2>2. CASE Holds(t, 1, set)
    <3>1. DropIf(t, set) = DropMark(t, 1) /\ 1 <= Len(t) /\ t[1] \in PrefixHeads /\ Rank[t[1]] = r
      BY <1>1, <2>2 DEF DropIf, Holds
    <3>2. DropMark(t, 1) = t \/ \E e \in 2 .. Len(t) + 1 : DropMark(t, 1) = SubSeq(t, e, Len(t))
      BY <1>1, MarkDropped
    <3> QED
      BY <3>1, <3>2 DEF Shortens
  <2> QED
    BY <2>1, <2>2
<1>3. ASSUME Prefixed(t), Rank[t[1]] = r PROVE DropIf(t, set) # t
  <2>1. PICK m : LeadBy(t, m)
    BY <1>3, LeadsPrefixed
  <2>2. m \in 1 .. 6 /\ m \in 1 .. Len(t) /\ t[1] \in PrefixHeads /\ t[1] \in set
    BY <1>3, <2>1 DEF LeadBy
  <2>3. m = 1
    <3>1. m > 1 => 1 \in 1 .. m
      BY <2>2
    <3> QED
      BY <2>1, <2>2, <3>1 DEF LeadBy
  <2>4. 1 + 1 \in 1 .. Len(t) /\ t[1 + 1] \in Blank
    BY <1>1, <2>1, <2>2, <2>3 DEF LeadBy, Holds
  <2>5. DropMark(t, 1) # t
    <3>1. 1 >= 1
      OBVIOUS
    <3> QED
      BY <1>1, <2>4, <3>1, MarkDropped
  <2>6. Holds(t, 1, set)
    BY <1>1, <2>2 DEF Holds
  <2> QED
    BY <2>5, <2>6 DEF DropIf
<1> QED
  BY <1>2, <1>3, ShortensRemoves

\* The number signs or the slashes at the beginning of a line.
LEMMA HeadingRemoves ==
  ASSUME NEW t, t \in Seq(Symbol)
  PROVE  Removes(t, DropHeading(t), 1)
<1>1. DOMAIN t = 1 .. Len(t) /\ Len(t) \in Nat /\ 1 \in Nat
  OBVIOUS
<1>2. PICK n \in 0 .. Len(t) : RunEnd({Hash}, t, 1) = 1 + n /\ \A k \in 1 .. n : t[k] = Hash
  BY HashRun
<1>3. (1 + n) - 1 = n /\ n \in Nat
  BY <1>2
<1>4. Hash \in PrefixHeads /\ Slashes \in PrefixHeads /\ Hash # Slashes /\ Rank[Hash] = 1 /\ Rank[Slashes] = 1
  BY PrefixSymbols DEF Hash, Slashes
<1>5. CASE Holds(t, 1, {Slashes})
  <2>1. PICK e : e = RunEnd(Blank, t, 2)
    OBVIOUS
  <2>2. 1 \in 1 .. Len(t) /\ t[1] = Slashes
    BY <1>1, <1>5 DEF Holds
  <2>3. 2 \in Nat /\ 1 <= 2 /\ 2 <= Len(t) + 1
    BY <2>2
  <2>4. e \in Nat /\ 2 <= e /\ e <= Len(t) + 1
    BY <2>1, <2>3, RunEnds
  <2>5. e \in 2 .. Len(t) + 1 /\ 1 <= Len(t)
    BY <2>2, <2>4
  <2>6. DropHeading(t) = SubSeq(t, e, Len(t))
    <3>1. n \in 1 .. 6 => 1 \in 1 .. n
      OBVIOUS
    <3>2. n \notin 1 .. 6
      BY <1>2, <1>4, <2>2, <3>1
    <3>3. RunEnd({Hash}, t, 1) - 1 \notin 1 .. 6
      BY <1>2, <1>3, <3>2
    <3> QED
      BY <1>5, <2>1, <3>3 DEF DropHeading
  <2>7. SubSeq(t, e, Len(t)) # t
    BY <2>5, RestIsShorter
  <2>8. Shortens(t, SubSeq(t, e, Len(t)), 1)
    BY <1>4, <2>2, <2>5 DEF Shortens
  <2> QED
    BY <2>6, <2>7, <2>8, ShortensRemoves
<1>6. CASE ~Holds(t, 1, {Slashes})
  <2>1. DropHeading(t) = IF n \in 1 .. 6 THEN DropMark(t, n) ELSE t
    BY <1>2, <1>3, <1>6 DEF DropHeading
  <2>2. Shortens(t, DropHeading(t), 1)
    <3>1. CASE n \in 1 .. 6
      <4>1. 1 \in 1 .. n /\ 1 <= Len(t)
        BY <1>2, <3>1
      <4>2. t[1] \in PrefixHeads /\ Rank[t[1]] = 1
        BY <1>2, <1>4, <4>1
      <4>3. DropMark(t, n) = t \/ \E e \in 2 .. Len(t) + 1 : DropMark(t, n) = SubSeq(t, e, Len(t))
        BY <1>3, MarkDropped
      <4> QED
        BY <2>1, <3>1, <4>1, <4>2, <4>3 DEF Shortens
    <3>2. CASE n \notin 1 .. 6
      BY <2>1, <3>2 DEF Shortens
    <3> QED
      BY <3>1, <3>2
  <2>3. ASSUME Prefixed(t), Rank[t[1]] = 1 PROVE DropHeading(t) # t
    <3>1. PICK m : LeadBy(t, m)
      BY <2>3, LeadsPrefixed
    <3>2. m \in 1 .. 6 /\ m \in 1 .. Len(t) /\ t[1] \in PrefixHeads
      BY <3>1 DEF LeadBy
    <3>3. t[1] = Hash
      <4>1. t[1] # Slashes
        BY <1>1, <1>6, <3>2 DEF Holds
      <4> QED
        BY <2>3, <3>2, <4>1, PrefixSymbols
    <3>4. RunEnd({Hash}, t, 1) = 1 + m
      BY <3>1, <3>3, LeadsPrefixed
    <3>5. n = m
      BY <1>2, <3>2, <3>4
    <3>6. m + 1 \in 1 .. Len(t) /\ t[m + 1] \in Blank
      BY <1>1, <1>4, <3>1, <3>3 DEF LeadBy, Holds
    <3>7. DropMark(t, n) # t
      <4>1. n >= 1
        BY <3>2, <3>5
      <4> QED
        BY <1>3, <3>5, <3>6, <4>1, MarkDropped
    <3> QED
      BY <2>1, <3>2, <3>5, <3>7
  <2> QED
    BY <2>2, <2>3, ShortensRemoves
<1> QED
  BY <1>5, <1>6

\* A prefix that is left at the beginning of a line was preceded.
LEMMA LeftIsPreceded ==
  ASSUME NEW t, t \in Seq(Symbol), Prefixed(WithoutPrefixes(t))
  PROVE  /\ WithoutPrefixes(t)[1] \in PrefixHeads
         /\ Preceded(t, WithoutPrefixes(t)[1])
<1>1. PICK a, b, c, d : /\ a = DropHeading(t) /\ b = DropIf(a, {Greater})
                        /\ c = DropIf(b, {Hyphen, Star}) /\ d = DropIf(c, {Number})
  OBVIOUS
<1>2. WithoutPrefixes(t) = d
  BY <1>1, Zenon DEF WithoutPrefixes
<1>3. Removes(t, a, 1)
  BY <1>1, HeadingRemoves
<1>4. /\ \A z \in PrefixHeads : z \in {Greater} <=> Rank[z] = 2
      /\ \A z \in PrefixHeads : z \in {Hyphen, Star} <=> Rank[z] = 3
      /\ \A z \in PrefixHeads : z \in {Number} <=> Rank[z] = 4
      /\ {Greater} \subseteq PrefixHeads \ {Hash, Slashes}
      /\ {Hyphen, Star} \subseteq PrefixHeads \ {Hash, Slashes}
      /\ {Number} \subseteq PrefixHeads \ {Hash, Slashes}
  BY PrefixSymbols DEF Hash, Slashes, Greater, Hyphen, Star, Number
<1>5. Removes(a, b, 2)
  <2>1. a \in Seq(Symbol)
    BY <1>3 DEF Removes
  <2> QED
    BY <1>1, <1>4, <2>1, DropIfRemoves
<1>6. Removes(b, c, 3)
  <2>1. b \in Seq(Symbol)
    BY <1>5 DEF Removes
  <2> QED
    BY <1>1, <1>4, <2>1, DropIfRemoves
<1>7. Removes(c, d, 4)
  <2>1. c \in Seq(Symbol)
    BY <1>6 DEF Removes
  <2> QED
    BY <1>1, <1>4, <2>1, DropIfRemoves
<1>8. /\ a \in Seq(Symbol) /\ b \in Seq(Symbol) /\ c \in Seq(Symbol) /\ d \in Seq(Symbol)
      /\ NoNewPrefix(a, t) /\ NoNewPrefix(b, a) /\ NoNewPrefix(c, b) /\ NoNewPrefix(d, c)
  BY <1>3, <1>5, <1>6, <1>7 DEF Removes
<1>9. NoNewPrefix(t, t) /\ NoNewPrefix(b, t) /\ NoNewPrefix(c, t)
  <2>1. NoNewPrefix(b, t)
    BY <1>8, NoNewPrefixOrder
  <2>2. NoNewPrefix(c, t)
    BY <1>8, <2>1, NoNewPrefixOrder
  <2> QED
    BY <2>1, <2>2, NoNewPrefixOrder
<1>10. PICK x : x = d[1]
  OBVIOUS
<1>11. x \in PrefixHeads /\ Holding(d, x) /\ Prefixed(d)
  <2>1. Prefixed(d)
    BY <1>2
  <2>2. 1 \in 1 .. Len(d) /\ d[1] \in PrefixHeads
    BY <1>8, <2>1 DEF Prefixed, Holds, PrefixHeads
  <2> QED
    BY <1>10, <2>1, <2>2 DEF Holding
<1>12. Holding(c, x) /\ Holding(b, x) /\ Holding(a, x)
  BY <1>8, <1>11 DEF NoNewPrefix
<1>13. Rank[x] \in 1 .. 4
  BY <1>11, PrefixSymbols
<1>14. CASE d # c
  <2>1. Preceded(c, x)
    BY <1>7, <1>11, <1>13, <1>14 DEF Removes
  <2> QED
    BY <1>2, <1>8, <1>9, <1>10, <1>11, <2>1, PrecededKept
<1>15. CASE d = c /\ c # b /\ Rank[x] <= 3
  <2>1. Preceded(b, x)
    BY <1>6, <1>11, <1>12, <1>15 DEF Removes
  <2> QED
    BY <1>2, <1>8, <1>9, <1>10, <1>11, <2>1, PrecededKept
<1>16. CASE d = b /\ b # a /\ Rank[x] <= 2
  <2>1. Preceded(a, x)
    BY <1>5, <1>11, <1>12, <1>16 DEF Removes
  <2> QED
    BY <1>2, <1>8, <1>9, <1>10, <1>11, <2>1, PrecededKept
<1>17. CASE d = a /\ a # t /\ Rank[x] <= 1
  <2>1. Preceded(t, x)
    BY <1>3, <1>11, <1>12, <1>17 DEF Removes
  <2> QED
    BY <1>2, <1>10, <1>11, <2>1
<1>18. CASE d = c /\ Rank[x] = 4
  BY <1>7, <1>10, <1>11, <1>18 DEF Removes
<1>19. CASE d = c /\ c = b /\ Rank[x] = 3
  BY <1>6, <1>10, <1>11, <1>19 DEF Removes
<1>20. CASE d = b /\ b = a /\ Rank[x] = 2
  BY <1>5, <1>10, <1>11, <1>20 DEF Removes
<1>21. CASE d = a /\ a = t /\ Rank[x] = 1
  BY <1>3, <1>10, <1>11, <1>21 DEF Removes
<1>22. /\ Rank[x] <= 3 \/ Rank[x] = 4
       /\ Rank[x] <= 3 => Rank[x] <= 2 \/ Rank[x] = 3
       /\ Rank[x] <= 2 => Rank[x] <= 1 \/ Rank[x] = 2
       /\ Rank[x] <= 1 => Rank[x] = 1
  BY <1>13
<1> QED
  BY <1>14, <1>15, <1>16, <1>17, <1>18, <1>19, <1>20, <1>21, <1>22

-----------------------------------------------------------------------------
(***************************************************************************)
(* The invariant: what is left to read has no order of prefixes that the   *)
(* input does not have, and a prefix at the beginning of what is written   *)
(* was preceded in the input.                                              *)
(***************************************************************************)
LeftInv ==
    /\ ContentInv
    /\ stage = "links" => s = input
    /\ stage = "lines" => \A x \in PrefixHeads : Preceded(todo, x) => Preceded(input, x)
    /\ stage # "links" /\ Prefixed(s) => Preceded(input, s[1])

\* The line that is read and the lines behind it have no new prefix.
LEMMA LineNoNewPrefix ==
  ASSUME NEW t, NEW e, t \in Seq(Symbol), t # <<>>, e = RunEnd(Symbol \ {Newline}, t, 1)
  PROVE  /\ NoNewPrefix(Trim(Blank, t, 1, e - 1), t)
         /\ Trim(Blank, t, 1, e - 1) \in Seq(Symbol)
         /\ NoNewPrefix(SubSeq(t, e + 1, Len(t)), t)
<1>1. PICK n, b : n = Len(t) /\ n \in Nat /\ b = e - 1
  OBVIOUS
<1>2. 1 \in Nat /\ 1 <= 1 /\ 1 <= Len(t) + 1 /\ n \in Nat /\ n >= 1
  BY <1>1
<1>3. e \in Nat /\ 1 <= e /\ e <= n + 1
  BY <1>1, <1>2, RunEnds
<1>4. SubSeq(t, 1, n) = t
  BY <1>1, SubSeqFull
<1>5. NoNewPrefix(Trim(Blank, t, 1, b), t)
  <2>1. 1 \in Nat /\ b \in Nat /\ 1 <= 1 /\ 1 <= b + 1 /\ b <= Len(t)
    BY <1>1, <1>2, <1>3
  <2>2. PICK c, d \in Nat : /\ 1 <= c /\ c <= d + 1 /\ d <= b
                            /\ Trim(Blank, t, 1, b) = SubSeq(t, c, d)
    <3>1. PICK a : a = 1
      OBVIOUS
    <3>2. a \in Nat /\ b \in Nat /\ 1 <= a /\ a <= b + 1 /\ b <= Len(t)
      BY <2>1, <3>1
    <3>3. PICK set : set = Blank
      OBVIOUS
    <3>4. \E c, d \in Nat : /\ a <= c /\ c <= d + 1 /\ d <= b
                            /\ Trim(set, t, a, b) = SubSeq(t, c, d)
                            /\ Trim(set, t, a, b) # <<>> => c <= d
                            /\ \A k \in a .. b : k < c \/ k > d => t[k] \in set
      BY ONLY t \in Seq(Symbol), <3>2, TrimmedPart, Zenon
    <3> QED
      BY <3>1, <3>3, <3>4
  <2>3. /\ 1 \in Nat /\ n \in Nat /\ c \in Nat /\ d \in Nat
        /\ 1 <= 1 /\ 1 <= c /\ c <= d + 1 /\ d <= n /\ n <= Len(t)
    BY <1>1, <2>1, <2>2
  <2>4. NoNewPrefix(SubSeq(t, c, d), SubSeq(t, 1, n))
    BY ONLY t \in Seq(Symbol), <2>3, PartNoNewPrefix
  <2> QED
    BY <1>4, <2>2, <2>4, Zenon
<1>6. Trim(Blank, t, 1, b) \in Seq(Symbol)
  BY <1>1, LineNeat DEF Neat, OneLine
<1>7. NoNewPrefix(SubSeq(t, e + 1, n), t)
  <2>1. CASE e = n + 1
    <3>1. SubSeq(t, e + 1, n) = <<>>
      BY <1>1, <1>3, <2>1
    <3>2. NoNewPrefix(<<>>, t)
      BY NoNewPrefixOrder
    <3> QED
      BY <3>1, <3>2
  <2>2. CASE e # n + 1
    <3>1. PICK c : c = e + 1
      OBVIOUS
    <3>2. /\ 1 \in Nat /\ n \in Nat /\ c \in Nat
          /\ 1 <= 1 /\ 1 <= c /\ c <= n + 1 /\ n <= n /\ n <= Len(t)
      BY <1>1, <1>3, <2>2, <3>1
    <3>3. NoNewPrefix(SubSeq(t, c, n), SubSeq(t, 1, n))
      BY ONLY t \in Seq(Symbol), <3>2, PartNoNewPrefix
    <3> QED
      BY <1>4, <3>1, <3>3, Zenon
  <2> QED
    BY <2>1, <2>2
<1> QED
  BY <1>1, <1>5, <1>6, <1>7

\* Reading a line keeps the invariant.
LEMMA TakeLineLeft == LeftInv /\ ContentInv' /\ TakeLine => LeftInv'
<1> SUFFICES ASSUME LeftInv, ContentInv', TakeLine PROVE LeftInv'
  OBVIOUS
<1>1. PICK e, line, rest : /\ e = LineEnd /\ line = Trim(Blank, todo, 1, e - 1)
                           /\ rest = SubSeq(todo, e + 1, Len(todo))
  OBVIOUS
<1>2. /\ s' = IF line = <<>> THEN s ELSE Merged(s, WithoutPrefixes(line))
      /\ todo' = rest /\ todo # <<>>
      /\ stage = "lines" /\ stage' = "lines" /\ input' = input
  BY <1>1 DEF TakeLine
<1>3. /\ todo \in Seq(Symbol) /\ s \in Seq(Symbol) /\ input \in Seq(Symbol) /\ rest \in Seq(Symbol)
      /\ s' \in Seq(Symbol)
  BY <1>2 DEF LeftInv, ContentInv, TypeOK
<1>4. NoNewPrefix(line, todo) /\ line \in Seq(Symbol) /\ NoNewPrefix(rest, todo)
  BY <1>1, <1>2, <1>3, LineNoNewPrefix DEF LineEnd
<1>5. \A x \in PrefixHeads : Preceded(todo, x) => Preceded(input, x)
  BY <1>2 DEF LeftInv
<1>6. \A x \in PrefixHeads : Preceded(rest, x) => Preceded(input, x)
  BY <1>3, <1>4, <1>5, PrecededKept
<1>7. ASSUME Prefixed(s') PROVE Preceded(input, s'[1])
  <2>0. Prefixed(s) => Preceded(input, s[1])
    BY <1>2 DEF LeftInv
  <2>1. CASE line = <<>>
    BY <1>2, <1>7, <2>0, <2>1
  <2>2. CASE line # <<>> /\ s = <<>>
    <3>1. PICK w : w = WithoutPrefixes(line) /\ w \in Seq(Symbol)
      <4>1. Neat(line)
        BY <1>1, <1>3, LineNeat DEF LineEnd
      <4> QED
        BY <4>1, WithoutPrefixesNeat DEF Neat, OneLine
    <3>2. <<>> \o w = w
      BY <3>1
    <3>3. s' = w
      BY <1>2, <2>2, <3>1, <3>2, NothingToMark DEF Merged
    <3>4. w[1] \in PrefixHeads /\ Preceded(line, w[1])
      BY <1>4, <1>7, <3>1, <3>3, LeftIsPreceded
    <3>5. Preceded(todo, w[1])
      BY <1>3, <1>4, <3>4, PrecededKept
    <3> QED
      BY <1>5, <3>3, <3>4, <3>5
  <2>3. CASE line # <<>> /\ s # <<>>
    <3>1. PICK w : w = WithoutPrefixes(line) /\ w \in Seq(Symbol)
      <4>1. Neat(line)
        BY <1>1, <1>3, LineNeat DEF LineEnd
      <4> QED
        BY <4>1, WithoutPrefixesNeat DEF Neat, OneLine
    <3>2. s' = Merged(s, w)
      BY <1>2, <2>3, <3>1
    <3>3. LeadFrom(s', s, 1)
      BY <1>3, <2>3, <3>1, <3>2, MergedLeads
    <3>4. Prefixed(s) /\ s[1] = s'[1]
      BY <1>3, <1>7, <3>3, LeadPrefixed
    <3> QED
      BY <2>0, <3>4
  <2> QED
    BY <2>1, <2>2, <2>3
<1> QED
  BY <1>2, <1>6, <1>7 DEF LeftInv

\* Every step keeps the invariant.
LEMMA NextLeft == LeftInv /\ [Next]_vars => LeftInv'
<1> SUFFICES ASSUME LeftInv, [Next]_vars PROVE LeftInv'
  OBVIOUS
<1>1. ContentInv /\ ContentInv' /\ s \in Seq(Symbol) /\ input \in Seq(Symbol)
  BY NextContent DEF LeftInv, ContentInv, TypeOK
<1>2. CASE RewriteLinks
  <2>1. /\ stage = "links" /\ stage' = "lines" /\ todo' = Pass("links", s) /\ s' = <<>>
        /\ input' = input /\ s = input
    BY <1>2 DEF RewriteLinks, LeftInv
  <2>2. ~Prefixed(<<>>)
    BY DEF Prefixed, Holds
  <2>3. NoNewPrefix(todo', input) /\ todo' \in Seq(Symbol)
    BY <1>1, <2>1, LinksNoNewPrefix DEF ContentInv, TypeOK
  <2>4. \A x \in PrefixHeads : Preceded(todo', x) => Preceded(input, x)
    BY <1>1, <2>3, PrecededKept
  <2> QED
    BY <1>1, <2>1, <2>2, <2>4 DEF LeftInv
<1>3. CASE TakeLine
  BY <1>1, <1>3, TakeLineLeft
<1>4. CASE EndOfLines
  BY <1>1, <1>4 DEF EndOfLines, LeftInv
<1>5. CASE Rewrite
  <2>1. /\ stage \in DOMAIN Following /\ s' = Pass(stage, s) /\ stage' = Following[stage]
        /\ input' = input
    BY <1>5 DEF Rewrite
  <2>2. stage \notin {"links", "lines"} /\ stage' \notin {"links", "lines"}
    BY <2>1 DEF Following
  <2>3. s' \in Seq(Symbol) /\ LeadFrom(s', s, 1)
    BY <1>1, <2>1, PassLeads
  <2>4. Prefixed(s') => Prefixed(s) /\ s[1] = s'[1]
    BY <1>1, <2>3, LeadPrefixed
  <2>5. Prefixed(s') => Preceded(input, s'[1])
    BY <2>2, <2>4 DEF LeftInv
  <2> QED
    BY <1>1, <2>1, <2>2, <2>5 DEF LeftInv
<1>6. CASE RunAgain
  BY <1>1, <1>6 DEF RunAgain, LeftInv
<1>7. CASE UNCHANGED vars \/ Finished
  <2>1. stage' = stage /\ s' = s /\ todo' = todo /\ input' = input
    BY <1>7 DEF Finished, vars
  <2> QED
    BY <1>1, <2>1 DEF LeftInv
<1> QED
  BY <1>2, <1>3, <1>4, <1>5, <1>6, <1>7 DEF Next

(***************************************************************************)
(* Whatever the text, if a call leaves a prefix at its beginning then in   *)
(* the text the call began with a prefix that is looked for later, or the  *)
(* same one, came before one of its kind: no link, line, arrow, bracket or *)
(* dash that is rewritten brings another one to the front.                 *)
(***************************************************************************)
THEOREM PrefixesAreRemoved == Spec => []PrefixesRemoved
<1>1. Init => LeftInv
  BY InitContent DEF Init, LeftInv
<1>2. LeftInv => PrefixesRemoved
  BY DEF LeftInv, PrefixesRemoved
<1> QED
  BY <1>1, <1>2, NextLeft, PTL DEF Spec

=============================================================================
