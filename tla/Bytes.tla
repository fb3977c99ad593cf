-------------------------------- MODULE Bytes --------------------------------
(***************************************************************************)
(* The loops of tts_robust_normalizer.cpp that walk over a text by bytes:  *)
(* BaseCleanup, the URL pattern of ProtectSpans, the copying loop of       *)
(* NormalizeVisibleUnderscores, the first loop of NormalizeSpaces and the  *)
(* two Chinese loops of RewriteHyphensBeforeZhWetext.  A text is the       *)
(* sequence of its bytes, and characters are decoded as the code does it.  *)
(* The stages between them, which expressions over ASCII or over whole     *)
(* characters make up, are in the other modules and left out here: the     *)
(* loops are checked on more texts than reach them.                        *)
(*                                                                         *)
(* Three bytes stand for more than themselves: Scheme for https?://, Tag   *)
(* for the placeholder of a URL and Keep for the one of a hyphen.  Both    *)
(* placeholders are ASCII, and BaseCleanup leaves no byte 2 or 3.          *)
(***************************************************************************)
EXTENDS Integers, Sequences, FiniteSets, SequencesExt

CONSTANT Texts

Byte   == 1 .. 255
Tag    == 2
Keep   == 3
Blank  == 32
Hyphen == 45
Under  == 95
Scheme == 104
Comma  == <<239, 188, 140>>

ASSUME TextsAssumption == Texts \subseteq Seq(Byte \ {Tag, Keep})

VARIABLES stage, s, p, result, input    \* as in RewriteHyphens

vars == <<stage, s, p, result, input>>

Init ==
    /\ stage = "breaks"
    /\ s \in Texts
    /\ p = 1
    /\ result = <<>>
    /\ input = s

-----------------------------------------------------------------------------
(***************************************************************************)
(* The byte at i; past the end the terminator.  What lies beyond it is     *)
(* undefined, but only the low bits of a code point that is no Chinese     *)
(* character, or Chinese whatever they are, are ever made of it.           *)
(***************************************************************************)
At(t, i) == IF i <= Len(t) THEN t[i] ELSE 0

IsDigit(b) == b \in 48 .. 57
IsAlnum(b) == IsDigit(b) \/ b \in 65 .. 90 \/ b \in 97 .. 122
IsSpace(b) == b \in {9, 10, 11, 12, 13, Blank}

Utf8CharLen(b) ==
    CASE b < 192 -> 1 [] b \in 192 .. 223 -> 2 [] b \in 224 .. 239 -> 3 [] OTHER -> 4

\* a byte that continues a character falls through to four bytes
DecodeUtf8(t, i) ==
    LET c == At(t, i)
        Low(k) == At(t, i + k) % 64
    IN  CASE c < 128 -> [cp |-> c, len |-> 1]
          [] c \div 32 = 6 -> [cp |-> (c % 32) * 64 + Low(1), len |-> 2]
          [] c \div 16 = 14 ->
               [cp |-> (c % 16) * 4096 + Low(1) * 64 + Low(2), len |-> 3]
          [] OTHER ->
               [cp |-> (c % 8) * 262144 + Low(1) * 4096 + Low(2) * 64 + Low(3),
                len |-> 4]

Han(cp)        == cp \in 13312 .. 19903 \/ cp \in 19968 .. 40959
CjkOrKana(cp)  == Han(cp) \/ cp \in 12352 .. 12543

\* Mutant: any character of three bytes is taken for a Chinese one.
IsCjkCharWide(t, i) == DecodeUtf8(t, i).len = 3

IsCjkChar(t, i) == Han(DecodeUtf8(t, i).cp)

\* the first position from i on that holds no space
SkipBlanks(t, i) ==
    LET run == {j \in i .. Len(t) : \A k \in i .. j : t[k] = Blank} IN i + Cardinality(run)

-----------------------------------------------------------------------------
(***************************************************************************)
(* One turn of each loop: the bytes it puts out and the place it moves to. *)
(* An append to a std::string is cut at the end of the text; one from a    *)
(* pointer is not, and the pointer has then run past the terminator.       *)
(***************************************************************************)
\* Mutant: no append is cut at the end.
CopyPadded(t, i, n) == [put |-> [k \in 1 .. n |-> At(t, i + k - 1)], next |-> i + n]

Copy(t, i, n) == [put |-> SubSeq(t, i, IF i + n - 1 <= Len(t) THEN i + n - 1 ELSE Len(t)),
                  next |-> i + n]

Breaks(t, i) ==
    CASE t[i] = 13 -> [put |-> <<10>>, next |-> IF At(t, i + 1) = 10 THEN i + 2 ELSE i + 1]
      [] t[i] = 227 /\ At(t, i + 1) = 128 /\ At(t, i + 2) = 128 ->
           [put |-> <<Blank>>, next |-> i + 3]
      [] OTHER -> Copy(t, i, 1)

\* Mutant: the third byte is not looked at.
ZeroWidthTwoBytes(t, i) ==
    IF (t[i] = 226 /\ At(t, i + 1) = 128) \/ (t[i] = 239 /\ At(t, i + 1) = 187)
    THEN [put |-> <<>>, next |-> i + 3]
    ELSE Copy(t, i, 1)

\* Mutant: two bytes of the three are skipped.
ZeroWidthSkipsTwo(t, i) ==
    IF t[i] = 226 /\ At(t, i + 1) = 128 /\ At(t, i + 2) \in 139 .. 141
    THEN [put |-> <<>>, next |-> i + 2]
    ELSE Copy(t, i, 1)

\* U+200B to U+200D and U+FEFF are dropped
ZeroWidth(t, i) ==
    IF \/ t[i] = 226 /\ At(t, i + 1) = 128 /\ At(t, i + 2) \in 139 .. 141
       \/ t[i] = 239 /\ At(t, i + 1) = 187 /\ At(t, i + 2) = 191
    THEN [put |-> <<>>, next |-> i + 3]
    ELSE Copy(t, i, 1)

\* i += len goes past the end at an incomplete character; i < s.size() ends it
Control(t, i) ==
    IF t[i] \in {9, 10} \/ t[i] >= 32
    THEN [Copy(t, i, Utf8CharLen(t[i])) EXCEPT !.next = IF @ > Len(t) THEN Len(t) + 1 ELSE @]
    ELSE [put |-> <<>>, next |-> i + 1]

\* the bytes of the characters that the pattern's class names
UrlEnds == {227, 128, 239, 188, 140, 130, 129, 159, 155, 137, 145, 139, 141, 143}

UrlRun(t, i) ==
    {j \in i + 1 .. Len(t) : \A k \in i + 1 .. j : ~IsSpace(t[k]) /\ t[k] \notin UrlEnds}

\* a match behind a letter, digit or underscore is copied as it stands
Url(t, i) ==
    LET n == 1 + Cardinality(UrlRun(t, i))
    IN  IF t[i] # Scheme \/ n = 1 THEN Copy(t, i, 1)
        ELSE IF i > 1 /\ (IsAlnum(t[i - 1]) \/ t[i - 1] = Under) THEN Copy(t, i, n)
        ELSE [put |-> <<Tag>>, next |-> i + n]

\* Mutant: an underscore leads back to the head of the loop.
VisibleUnderscoresStuck(t, i) ==
    IF t[i] = Under THEN [put |-> <<>>, next |-> i] ELSE Copy(t, i, Utf8CharLen(t[i]))

\* Mutant: p += len, and the ++p of the loop after it.
VisibleUnderscoresTooFar(t, i) ==
    IF t[i] = Under THEN [put |-> <<Blank>>, next |-> i + 1]
                    ELSE [Copy(t, i, Utf8CharLen(t[i])) EXCEPT !.next = @ + 1]

VisibleUnderscores(t, i) ==
    IF t[i] = Under THEN [put |-> <<Blank>>, next |-> i + 1] ELSE Copy(t, i, Utf8CharLen(t[i]))

\* spaces between Chinese or Japanese characters are deleted
JoinCjk(t, i) ==
    LET here == DecodeUtf8(t, i)
        next == SkipBlanks(t, i + here.len)
    IN  IF CjkOrKana(here.cp) /\ next <= Len(t) /\ CjkOrKana(DecodeUtf8(t, next).cp)
        THEN [Copy(t, i, here.len) EXCEPT !.next = next]
        ELSE Copy(t, i, here.len)

(***************************************************************************)
(* The loops on hyphens: a Chinese character, a hyphen among spaces, and   *)
(* the position behind them.  A character that is not Chinese is copied    *)
(* byte by byte.                                                           *)
(***************************************************************************)
HyphenAt(t, i)    == SkipBlanks(t, i + DecodeUtf8(t, i).len)
BehindHyphen(t, i) == SkipBlanks(t, HyphenAt(t, i) + 1)

HyphenFollows(t, i) ==
    IsCjkChar(t, i) /\ At(t, HyphenAt(t, i)) = Hyphen /\ BehindHyphen(t, i) <= Len(t)

CopyChinese(t, i) == Copy(t, i, IF IsCjkChar(t, i) THEN DecodeUtf8(t, i).len ELSE 1)

Rewritten(t, i, put) ==
    [put |-> CopyChinese(t, i).put \o put, next |-> BehindHyphen(t, i)]

CjkNeg(t, i) ==
    IF HyphenFollows(t, i) /\ IsDigit(t[BehindHyphen(t, i)])
    THEN Rewritten(t, i, <<Keep>>)
    ELSE CopyChinese(t, i)

CjkCjk(t, i) ==
    IF HyphenFollows(t, i) /\ IsCjkChar(t, BehindHyphen(t, i))
    THEN Rewritten(t, i, Comma)
    ELSE CopyChinese(t, i)

-----------------------------------------------------------------------------
Turn ==
    CASE stage = "breaks"    -> Breaks(s, p)
      [] stage = "zerowidth" -> ZeroWidth(s, p)
      [] stage = "control"   -> Control(s, p)
      [] stage = "url"       -> Url(s, p)
      [] stage = "under"     -> VisibleUnderscores(s, p)
      [] stage = "cjk"       -> JoinCjk(s, p)
      [] stage = "cjkneg"    -> CjkNeg(s, p)
      [] stage = "cjkcjk"    -> CjkCjk(s, p)

Following ==
    [breaks |-> "zerowidth", zerowidth |-> "control", control |-> "url",
     url |-> "under", under |-> "cjk", cjk |-> "cjkneg", cjkneg |-> "cjkcjk",
     cjkcjk |-> "done"]

\* one turn of the loop of this stage
Step ==
    /\ stage # "done"
    /\ p <= Len(s)
    /\ result' = result \o Turn.put
    /\ p' = Turn.next
    /\ UNCHANGED <<stage, s, input>>

\* the loop has found the terminator; a text without a hyphen needs no rewriting
EndStage ==
    /\ stage # "done"
    /\ p = Len(s) + 1
    /\ stage' = IF stage = "cjk" /\ Hyphen \notin Range(result) THEN "done" ELSE Following[stage]
    /\ s' = result
    /\ p' = 1
    /\ result' = <<>>
    /\ UNCHANGED input

\* the pointer has passed the terminator: what the loop reads is undefined
Overrun == p > Len(s) + 1

Finished == (stage = "done" \/ Overrun) /\ UNCHANGED vars

Next == Step \/ EndStage \/ Finished

Spec == Init /\ [][Next]_vars /\ WF_vars(Step \/ EndStage)

-----------------------------------------------------------------------------
IndexLoops == {"breaks", "zerowidth", "control", "url"}

(***************************************************************************)
(* Texts are made of bytes, without terminator; a pointer passes the       *)
(* terminator by three at most, and the passes that go by the length of    *)
(* the text never do, whatever the bytes are.                              *)
(***************************************************************************)
TypeOK ==
    /\ stage \in DOMAIN Following \cup {"done"}
    /\ s \in Seq(Byte) /\ result \in Seq(Byte)
    /\ p \in 1 .. Len(s) + 4
    /\ stage \in IndexLoops \cup {"done"} => ~Overrun

(***************************************************************************)
(* Where characters begin.  The byte at i belongs to the character that    *)
(* begins at h, and a text is whole when every byte belongs to one and     *)
(* every character has its bytes.                                          *)
(***************************************************************************)
Continues(b) == b \in 128 .. 191

HeadOf(t, i, h) ==
    ~Continues(t[h]) /\ i < h + Utf8CharLen(t[h]) /\ \A k \in h + 1 .. i : Continues(t[k])

Whole(t) ==
    \A i \in 1 .. Len(t) :
        IF Continues(t[i]) THEN \E h \in 1 .. i - 1 : HeadOf(t, i, h)
        ELSE \A k \in i + 1 .. i + Utf8CharLen(t[i]) - 1 : k <= Len(t) /\ Continues(t[k])

AtCharacter(t, i) == i \in 1 .. Len(t) => ~Continues(t[i])

(***************************************************************************)
(* A byte inside a character that is not Chinese misleads a loop on        *)
(* hyphens when four bytes from there on decode to a Chinese one, as they  *)
(* do at the last byte of U+FF08 in front of most Chinese characters.      *)
(***************************************************************************)
InsideOther(t, i) == \E h \in 1 .. i - 1 : HeadOf(t, i, h) /\ ~IsCjkChar(t, h)

SeemsChinese(t, i) == Continues(t[i]) /\ IsCjkChar(t, i)

Misled(t) == \E i \in 1 .. Len(t) : SeemsChinese(t, i) /\ InsideOther(t, i)

HyphenLoops == {"cjkneg", "cjkcjk"}

(***************************************************************************)
(* A pointer runs past the terminator only on a text that is not whole, or *)
(* in a loop on hyphens, on a text with a hyphen or its placeholder: a     *)
(* character that is not Chinese misled the loop, and one of the last      *)
(* three bytes, inside a character, decodes to a Chinese one of four.      *)
(***************************************************************************)
HasHyphen(t) == \E i \in 1 .. Len(t) : t[i] \in {Hyphen, Keep}

OverrunOnlyByDecoding ==
    Overrun =>
        \/ ~Whole(s)
        \/ /\ stage \in HyphenLoops
           /\ HasHyphen(s) /\ Misled(s)
           /\ \E i \in 1 .. Len(s) : i > Len(s) - 3 /\ SeemsChinese(s, i)

(***************************************************************************)
(* The inductive invariant behind it: on a whole text the pointer is where *)
(* a character begins, and a loop on hyphens leaves that only inside of a  *)
(* character that is not Chinese, until one has misled it.                 *)
(***************************************************************************)
DecodingInv ==
    /\ OverrunOnlyByDecoding
    /\ Whole(s) /\ ~Overrun =>
          /\ stage \in {"under", "cjk"} => AtCharacter(s, p)
          /\ stage \in HyphenLoops => AtCharacter(s, p) \/ InsideOther(s, p) \/ Misled(s)

(***************************************************************************)
(* What BaseCleanup is to make of a text, character by character: U+3000   *)
(* becomes a space, a carriage return a line feed unless one follows, and  *)
(* zero-width and control characters go with all of their bytes.           *)
(***************************************************************************)
IdeographicAt(t, i) == t[i] = 227 /\ At(t, i + 1) = 128 /\ At(t, i + 2) = 128

ZeroWidthAt(t, i) ==
    \/ t[i] = 226 /\ At(t, i + 1) = 128 /\ At(t, i + 2) \in 139 .. 141
    \/ t[i] = 239 /\ At(t, i + 1) = 187 /\ At(t, i + 2) = 191

ControlAt(t, i) == t[i] < 32 /\ t[i] \notin {9, 10, 13}

Gone(t, i) ==
    \E h \in 1 .. i :
        /\ HeadOf(t, i, h)
        /\ ZeroWidthAt(t, h) \/ ControlAt(t, h) \/ (IdeographicAt(t, h) /\ h < i)

CleanedByte(t, i) ==
    IF IdeographicAt(t, i) THEN <<Blank>>
    ELSE IF t[i] = 13 THEN IF At(t, i + 1) = 10 THEN <<>> ELSE <<10>>
    ELSE IF Gone(t, i) THEN <<>> ELSE <<t[i]>>

CleanText(t) == FlattenSeq([i \in 1 .. Len(t) |-> CleanedByte(t, i)])

(***************************************************************************)
(* BaseCleanup deletes and replaces whole characters only: its three       *)
(* passes over the bytes are one pass over the characters, a pair of       *)
(* carriage return and line feed being one of them.                        *)
(***************************************************************************)
CleanedByCharacter == stage = "url" /\ Whole(input) => s = CleanText(input)

(***************************************************************************)
(* Where the URL pattern would end within a character of t: behind a       *)
(* scheme, with no line end and no space between, at a character one of    *)
(* whose later bytes is in the class and the first is not.                 *)
(***************************************************************************)
BreaksUrl(t, i) == t[i] \in {10, 13, Blank} \/ IdeographicAt(t, i)

CutAt(t, j) ==
    /\ ~Continues(t[j]) /\ t[j] \notin UrlEnds
    /\ \E k \in j + 1 .. j + Utf8CharLen(t[j]) - 1 : At(t, k) \in UrlEnds

UrlCuts(t) ==
    \E i, j \in 1 .. Len(t) :
        i < j /\ t[i] = Scheme /\ (\A k \in i + 1 .. j : ~BreaksUrl(t, k)) /\ CutAt(t, j)

(***************************************************************************)
(* A whole argument in which the URL pattern can end within no character   *)
(* stays whole through all stages: where one takes a character apart, the  *)
(* argument had a URL with such a character behind it.                     *)
(***************************************************************************)
CutOnlyByUrl == Whole(input) /\ ~Whole(s) => UrlCuts(input)

(***************************************************************************)
(* What a loop on hyphens is to do, on characters.  A joint is what stands *)
(* from j up to r, a hyphen among spaces behind a Chinese character, when  *)
(* what is at r lets the loop rewrite it: a digit in the first loop, a     *)
(* Chinese character in the second.                                        *)
(***************************************************************************)
Chinese(t, h) == ~Continues(t[h]) /\ Han(DecodeUtf8(t, h).cp)

BehindChinese(t, j) == \E h \in 1 .. j - 1 : Chinese(t, h) /\ j = h + Utf8CharLen(t[h])

Joins(t, j, r, loop) ==
    /\ BehindChinese(t, j)
    /\ \E h \in j .. r - 1 : t[h] = Hyphen /\ \A k \in (j .. r - 1) \ {h} : t[k] = Blank
    /\ IF loop = "cjkneg" THEN IsDigit(t[r]) ELSE Chinese(t, r)

InJoint(t, k, loop) == \E j \in 1 .. k, r \in k + 1 .. Len(t) : Joins(t, j, r, loop)

\* what takes the place of a joint is put where it begins
JoinedByte(t, k, loop) ==
    IF ~InJoint(t, k, loop) THEN <<t[k]>>
    ELSE IF ~BehindChinese(t, k) THEN <<>>
    ELSE IF loop = "cjkneg" THEN <<Keep>> ELSE Comma

JoinText(t, loop) == FlattenSeq([k \in 1 .. Len(t) |-> JoinedByte(t, k, loop)])

(***************************************************************************)
(* The loops on hyphens step over bytes, and still do what a pass over the *)
(* characters would, unless inside some character four bytes decode to a   *)
(* Chinese one: other wide characters, and marks in front of ASCII, do not *)
(* mislead them.                                                           *)
(***************************************************************************)
HyphensByCharacter ==
    stage \in HyphenLoops /\ p = Len(s) + 1 /\ Whole(s) /\ ~Misled(s) =>
        result = JoinText(s, stage)

=============================================================================
