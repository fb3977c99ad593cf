------------------------------- MODULE Chars -------------------------------
(***************************************************************************)
(* The alphabet of the text passes of tts_robust_normalizer.cpp.           *)
(*                                                                         *)
(* Every pass looks at a character only through a handful of tests (its    *)
(* CharCategory, "is it a blank", "is it one of these marks"), so a text   *)
(* is a sequence of character classes: two characters that no test of the  *)
(* pass tells apart are the same symbol.  A protected token ___PROTn___ is *)
(* one symbol, "tag": it begins and ends with '_', which every test below  *)
(* puts in category 'O'.                                                   *)
(***************************************************************************)
EXTENDS Naturals, Sequences

Han        == "han"        \* U+3400-4DBF, U+4E00-9FFF
Kana       == "kana"       \* U+3040-30FF
Digit      == "digit"      \* 0-9
WideDigit  == "wdigit"     \* U+FF10-FF19
Latin      == "latin"      \* A-Z a-z
Tag        == "tag"        \* ___PROTn___
Space      == "space"      \* ' '
Tab        == "tab"        \* '\t'
Closer     == "closer"     \* a mark that takes no space on either side
Opener     == "opener"     \* a mark that takes no space after it
AsciiPunct == "apunct"     \* , . ; ! ?
Other      == "other"      \* anything else

Char == {Han, Kana, Digit, WideDigit, Latin, Tag, Space, Tab,
         Closer, Opener, AsciiPunct, Other}

Blank == {Space, Tab}

(***************************************************************************)
(* CharCategory: 'C' Chinese, 'K' kana, 'D' digit (ASCII or full-width),   *)
(* 'L' Latin letter, 'O' anything else.                                    *)
(***************************************************************************)
CharCategory(c) ==
    CASE c = Han                  -> "C"
      [] c = Kana                 -> "K"
      [] c \in {Digit, WideDigit} -> "D"
      [] c = Latin                -> "L"
      [] OTHER                    -> "O"

IsCjkOrKana(c) == CharCategory(c) \in {"C", "K"}
IsDigit(c)     == CharCategory(c) = "D"
IsLatin(c)     == CharCategory(c) = "L"

(***************************************************************************)
(* The loops that move a pointer over blanks: from position i it stops at  *)
(* j, the first position that holds no member of skip (or the end).        *)
(* Exactly one j satisfies this for i \in 1 .. Len(t) + 1.                 *)
(***************************************************************************)
SkipRun(skip, t, i, j) ==
    /\ j \in i .. Len(t) + 1
    /\ \A q \in i .. j - 1 : t[q] \in skip
    /\ j <= Len(t) => t[j] \notin skip

=============================================================================
