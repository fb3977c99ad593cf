---------------------------- MODULE ProtectSpans ----------------------------
(***************************************************************************)
(* ProtectSpans, NormalizeVisibleUnderscores and RestoreSpans of           *)
(* tts_robust_normalizer.cpp.                                              *)
(*                                                                         *)
(* Seven regular expressions are applied one after the other; each match   *)
(* that does not follow a word character is moved to prot and leaves a     *)
(* placeholder ___PROTn___ in the text, which the next expressions then    *)
(* read as text.  Afterwards the visible underscores become spaces, and    *)
(* RestoreSpans puts the spans back, one index after the other.            *)
(*                                                                         *)
(* An item of text is a character class, or a placeholder with its number. *)
(* The code counts spans from 0 and this module from 1.  The letters of a  *)
(* URL scheme are one item, "http", and the "://" after it one, "sep".     *)
(* Not modelled: the 32-character limit of a mention, and input that       *)
(* already contains the characters of a placeholder.                       *)
(***************************************************************************)
EXTENDS TextOps

Classes == { "letter",      \* a letter other than u, r
             "ur",          \* u or r
             "digit", "under", "dot", "slash", "dash", "at", "hash",
             "http",        \* http or https
             "sep",         \* ://
             "space",       \* white space
             "stop",        \* a full-width mark that ends a URL
             "wide" }       \* any other character that is not ASCII

Ch(c)       == [c |-> c, n |-> 0]
TagItem(k)  == [c |-> "tag", n |-> k]
Plain       == [c : Classes, n : {0}]
Item        == Plain \cup [c : {"tag"}, n : Nat]

CONSTANT Texts              \* the texts ProtectSpans may be given

ASSUME TextsAssumption == Texts \subseteq Seq(Plain)

VARIABLES
    stage,                  \* the loop that is running
    s,                      \* the text it reads
    p,                      \* its read position
    result,                 \* the text it has written
    prot,                   \* the protected spans
    idx,                    \* the span RestoreSpans is at
    input                   \* the argument of ProtectSpans

vars == <<stage, s, p, result, prot, idx, input>>

Patterns == {"url", "email", "mention", "reddit", "hashtag", "filelike", "dot"}

NextStage == [ url |-> "email", email |-> "mention", mention |-> "reddit",
               reddit |-> "hashtag", hashtag |-> "filelike",
               filelike |-> "dot", dot |-> "underscore",
               underscore |-> "restore" ]

Init ==
    /\ stage = "url"
    /\ s \in Texts
    /\ p = 1
    /\ result = <<>>
    /\ prot = <<>>
    /\ idx = 1
    /\ input = s

-----------------------------------------------------------------------------
(***************************************************************************)
(* The character classes of the expressions.  A placeholder consists of    *)
(* letters, digits and underscores, so it is text to every class that has  *)
(* all three.                                                              *)
(***************************************************************************)
Alpha    == {"letter", "ur", "http"}
Alnum    == Alpha \cup {"digit"}
Word     == Alnum \cup {"under", "tag"}             \* [A-Za-z0-9_]
InUrl    == (Classes \cup {"tag"}) \ {"space", "stop"}
Local    == Word \cup {"dot", "dash"}               \* [A-Za-z0-9._%+\-]
Domain   == Alnum \cup {"dot", "dash"}              \* [A-Za-z0-9.\-]
Tagged   == (Classes \cup {"tag"}) \ {"space", "hash"}
Symbol   == {"dot", "slash", "dash", "sep"}         \* [./+\:\-]
InFile   == Word \cup Symbol
InDot    == Word \cup {"dot", "dash"}               \* [A-Za-z0-9._\-]

(***************************************************************************)
(* The longest run of members of class that starts at i ends before e.     *)
(***************************************************************************)
Run(class, t, i, e) ==
    /\ e \in i .. Len(t) + 1
    /\ \A q \in i .. e - 1 : t[q].c \in class
    /\ e <= Len(t) => t[e].c \notin class

Has(t, i, e, class) == \E q \in i .. e - 1 : t[q].c \in class

Is(t, i, c) == i <= Len(t) /\ t[i].c = c

(***************************************************************************)
(* Match(name, t, i, e): the expression matches t from i up to before e.   *)
(***************************************************************************)
UrlMatch(t, i, e) ==
    /\ Is(t, i, "http") /\ Is(t, i + 1, "sep")
    /\ i + 2 < e /\ Run(InUrl, t, i + 2, e)

\* The part after the last dot is two letters or more up to the end of the run.
EmailMatch(t, i, e) ==
    \E at \in i + 1 .. Len(t) :
        /\ Run(Local, t, i, at) /\ Is(t, at, "at")
        /\ Run(Domain, t, at + 1, e)
        /\ \E d \in at + 2 .. e - 2 :
              /\ Is(t, d, "dot")
              /\ \A q \in d + 1 .. e - 1 : t[q].c \in Alpha
              /\ e - d > 2 \/ Is(t, d + 1, "http")

MentionMatch(t, i, e) ==
    Is(t, i, "at") /\ i + 1 < e /\ Run(Word, t, i + 1, e)

RedditMatch(t, i, e) ==
    /\ Is(t, i, "ur") /\ Is(t, i + 1, "slash")
    /\ i + 2 < e /\ Run(Word, t, i + 2, e)

HashtagMatch(t, i, e) ==
    Is(t, i, "hash") /\ i + 1 < e /\ Run(Tagged, t, i + 1, e)

\* The first letter or digit of a match may be one inside a placeholder.
FilelikeMatch(t, i, e) ==
    /\ t[i].c \in Alnum \cup {"tag"}
    /\ Run(InFile, t, i, e)
    /\ Has(t, i, e, Alpha \cup {"tag"})
    /\ Has(t, i, e, Symbol)

DotMatch(t, i, e) ==
    /\ Is(t, i, "dot")
    /\ i + 1 < e /\ Run(InDot, t, i + 1, e)
    /\ Has(t, i + 1, e, Alnum \cup {"tag"})

Match(name, t, i, e) ==
    CASE name = "url"      -> UrlMatch(t, i, e)
      [] name = "email"    -> EmailMatch(t, i, e)
      [] name = "mention"  -> MentionMatch(t, i, e)
      [] name = "reddit"   -> RedditMatch(t, i, e)
      [] name = "hashtag"  -> HashtagMatch(t, i, e)
      [] name = "filelike" -> FilelikeMatch(t, i, e)
      [] name = "dot"      -> DotMatch(t, i, e)

(***************************************************************************)
(* The check in place of a negative look-behind: a match is left alone     *)
(* when it follows a word character.  Of the expressions that may begin    *)
(* with a placeholder the one for file names, which wants a letter first,  *)
(* begins inside it, and the one for addresses at its first underscore.    *)
(***************************************************************************)
FollowsWord(name, t, i) ==
    \/ i > 1 /\ t[i - 1].c \in Word
    \/ name = "filelike" /\ t[i].c = "tag"

-----------------------------------------------------------------------------
\* Mutant: the placeholder gets its number after the span was added.
ProtectLateNumber ==
    /\ stage \in Patterns
    /\ p <= Len(s)
    /\ ~FollowsWord(stage, s, p)
    /\ \E e \in p + 1 .. Len(s) + 1 :
         /\ Match(stage, s, p, e)
         /\ result' = Append(result, TagItem(Len(prot) + 2))
         /\ prot' = Append(prot, SubSeq(s, p, e - 1))
         /\ p' = e
    /\ UNCHANGED <<stage, s, idx, input>>

(***************************************************************************)
(* One iteration over the matches of the current expression.               *)
(***************************************************************************)
Protect ==
    /\ stage \in Patterns
    /\ p <= Len(s)
    /\ ~FollowsWord(stage, s, p)
    /\ \E e \in p + 1 .. Len(s) + 1 :
         /\ Match(stage, s, p, e)
         /\ result' = Append(result, TagItem(Len(prot) + 1))
         /\ prot' = Append(prot, SubSeq(s, p, e - 1))
         /\ p' = e
    /\ UNCHANGED <<stage, s, idx, input>>

\* Mutant: a match that is left alone is not copied.
LeaveMatchLost ==
    /\ stage \in Patterns
    /\ p <= Len(s)
    /\ FollowsWord(stage, s, p)
    /\ \E e \in p + 1 .. Len(s) + 1 : Match(stage, s, p, e) /\ p' = e
    /\ UNCHANGED <<stage, s, result, prot, idx, input>>

LeaveMatch ==
    /\ stage \in Patterns
    /\ p <= Len(s)
    /\ FollowsWord(stage, s, p)
    /\ \E e \in p + 1 .. Len(s) + 1 :
         /\ Match(stage, s, p, e)
         /\ result' = result \o SubSeq(s, p, e - 1)
         /\ p' = e
    /\ UNCHANGED <<stage, s, prot, idx, input>>

CopyUnmatched ==
    /\ stage \in Patterns
    /\ p <= Len(s)
    /\ \A e \in p + 1 .. Len(s) + 1 : ~Match(stage, s, p, e)
    /\ result' = Append(result, s[p])
    /\ p' = p + 1
    /\ UNCHANGED <<stage, s, prot, idx, input>>

(***************************************************************************)
(* NormalizeVisibleUnderscores: '_' becomes ' ', placeholders are kept.    *)
(***************************************************************************)
VisibleUnderscore ==
    /\ stage = "underscore"
    /\ p <= Len(s)
    /\ result' = Append(result, IF s[p].c = "under" THEN Ch("space") ELSE s[p])
    /\ p' = p + 1
    /\ UNCHANGED <<stage, s, prot, idx, input>>

\* Mutant: the next expression starts where this one stopped.
EndPassNoReset ==
    /\ stage \in Patterns \cup {"underscore"}
    /\ p > Len(s)
    /\ s' = result
    /\ result' = <<>>
    /\ stage' = NextStage[stage]
    /\ UNCHANGED <<p, prot, idx, input>>

EndPass ==
    /\ stage \in Patterns \cup {"underscore"}
    /\ p > Len(s)
    /\ s' = result
    /\ result' = <<>>
    /\ p' = 1
    /\ stage' = NextStage[stage]
    /\ UNCHANGED <<prot, idx, input>>

(***************************************************************************)
(* RestoreSpans: for each index in turn, every occurrence of its           *)
(* placeholder is replaced; the search goes on behind the replacement.     *)
(***************************************************************************)
RestoreItem ==
    /\ stage = "restore"
    /\ idx <= Len(prot)
    /\ p <= Len(s)
    /\ result' = result \o (IF s[p] = TagItem(idx) THEN prot[idx] ELSE <<s[p]>>)
    /\ p' = p + 1
    /\ UNCHANGED <<stage, s, prot, idx, input>>

RestoreNext ==
    /\ stage = "restore"
    /\ idx <= Len(prot)
    /\ p > Len(s)
    /\ s' = result
    /\ result' = <<>>
    /\ p' = 1
    /\ idx' = idx + 1
    /\ UNCHANGED <<stage, prot, input>>

\* Mutant: the loop over the spans stops before the last one.
ReturnEarly ==
    /\ stage = "restore"
    /\ idx >= Len(prot)
    /\ stage' = "restored"
    /\ UNCHANGED <<s, p, result, prot, idx, input>>

Return ==
    /\ stage = "restore"
    /\ idx > Len(prot)
    /\ stage' = "restored"
    /\ UNCHANGED <<s, p, result, prot, idx, input>>

Finished == stage = "restored" /\ UNCHANGED vars

Next ==
    \/ Protect \/ LeaveMatch \/ CopyUnmatched \/ VisibleUnderscore \/ EndPass
    \/ RestoreItem \/ RestoreNext \/ Return \/ Finished

Spec == Init /\ [][Next]_vars

-----------------------------------------------------------------------------
(***************************************************************************)
(* Every variable holds what the code's variable can hold: the iterator of *)
(* an expression and the search of RestoreSpans never leave their text,    *)
(* and the index of RestoreSpans never leaves prot.                        *)
(***************************************************************************)
TypeOK ==
    /\ stage \in Patterns \cup {"underscore", "restore", "restored"}
    /\ s \in Seq(Item)
    /\ p \in 1 .. Len(s) + 1
    /\ result \in Seq(Item)
    /\ prot \in Seq(Seq(Item))
    /\ idx \in 1 .. Len(prot) + 1
    /\ input \in Seq(Plain)

TagsBelow(t, k) == \A i \in 1 .. Len(t) : t[i].c = "tag" => t[i].n \in 1 .. k

(***************************************************************************)
(* A span only holds placeholders of spans protected before it, and the    *)
(* text only ones of spans there are: following placeholders always ends,  *)
(* and every placeholder can be looked up.                                 *)
(***************************************************************************)
SpansOrdered ==
    /\ \A k \in 1 .. Len(prot) : TagsBelow(prot[k], k - 1)
    /\ TagsBelow(s, Len(prot))
    /\ TagsBelow(result, Len(prot))

(***************************************************************************)
(* The text a span was cut from: the span with the text of an older one in *)
(* the place of its placeholder.                                           *)
(***************************************************************************)
Filled(spans, n) ==
    [x \in Item |-> IF x.c = "tag" /\ x.n \in 1 .. n THEN spans[x.n] ELSE <<x>>]

SpanText[k \in 1 .. Len(prot)] == Spread(Filled(SpanText, k - 1), prot[k])

Unfold(t) == Spread(Filled(SpanText, Len(prot)), t)

Rest == SubSeq(s, p, Len(s))

(***************************************************************************)
(* Protection and restoration lose nothing: at every step, text written,   *)
(* text still to be read and spans together are the original text, except  *)
(* for visible underscores that have become spaces.                        *)
(***************************************************************************)
SameText(u) ==
    /\ Len(u) = Len(input)
    /\ \A i \in 1 .. Len(u) :
          \/ u[i] = input[i]
          \/ /\ stage \notin Patterns
             /\ input[i] = Ch("under") /\ u[i] = Ch("space")

NothingLost == SameText(Unfold(result \o Rest))

(***************************************************************************)
(* Every span is referred to exactly once, from the text or from a later   *)
(* span, until RestoreSpans gets to it: what it puts back for the spans    *)
(* before brings no second placeholder of a later one into the text.       *)
(***************************************************************************)
Count(k, t) == Len(Kept({TagItem(k)}, t))

\* RestoreSpans has not come to span k
Awaited(k) == stage \in Patterns \cup {"underscore"} \/ idx < k

TagsOnce ==
    \A k \in 1 .. Len(prot) :
        Awaited(k) =>
            Count(k, FlattenSeq(prot)) + Count(k, result) + Count(k, Rest) = 1

(***************************************************************************)
(* No span holds a placeholder of another one.                             *)
(***************************************************************************)
NoTag(t) == \A i \in 1 .. Len(t) : t[i].c # "tag"

Flat == \A k \in 1 .. Len(prot) : NoTag(prot[k])

(***************************************************************************)
(* RestoreSpans undoes ProtectSpans exactly when no span was nested: its   *)
(* ascending order never returns to the placeholder inside a later span.   *)
(***************************************************************************)
RestoredIffFlat == stage = "restored" => (NoTag(s) <=> Flat)

(***************************************************************************)
(* Why flat spans are all restored: RestoreSpans has already dealt with    *)
(* every placeholder below the index it is at.                             *)
(***************************************************************************)
TagsFrom(t, k) == \A i \in 1 .. Len(t) : t[i].c = "tag" => t[i].n >= k

RestoreProgress ==
    /\ stage \notin {"restore", "restored"} => idx = 1
    /\ stage = "restored" => idx > Len(prot)
    /\ stage \in {"restore", "restored"} /\ Flat =>
          TagsFrom(s, idx) /\ TagsFrom(result, idx + 1)

SpansInv == TypeOK /\ SpansOrdered /\ RestoreProgress

(***************************************************************************)
(* Why a nested span leaves a placeholder: there is always one in the text *)
(* that RestoreSpans has already passed by, or whose span will bring one   *)
(* in.                                                                     *)
(***************************************************************************)
Lasting(spans, x, k) ==
    /\ x.c = "tag"
    /\ \/ x.n < k
       \/ x.n \in 1 .. Len(spans) /\ ~NoTag(spans[x.n])

NestedLasts ==
    stage \in {"restore", "restored"} =>
        /\ idx > Len(prot) => p = 1 /\ result = <<>>
        /\ ~Flat => \/ \E i \in 1 .. Len(result) : Lasting(prot, result[i], idx + 1)
                    \/ \E i \in p .. Len(s) : Lasting(prot, s[i], idx)

=============================================================================
