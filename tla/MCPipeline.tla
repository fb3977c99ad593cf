----------------------------- MODULE MCPipeline -----------------------------
(***************************************************************************)
(* Pipeline on lines made of a few fragments: tokens of each kind, what    *)
(* makes two of them touch, and characters that look like a placeholder    *)
(* (one of them at most, so that no mention reaches its 32 characters).    *)
(* MaxLong fragments of the few kinds that nest and repeat spans, and two  *)
(* short lines after each other.                                           *)
(***************************************************************************)
EXTENDS Pipeline

CONSTANTS MaxFragments, MaxLong

Itemise(cs) == [i \in DOMAIN cs |-> Ch(cs[i])]

Nesting ==
    { Itemise(cs) : cs \in { <<"hash">>, <<"at", "letter">>, <<"wide">>, <<"space">>,
                             <<"letter", "dot", "http">> } }

Fragments ==
    Nesting \cup { <<TagItem(1)>>, <<TagItem(2)>> } \cup
    { Itemise(cs) : cs \in { <<"http", "sep", "letter">>, <<"letter", "dash", "letter">>,
                             <<"letter">>, <<"under">>, <<"stop">> } }

Literal(t) == \E i \in DOMAIN t : t[i].c = "tag"

Lines == { FlattenSeq(f) :
             f \in { g \in BoundedSeq(Fragments, MaxFragments) :
                       Len(SelectSeq(g, Literal)) <= 1 } }

MCInputs ==
    { <<t>> : t \in Lines \cup { FlattenSeq(f) : f \in BoundedSeq(Nesting, MaxLong) } }
      \cup BoundedSeq(Fragments, 2)

-----------------------------------------------------------------------------
(***************************************************************************)
(* No span is nested in another one, and no underscore was taken away that *)
(* kept the second round from protecting more than the first: from _#@b    *)
(* the first protects @b, and the second #@b around it.                    *)
(***************************************************************************)
FlatLine ==
    /\ \A k \in DOMAIN spans : ~Literal(spans[k])
    /\ Ch("under") \notin Range(lines[line])

StandsAt(t, block, i) ==
    i + Len(block) - 1 <= Len(t) /\ SubSeq(t, i, i + Len(block) - 1) = block

(***************************************************************************)
(* The blocks stand in t one behind the other: pos is where the search for *)
(* the next one begins, and stays past the end when one was not found.     *)
(***************************************************************************)
InOrder(blocks, t) ==
    LET Place(pos, block) ==
            LET found == {i \in pos .. Len(t) : StandsAt(t, block, i)}
            IN  IF found = {} THEN Len(t) + 2 ELSE Min(found) + Len(block)
    IN  FoldLeft(Place, 1, blocks) <= Len(t) + 1

Placed(t) ==
    LET tags == SelectSeq(t, LAMBDA x : x.c = "tag" /\ x.n \in DOMAIN spans)
    IN  [i \in DOMAIN tags |-> spans[tags[i].n]]

(***************************************************************************)
(* On a flat line Post puts every span whose placeholder came through      *)
(* Sparrowhawk back, whole and in its order: the second round of           *)
(* protecting and restoring changes nothing, and sentences that were lost  *)
(* do not shift the spans of the others.                                   *)
(***************************************************************************)
SpansSurvive ==
    [][ phase = "post" /\ FlatLine /\ ~Literal(lines[line]) => InOrder(Placed(text), text') ]_vars

Content(t) ==
    SelectSeq(t, LAMBDA x : x.c \notin {"space", "under", "dash", "stop", "hash"})

(***************************************************************************)
(* On a flat line that Sparrowhawk can read the whole program changes      *)
(* nothing but spaces, marks, underscores and hyphens: every letter and    *)
(* every token is in the answer, in its place, and no placeholder is.      *)
(***************************************************************************)
ContentKept ==
    phase = "read" /\ line > 0 /\ failed = <<>> /\ FlatLine /\ ~Literal(lines[line])
        => Content(text) = Content(lines[line])

Occurrences(k, t) == Len(SelectSeq(t, LAMBDA x : x = TagItem(k)))

(***************************************************************************)
(* Between Pre and Post, the phases in which the spans are out of the      *)
(* text, the placeholder of every span is exactly once in the text that is *)
(* done or left to do, in a sentence that was lost or in another span: no  *)
(* stage between them takes one for text, drops one or repeats one.        *)
(* Characters of the line that look like it are counted with it, and only  *)
(* they.                                                                   *)
(***************************************************************************)
PlaceholdersOnce ==
    phase \in {"hyphens", "split", "normalize", "post"}
        => \A k \in DOMAIN spans :
              Occurrences(k, text \o FlattenSeq(sentences \o failed \o spans))
                = 1 + Occurrences(k, lines[line])

(***************************************************************************)
(* t with every placeholder replaced by its span, the latest first, so     *)
(* that one inside of a span is replaced after it.                         *)
(***************************************************************************)
Unfolded(t) ==
    FoldRight(LAMBDA k, acc :
                  FlattenSeq([i \in DOMAIN acc |->
                      IF acc[i] = TagItem(k) THEN spans[k] ELSE <<acc[i]>>]),
              [k \in DOMAIN spans |-> k], t)

(***************************************************************************)
(* Between Pre and Post nothing of a line is lost or moved, while no       *)
(* sentence failed: what is done and what is left to do, with the spans in *)
(* the place of their placeholders, are the line up to spaces, marks,      *)
(* underscores and hyphens, nested spans too.  Where the line itself holds *)
(* the characters of a placeholder it stands for the span of its number,   *)
(* and for nothing more, unless an earlier span or that one swallowed it.  *)
(***************************************************************************)
LineRecoverable ==
    (/\ phase \in {"hyphens", "split", "normalize", "post"} /\ failed = <<>>
     /\ \A k \in DOMAIN spans : Spans!TagsBelow(spans[k], k - 1))
        => Content(Unfolded(text \o FlattenSeq(sentences))) = Content(Unfolded(lines[line]))

Count(c, t) == Len(SelectSeq(t, LAMBDA x : x.c = c))

(***************************************************************************)
(* main.cpp protects tokens so that no later step destroys them, and       *)
(* restores them: so nothing comes into the answer that was not in the     *)
(* line, full stops and spaces apart.                                      *)
(***************************************************************************)
NothingAdded ==
    phase = "read" /\ line > 0 /\ ~Literal(lines[line]) =>
        \A c \in {"letter", "http", "dot", "at", "hash"} :
            Count(c, text) <= Count(c, lines[line])

=============================================================================
