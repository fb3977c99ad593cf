------------------------ MODULE ProtectSpans_proofs ------------------------
(***************************************************************************)
(* Proofs about ProtectSpans for every set of input texts.                 *)
(***************************************************************************)
EXTENDS ProtectSpans, TextOps_proofs

(***************************************************************************)
(* An item is a placeholder or a character, and a placeholder is known by  *)
(* its number.                                                             *)
(***************************************************************************)
LEMMA Items ==
    /\ Plain \subseteq Item
    /\ \A x \in Plain : x.c # "tag"
    /\ \A x \in Item : x.n \in Nat
    /\ \A x \in Item : x.c # "tag" => x \in Plain
    /\ \A x \in Item : x.c = "tag" => x = TagItem(x.n)
    /\ \A x \in Item : x.c = "under" => x = Ch("under")
    /\ \A k \in Nat : TagItem(k) \in Item /\ TagItem(k).c = "tag" /\ TagItem(k).n = k
    /\ Ch("space") \in Item /\ Ch("space").c = "space"
    /\ Ch("under") \in Item /\ Ch("under").c = "under"
<1> USE DEF Plain, Item, Classes, TagItem, Ch
<1>1. Plain \subseteq Item /\ \A x \in Plain : x.c # "tag"
  OBVIOUS
<1>2. \A x \in Item : x.n \in Nat
  OBVIOUS
<1>3. \A x \in Item : x.c # "tag" => x \in Plain
  OBVIOUS
<1>4. \A x \in Item : x.c = "tag" => x = TagItem(x.n)
  OBVIOUS
<1>5. \A x \in Item : x.c = "under" => x = Ch("under")
  OBVIOUS
<1>6. \A k \in Nat : TagItem(k) \in Item /\ TagItem(k).c = "tag" /\ TagItem(k).n = k
  OBVIOUS
<1>7. Ch("space") \in Item /\ Ch("space").c = "space"
  OBVIOUS
<1>8. Ch("under") \in Item /\ Ch("under").c = "under"
  OBVIOUS
<1> QED
  BY <1>1, <1>2, <1>3, <1>4, <1>5, <1>6, <1>7, <1>8

(***************************************************************************)
(* Every item of a sequence that was cut out or put together is an item of *)
(* the sequences it was made from.                                         *)
(***************************************************************************)
LEMMA ConcatItems ==
    ASSUME NEW t \in Seq(Item), NEW u \in Seq(Item)
    PROVE  /\ t \o u \in Seq(Item)
           /\ \A i \in 1 .. Len(t \o u) :
                 \/ \E j \in 1 .. Len(t) : (t \o u)[i] = t[j]
                 \/ \E j \in 1 .. Len(u) : (t \o u)[i] = u[j]
<1>1. t \o u \in Seq(Item) /\ Len(t \o u) = Len(t) + Len(u)
  OBVIOUS
<1>2. ASSUME NEW i \in 1 .. Len(t \o u)
      PROVE  \/ \E j \in 1 .. Len(t) : (t \o u)[i] = t[j]
             \/ \E j \in 1 .. Len(u) : (t \o u)[i] = u[j]
  <2>1. CASE i <= Len(t)
    BY <1>1, <2>1
  <2>2. CASE i > Len(t)
    <3>1. (t \o u)[i] = u[i - Len(t)] /\ i - Len(t) \in 1 .. Len(u)
      BY <1>1, <2>2
    <3> QED
      BY <3>1
  <2> QED
    BY <2>1, <2>2
<1> QED
  BY <1>1, <1>2

\* The same for one item at the end.
LEMMA AppendItems ==
    ASSUME NEW t \in Seq(Item), NEW x \in Item
    PROVE  /\ Append(t, x) \in Seq(Item)
           /\ \A i \in 1 .. Len(Append(t, x)) :
                 \/ Append(t, x)[i] = x
                 \/ \E j \in 1 .. Len(t) : Append(t, x)[i] = t[j]
OBVIOUS

\* The same for a piece that is cut out.
LEMMA SubSeqItems ==
    ASSUME NEW t \in Seq(Item), NEW m \in 1 .. Len(t) + 1, NEW n \in 0 .. Len(t)
    PROVE  /\ SubSeq(t, m, n) \in Seq(Item)
           /\ \A i \in 1 .. Len(SubSeq(t, m, n)) :
                 \E j \in 1 .. Len(t) : SubSeq(t, m, n)[i] = t[j]
OBVIOUS

(***************************************************************************)
(* Bounds on the placeholders of a text carry over in the same way.        *)
(***************************************************************************)
LEMMA BoundsConcat ==
    ASSUME NEW t \in Seq(Item), NEW u \in Seq(Item), NEW k
    PROVE  /\ TagsBelow(t, k) /\ TagsBelow(u, k) => TagsBelow(t \o u, k)
           /\ TagsFrom(t, k) /\ TagsFrom(u, k) => TagsFrom(t \o u, k)
<1> DEFINE v == t \o u
<1>1. \A i \in 1 .. Len(v) : \/ \E j \in 1 .. Len(t) : v[i] = t[j]
                             \/ \E j \in 1 .. Len(u) : v[i] = u[j]
  BY ConcatItems
<1> HIDE DEF v
<1>2. /\ TagsBelow(t, k) /\ TagsBelow(u, k) => TagsBelow(v, k)
      /\ TagsFrom(t, k) /\ TagsFrom(u, k) => TagsFrom(v, k)
  BY <1>1 DEF TagsBelow, TagsFrom
<1> QED
  BY <1>2 DEF v

\* Bounds on placeholders, with one item at the end.
LEMMA BoundsAppend ==
    ASSUME NEW t \in Seq(Item), NEW x \in Item, NEW k
    PROVE  /\ TagsBelow(t, k) /\ (x.c = "tag" => x.n \in 1 .. k)
                => TagsBelow(Append(t, x), k)
           /\ TagsFrom(t, k) /\ (x.c = "tag" => x.n >= k)
                => TagsFrom(Append(t, x), k)
<1> DEFINE v == Append(t, x)
<1>1. \A i \in 1 .. Len(v) : \/ v[i] = x
                             \/ \E j \in 1 .. Len(t) : v[i] = t[j]
  BY AppendItems
<1> HIDE DEF v
<1>2. /\ TagsBelow(t, k) /\ (x.c = "tag" => x.n \in 1 .. k) => TagsBelow(v, k)
      /\ TagsFrom(t, k) /\ (x.c = "tag" => x.n >= k) => TagsFrom(v, k)
  BY <1>1 DEF TagsBelow, TagsFrom
<1> QED
  BY <1>2 DEF v

\* Bounds on placeholders hold of a piece that is cut out.
LEMMA BoundsSubSeq ==
    ASSUME NEW t \in Seq(Item), NEW m \in 1 .. Len(t) + 1, NEW n \in 0 .. Len(t),
           NEW k, TagsBelow(t, k)
    PROVE  TagsBelow(SubSeq(t, m, n), k)
<1> DEFINE v == SubSeq(t, m, n)
<1>1. \A i \in 1 .. Len(v) : \E j \in 1 .. Len(t) : v[i] = t[j]
  BY SubSeqItems
<1> HIDE DEF v
<1>2. TagsBelow(v, k)
  BY <1>1 DEF TagsBelow
<1> QED
  BY <1>2 DEF v

\* A bound on placeholders may be raised.
LEMMA BoundsWeaken ==
    ASSUME NEW t \in Seq(Item), NEW k \in Nat, NEW m \in Nat, k <= m,
           TagsBelow(t, k)
    PROVE  TagsBelow(t, m)
BY DEF TagsBelow

\* An empty text has no placeholders.
LEMMA EmptyBounds == \A k : TagsBelow(<<>>, k) /\ TagsFrom(<<>>, k)
BY DEF TagsBelow, TagsFrom

-----------------------------------------------------------------------------
(***************************************************************************)
(* The steps of ProtectSpans.  A new span holds text, and the text only    *)
(* has placeholders of older spans.                                        *)
(***************************************************************************)
LEMMA ProtectStep ==
    ASSUME SpansInv, Protect
    PROVE  SpansInv'
<1>1. PICK e \in p + 1 .. Len(s) + 1 :
        /\ result' = Append(result, TagItem(Len(prot) + 1))
        /\ prot' = Append(prot, SubSeq(s, p, e - 1))
        /\ p' = e
  BY DEF Protect
<1>2. /\ stage \in Patterns /\ p \in 1 .. Len(s)
      /\ s \in Seq(Item) /\ result \in Seq(Item) /\ prot \in Seq(Seq(Item))
      /\ input \in Seq(Plain) /\ idx = 1
      /\ UNCHANGED <<stage, s, idx, input>>
  BY DEF SpansInv, TypeOK, RestoreProgress, Protect, Patterns
<1> DEFINE n == Len(prot)
           span == SubSeq(s, p, e - 1)
           x == TagItem(n + 1)
<1>3. /\ n \in Nat
      /\ x \in Item /\ x.c = "tag" /\ x.n = n + 1
  BY <1>2 DEF TagItem, Item
<1>4. span \in Seq(Item) /\ TagsBelow(span, n)
  <2>1. p \in 1 .. Len(s) + 1 /\ e - 1 \in 0 .. Len(s)
    BY <1>1, <1>2
  <2> QED
    BY <1>2, <2>1, SubSeqItems, BoundsSubSeq DEF SpansInv, SpansOrdered
<1> HIDE DEF span, x
<1>5. /\ prot' \in Seq(Seq(Item)) /\ Len(prot') = n + 1
      /\ \A k \in 1 .. n : prot'[k] = prot[k]
      /\ prot'[n + 1] = span
  BY <1>1, <1>2, <1>4 DEF span
<1>6. result' \in Seq(Item)
  BY <1>1, <1>2, <1>3, AppendItems DEF x
<1>7. TypeOK'
  BY <1>1, <1>2, <1>5, <1>6 DEF TypeOK, Patterns
<1>8. TagsBelow(s', n + 1) /\ TagsBelow(result', n + 1)
  <2>1. TagsBelow(s, n + 1) /\ TagsBelow(result, n + 1)
    BY <1>2, <1>3, BoundsWeaken DEF SpansInv, SpansOrdered
  <2>2. x.n \in 1 .. n + 1
    BY <1>3
  <2>3. TagsBelow(Append(result, x), n + 1)
    BY <1>2, <1>3, <2>1, <2>2, BoundsAppend
  <2> QED
    BY <1>1, <1>2, <2>1, <2>3 DEF x
<1>9. SpansOrdered'
  <2>1. ASSUME NEW k \in 1 .. n + 1
        PROVE  TagsBelow(prot'[k], k - 1)
    <3>1. CASE k = n + 1
      BY <1>3, <1>4, <1>5, <3>1
    <3>2. CASE k \in 1 .. n
      BY <1>5, <3>2 DEF SpansInv, SpansOrdered
    <3> QED
      BY <1>3, <3>1, <3>2
  <2> HIDE DEF n
  <2> QED
    BY <1>5, <1>8, <2>1 DEF SpansOrdered
<1>10. RestoreProgress'
  BY <1>2 DEF RestoreProgress, Patterns
<1> QED
  BY <1>7, <1>9, <1>10 DEF SpansInv

(***************************************************************************)
(* What a step that leaves prot and idx alone has to show.                 *)
(***************************************************************************)
LEMMA ScanStep ==
    ASSUME SpansInv, UNCHANGED <<stage, s, prot, idx, input>>,
           result' \in Seq(Item), p' \in 1 .. Len(s) + 1,
           TagsBelow(result', Len(prot)),
           stage \in {"restore", "restored"} /\ Flat => TagsFrom(result', idx + 1)
    PROVE  SpansInv'
<1>1. TypeOK'
  BY DEF SpansInv, TypeOK
<1>2. SpansOrdered'
  BY DEF SpansInv, SpansOrdered
<1>3. Flat' <=> Flat
  BY DEF Flat, NoTag
<1>4. RestoreProgress'
  BY <1>3 DEF SpansInv, RestoreProgress
<1> QED
  BY <1>1, <1>2, <1>4 DEF SpansInv

\* LeaveMatch copies what it has read.
LEMMA LeaveMatchStep ==
    ASSUME SpansInv, LeaveMatch
    PROVE  SpansInv'
<1>1. PICK e \in p + 1 .. Len(s) + 1 :
        result' = result \o SubSeq(s, p, e - 1) /\ p' = e
  BY DEF LeaveMatch
<1>2. /\ stage \in Patterns /\ p \in 1 .. Len(s)
      /\ s \in Seq(Item) /\ result \in Seq(Item)
      /\ TagsBelow(s, Len(prot)) /\ TagsBelow(result, Len(prot))
      /\ UNCHANGED <<stage, s, prot, idx, input>>
  BY DEF SpansInv, TypeOK, SpansOrdered, LeaveMatch
<1>3. p \in 1 .. Len(s) + 1 /\ e - 1 \in 0 .. Len(s)
  BY <1>1, <1>2
<1> DEFINE u == SubSeq(s, p, e - 1)
<1>4. u \in Seq(Item) /\ TagsBelow(u, Len(prot))
  BY <1>2, <1>3, SubSeqItems, BoundsSubSeq
<1> HIDE DEF u
<1>5. result \o u \in Seq(Item) /\ TagsBelow(result \o u, Len(prot))
  BY <1>2, <1>4, ConcatItems, BoundsConcat
<1>6. result' \in Seq(Item) /\ TagsBelow(result', Len(prot))
  BY <1>1, <1>5 DEF u
<1>7. p' \in 1 .. Len(s) + 1
  BY <1>1, <1>2
<1> QED
  BY <1>2, <1>6, <1>7, ScanStep DEF Patterns

\* CopyUnmatched copies what it has read.
LEMMA CopyUnmatchedStep ==
    ASSUME SpansInv, CopyUnmatched
    PROVE  SpansInv'
<1>1. /\ stage \in Patterns /\ p \in 1 .. Len(s)
      /\ s \in Seq(Item) /\ result \in Seq(Item)
      /\ TagsBelow(s, Len(prot)) /\ TagsBelow(result, Len(prot))
      /\ UNCHANGED <<stage, s, prot, idx, input>>
      /\ result' = Append(result, s[p]) /\ p' = p + 1
  BY DEF SpansInv, TypeOK, SpansOrdered, CopyUnmatched
<1>2. s[p] \in Item /\ (s[p].c = "tag" => s[p].n \in 1 .. Len(prot))
  BY <1>1 DEF TagsBelow
<1>3. result' \in Seq(Item) /\ TagsBelow(result', Len(prot))
  BY <1>1, <1>2, AppendItems, BoundsAppend
<1>4. p' \in 1 .. Len(s) + 1
  BY <1>1
<1> QED
  BY <1>1, <1>3, <1>4, ScanStep DEF Patterns

\* VisibleUnderscore writes no placeholder it has not read.
LEMMA VisibleUnderscoreStep ==
    ASSUME SpansInv, VisibleUnderscore
    PROVE  SpansInv'
<1> DEFINE x == IF s[p].c = "under" THEN Ch("space") ELSE s[p]
<1>1. /\ stage = "underscore" /\ p \in 1 .. Len(s)
      /\ s \in Seq(Item) /\ result \in Seq(Item)
      /\ TagsBelow(s, Len(prot)) /\ TagsBelow(result, Len(prot))
      /\ UNCHANGED <<stage, s, prot, idx, input>>
      /\ result' = Append(result, x) /\ p' = p + 1
  BY DEF SpansInv, TypeOK, SpansOrdered, VisibleUnderscore
<1>2. Ch("space") \in Item /\ Ch("space").c # "tag"
  BY Items
<1>3. s[p] \in Item /\ (s[p].c = "tag" => s[p].n \in 1 .. Len(prot))
  BY <1>1 DEF TagsBelow
<1>4. x \in Item /\ (x.c = "tag" => x.n \in 1 .. Len(prot))
  BY <1>2, <1>3
<1> HIDE DEF x
<1>5. result' \in Seq(Item) /\ TagsBelow(result', Len(prot))
  BY <1>1, <1>4, AppendItems, BoundsAppend
<1>6. p' \in 1 .. Len(s) + 1
  BY <1>1
<1> QED
  BY <1>1, <1>5, <1>6, ScanStep

\* EndPass hands the text on; restoring begins at the first span.
LEMMA EndPassStep ==
    ASSUME SpansInv, EndPass
    PROVE  SpansInv'
<1>1. /\ s' = result /\ result' = <<>> /\ p' = 1
      /\ stage \in Patterns \cup {"underscore"}
      /\ UNCHANGED <<prot, idx, input>>
      /\ TypeOK /\ SpansOrdered /\ idx = 1
  BY DEF SpansInv, EndPass, RestoreProgress, Patterns
<1>2. stage' \in Patterns \cup {"underscore", "restore"}
  BY DEF EndPass, NextStage, Patterns
<1>3. TypeOK'
  BY <1>1, <1>2 DEF TypeOK
<1>4. SpansOrdered'
  BY <1>1, EmptyBounds DEF SpansOrdered
<1>5. TagsFrom(result, 1)
  BY <1>1 DEF SpansOrdered, TypeOK, TagsBelow, TagsFrom
<1>6. RestoreProgress'
  BY <1>1, <1>2, <1>5, EmptyBounds DEF RestoreProgress, Patterns
<1> QED
  BY <1>3, <1>4, <1>6 DEF SpansInv

-----------------------------------------------------------------------------
(***************************************************************************)
(* The steps of RestoreSpans.  A span that is put back only brings in      *)
(* placeholders below the index; without nesting it brings in none.        *)
(***************************************************************************)
LEMMA RestoreItemStep ==
    ASSUME SpansInv, RestoreItem
    PROVE  SpansInv'
<1> DEFINE u == IF s[p] = TagItem(idx) THEN prot[idx] ELSE <<s[p]>>
<1>1. /\ stage = "restore" /\ p \in 1 .. Len(s) /\ idx \in 1 .. Len(prot)
      /\ s \in Seq(Item) /\ result \in Seq(Item) /\ prot \in Seq(Seq(Item))
      /\ TagsBelow(s, Len(prot)) /\ TagsBelow(result, Len(prot))
      /\ TagsBelow(prot[idx], idx - 1)
      /\ Flat => TagsFrom(s, idx) /\ TagsFrom(result, idx + 1)
      /\ UNCHANGED <<stage, s, prot, idx, input>>
      /\ result' = result \o u /\ p' = p + 1
  BY DEF SpansInv, TypeOK, SpansOrdered, RestoreProgress, RestoreItem
<1>2. s[p] \in Item /\ (s[p].c = "tag" => s[p].n \in 1 .. Len(prot))
  BY <1>1 DEF TagsBelow
<1>3. u \in Seq(Item) /\ TagsBelow(u, Len(prot))
  <2>1. CASE s[p] = TagItem(idx)
    <3>1. prot[idx] \in Seq(Item) /\ Len(prot) \in Nat /\ idx - 1 \in Nat
          /\ idx - 1 <= Len(prot)
      BY <1>1
    <3> QED
      BY <1>1, <2>1, <3>1, BoundsWeaken
  <2>2. CASE s[p] # TagItem(idx)
    BY <1>2, <2>2 DEF TagsBelow
  <2> QED
    BY <2>1, <2>2
<1>4. Flat => TagsFrom(u, idx + 1)
  <2> SUFFICES ASSUME Flat PROVE TagsFrom(u, idx + 1)
    OBVIOUS
  <2>1. CASE s[p] = TagItem(idx)
    <3>1. NoTag(prot[idx])
      BY <1>1 DEF Flat
    <3> QED
      BY <2>1, <3>1 DEF TagsFrom, NoTag
  <2>2. CASE s[p] # TagItem(idx)
    <3>1. s[p].c = "tag" => s[p].n >= idx /\ s[p].n # idx
      BY <1>1, <1>2, <2>2, Items DEF TagsFrom
    <3>2. s[p].n \in Nat
      <4>1. s[p] \in Item
        BY <1>2
      <4> QED
        BY <4>1, Items
    <3>3. idx \in Nat
      <4>1. idx \in 1 .. Len(prot)
        BY <1>1
      <4> QED
        BY <4>1
    <3>4. s[p].c = "tag" => s[p].n >= idx + 1
      BY <3>1, <3>2, <3>3
    <3> QED
      BY <2>2, <3>4 DEF TagsFrom
  <2> QED
    BY <2>1, <2>2
<1> HIDE DEF u
<1>5. result' \in Seq(Item) /\ TagsBelow(result', Len(prot))
  BY <1>1, <1>3, ConcatItems, BoundsConcat
<1>6. Flat => TagsFrom(result', idx + 1)
  BY <1>1, <1>3, <1>4, BoundsConcat
<1>7. p' \in 1 .. Len(s) + 1
  BY <1>1
<1> QED
  BY <1>1, <1>5, <1>6, <1>7, ScanStep

\* RestoreNext: the placeholder of the span before is gone.
LEMMA RestoreNextStep ==
    ASSUME SpansInv, RestoreNext
    PROVE  SpansInv'
<1>1. /\ s' = result /\ result' = <<>> /\ p' = 1 /\ idx' = idx + 1
      /\ stage = "restore" /\ idx \in 1 .. Len(prot) /\ Len(prot) \in Nat
      /\ UNCHANGED <<stage, prot, input>>
      /\ TypeOK /\ SpansOrdered
      /\ Flat => TagsFrom(result, idx + 1)
  BY DEF SpansInv, RestoreNext, RestoreProgress, TypeOK
<1>2. TypeOK'
  BY <1>1 DEF TypeOK
<1>3. SpansOrdered'
  BY <1>1, EmptyBounds DEF SpansOrdered
<1>4. Flat' <=> Flat
  BY <1>1 DEF Flat, NoTag
<1>5. RestoreProgress'
  BY <1>1, <1>4, EmptyBounds DEF RestoreProgress
<1> QED
  BY <1>2, <1>3, <1>5 DEF SpansInv

\* Return: every span has been dealt with.
LEMMA ReturnStep ==
    ASSUME SpansInv, Return
    PROVE  SpansInv'
<1>1. Flat' <=> Flat
  BY DEF Return, Flat, NoTag
<1>2. TypeOK' /\ SpansOrdered'
  BY DEF SpansInv, TypeOK, SpansOrdered, Return
<1>3. RestoreProgress'
  BY <1>1 DEF SpansInv, RestoreProgress, TypeOK, Return
<1> QED
  BY <1>2, <1>3 DEF SpansInv

\* Nothing changes.
LEMMA StutterStep ==
    ASSUME SpansInv, UNCHANGED vars
    PROVE  SpansInv'
<1>1. Flat' <=> Flat
  BY DEF vars, Flat, NoTag
<1> QED
  BY <1>1 DEF vars, SpansInv, TypeOK, SpansOrdered, RestoreProgress

(***************************************************************************)
(* The invariant of ProtectSpans and RestoreSpans.                         *)
(***************************************************************************)
THEOREM SpansInvariant == Spec => []SpansInv
<1>1. Init => SpansInv
  <2> SUFFICES ASSUME Init PROVE SpansInv
    OBVIOUS
  <2>1. s \in Seq(Plain) /\ input = s
    BY TextsAssumption DEF Init
  <2>2. Plain \subseteq Item /\ \A x \in Plain : x.c # "tag"
    BY DEF Plain, Item, Classes
  <2>3. s \in Seq(Item) /\ TagsBelow(s, 0)
    BY <2>1, <2>2 DEF TagsBelow
  <2>4. TypeOK
    BY <2>1, <2>3 DEF Init, TypeOK, Patterns
  <2>5. SpansOrdered
    BY <2>3, EmptyBounds DEF Init, SpansOrdered
  <2>6. RestoreProgress
    BY DEF Init, RestoreProgress
  <2> QED
    BY <2>4, <2>5, <2>6 DEF SpansInv
<1>2. SpansInv /\ [Next]_vars => SpansInv'
  BY ProtectStep, LeaveMatchStep, CopyUnmatchedStep, VisibleUnderscoreStep,
     EndPassStep, RestoreItemStep, RestoreNextStep, ReturnStep, StutterStep
  DEF Next, Finished
<1> QED
  BY <1>1, <1>2, PTL DEF Spec

\* Positions and indices stay in their bounds, and texts are texts of items.
THEOREM SpansTypeCorrect == Spec => []TypeOK
<1>1. SpansInv => TypeOK
  BY DEF SpansInv
<1> QED
  BY <1>1, SpansInvariant, PTL

(***************************************************************************)
(* Every placeholder names a span protected earlier than the place it is   *)
(* in, whatever the patterns match: placeholders never form a cycle.       *)
(***************************************************************************)
THEOREM SpansAreOrdered == Spec => []SpansOrdered
<1>1. SpansInv => SpansOrdered
  BY DEF SpansInv
<1> QED
  BY <1>1, SpansInvariant, PTL

\* If no span was nested in another one, RestoreSpans puts every span back:
\* the half of RestoredIffFlat that needs no more than SpansInv.
LEMMA FlatSpansAreRestored ==
    ASSUME SpansInv, stage = "restored", Flat
    PROVE  NoTag(s)
<1>1. idx > Len(prot) /\ TagsFrom(s, idx) /\ TagsBelow(s, Len(prot))
  BY DEF SpansInv, SpansOrdered, RestoreProgress
<1>2. idx \in Nat /\ Len(prot) \in Nat /\ s \in Seq(Item)
  BY DEF SpansInv, TypeOK
<1>3. ASSUME NEW i \in 1 .. Len(s), s[i].c = "tag" PROVE FALSE
  BY <1>1, <1>2, <1>3 DEF TagsFrom, TagsBelow
<1> QED
  BY <1>3 DEF NoTag

-----------------------------------------------------------------------------
\* Placeholders are counted text by text.
LEMMA CountConcat ==
    ASSUME NEW k, NEW a, NEW b, a \in Seq(Item) /\ b \in Seq(Item)
    PROVE  /\ Count(k, a \o b) = Count(k, a) + Count(k, b)
           /\ Count(k, a) \in Nat /\ Count(k, b) \in Nat
<1>1. PICK S, ka, kb : S = {TagItem(k)} /\ ka = Kept(S, a) /\ kb = Kept(S, b)
  OBVIOUS
<1>2. ka \in Seq(Item) /\ kb \in Seq(Item)
  BY <1>1, KeptType
<1>3. Kept(S, a \o b) = ka \o kb
  BY <1>1, KeptConcat
<1>4. Len(ka \o kb) = Len(ka) + Len(kb) /\ Len(ka) \in Nat /\ Len(kb) \in Nat
  BY <1>2
<1> QED
  BY <1>1, <1>3, <1>4 DEF Count

\* One item.
LEMMA CountSingle ==
    ASSUME NEW k, NEW x, x \in Item
    PROVE  Count(k, <<x>>) = IF x = TagItem(k) THEN 1 ELSE 0
<1>1. Kept({TagItem(k)}, <<x>>) = IF x \in {TagItem(k)} THEN <<x>> ELSE <<>>
  BY KeptSingle
<1> QED
  BY <1>1 DEF Count

\* A text without the placeholder.
LEMMA CountNone ==
    ASSUME NEW k, NEW t, t \in Seq(Item \ {TagItem(k)})
    PROVE  Count(k, t) = 0
<1>1. PICK C, S : C = Item \ {TagItem(k)} /\ S = {TagItem(k)}
  OBVIOUS
<1>2. C \cap S = {} /\ t \in Seq(C)
  BY <1>1
<1>3. Kept(S, t) = <<>>
  BY <1>2, KeptNone
<1> QED
  BY <1>1, <1>3 DEF Count

\* A placeholder that is counted is there.
LEMMA CountFound ==
    ASSUME NEW k, NEW t, t \in Seq(Item), Count(k, t) # 0
    PROVE  \E i \in 1 .. Len(t) : t[i] = TagItem(k)
<1> SUFFICES ASSUME \A i \in 1 .. Len(t) : t[i] # TagItem(k) PROVE FALSE
  OBVIOUS
<1>1. PICK C : C = Item \ {TagItem(k)}
  OBVIOUS
<1>2. \A i \in 1 .. Len(t) : t[i] \in C
  BY <1>1
<1>3. t \in Seq(C)
  BY <1>2
<1> QED
  BY <1>1, <1>3, CountNone

\* A placeholder above the bound of a text is not counted.
LEMMA CountAbove ==
    ASSUME NEW k, NEW m, NEW t,
           k \in Nat /\ m \in Nat /\ m < k /\ t \in Seq(Item) /\ TagsBelow(t, m)
    PROVE  Count(k, t) = 0
<1>1. PICK C : C = Item \ {TagItem(k)}
  OBVIOUS
<1>2. \A i \in 1 .. Len(t) : t[i] \in C
  BY <1>1, Items DEF TagsBelow
<1>3. t \in Seq(C)
  BY <1>2
<1> QED
  BY <1>1, <1>3, CountNone

\* The same for the spans, whose text is counted as one.
LEMMA CountSpans ==
    ASSUME NEW k, NEW spans, spans \in Parts(Item),
           \A j \in 1 .. Len(spans) : \A i \in 1 .. Len(spans[j]) : spans[j][i] # TagItem(k)
    PROVE  Count(k, FlattenSeq(spans)) = 0
<1>1. PICK C : C = Item \ {TagItem(k)}
  OBVIOUS
<1>2. \A j \in 1 .. Len(spans) : spans[j] \in Seq(C)
  <2> SUFFICES ASSUME NEW j \in 1 .. Len(spans) PROVE spans[j] \in Seq(C)
    OBVIOUS
  <2>1. PICK t : t = spans[j]
    OBVIOUS
  <2>2. t \in Seq(Item)
    BY <2>1 DEF Parts
  <2>3. \A i \in 1 .. Len(t) : t[i] \in C
    BY <1>1, <2>1, <2>2
  <2>4. t \in Seq(C)
    BY <2>2, <2>3
  <2> QED
    BY <2>1, <2>4
<1>3. spans \in Parts(C)
  <2>1. PICK X, Y : X = Seq(C) /\ Y = Seq(Item)
    OBVIOUS
  <2>2. spans \in Seq(Y) /\ \A j \in 1 .. Len(spans) : spans[j] \in X
    BY <1>2, <2>1 DEF Parts
  <2>3. spans \in Seq(X)
    BY <2>2
  <2> QED
    BY <2>1, <2>3 DEF Parts
<1>4. FlattenSeq(spans) \in Seq(C)
  BY <1>3, FlattenType
<1> QED
  BY <1>1, <1>4, CountNone

\* What is still to be read, split behind the part that a step reads.
LEMMA RestSplit ==
    ASSUME NEW t \in Seq(Item), NEW i \in 1 .. Len(t) + 1, NEW e \in i .. Len(t) + 1
    PROVE  /\ SubSeq(t, i, Len(t)) = SubSeq(t, i, e - 1) \o SubSeq(t, e, Len(t))
           /\ SubSeq(t, i, e - 1) \in Seq(Item) /\ SubSeq(t, e, Len(t)) \in Seq(Item)
<1>1. PICK k, n : k = e - 1 /\ n = Len(t)
  OBVIOUS
<1>2. i \in 1 .. Len(t) + 1 /\ k \in i - 1 .. Len(t) /\ n \in k .. Len(t) /\ k + 1 = e
  BY <1>1
<1>3. SubSeq(t, i, k) \o SubSeq(t, k + 1, n) = SubSeq(t, i, n)
  BY <1>2, ConcatAdjacentSubSeq
<1>4. SubSeq(t, i, e - 1) \in Seq(Item) /\ SubSeq(t, e, Len(t)) \in Seq(Item)
  OBVIOUS
<1> QED
  BY <1>1, <1>2, <1>3, <1>4

\* A stretch of one item.
LEMMA OneItem ==
    ASSUME NEW t \in Seq(Item), NEW i \in 1 .. Len(t)
    PROVE  SubSeq(t, i, i) = <<t[i]>>
<1>1. i \in i .. Len(t) /\ i \in Int /\ i + 1 \in Int /\ i < i + 1
  OBVIOUS
<1>2. SubSeq(t, i, i) = <<t[i]>> \o SubSeq(t, i + 1, i)
  BY <1>1, SubSeqRecursiveFirst
<1>3. SubSeq(t, i + 1, i) = <<>>
  BY <1>1, SubSeqEmpty
<1>4. <<t[i]>> \in Seq(Item)
  OBVIOUS
<1>5. <<t[i]>> \o <<>> = <<t[i]>>
  BY <1>4, ConcatEmptySeq
<1> QED
  BY <1>2, <1>3, <1>5

\* A step that writes as many placeholders as it reads.
LEMMA ScanCounts ==
    ASSUME SpansInv, TagsOnce, NEW e, NEW out, e \in p .. Len(s) + 1 /\ out \in Seq(Item),
           result' = result \o out, p' = e, UNCHANGED <<stage, s, prot, idx>>,
           \A k \in 1 .. Len(prot) : Awaited(k) => Count(k, out) = Count(k, SubSeq(s, p, e - 1))
    PROVE  TagsOnce'
<1>1. s \in Seq(Item) /\ p \in 1 .. Len(s) + 1 /\ result \in Seq(Item) /\ prot \in Parts(Item)
  BY DEF SpansInv, TypeOK, Parts
<1>2. PICK r, a, b, f : /\ r = result /\ a = SubSeq(s, p, e - 1) /\ b = SubSeq(s, e, Len(s))
                        /\ f = FlattenSeq(prot)
  OBVIOUS
<1>3. a \in Seq(Item) /\ b \in Seq(Item) /\ Rest = a \o b
  BY <1>1, <1>2, RestSplit DEF Rest
<1>4. r \in Seq(Item) /\ f \in Seq(Item) /\ out \in Seq(Item)
  BY <1>1, <1>2, FlattenType
<1>5. result' = r \o out /\ Rest' = b /\ prot' = prot
  BY <1>2 DEF Rest
<1> SUFFICES ASSUME NEW k \in 1 .. Len(prot), Awaited(k)
             PROVE  Count(k, f) + Count(k, r \o out) + Count(k, b) = 1
  BY <1>2, <1>5 DEF TagsOnce, Count, Awaited
<1>6. Count(k, f) + Count(k, r) + Count(k, a \o b) = 1
  BY <1>2, <1>3 DEF TagsOnce
<1>7. Count(k, a \o b) = Count(k, a) + Count(k, b) /\ Count(k, a) \in Nat /\ Count(k, b) \in Nat
  BY <1>3, CountConcat
<1>8. Count(k, r \o out) = Count(k, r) + Count(k, out) /\ Count(k, r) \in Nat /\ Count(k, out) \in Nat
  BY <1>4, CountConcat
<1>9. Count(k, f) \in Nat /\ Count(k, out) = Count(k, a)
  BY <1>2, <1>4, CountConcat
<1> QED
  BY <1>6, <1>7, <1>8, <1>9

\* Protect: the span moves with its placeholders and leaves a new one.
LEMMA ProtectCounts ==
    ASSUME SpansInv, TagsOnce, Protect
    PROVE  TagsOnce'
<1>1. PICK e \in p + 1 .. Len(s) + 1 :
        /\ result' = Append(result, TagItem(Len(prot) + 1))
        /\ prot' = Append(prot, SubSeq(s, p, e - 1))
        /\ p' = e
  BY DEF Protect
<1>2. /\ stage \in Patterns /\ p \in 1 .. Len(s) /\ UNCHANGED <<stage, s>>
      /\ s \in Seq(Item) /\ result \in Seq(Item) /\ prot \in Parts(Item) /\ Len(prot) \in Nat
  BY DEF SpansInv, TypeOK, Protect, Parts
<1>3. PICK r, a, b, f, n, x, u :
        /\ r = result /\ a = SubSeq(s, p, e - 1) /\ b = SubSeq(s, e, Len(s))
        /\ f = FlattenSeq(prot) /\ n = Len(prot) /\ x = TagItem(n + 1) /\ u = <<x>>
  OBVIOUS
<1>4. a \in Seq(Item) /\ b \in Seq(Item) /\ Rest = a \o b
  <2>1. p \in 1 .. Len(s) + 1 /\ e \in p .. Len(s) + 1
    BY <1>2
  <2> QED
    BY <1>2, <1>3, <2>1, RestSplit DEF Rest
<1>5. r \in Seq(Item) /\ f \in Seq(Item) /\ n \in Nat
  BY <1>2, <1>3, FlattenType
<1>6. x \in Item /\ u \in Seq(Item)
  BY <1>3, <1>5, Items
<1>7. result' = r \o u /\ Rest' = b
  <2>1. Append(r, x) = r \o <<x>>
    BY <1>5, <1>6, AppendIsConcat
  <2> QED
    BY <1>1, <1>2, <1>3, <2>1 DEF Rest
<1>8. Len(prot') = n + 1
  BY <1>1, <1>2, <1>3 DEF Parts
<1>9. FlattenSeq(prot') = f \o a
  BY <1>1, <1>2, <1>3, <1>4, FlattenAppend
<1> SUFFICES ASSUME NEW k \in 1 .. n + 1
             PROVE  Count(k, f \o a) + Count(k, r \o u) + Count(k, b) = 1
  BY <1>7, <1>8, <1>9 DEF TagsOnce, Count
<1>10. /\ Count(k, a \o b) = Count(k, a) + Count(k, b) /\ Count(k, a) \in Nat /\ Count(k, b) \in Nat
  BY <1>4, CountConcat
<1>11. Count(k, f \o a) = Count(k, f) + Count(k, a) /\ Count(k, f) \in Nat
  BY <1>4, <1>5, CountConcat
<1>12. Count(k, r \o u) = Count(k, r) + Count(k, u) /\ Count(k, r) \in Nat
  BY <1>5, <1>6, CountConcat
<1>13. CASE k \in 1 .. n
  <2>1. Count(k, f) + Count(k, r) + Count(k, a \o b) = 1
    BY <1>2, <1>3, <1>4, <1>13 DEF TagsOnce, Awaited
  <2>2. x # TagItem(k)
    BY <1>3, <1>5, <1>13, Items
  <2>3. Count(k, u) = 0
    BY <1>3, <1>6, <2>2, CountSingle
  <2> QED
    BY <1>10, <1>11, <1>12, <2>1, <2>3
<1>14. CASE k = n + 1
  <2>1. TagsBelow(s, n) /\ TagsBelow(r, n)
    BY <1>3 DEF SpansInv, SpansOrdered
  <2>0. k \in Nat /\ n < k
    BY <1>5, <1>14
  <2>2. Count(k, r) = 0
    BY <1>5, <2>0, <2>1, CountAbove
  <2>3. Count(k, a \o b) = 0
    <3>1. p \in 1 .. Len(s) + 1 /\ Len(s) \in 0 .. Len(s) /\ a \o b \in Seq(Item)
      BY <1>2, <1>4
    <3>2. TagsBelow(SubSeq(s, p, Len(s)), n)
      BY <1>2, <2>1, <3>1, BoundsSubSeq
    <3>3. TagsBelow(a \o b, n)
      BY <1>4, <3>2 DEF Rest
    <3> QED
      BY <1>5, <2>0, <3>1, <3>3, CountAbove
  <2>4. Count(k, f) = 0
    <3>1. \A j \in 1 .. Len(prot) : \A i \in 1 .. Len(prot[j]) : prot[j][i] # TagItem(k)
      <4> SUFFICES ASSUME NEW j \in 1 .. n, NEW i \in 1 .. Len(prot[j]), prot[j][i] = TagItem(k)
                   PROVE  FALSE
        BY <1>3
      <4>1. prot[j][i].c = "tag" /\ prot[j][i].n = k
        BY <2>0, Items
      <4>2. prot[j][i].n \in 1 .. j - 1
        BY <1>3, <4>1 DEF SpansInv, SpansOrdered, TagsBelow
      <4> QED
        BY <1>5, <2>0, <4>1, <4>2
    <3> QED
      BY <1>2, <1>3, <3>1, CountSpans
  <2>5. Count(k, u) = 1
    BY <1>3, <1>6, <1>14, CountSingle
  <2> QED
    BY <1>10, <1>11, <1>12, <2>2, <2>3, <2>4, <2>5
<1> QED
  BY <1>5, <1>13, <1>14

\* LeaveMatch and CopyUnmatched copy.
LEMMA CopyCounts ==
    ASSUME SpansInv, TagsOnce, LeaveMatch \/ CopyUnmatched
    PROVE  TagsOnce'
<1>1. /\ p \in 1 .. Len(s) /\ UNCHANGED <<stage, s, prot, idx>>
      /\ s \in Seq(Item) /\ result \in Seq(Item)
  BY DEF SpansInv, TypeOK, LeaveMatch, CopyUnmatched
<1>2. CASE LeaveMatch
  <2>1. PICK e \in p + 1 .. Len(s) + 1 : result' = result \o SubSeq(s, p, e - 1) /\ p' = e
    BY <1>2 DEF LeaveMatch
  <2>2. PICK out : out = SubSeq(s, p, e - 1)
    OBVIOUS
  <2>3. e \in p .. Len(s) + 1 /\ out \in Seq(Item)
    BY <1>1, <2>2
  <2> QED
    BY <1>1, <2>1, <2>2, <2>3, ScanCounts
<1>3. CASE CopyUnmatched
  <2>1. result' = Append(result, s[p]) /\ p' = p + 1
    BY <1>3 DEF CopyUnmatched
  <2>2. PICK out, e : out = <<s[p]>> /\ e = p + 1
    OBVIOUS
  <2>3. e \in p .. Len(s) + 1 /\ out \in Seq(Item)
    BY <1>1, <2>2
  <2>4. Append(result, s[p]) = result \o <<s[p]>>
    BY <1>1, AppendIsConcat
  <2>5. SubSeq(s, p, e - 1) = out
    <3>1. e - 1 = p
      BY <1>1, <2>2
    <3> QED
      BY <1>1, <2>2, <3>1, OneItem
  <2> QED
    BY <1>1, <2>1, <2>2, <2>3, <2>4, <2>5, ScanCounts
<1> QED
  BY <1>2, <1>3

\* VisibleUnderscore exchanges one character that is no placeholder for another.
LEMMA UnderscoreCounts ==
    ASSUME SpansInv, TagsOnce, VisibleUnderscore
    PROVE  TagsOnce'
<1>1. /\ p \in 1 .. Len(s) /\ UNCHANGED <<stage, s, prot, idx>>
      /\ s \in Seq(Item) /\ result \in Seq(Item) /\ s[p] \in Item
  BY DEF SpansInv, TypeOK, VisibleUnderscore
<1>2. PICK x, out, e : /\ x = (IF s[p].c = "under" THEN Ch("space") ELSE s[p])
                       /\ out = <<x>> /\ e = p + 1
  OBVIOUS
<1>3. x \in Item /\ out \in Seq(Item) /\ e \in p .. Len(s) + 1
  BY <1>1, <1>2, Items
<1>4. result' = result \o out /\ p' = e
  <2>1. result' = Append(result, x) /\ p' = e
    BY <1>2 DEF VisibleUnderscore
  <2>2. Append(result, x) = result \o <<x>>
    BY <1>1, <1>3, AppendIsConcat
  <2> QED
    BY <1>2, <2>1, <2>2
<1>5. ASSUME NEW k \in 1 .. Len(prot)
      PROVE  Count(k, out) = Count(k, SubSeq(s, p, e - 1))
  <2>1. SubSeq(s, p, e - 1) = <<s[p]>>
    <3>1. e - 1 = p
      BY <1>1, <1>2
    <3> QED
      BY <1>1, <3>1, OneItem
  <2>2. x = TagItem(k) <=> s[p] = TagItem(k)
    BY <1>1, <1>2, Items DEF TagItem, Ch
  <2> QED
    BY <1>1, <1>2, <1>3, <2>1, <2>2, CountSingle
<1> QED
  BY <1>1, <1>3, <1>4, <1>5, ScanCounts

\* EndPass: the text written is the text to read.
LEMMA EndPassCounts ==
    ASSUME SpansInv, TagsOnce, EndPass
    PROVE  TagsOnce'
<1>1. /\ s' = result /\ result' = <<>> /\ p' = 1 /\ prot' = prot
      /\ stage \in Patterns \cup {"underscore"}
      /\ s \in Seq(Item) /\ result \in Seq(Item) /\ p > Len(s) /\ p \in Nat
  BY DEF SpansInv, TypeOK, EndPass
<1>2. Rest = <<>> /\ Rest' = result
  <2>1. SubSeq(result, 1, Len(result)) = result
    BY <1>1, SubSeqFull
  <2> QED
    BY <1>1, <2>1 DEF Rest
<1> SUFFICES ASSUME NEW k \in 1 .. Len(prot)
             PROVE  Count(k, FlattenSeq(prot)) + Count(k, <<>>) + Count(k, result) = 1
  BY <1>1, <1>2 DEF TagsOnce, Count
<1>3. Count(k, FlattenSeq(prot)) + Count(k, result) + Count(k, <<>>) = 1
  BY <1>1, <1>2 DEF TagsOnce, Awaited
<1>4. Count(k, <<>>) = 0 /\ Count(k, result) \in Nat /\ Count(k, FlattenSeq(prot)) \in Nat
  <2>1. Count(k, <<>>) = 0
    BY KeptEmpty DEF Count
  <2>2. FlattenSeq(prot) \in Seq(Item)
    BY FlattenType DEF SpansInv, TypeOK, Parts
  <2> QED
    BY <1>1, <2>1, <2>2, CountConcat
<1> QED
  BY <1>3, <1>4

\* RestoreItem: a span holds no placeholder of a later one.
LEMMA RestoreItemCounts ==
    ASSUME SpansInv, TagsOnce, RestoreItem
    PROVE  TagsOnce'
<1>1. /\ stage = "restore" /\ p \in 1 .. Len(s) /\ idx \in 1 .. Len(prot) /\ Len(prot) \in Nat
      /\ s \in Seq(Item) /\ result \in Seq(Item) /\ s[p] \in Item
      /\ UNCHANGED <<stage, s, prot, idx>> /\ p' = p + 1
  BY DEF SpansInv, TypeOK, RestoreItem
<1>2. PICK out, e : /\ out = (IF s[p] = TagItem(idx) THEN prot[idx] ELSE <<s[p]>>)
                    /\ e = p + 1
  OBVIOUS
<1>3. out \in Seq(Item) /\ e \in p .. Len(s) + 1 /\ result' = result \o out /\ p' = e
  <2>1. prot[idx] \in Seq(Item)
    BY <1>1 DEF SpansInv, TypeOK
  <2> QED
    BY <1>1, <1>2, <2>1 DEF RestoreItem
<1>4. SubSeq(s, p, e - 1) = <<s[p]>>
  <2>1. e - 1 = p
    BY <1>1, <1>2
  <2> QED
    BY <1>1, <2>1, OneItem
<1>5. ASSUME NEW k \in 1 .. Len(prot), Awaited(k)
      PROVE  Count(k, out) = Count(k, SubSeq(s, p, e - 1))
  <2>1. idx < k /\ k \in Nat /\ idx \in Nat
    BY <1>1, <1>5 DEF Awaited, Patterns
  <2>2. CASE s[p] = TagItem(idx)
    <3>1. TagsBelow(prot[idx], idx - 1) /\ idx - 1 \in Nat /\ idx - 1 < k
      BY <1>1, <2>1 DEF SpansInv, SpansOrdered
    <3>2. out = prot[idx]
      BY <1>2, <2>2
    <3>3. Count(k, out) = 0
      BY <1>3, <2>1, <3>1, <3>2, CountAbove
    <3>4. s[p] # TagItem(k)
      BY <2>1, <2>2, Items
    <3>5. Count(k, <<s[p]>>) = 0
      BY <1>1, <3>4, CountSingle
    <3> QED
      BY <1>4, <3>3, <3>5
  <2>3. CASE s[p] # TagItem(idx)
    BY <1>2, <1>4, <2>3
  <2> QED
    BY <2>2, <2>3
<1> QED
  BY <1>1, <1>3, <1>5, ScanCounts

\* RestoreNext: the text written is the text to read, and one span fewer waits.
LEMMA RestoreNextCounts ==
    ASSUME SpansInv, TagsOnce, RestoreNext
    PROVE  TagsOnce'
<1>1. /\ s' = result /\ result' = <<>> /\ p' = 1 /\ prot' = prot /\ idx' = idx + 1
      /\ stage = "restore" /\ stage' = stage /\ idx \in Nat /\ Len(prot) \in Nat
      /\ s \in Seq(Item) /\ result \in Seq(Item) /\ p > Len(s) /\ p \in Nat
  BY DEF SpansInv, TypeOK, RestoreNext
<1>2. Rest = <<>> /\ Rest' = result
  <2>1. SubSeq(result, 1, Len(result)) = result
    BY <1>1, SubSeqFull
  <2> QED
    BY <1>1, <2>1 DEF Rest
<1> SUFFICES ASSUME NEW k \in 1 .. Len(prot), idx + 1 < k
             PROVE  Count(k, FlattenSeq(prot)) + Count(k, <<>>) + Count(k, result) = 1
  BY <1>1, <1>2 DEF TagsOnce, Count, Awaited, Patterns
<1>3. Count(k, FlattenSeq(prot)) + Count(k, result) + Count(k, <<>>) = 1
  BY <1>1, <1>2 DEF TagsOnce, Awaited
<1>4. Count(k, <<>>) = 0 /\ Count(k, result) \in Nat /\ Count(k, FlattenSeq(prot)) \in Nat
  <2>1. Count(k, <<>>) = 0
    BY KeptEmpty DEF Count
  <2>2. FlattenSeq(prot) \in Seq(Item)
    BY FlattenType DEF SpansInv, TypeOK, Parts
  <2> QED
    BY <1>1, <2>1, <2>2, CountConcat
<1> QED
  BY <1>3, <1>4

(***************************************************************************)
(* Until RestoreSpans comes to it, a span has exactly one placeholder, in  *)
(* the text or in a later span.                                            *)
(***************************************************************************)
THEOREM EverySpanOnce == Spec => []TagsOnce
<1>1. Init => TagsOnce
  BY DEF Init, TagsOnce
<1>2. SpansInv /\ TagsOnce /\ [Next]_vars => TagsOnce'
  <2> SUFFICES ASSUME SpansInv, TagsOnce, [Next]_vars PROVE TagsOnce'
    OBVIOUS
  <2>1. CASE Protect
    BY <2>1, ProtectCounts
  <2>2. CASE LeaveMatch \/ CopyUnmatched
    BY <2>2, CopyCounts
  <2>3. CASE VisibleUnderscore
    BY <2>3, UnderscoreCounts
  <2>4. CASE EndPass
    BY <2>4, EndPassCounts
  <2>5. CASE RestoreItem
    BY <2>5, RestoreItemCounts
  <2>6. CASE RestoreNext
    BY <2>6, RestoreNextCounts
  <2>7. CASE Return
    BY <2>7 DEF Return, SpansInv, TypeOK, TagsOnce, Awaited, Patterns
  <2>8. CASE UNCHANGED vars
    BY <2>8 DEF vars, TagsOnce, Awaited, Count, Rest
  <2> QED
    BY <2>1, <2>2, <2>3, <2>4, <2>5, <2>6, <2>7, <2>8 DEF Next, Finished
<1> QED
  BY <1>1, <1>2, SpansInvariant, PTL DEF Spec

-----------------------------------------------------------------------------
\* Of the nested spans there is a last one.
LEMMA LastNested ==
    ASSUME SpansInv, ~Flat
    PROVE  \E k \in 1 .. Len(prot) : ~NoTag(prot[k]) /\ \A m \in k + 1 .. Len(prot) : NoTag(prot[m])
<1> DEFINE n == Len(prot)
           T == {d \in Nat : n - d \in 1 .. n /\ ~NoTag(prot[n - d])}
<1>1. n \in Nat
  BY DEF SpansInv, TypeOK
<1>2. PICK j \in 1 .. n : ~NoTag(prot[j])
  BY DEF Flat
<1>3. n - j \in T
  <2>1. n - j \in Nat /\ n - (n - j) = j
    BY <1>1, <1>2
  <2> QED
    BY <1>2, <2>1
<1>4. T \subseteq Nat /\ T # {}
  BY <1>3
<1>5. PICK d \in T : \A y \in T : d <= y
  <2> HIDE DEF T
  <2> QED
    BY <1>4, LeastNumber
<1>6. d \in Nat /\ n - d \in 1 .. n /\ ~NoTag(prot[n - d])
  BY <1>5
<1>7. ASSUME NEW m \in (n - d) + 1 .. n, ~NoTag(prot[m]) PROVE FALSE
  <2>1. n - m \in Nat /\ n - (n - m) = m /\ m \in 1 .. n /\ n - m < d
    BY <1>1, <1>6, <1>7
  <2>2. n - m \in T
    BY <1>7, <2>1
  <2> HIDE DEF T
  <2> QED
    BY <1>1, <1>5, <1>6, <2>1, <2>2
<1> QED
  BY <1>6, <1>7

\* When restoring begins, the placeholder of the last nested span is in the text.
LEMMA RestoreBegins ==
    ASSUME SpansInv, TagsOnce, EndPass, ~Flat
    PROVE  \E i \in 1 .. Len(result) : Lasting(prot, result[i], 1)
<1>1. /\ stage \in Patterns \cup {"underscore"} /\ p > Len(s) /\ p \in Nat /\ s \in Seq(Item)
      /\ result \in Seq(Item) /\ prot \in Parts(Item) /\ Len(prot) \in Nat
  BY DEF SpansInv, TypeOK, EndPass, Parts
<1>2. PICK k \in 1 .. Len(prot) :
        ~NoTag(prot[k]) /\ \A m \in k + 1 .. Len(prot) : NoTag(prot[m])
  BY LastNested
<1>3. \A j \in 1 .. Len(prot) : \A i \in 1 .. Len(prot[j]) : prot[j][i] # TagItem(k)
  <2> SUFFICES ASSUME NEW j \in 1 .. Len(prot), NEW i \in 1 .. Len(prot[j]),
                      prot[j][i] = TagItem(k)
               PROVE  FALSE
    OBVIOUS
  <2>1. prot[j][i].c = "tag" /\ prot[j][i].n = k
    BY <1>1, <1>2, Items
  <2>2. prot[j][i].n \in 1 .. j - 1
    BY <2>1 DEF SpansInv, SpansOrdered, TagsBelow
  <2>3. ~NoTag(prot[j])
    BY <2>1 DEF NoTag
  <2> QED
    BY <1>1, <1>2, <2>1, <2>2, <2>3
<1>4. Count(k, FlattenSeq(prot)) = 0
  BY <1>1, <1>3, CountSpans
<1>5. Count(k, Rest) = 0
  <2>1. Rest = <<>>
    BY <1>1 DEF Rest
  <2> QED
    BY <2>1, KeptEmpty DEF Count
<1>6. Count(k, FlattenSeq(prot)) + Count(k, result) + Count(k, Rest) = 1
  BY <1>1, <1>2 DEF TagsOnce, Awaited
<1>7. Count(k, result) \in Nat
  BY <1>1, CountConcat
<1>8. Count(k, result) # 0
  BY <1>4, <1>5, <1>6, <1>7
<1>9. PICK i \in 1 .. Len(result) : result[i] = TagItem(k)
  BY <1>1, <1>8, CountFound
<1>10. Lasting(prot, result[i], 1)
  BY <1>1, <1>2, <1>9, Items DEF Lasting
<1> QED
  BY <1>10

\* EndPass into RestoreSpans.
LEMMA EndPassNested ==
    ASSUME SpansInv, TagsOnce, EndPass
    PROVE  NestedLasts'
<1>1. /\ s' = result /\ result' = <<>> /\ p' = 1 /\ prot' = prot /\ idx' = 1
      /\ result \in Seq(Item)
  BY DEF SpansInv, TypeOK, RestoreProgress, Patterns, EndPass
<1>2. Flat' <=> Flat
  BY <1>1 DEF Flat, NoTag
<1>4. ~Flat => \E i \in 1 .. Len(result) : Lasting(prot, result[i], 1)
  BY RestoreBegins
<1>5. ~Flat => \E i \in p' .. Len(s') : Lasting(prot, s'[i], idx')
  BY <1>1, <1>4
<1> QED
  BY <1>1, <1>2, <1>5 DEF NestedLasts

\* RestoreItem: what it passes by stays, and a nested span brings a placeholder in.
LEMMA RestoreItemNested ==
    ASSUME SpansInv, NestedLasts, RestoreItem
    PROVE  NestedLasts'
<1>1. /\ stage = "restore" /\ p \in 1 .. Len(s) /\ idx \in 1 .. Len(prot) /\ Len(prot) \in Nat
      /\ s \in Seq(Item) /\ result \in Seq(Item) /\ s[p] \in Item
      /\ UNCHANGED <<stage, s, prot, idx, input>> /\ p' = p + 1
  BY DEF SpansInv, TypeOK, RestoreItem
<1>2. PICK u : u = (IF s[p] = TagItem(idx) THEN prot[idx] ELSE <<s[p]>>)
  OBVIOUS
<1>3. u \in Seq(Item) /\ result' = result \o u
  <2>1. prot[idx] \in Seq(Item)
    BY <1>1 DEF SpansInv, TypeOK
  <2> QED
    BY <1>1, <1>2, <2>1 DEF RestoreItem
<1>4. /\ Len(result') = Len(result) + Len(u)
      /\ \A i \in 1 .. Len(result) : result'[i] = result[i]
      /\ \A i \in 1 .. Len(u) : result'[Len(result) + i] = u[i]
      /\ Len(result) \in Nat /\ Len(u) \in Nat
  BY <1>1, <1>3
<1>5. Flat' <=> Flat
  BY <1>1 DEF Flat, NoTag
<1> SUFFICES ASSUME ~Flat
             PROVE  \/ \E i \in 1 .. Len(result') : Lasting(prot, result'[i], idx + 1)
                    \/ \E i \in p + 1 .. Len(s) : Lasting(prot, s[i], idx)
  BY <1>1, <1>5 DEF NestedLasts
<1>7. CASE \E i \in 1 .. Len(result) : Lasting(prot, result[i], idx + 1)
  BY <1>4, <1>7
<1>8. CASE \E i \in p .. Len(s) : Lasting(prot, s[i], idx)
  <2>1. PICK i \in p .. Len(s) : Lasting(prot, s[i], idx)
    BY <1>8
  <2>2. CASE i # p
    BY <1>1, <2>1, <2>2
  <2>3. CASE i = p
    <3>1. \E j \in 1 .. Len(u) : Lasting(prot, u[j], idx + 1)
      <4>1. CASE s[p] = TagItem(idx)
        <5>1. u = prot[idx] /\ s[p].n = idx
          BY <1>1, <1>2, <4>1, Items
        <5>2. ~NoTag(prot[idx])
          BY <1>1, <2>1, <2>3, <5>1 DEF Lasting
        <5>3. PICK j \in 1 .. Len(u) : u[j].c = "tag"
          BY <5>1, <5>2 DEF NoTag
        <5>4. u[j].n \in 1 .. idx - 1
          BY <1>1, <5>1, <5>3 DEF SpansInv, SpansOrdered, TagsBelow
        <5> QED
          BY <1>1, <5>3, <5>4 DEF Lasting
      <4>2. CASE s[p] # TagItem(idx)
        <5>1. u = <<s[p]>>
          BY <1>2, <4>2
        <5>2. Lasting(prot, s[p], idx + 1)
          <6>1. s[p].n \in Nat /\ idx \in Nat
            BY <1>1, Items
          <6> QED
            BY <2>1, <2>3, <6>1 DEF Lasting
        <5>3. Len(u) = 1 /\ u[1] = s[p]
          BY <5>1
        <5> QED
          BY <5>2, <5>3
      <4> QED
        BY <4>1, <4>2
    <3>2. PICK j \in 1 .. Len(u) : Lasting(prot, u[j], idx + 1)
      BY <3>1
    <3>3. Len(result) + j \in 1 .. Len(result') /\ result'[Len(result) + j] = u[j]
      BY <1>4
    <3> QED
      BY <3>2, <3>3
  <2> QED
    BY <2>2, <2>3
<1> QED
  BY <1>1, <1>7, <1>8 DEF NestedLasts

\* RestoreNext: the text written is the text to read.
LEMMA RestoreNextNested ==
    ASSUME SpansInv, NestedLasts, RestoreNext
    PROVE  NestedLasts'
<1>1. /\ s' = result /\ result' = <<>> /\ p' = 1 /\ idx' = idx + 1 /\ prot' = prot
      /\ stage = "restore" /\ p > Len(s) /\ p \in Nat /\ Len(s) \in Nat
  BY DEF SpansInv, TypeOK, RestoreNext
<1>2. Flat' <=> Flat
  BY <1>1 DEF Flat, NoTag
<1>4. ~Flat => \E i \in 1 .. Len(result) : Lasting(prot, result[i], idx + 1)
  BY <1>1 DEF NestedLasts
<1>5. ~Flat => \E i \in p' .. Len(s') : Lasting(prot, s'[i], idx')
  BY <1>1, <1>4
<1> QED
  BY <1>1, <1>2, <1>5 DEF NestedLasts

(***************************************************************************)
(* The invariant behind RestoredIffFlat.                                   *)
(***************************************************************************)
LEMMA NestedInvariant == Spec => []NestedLasts
<1>1. Init => NestedLasts
  BY DEF Init, NestedLasts
<1>2. SpansInv /\ TagsOnce /\ NestedLasts /\ [Next]_vars => NestedLasts'
  <2> SUFFICES ASSUME SpansInv, TagsOnce, NestedLasts, [Next]_vars PROVE NestedLasts'
    OBVIOUS
  <2>1. CASE Protect \/ LeaveMatch \/ CopyUnmatched \/ VisibleUnderscore
    BY <2>1 DEF Protect, LeaveMatch, CopyUnmatched, VisibleUnderscore, NestedLasts, Patterns
  <2>2. CASE EndPass
    BY <2>2, EndPassNested
  <2>3. CASE RestoreItem
    BY <2>3, RestoreItemNested
  <2>4. CASE RestoreNext
    BY <2>4, RestoreNextNested
  <2>5. CASE Return
    BY <2>5 DEF Return, NestedLasts, Lasting, Flat, NoTag
  <2>6. CASE UNCHANGED vars
    BY <2>6 DEF vars, NestedLasts, Lasting, Flat, NoTag
  <2> QED
    BY <2>1, <2>2, <2>3, <2>4, <2>5, <2>6 DEF Next, Finished
<1> QED
  BY <1>1, <1>2, SpansInvariant, EverySpanOnce, PTL DEF Spec

(***************************************************************************)
(* RestoreSpans leaves no placeholder in the text exactly when no span was *)
(* nested in another one.                                                  *)
(***************************************************************************)
THEOREM RestoredExactlyWhenFlat == Spec => []RestoredIffFlat
<1>1. SpansInv /\ NestedLasts => RestoredIffFlat
  <2> SUFFICES ASSUME SpansInv, NestedLasts, stage = "restored", ~Flat PROVE ~NoTag(s)
    BY FlatSpansAreRestored DEF RestoredIffFlat
  <2>1. p = 1 /\ result = <<>>
    BY DEF SpansInv, RestoreProgress, NestedLasts
  <2>2. \E i \in 1 .. Len(s) : Lasting(prot, s[i], idx)
    BY <2>1 DEF NestedLasts
  <2> QED
    BY <2>2 DEF Lasting, NoTag
<1> QED
  BY <1>1, SpansInvariant, NestedInvariant, PTL

-----------------------------------------------------------------------------
\* Two ways to fill in that agree on the items of a text give the same text.
LEMMA SpreadSame ==
    ASSUME NEW f, NEW g, NEW t, \A i \in 1 .. Len(t) : f[t[i]] = g[t[i]]
    PROVE  Spread(f, t) = Spread(g, t)
<1>1. [i \in 1 .. Len(t) |-> f[t[i]]] = [i \in 1 .. Len(t) |-> g[t[i]]]
  OBVIOUS
<1> QED
  BY <1>1 DEF Spread

\* A text of two parts.
LEMMA SpreadTwo ==
    ASSUME NEW f, NEW a, NEW b,
           f \in Images(Item, Item) /\ a \in Seq(Item) /\ b \in Seq(Item)
    PROVE  /\ Spread(f, a \o b) = Spread(f, a) \o Spread(f, b)
           /\ Spread(f, a) \in Seq(Item) /\ Spread(f, b) \in Seq(Item)
<1>1. Spread(f, a \o b) = Spread(f, a) \o Spread(f, b)
  BY SpreadConcat
<1>2. Spread(f, a) \in Seq(Item) /\ Spread(f, b) \in Seq(Item)
  BY SpreadType
<1> QED
  BY <1>1, <1>2

\* What is put in the place of placeholders.
LEMMA FilledType ==
    ASSUME NEW n \in Nat, NEW w, w \in [1 .. n -> Seq(Item)]
    PROVE  /\ Filled(w, n) \in Images(Item, Item)
           /\ \A x \in Item : Filled(w, n)[x] =
                IF x.c = "tag" /\ x.n \in 1 .. n THEN w[x.n] ELSE <<x>>
<1>1. PICK X : X = Seq(Item)
  OBVIOUS
<1>2. \A x \in Item : <<x>> \in X
  BY <1>1
<1>3. w \in [1 .. n -> X]
  BY <1>1
<1>4. Filled(w, n) \in [Item -> X]
  BY <1>2, <1>3 DEF Filled
<1> QED
  BY <1>1, <1>4 DEF Images, Filled

\* Only the spans a text may refer to matter.
LEMMA FilledAgree ==
    ASSUME NEW m, NEW n, NEW w, NEW v, NEW t,
           /\ m \in Nat /\ n \in Nat /\ m <= n
           /\ \A k \in 1 .. m : w[k] = v[k]
           /\ t \in Seq(Item) /\ TagsBelow(t, m)
    PROVE  Spread(Filled(w, m), t) = Spread(Filled(v, n), t)
<1>1. PICK f, g : f = Filled(w, m) /\ g = Filled(v, n)
  OBVIOUS
<1>2. ASSUME NEW i \in 1 .. Len(t) PROVE f[t[i]] = g[t[i]]
  <2>1. PICK x : x = t[i]
    OBVIOUS
  <2>2. x \in Item /\ (x.c = "tag" => x.n \in 1 .. m)
    BY <2>1 DEF TagsBelow
  <2>3. f[x] = (IF x.c = "tag" /\ x.n \in 1 .. m THEN w[x.n] ELSE <<x>>)
    BY <1>1, <2>2 DEF Filled
  <2>4. g[x] = (IF x.c = "tag" /\ x.n \in 1 .. n THEN v[x.n] ELSE <<x>>)
    BY <1>1, <2>2 DEF Filled
  <2>5. x.n \in 1 .. m => x.n \in 1 .. n
    OBVIOUS
  <2> QED
    BY <2>1, <2>2, <2>3, <2>4, <2>5
<1>3. Spread(f, t) = Spread(g, t)
  BY <1>2, SpreadSame
<1> QED
  BY <1>1, <1>3

(***************************************************************************)
(* The texts of the spans, characterised instead of computed.  The         *)
(* invariant says that there are some that make up the input.              *)
(***************************************************************************)
SpanTexts(w) ==
    /\ w \in [1 .. Len(prot) -> Seq(Item)]
    /\ \A k \in 1 .. Len(prot) : w[k] = Spread(Filled(w, k - 1), prot[k])

TextsMakeInput(w) == SpanTexts(w) /\ SameText(Spread(Filled(w, Len(prot)), result \o Rest))

InputRemains == \E w : TextsMakeInput(w)

\* SpanText is the only such function.
LEMMA SpanTextUnique ==
    ASSUME SpansInv, NEW w, SpanTexts(w)
    PROVE  SpanText = w
<1> DEFINE n == Len(prot)
           R(f) == [k \in 1 .. n |-> Spread(Filled(f, k - 1), prot[k])]
           st == CHOOSE f : f = R(f)
<1>1. n \in Nat
  BY DEF SpansInv, TypeOK
<1>2. w = R(w)
  BY DEF SpanTexts
<1>3. st = R(st)
  BY <1>2
<1>4. SpanText = st
  BY DEF SpanText
<1> HIDE DEF st
<1>5. PICK v : v = st
  OBVIOUS
<1>6. \A k \in 1 .. n : v[k] = Spread(Filled(v, k - 1), prot[k])
  BY <1>3, <1>5
<1>7. \A k \in 1 .. n : w[k] = Spread(Filled(w, k - 1), prot[k])
  BY DEF SpanTexts
<1> DEFINE T == {k \in 1 .. n : v[k] # w[k]}
<1>8. ASSUME T # {} PROVE FALSE
  <2>1. T \subseteq Nat
    BY <1>1
  <2>2. PICK m \in T : \A y \in T : m <= y
    <3> HIDE DEF T
    <3> QED
      BY <1>8, <2>1, LeastNumber
  <2>3. m \in 1 .. n /\ v[m] # w[m] /\ m - 1 \in Nat
    BY <1>1, <2>2
  <2>4. ASSUME NEW j \in 1 .. m - 1 PROVE v[j] = w[j]
    <3>1. j \in 1 .. n /\ j < m
      BY <1>1, <2>3
    <3>2. j \notin T
      <4> HIDE DEF T
      <4> QED
        BY <1>1, <2>2, <2>3, <3>1
    <3> QED
      BY <3>1, <3>2
  <2>5. Filled(v, m - 1) = Filled(w, m - 1)
    BY <2>4 DEF Filled
  <2> QED
    BY <1>6, <1>7, <2>3, <2>5
<1>9. \A k \in 1 .. n : v[k] = w[k]
  BY <1>8
<1>10. v = w
  <2>1. v = [k \in 1 .. n |-> v[k]]
    BY <1>3, <1>5
  <2>2. w = [k \in 1 .. n |-> w[k]]
    BY <1>2
  <2> QED
    BY <1>9, <2>1, <2>2
<1> QED
  BY <1>4, <1>5, <1>10

\* So the invariant says what NothingLost says.
LEMMA RemainsNothingLost ==
    ASSUME SpansInv, InputRemains
    PROVE  NothingLost
<1>1. PICK w : TextsMakeInput(w)
  BY DEF InputRemains
<1>2. SpanText = w
  BY <1>1, SpanTextUnique DEF TextsMakeInput
<1> QED
  BY <1>1, <1>2 DEF TextsMakeInput, NothingLost, Unfold

\* A step that leaves the spans alone and writes the text of what it reads.
LEMMA ScanText ==
    ASSUME SpansInv, NEW w, TextsMakeInput(w), NEW e, NEW out,
           e \in p .. Len(s) + 1 /\ out \in Seq(Item),
           result' = result \o out, p' = e, UNCHANGED <<stage, s, prot, input>>,
           Spread(Filled(w, Len(prot)), out) =
             Spread(Filled(w, Len(prot)), SubSeq(s, p, e - 1))
    PROVE  InputRemains'
<1>1. s \in Seq(Item) /\ p \in 1 .. Len(s) + 1 /\ result \in Seq(Item) /\ Len(prot) \in Nat
  BY DEF SpansInv, TypeOK
<1>2. PICK r, a, b, f : /\ r = result /\ a = SubSeq(s, p, e - 1) /\ b = SubSeq(s, e, Len(s))
                        /\ f = Filled(w, Len(prot))
  OBVIOUS
<1>3. a \in Seq(Item) /\ b \in Seq(Item) /\ Rest = a \o b
  BY <1>1, <1>2, RestSplit DEF Rest
<1>4. f \in Images(Item, Item) /\ r \in Seq(Item)
  BY <1>1, <1>2, FilledType DEF TextsMakeInput, SpanTexts
<1>5. PICK fr, fa, fb, ab, ro : /\ fr = Spread(f, r) /\ fa = Spread(f, a) /\ fb = Spread(f, b)
                                /\ ab = a \o b /\ ro = r \o out
  OBVIOUS
<1>6. Spread(f, r \o ab) = Spread(f, ro \o b)
  <2>1. ab \in Seq(Item) /\ ro \in Seq(Item) /\ out \in Seq(Item)
    BY <1>3, <1>4, <1>5
  <2>2. Spread(f, r \o ab) = Spread(f, r) \o Spread(f, ab)
    BY <1>4, <2>1, SpreadTwo
  <2>3. Spread(f, a \o b) = Spread(f, a) \o Spread(f, b)
    BY <1>3, <1>4, SpreadTwo
  <2>4. Spread(f, ro \o b) = Spread(f, ro) \o Spread(f, b)
    BY <1>3, <1>4, <2>1, SpreadTwo
  <2>5. Spread(f, r \o out) = Spread(f, r) \o Spread(f, out)
    BY <1>4, <2>1, SpreadTwo
  <2>6. fr \in Seq(Item) /\ fa \in Seq(Item) /\ fb \in Seq(Item)
    BY <1>3, <1>4, <1>5, SpreadTwo
  <2>7. (fr \o fa) \o fb = fr \o (fa \o fb)
    BY <2>6, SMTT(30)
  <2>8. Spread(f, out) = fa
    BY <1>2, <1>5
  <2> QED
    BY <1>5, <2>2, <2>3, <2>4, <2>5, <2>7, <2>8
<1>8. result' \o Rest' = ro \o b
  BY <1>2, <1>5 DEF Rest
<1>9. SameText(Spread(f, r \o ab))
  BY <1>2, <1>3, <1>5 DEF TextsMakeInput
<1>10. Spread(Filled(w, Len(prot')), result' \o Rest') = Spread(f, r \o ab)
  BY <1>2, <1>6, <1>8
<1>11. SpanTexts(w)'
  BY DEF TextsMakeInput, SpanTexts
<1>12. TextsMakeInput(w)'
  BY <1>9, <1>10, <1>11 DEF TextsMakeInput, SameText
<1> QED
  BY <1>12 DEF InputRemains

\* LeaveMatch and CopyUnmatched copy.
LEMMA CopyText ==
    ASSUME SpansInv, InputRemains, LeaveMatch \/ CopyUnmatched
    PROVE  InputRemains'
<1>1. /\ p \in 1 .. Len(s) /\ UNCHANGED <<stage, s, prot, input>>
      /\ s \in Seq(Item) /\ result \in Seq(Item)
  BY DEF SpansInv, TypeOK, LeaveMatch, CopyUnmatched
<1>2. PICK w : TextsMakeInput(w)
  BY DEF InputRemains
<1>3. CASE LeaveMatch
  <2>1. PICK e \in p + 1 .. Len(s) + 1 : result' = result \o SubSeq(s, p, e - 1) /\ p' = e
    BY <1>3 DEF LeaveMatch
  <2>2. PICK out : out = SubSeq(s, p, e - 1)
    OBVIOUS
  <2>3. e \in p .. Len(s) + 1 /\ out \in Seq(Item)
    BY <1>1, <2>2
  <2> QED
    BY <1>1, <1>2, <2>1, <2>2, <2>3, ScanText
<1>4. CASE CopyUnmatched
  <2>1. result' = Append(result, s[p]) /\ p' = p + 1
    BY <1>4 DEF CopyUnmatched
  <2>2. PICK out, e : out = <<s[p]>> /\ e = p + 1
    OBVIOUS
  <2>3. e \in p .. Len(s) + 1 /\ out \in Seq(Item)
    BY <1>1, <2>2
  <2>4. Append(result, s[p]) = result \o <<s[p]>>
    BY <1>1, AppendIsConcat
  <2>5. SubSeq(s, p, e - 1) = out
    <3>1. e - 1 = p
      BY <1>1, <2>2
    <3> QED
      BY <1>1, <2>2, <3>1, OneItem
  <2> QED
    BY <1>1, <1>2, <2>1, <2>2, <2>3, <2>4, <2>5, ScanText
<1> QED
  BY <1>3, <1>4

\* RestoreItem puts a span in the place of its placeholder.
LEMMA RestoreItemText ==
    ASSUME SpansInv, InputRemains, RestoreItem
    PROVE  InputRemains'
<1>1. /\ p \in 1 .. Len(s) /\ UNCHANGED <<stage, s, prot, input>> /\ p' = p + 1
      /\ s \in Seq(Item) /\ result \in Seq(Item) /\ s[p] \in Item
      /\ idx \in 1 .. Len(prot) /\ Len(prot) \in Nat /\ prot[idx] \in Seq(Item)
  BY DEF SpansInv, TypeOK, RestoreItem
<1>2. PICK w : TextsMakeInput(w)
  BY DEF InputRemains
<1>3. PICK out, e, f, x, one : /\ out = (IF s[p] = TagItem(idx) THEN prot[idx] ELSE <<s[p]>>)
                               /\ e = p + 1 /\ f = Filled(w, Len(prot)) /\ x = s[p] /\ one = <<x>>
  OBVIOUS
<1>4. e \in p .. Len(s) + 1 /\ out \in Seq(Item) /\ result' = result \o out
  BY <1>1, <1>3 DEF RestoreItem
<1>5. SubSeq(s, p, e - 1) = one
  <2>1. e - 1 = p
    BY <1>1, <1>3
  <2> QED
    BY <1>1, <1>3, <2>1, OneItem
<1>6. Spread(f, out) = Spread(f, one)
  <2>1. CASE x = TagItem(idx)
    <3>1. f \in Images(Item, Item)
      BY <1>1, <1>2, <1>3, FilledType DEF TextsMakeInput, SpanTexts
    <3>2. f[x] = w[idx]
      <4>1. x \in Item /\ x.c = "tag" /\ x.n = idx
        BY <1>1, <1>3, <2>1, Items
      <4> QED
        BY <1>1, <1>3, <4>1 DEF Filled
    <3>3. Spread(f, one) = f[x]
      BY <1>1, <1>3, <3>1, SpreadSingle
    <3>4. w[idx] = Spread(Filled(w, idx - 1), prot[idx])
      BY <1>1, <1>2 DEF TextsMakeInput, SpanTexts
    <3>5. Spread(Filled(w, idx - 1), prot[idx]) = Spread(f, prot[idx])
      <4>1. PICK m, n, t : m = idx - 1 /\ n = Len(prot) /\ t = prot[idx]
        OBVIOUS
      <4>2. m \in Nat /\ n \in Nat /\ m <= n /\ t \in Seq(Item) /\ TagsBelow(t, m)
        BY <1>1, <4>1 DEF SpansInv, SpansOrdered
      <4>3. Spread(Filled(w, m), t) = Spread(Filled(w, n), t)
        BY <4>2, FilledAgree
      <4> QED
        BY <1>3, <4>1, <4>3
    <3>6. out = prot[idx]
      BY <1>3, <2>1
    <3> QED
      BY <3>2, <3>3, <3>4, <3>5, <3>6
  <2>2. CASE x # TagItem(idx)
    BY <1>3, <2>2
  <2> QED
    BY <2>1, <2>2
<1> QED
  BY <1>1, <1>2, <1>3, <1>4, <1>5, <1>6, ScanText

\* At the end of a loop the text written is the text to read.
LEMMA HandOverText ==
    ASSUME SpansInv, InputRemains, EndPass \/ RestoreNext
    PROVE  InputRemains'
<1>1. /\ s' = result /\ result' = <<>> /\ p' = 1 /\ UNCHANGED <<prot, input>>
      /\ s \in Seq(Item) /\ result \in Seq(Item) /\ p > Len(s) /\ p \in Nat
      /\ stage \notin Patterns => stage' \notin Patterns
  BY DEF SpansInv, TypeOK, EndPass, RestoreNext, NextStage, Patterns
<1>2. PICK w : TextsMakeInput(w)
  BY DEF InputRemains
<1>3. Rest = <<>> /\ Rest' = result
  <2>1. SubSeq(result, 1, Len(result)) = result
    BY <1>1, SubSeqFull
  <2> QED
    BY <1>1, <2>1 DEF Rest
<1>4. result \o Rest = result /\ result' \o Rest' = result
  BY <1>1, <1>3, ConcatEmptySeq
<1>5. PICK u : u = Spread(Filled(w, Len(prot)), result)
  OBVIOUS
<1>6. SameText(u)
  BY <1>2, <1>4, <1>5 DEF TextsMakeInput
<1>7. SameText(u)'
  BY <1>1, <1>6 DEF SameText
<1>8. SpanTexts(w)'
  BY <1>1, <1>2 DEF TextsMakeInput, SpanTexts
<1>9. TextsMakeInput(w)'
  BY <1>1, <1>4, <1>5, <1>7, <1>8 DEF TextsMakeInput
<1> QED
  BY <1>9 DEF InputRemains

\* One item of a text is exchanged.
LEMMA ExchangeOne ==
    ASSUME NEW a, NEW b, NEW x, NEW y, NEW u, NEW v,
           a \in Seq(Item) /\ b \in Seq(Item) /\ x \in Item /\ y \in Item,
           u = (a \o <<x>>) \o b, v = (a \o <<y>>) \o b
    PROVE  /\ Len(v) = Len(u) /\ Len(u) \in Nat
           /\ \A i \in 1 .. Len(u) : v[i] = u[i] \/ (u[i] = x /\ v[i] = y)
<1>1. PICK n, ax, ay : n = Len(a) /\ ax = a \o <<x>> /\ ay = a \o <<y>>
  OBVIOUS
<1>2. n \in Nat /\ Len(b) \in Nat
  BY <1>1
<1>3. /\ ax \in Seq(Item) /\ Len(ax) = n + 1 /\ ax[n + 1] = x
      /\ \A i \in 1 .. n : ax[i] = a[i]
  BY <1>1
<1>4. /\ ay \in Seq(Item) /\ Len(ay) = n + 1 /\ ay[n + 1] = y
      /\ \A i \in 1 .. n : ay[i] = a[i]
  BY <1>1
<1>5. /\ Len(u) = n + 1 + Len(b) /\ \A i \in 1 .. n + 1 : u[i] = ax[i]
      /\ \A i \in n + 2 .. Len(u) : u[i] = b[i - (n + 1)]
  BY <1>1, <1>2, <1>3
<1>6. /\ Len(v) = n + 1 + Len(b) /\ \A i \in 1 .. n + 1 : v[i] = ay[i]
      /\ \A i \in n + 2 .. Len(v) : v[i] = b[i - (n + 1)]
  BY <1>1, <1>2, <1>4
<1>7. ASSUME NEW i \in 1 .. Len(u) PROVE v[i] = u[i] \/ (u[i] = x /\ v[i] = y)
  <2>1. i \in 1 .. n \/ i = n + 1 \/ i \in n + 2 .. Len(u)
    BY <1>2, <1>5
  <2> QED
    BY <1>2, <1>3, <1>4, <1>5, <1>6, <2>1
<1> QED
  BY <1>2, <1>5, <1>6, <1>7

\* VisibleUnderscore exchanges an underscore for a space.
LEMMA UnderscoreText ==
    ASSUME SpansInv, InputRemains, VisibleUnderscore
    PROVE  InputRemains'
<1>1. /\ p \in 1 .. Len(s) /\ UNCHANGED <<stage, s, prot, input>> /\ stage = "underscore"
      /\ s \in Seq(Item) /\ result \in Seq(Item) /\ s[p] \in Item /\ Len(prot) \in Nat
  BY DEF SpansInv, TypeOK, VisibleUnderscore
<1>2. PICK w : TextsMakeInput(w)
  BY DEF InputRemains
<1>3. PICK x, y, one, out, e :
        /\ x = s[p] /\ y = (IF s[p].c = "under" THEN Ch("space") ELSE s[p])
        /\ one = <<x>> /\ out = <<y>> /\ e = p + 1
  OBVIOUS
<1>4. x \in Item /\ y \in Item /\ one \in Seq(Item) /\ out \in Seq(Item) /\ e \in p .. Len(s) + 1
  BY <1>1, <1>3, Items
<1>5. result' = result \o out /\ p' = e
  <2>1. result' = Append(result, y) /\ p' = e
    BY <1>3 DEF VisibleUnderscore
  <2>2. Append(result, y) = result \o <<y>>
    BY <1>1, <1>4, AppendIsConcat
  <2> QED
    BY <1>3, <2>1, <2>2
<1>6. SubSeq(s, p, e - 1) = one
  <2>1. e - 1 = p
    BY <1>1, <1>3
  <2> QED
    BY <1>1, <1>3, <2>1, OneItem
<1>7. CASE x.c # "under"
  <2>1. out = one
    BY <1>3, <1>7
  <2> QED
    BY <1>1, <1>2, <1>4, <1>5, <1>6, <2>1, ScanText
<1>8. CASE x.c = "under"
  <2>1. x = Ch("under") /\ y = Ch("space")
    BY <1>3, <1>4, <1>8, Items
  <2>2. PICK r, b, f : r = result /\ b = SubSeq(s, e, Len(s)) /\ f = Filled(w, Len(prot))
    OBVIOUS
  <2>3. b \in Seq(Item) /\ Rest = one \o b
    <3>1. p \in 1 .. Len(s) + 1
      BY <1>1
    <3> QED
      BY <1>1, <1>4, <1>6, <2>2, <3>1, RestSplit DEF Rest
  <2>4. f \in Images(Item, Item) /\ r \in Seq(Item)
    BY <1>1, <1>2, <2>2, FilledType DEF TextsMakeInput, SpanTexts
  <2>5. Spread(f, one) = one /\ Spread(f, out) = out
    <3>1. x.c # "tag" /\ y.c # "tag"
      BY <1>8, <2>1, Items
    <3>2. f[x] = <<x>> /\ f[y] = <<y>>
      BY <1>4, <2>2, <3>1 DEF Filled
    <3>3. Spread(f, <<x>>) = f[x]
      BY <1>4, <2>4, SpreadSingle
    <3>4. Spread(f, <<y>>) = f[y]
      BY <1>4, <2>4, SpreadSingle
    <3> QED
      BY <1>3, <3>2, <3>3, <3>4
  <2>6. PICK fr, fb, ob, ro, u, v :
          /\ fr = Spread(f, r) /\ fb = Spread(f, b) /\ ob = one \o b /\ ro = r \o out
          /\ u = Spread(f, r \o ob) /\ v = Spread(f, ro \o b)
    OBVIOUS
  <2>7. ob \in Seq(Item) /\ ro \in Seq(Item)
    BY <1>4, <2>3, <2>4, <2>6
  <2>8. fr \in Seq(Item) /\ fb \in Seq(Item)
    BY <2>3, <2>4, <2>6, SpreadTwo
  <2>9. u = (fr \o <<x>>) \o fb
    <3>1. Spread(f, r \o ob) = Spread(f, r) \o Spread(f, ob)
      BY <2>4, <2>7, SpreadTwo
    <3>2. Spread(f, one \o b) = Spread(f, one) \o Spread(f, b)
      BY <1>4, <2>3, <2>4, SpreadTwo
    <3>3. (fr \o one) \o fb = fr \o (one \o fb)
      BY <1>4, <2>8, SMTT(30)
    <3> QED
      BY <1>3, <2>5, <2>6, <3>1, <3>2, <3>3
  <2>10. v = (fr \o <<y>>) \o fb
    <3>1. Spread(f, ro \o b) = Spread(f, ro) \o Spread(f, b)
      BY <2>3, <2>4, <2>7, SpreadTwo
    <3>2. Spread(f, r \o out) = Spread(f, r) \o Spread(f, out)
      BY <1>4, <2>4, SpreadTwo
    <3> QED
      BY <1>3, <2>5, <2>6, <3>1, <3>2
  <2>11. /\ Len(v) = Len(u) /\ Len(u) \in Nat
         /\ \A i \in 1 .. Len(u) : v[i] = u[i] \/ (u[i] = x /\ v[i] = y)
    BY <1>4, <2>8, <2>9, <2>10, ExchangeOne
  <2>12. SameText(u)
    BY <1>2, <2>2, <2>3, <2>6 DEF TextsMakeInput
  <2>13. SameText(v)
    <3>1. Len(v) = Len(input)
      BY <2>11, <2>12 DEF SameText
    <3>2. ASSUME NEW i \in 1 .. Len(v)
          PROVE  v[i] = input[i] \/ (input[i] = Ch("under") /\ v[i] = Ch("space"))
      <4>1. u[i] = input[i] \/ (input[i] = Ch("under") /\ u[i] = Ch("space"))
        BY <2>11, <2>12 DEF SameText
      <4>2. Ch("space") # Ch("under")
        BY Items
      <4> QED
        BY <2>1, <2>11, <4>1, <4>2
    <3> QED
      BY <1>1, <3>1, <3>2 DEF SameText, Patterns
  <2>14. result' \o Rest' = ro \o b
    BY <1>1, <1>5, <2>2, <2>6 DEF Rest
  <2>15. SameText(v)'
    BY <1>1, <2>13 DEF SameText
  <2>16. SpanTexts(w)'
    BY <1>1, <1>2 DEF TextsMakeInput, SpanTexts
  <2>17. TextsMakeInput(w)'
    BY <1>1, <2>2, <2>6, <2>14, <2>15, <2>16 DEF TextsMakeInput
  <2> QED
    BY <2>17 DEF InputRemains
<1> QED
  BY <1>7, <1>8

\* Protect: the new span has the text of what was read.
LEMMA ProtectText ==
    ASSUME SpansInv, InputRemains, Protect
    PROVE  InputRemains'
<1>1. PICK e \in p + 1 .. Len(s) + 1 :
        /\ result' = Append(result, TagItem(Len(prot) + 1))
        /\ prot' = Append(prot, SubSeq(s, p, e - 1))
        /\ p' = e
  BY DEF Protect
<1>2. /\ p \in 1 .. Len(s) /\ UNCHANGED <<stage, s, input>>
      /\ s \in Seq(Item) /\ result \in Seq(Item) /\ prot \in Parts(Item) /\ Len(prot) \in Nat
  BY DEF SpansInv, TypeOK, Protect, Parts
<1>3. PICK w : TextsMakeInput(w)
  BY DEF InputRemains
<1>4. PICK r, a, b, n, x, one, f :
        /\ r = result /\ a = SubSeq(s, p, e - 1) /\ b = SubSeq(s, e, Len(s)) /\ n = Len(prot)
        /\ x = TagItem(n + 1) /\ one = <<x>> /\ f = Filled(w, n)
  OBVIOUS
<1>5. a \in Seq(Item) /\ b \in Seq(Item) /\ Rest = a \o b
  <2>1. p \in 1 .. Len(s) + 1 /\ e \in p .. Len(s) + 1
    BY <1>2
  <2> QED
    BY <1>2, <1>4, <2>1, RestSplit DEF Rest
<1>6. /\ r \in Seq(Item) /\ n \in Nat /\ x \in Item /\ x.c = "tag" /\ x.n = n + 1
      /\ one \in Seq(Item)
  BY <1>2, <1>4, Items
<1>7. f \in Images(Item, Item) /\ w \in [1 .. n -> Seq(Item)]
  BY <1>3, <1>4, <1>6, FilledType DEF TextsMakeInput, SpanTexts
<1>8. TagsBelow(r, n) /\ TagsBelow(a, n) /\ TagsBelow(b, n)
  <2>1. TagsBelow(s, n) /\ TagsBelow(r, n)
    BY <1>4 DEF SpansInv, SpansOrdered
  <2>2. p \in 1 .. Len(s) + 1 /\ e - 1 \in 0 .. Len(s) /\ e \in 1 .. Len(s) + 1
        /\ Len(s) \in 0 .. Len(s)
    BY <1>2
  <2> QED
    BY <1>2, <1>4, <2>1, <2>2, BoundsSubSeq
<1>9. PICK fa, v : fa = Spread(f, a) /\ v = [k \in 1 .. n + 1 |-> IF k <= n THEN w[k] ELSE fa]
  OBVIOUS
<1>10. fa \in Seq(Item)
  BY <1>5, <1>7, <1>9, SpreadTwo
<1>11. v \in [1 .. n + 1 -> Seq(Item)] /\ v[n + 1] = fa /\ \A k \in 1 .. n : v[k] = w[k]
  <2>1. PICK X : X = Seq(Item)
    OBVIOUS
  <2>2. w \in [1 .. n -> X] /\ fa \in X
    BY <1>7, <1>10, <2>1
  <2>3. v \in [1 .. n + 1 -> X] /\ v[n + 1] = fa /\ \A k \in 1 .. n : v[k] = w[k]
    BY <1>6, <1>9, <2>2
  <2> QED
    BY <2>1, <2>3
<1>12. Len(prot') = n + 1 /\ prot'[n + 1] = a /\ \A k \in 1 .. n : prot'[k] = prot[k]
  BY <1>1, <1>2, <1>4, <1>5 DEF Parts
<1>13. ASSUME NEW k \in 1 .. n + 1 PROVE v[k] = Spread(Filled(v, k - 1), prot'[k])
  <2>1. Filled(v, k - 1) = Filled(w, k - 1)
    <3>1. \A j \in 1 .. k - 1 : v[j] = w[j]
      BY <1>6, <1>11
    <3> QED
      BY <3>1 DEF Filled
  <2>2. CASE k \in 1 .. n
    <3>1. w[k] = Spread(Filled(w, k - 1), prot[k])
      BY <1>3, <1>4, <2>2 DEF TextsMakeInput, SpanTexts
    <3> QED
      BY <1>11, <1>12, <2>1, <2>2, <3>1
  <2>3. CASE k = n + 1
    <3>1. k - 1 = n
      BY <1>6, <2>3
    <3> QED
      BY <1>4, <1>9, <1>11, <1>12, <2>1, <2>3, <3>1
  <2> QED
    BY <1>6, <2>2, <2>3
<1>14. SpanTexts(v)'
  BY <1>11, <1>12, <1>13 DEF SpanTexts
<1>15. PICK g : g = Filled(v, n + 1)
  OBVIOUS
<1>16. g \in Images(Item, Item) /\ g[x] = fa
  <2>1. PICK m : m = n + 1 /\ m \in Nat /\ m \in 1 .. m
    BY <1>6
  <2>2. v \in [1 .. m -> Seq(Item)] /\ v[m] = fa
    BY <1>11, <2>1
  <2>3. /\ g \in Images(Item, Item)
        /\ \A z \in Item : g[z] = IF z.c = "tag" /\ z.n \in 1 .. m THEN v[z.n] ELSE <<z>>
    BY <1>15, <2>1, <2>2, FilledType
  <2> QED
    BY <1>6, <2>1, <2>2, <2>3
<1>17. Spread(g, r) = Spread(f, r) /\ Spread(g, b) = Spread(f, b)
  <2>1. PICK m : m = n + 1
    OBVIOUS
  <2>2. m \in Nat /\ n \in Nat /\ n <= m /\ \A k \in 1 .. n : w[k] = v[k]
    BY <1>6, <1>11, <2>1
  <2>3. Spread(Filled(w, n), r) = Spread(Filled(v, m), r)
    BY <1>6, <1>8, <2>2, FilledAgree
  <2>4. Spread(Filled(w, n), b) = Spread(Filled(v, m), b)
    <3>1. b \in Seq(Item) /\ TagsBelow(b, n)
      BY <1>5, <1>8
    <3> QED
      BY <2>2, <3>1, FilledAgree
  <2> QED
    BY <1>4, <1>15, <2>1, <2>3, <2>4
<1>18. PICK fr, fb, ab, ro : /\ fr = Spread(f, r) /\ fb = Spread(f, b)
                             /\ ab = a \o b /\ ro = r \o one
  OBVIOUS
<1>19. Spread(f, r \o ab) = Spread(g, ro \o b)
  <2>1. ab \in Seq(Item) /\ ro \in Seq(Item)
    BY <1>5, <1>6, <1>18
  <2>2. Spread(f, r \o ab) = Spread(f, r) \o Spread(f, ab)
    BY <1>6, <1>7, <2>1, SpreadTwo
  <2>3. Spread(f, a \o b) = Spread(f, a) \o Spread(f, b)
    BY <1>5, <1>7, SpreadTwo
  <2>4. Spread(g, ro \o b) = Spread(g, ro) \o Spread(g, b)
    BY <1>5, <1>16, <2>1, SpreadTwo
  <2>5. Spread(g, r \o one) = Spread(g, r) \o Spread(g, one)
    BY <1>6, <1>16, SpreadTwo
  <2>6. Spread(g, <<x>>) = g[x]
    BY <1>6, <1>16, SpreadSingle
  <2>7. fr \in Seq(Item) /\ fb \in Seq(Item)
    BY <1>5, <1>6, <1>7, <1>18, SpreadTwo
  <2>8. (fr \o fa) \o fb = fr \o (fa \o fb)
    BY <1>10, <2>7, SMTT(30)
  <2>9. Spread(f, r \o ab) = fr \o (fa \o fb)
    BY <1>9, <1>18, <2>2, <2>3
  <2>10. Spread(g, ro \o b) = (fr \o fa) \o fb
    BY <1>4, <1>16, <1>17, <1>18, <2>4, <2>5, <2>6
  <2> QED
    BY <2>8, <2>9, <2>10
<1>20. result' \o Rest' = ro \o b
  <2>1. Append(r, x) = r \o <<x>>
    BY <1>6, AppendIsConcat
  <2> QED
    BY <1>1, <1>2, <1>4, <1>18, <2>1 DEF Rest
<1>21. PICK u : u = Spread(f, r \o ab)
  OBVIOUS
<1>22. SameText(u)
  BY <1>3, <1>4, <1>5, <1>18, <1>21 DEF TextsMakeInput
<1>23. SameText(u)'
  BY <1>2, <1>22 DEF SameText
<1>24. u = Spread(Filled(v, Len(prot')), result' \o Rest')
  BY <1>12, <1>15, <1>19, <1>20, <1>21
<1>25. TextsMakeInput(v)'
  BY <1>14, <1>23, <1>24 DEF TextsMakeInput
<1> QED
  BY <1>25 DEF InputRemains

\* ProtectSpans begins with its input and without spans.
LEMMA InitText ==
    ASSUME Init
    PROVE  InputRemains
<1>1. s \in Seq(Plain) /\ input = s /\ p = 1 /\ result = <<>> /\ prot = <<>> /\ s \in Seq(Item)
  <2>1. s \in Seq(Plain) /\ input = s /\ p = 1 /\ result = <<>> /\ prot = <<>>
    BY TextsAssumption DEF Init
  <2> QED
    BY <2>1, Items
<1>2. result \o Rest = s
  <2>1. SubSeq(s, 1, Len(s)) = s
    BY <1>1, SubSeqFull
  <2> QED
    BY <1>1, <2>1, ConcatEmptySeq DEF Rest
<1>3. PICK w : w = [k \in 1 .. Len(prot) |-> <<>>]
  OBVIOUS
<1>4. SpanTexts(w) /\ Len(prot) = 0
  BY <1>1, <1>3 DEF SpanTexts
<1>5. PICK f : f = Filled(w, 0)
  OBVIOUS
<1>6. f \in Images(Item, Item) /\ \A x \in Plain : f[x] = <<x>>
  <2>1. f \in Images(Item, Item) /\ \A x \in Item : f[x] = <<x>>
    <3>1. 0 \in Nat /\ w \in [1 .. 0 -> Seq(Item)]
      BY <1>4 DEF SpanTexts
    <3>2. \A x \in Item : x.n \notin 1 .. 0
      BY Items
    <3> QED
      BY <1>5, <3>1, <3>2, FilledType
  <2> QED
    BY <2>1, Items
<1> DEFINE G == {t \in Seq(Plain) : Spread(f, t) = t}
<1>7. <<>> \in G
  BY SpreadEmpty, EmptySeq
<1>8. ASSUME NEW t, NEW c, t \in Seq(Plain) /\ t \in G /\ c \in Plain PROVE Append(t, c) \in G
  <2>1. t \in Seq(Item) /\ c \in Item /\ Spread(f, t) = t /\ f[c] = <<c>>
    BY <1>6, <1>8, Items
  <2>2. Spread(f, Append(t, c)) = Spread(f, t) \o f[c]
    <3>1. f \in Images(Item, Item) /\ t \in Seq(Item) /\ c \in Item
      BY <1>6, <2>1
    <3> HIDE DEF G
    <3> QED
      BY <3>1, SpreadAppend
  <2>3. Append(t, c) = t \o <<c>> /\ Append(t, c) \in Seq(Plain)
    BY <1>8, AppendIsConcat
  <2> QED
    BY <2>1, <2>2, <2>3
<1>9. s \in G
  <2> HIDE DEF G
  <2> QED
    BY <1>1, <1>7, <1>8, TextInduction
<1>10. SameText(s)
  BY <1>1 DEF SameText
<1>11. TextsMakeInput(w)
  BY <1>2, <1>4, <1>5, <1>9, <1>10 DEF TextsMakeInput
<1> QED
  BY <1>11 DEF InputRemains

(***************************************************************************)
(* Protecting, the underscore pass and restoring lose, add and move        *)
(* nothing, whatever the expressions match and however spans are nested:   *)
(* with the spans put back the text is the input at every step, but for    *)
(* visible underscores that have become spaces.                            *)
(***************************************************************************)
THEOREM NothingIsLost == Spec => []NothingLost
<1>1. Init => InputRemains
  BY InitText
<1>2. SpansInv /\ InputRemains /\ [Next]_vars => InputRemains'
  <2> SUFFICES ASSUME SpansInv, InputRemains, [Next]_vars PROVE InputRemains'
    OBVIOUS
  <2>1. CASE Protect
    BY <2>1, ProtectText
  <2>2. CASE LeaveMatch \/ CopyUnmatched
    BY <2>2, CopyText
  <2>3. CASE VisibleUnderscore
    BY <2>3, UnderscoreText
  <2>4. CASE EndPass \/ RestoreNext
    BY <2>4, HandOverText
  <2>5. CASE RestoreItem
    BY <2>5, RestoreItemText
  <2>6. CASE Return \/ UNCHANGED vars
    <3>1. UNCHANGED <<s, p, result, prot, input>>
          /\ (stage \notin Patterns => stage' \notin Patterns)
      BY <2>6 DEF vars, Return, Patterns
    <3> QED
      BY <3>1 DEF InputRemains, TextsMakeInput, SpanTexts, SameText, Rest
  <2> QED
    BY <2>1, <2>2, <2>3, <2>4, <2>5, <2>6 DEF Next, Finished
<1>3. SpansInv /\ InputRemains => NothingLost
  BY RemainsNothingLost
<1> QED
  BY <1>1, <1>2, <1>3, SpansInvariant, PTL DEF Spec

=============================================================================
