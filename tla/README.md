# A verification project for zh-normalization-cpp

The program reads Chinese text from standard input and writes it in the form a
speech synthesiser can read. `main.cpp` hands every line to
`tts_robust_normalizer.cpp` before and after it calls the Sparrowhawk library
with the grammars of `zh-normalize-grm/`. Everything runs in one thread; there
is no persistent state, no message and no timer. What is hard is the
*composition*: some thirty rewriting passes, half of them regular expressions
matched byte by byte and half of them pointer loops, each reading what the
earlier ones left behind. A pass can undo the work of another, take a
placeholder for text, leave something a second run changes, or not end; the
tests look at some sixty sentences. The models look at every text up to a
bound, and the proofs at every text.

Paths below are relative to the repository; line numbers are those of
`src/tts_robust_normalizer.cpp` unless another file is named.

## 1. Inventory

| Component (lines) | State it keeps | Operations | Interacts through |
|---|---|---|---|
| UTF-8 helpers, categories (35-189) | none | `DecodeUtf8`, `CharCategory`, `CollapseSpaces`, `Strip` | called by every pass |
| `BaseCleanup` (202-255) | the text | line ends, zero-width and control characters | first stage |
| `NormalizeMarkdownAndLines` (261-303) | lines, `merged` | links, line prefixes, joining lines | calls `EnsureTerminalPunctuation` |
| `NormalizeFlowArrows` (309-342) | the text | arrows become commas | also called by the structural stage |
| `ProtectSpans` / `RestoreSpans` (348-438) | the text, `prot` | seven expressions; replacement by index | placeholders `___PROTn___` that every later stage reads as text |
| `NormalizeVisibleUnderscores` (444-470) | the text | `_` becomes a space except in placeholders | reads placeholders |
| `NormalizeSpaces` (476-701) | the text, read pointer, `result` | seven passes and `Strip` | called twice per run; reads placeholders |
| `NormalizeStructuralPunctuation` (707-765) | the text | brackets to quotes, arrows, dashes | |
| `NormalizeRepeatedPunctuation` (771-881) | the text, pointer, `result` | ellipses, runs of marks | |
| `EnsureTerminalPunctuation(ByLine)` (887-974) | the text | a mark at the end | |
| `NormalizeTtsText`, `Pre`, `Post` (980-1035) | the text, `prot` | the order of the stages | `Post` restores and runs everything again |
| `RewriteHyphensBeforeZhWetext` (1041-1176) | the text, a second kind of placeholder | six steps and a restoring loop | between `Pre` and Sparrowhawk |
| `CollapseSpellout` (1184-1244) | two pointers, `collected`, `result` | one scan with an inner loop | between Sparrowhawk and `Post` |
| `main.cpp` | the line, the spans, the output | read a line, split, normalise each sentence | ignores the result of `Normalize` |
| Sparrowhawk, grammars, data | - | tokenise, classify, verbalise | third party / compiled grammars |

What makes each correct, and which behaviour is hard:

* **Spacing**: all rules hold *together* in what is returned; nothing but blanks
  changes; one call settles the text; every loop ends.
* **Protection**: what is protected comes back unchanged and in its place; the
  placeholders of spans inside spans are the hard case.
* **Hyphens**: each hyphen gets the one treatment the header lists, whatever the
  steps before did to its neighbours.
* **Spelled-out words**: only spaces between single characters go.
* **Punctuation**: no repeated mark, a mark at the end, and no change when the
  text is normalised again (which the tests demand of the whole pipeline).
* **Structure**: brackets across each other, arrows within brackets, prefixes and
  joined lines: no word is lost or moved, no pass brings out what an earlier one
  had to rewrite, and lines do not run together.
* **Bytes**: half of the loops step by the length the first byte announces, some
  by single bytes: no character is cut, no pointer passes the terminator, every
  loop ends.
* **Pipeline**: the two rounds of protecting and restoring around Sparrowhawk;
  what happens to a sentence that fails; one answer for each line.

`PROJECT.json` lists the hazards line by line with the properties that cover
them.

## 2. Modules

| Module | Models | How |
|---|---|---|
| `TextOps` | - | `Spread` and `Kept`: a text taken apart character by character, in which properties say what a pass keeps, drops and puts in a place |
| `Chars` | `CharCategory`, the tests on characters | a text is a sequence of character classes: two characters no test of a pass tells apart are one symbol |
| `NormalizeSpaces` | 476-701, 145-160 | one step per loop iteration; `s`, `p`, `result` are the variables of the same name, `stage` is the pass; two calls in a row |
| `SpacingRules` | what `NormalizeSpaces` promises | abstract: a call rewrites each gap of blanks by a rule on the gap and its two neighbours |
| `ProtectSpans` | 348-470 | the seven expressions as predicates `Match(name, t, i, e)`, one step per match or copied character; then underscores; then one step per item `RestoreSpans` passes |
| `CollapseSpellout` | 1184-1244 | both loops, one step per iteration |
| `RewriteHyphens` | 1041-1176 | the six steps as scans of one form, `Rewrite` |
| `Punctuation` | 771-974, 151-160 | the two scans as steps, the terminal mark as an operator; two rounds in a row |
| `Structure` | 261-342, 707-765 | one step for each line read and for each pass over the text; two calls in a row |
| `Bytes` | 35-97, 202-255, 360-406, 444-470, 486-513, 1075-1150 | a text is the sequence of its bytes; one step per turn of a loop; `Overrun` is a pointer behind the terminator, where the loop's behaviour is undefined and the model stops |
| `Stages` | 980-1035 and the stages it calls | each stage as a function on whole texts, by the rule its own module is checked against, and their order; Sparrowhawk's splitter and tokens, marked external |
| `Pipeline` | `main.cpp` | `Setup`, one step per phase of `NormalizeInput`, one per sentence, which `Normalize` may fail on; extends `Stages` |
| `LineFilter` | what the program promises | abstract: take a line, answer it, until there are none |
| `MC...` | - | the finite sets of texts, the reference definitions and the properties that need them |
| `..._proofs` | - | the theorems |

How they compose: `Stages` instantiates `ProtectSpans` for the expressions and
`SpacingRules` for the gaps, `Structure` instantiates `Punctuation` for the mark
between joined lines, and `Pipeline` runs the stages around Sparrowhawk. The
`spaces` run and its refinement are what allows `Stages` to use the rule in
place of the passes; `spellout` and `hyphens` do the same for the rules on
spaces and hyphens.

Each definition's lines are in `PROJECT.json` under `map`. Operators called
`Mutant` in their comment are deliberately wrong variants of the definition
after them; no specification uses them. They show that a property notices the
fault: with the definition replaced by the variant, TLC finds it violated.

Abstractions. A protected token is one symbol in `NormalizeSpaces` (it begins
and ends with `_`, which belongs to no category). In `ProtectSpans` the letters
`http(s)` and the `://` behind them are one item each, a placeholder is one item
that belongs to every class that has letters, digits and `_`, and its number
counts from 1. Left out there: the limit of 32 characters of a mention.
`RewriteHyphens` takes ASCII and Chinese characters; `HanD` is a Chinese
character whose last byte is one of the bytes of the delimiters' class, because
the expression at 1072 is matched byte by byte. On other wide characters the
loops at 1107 and 1146 move by bytes; that is in `Bytes`. `Punctuation` sees one
line, because `NormalizeMarkdownAndLines` joins all lines before it.

`Bytes` leaves out the stages between its loops, which are expressions over
ASCII or whole characters: its loops see more texts than reach them in the
program. `https?://` and the two placeholders are one byte each there.
`Structure` leaves out the stages between arrows and brackets (protection,
underscores, spaces); of the four wide bracket kinds, which one loop treats
alike, it has two, and the sixteen arrows are one symbol. `Stages` takes single lines of
tokens, words, underscores, spaces, full stops and hyphens next to letters, on
which `BaseCleanup`, arrows and brackets have nothing to do; in them
`Normalize` writes every token of `char.grm` with a space between each two, and
numbers are not verbalised. A line holds at most one literal `___PROTn___`, because
two in a row share underscores.

The models were compared with the compiled functions: the first five on every
text of their TLC instances (17 005, 30 941, 19 531, 53 074 and 60 121 texts),
`Structure` on 70 573 texts and the stages of `Pipeline` on 22 277. All results
are equal; texts in which a mention reaches 32 characters were left out. `Bytes` was compared on 15 361 texts: 14 429 results are
equal, and on the other 932 the model ends in `Overrun`, where the compiled code
appends what lies behind the text.

## 3. Runs

| Run | Checks | Shows |
|---|---|---|
| `spaces` | `TypeOK`, `OutputTidy`, `ContentKept`, `Idempotent`, `Implements`, `Termination` | the passes do not undo each other; nothing but blanks changes; one call settles the text; the passes implement `SpacingRules` (a refinement, `Rules!Spec`); both calls end |
| `spans` | `TypeOK`, `SpansOrdered`, `NothingLost`, `TagsOnce`, `RestoredIffFlat` | text and spans together are the input at every step; every placeholder stands once, in the text or in a later span, until `RestoreSpans` comes to it; restoring is complete exactly if no span is nested |
| `spellout` | `TypeOK`, `SpacesByRule`, `OnlySpacesDropped`, `Termination` | the loops compute a rule on each space alone |
| `spellout_single` | `OnlySingleCharactersMerged` (violated) | finding 1 |
| `hyphens` | `TypeOK`, `HyphensByRule`, `Termination` | the steps decide about each hyphen as if it were alone |
| `punctuation` | `TypeOK`, `NoRepeatLeft`, `RepeatedByRule`, `EndsMarked`, `ChangedOnlyAfterTwoStops` | runs are read as a whole; a mark at the end; the only text that a second round changes |
| `punctuation_twice` | `Idempotent` (violated) | finding 2 |
| `pipeline` | `ContentKept`, `PlaceholdersOnce`, `LineRecoverable`, `SpansSurvive`, `OneAnswerPerLine` | between `Pre` and `Post`, on every line: each placeholder is there once, in the text, in a sentence that failed or in another span; if none failed, text and spans together still hold the line, also where spans are nested or the line itself has the characters of a placeholder. Through `Post` and its second round, on lines without nested tokens and underscores: every span whose sentence did not fail comes back whole and in order, and no letter is lost. The program implements `LineFilter` (a refinement) |
| `pipeline_added` | `NothingAdded` (violated) | finding 3 |
| `structure` | `TypeOK`, `ContentKept`, `StructureRewritten`, `PrefixesRemoved`, `LinesKeptApart`, `ChangedOnlyByRest` | no word is lost, repeated or moved; a pair of brackets is left only where brackets of its kind were nested, a prefix only behind a later one; joined lines have a mark between them; the second call only takes such rests |
| `bytes` | `TypeOK`, `CleanedByCharacter`, `CutOnlyByUrl`, `OverrunOnlyByDecoding`, `HyphensByCharacter`, `Terminates` | `BaseCleanup` works by whole characters; only the URL expression cuts one; a pointer passes the terminator only on an incomplete text or where a hyphen loop, misled by a character such as `（`, takes one of the last three bytes for the first of a Chinese character of four; where no byte inside another character can be taken so, the hyphen loops work by characters |
| `bytes_url` | `WholeCharacters` (violated) | finding 4 |

**Bounds.** A decision of a pass depends on the character at the pointer, the
blanks behind it and the character behind those; spaces beyond two are read like
two. `spaces` has all texts of up to 3 characters of the whole alphabet, 4
without kana and full-width digits (which no test of the function tells apart
from Chinese and ASCII ones), and 6 over Chinese, Latin, token and space, the
combination in which a pass looks both ways. `spans` has all texts of up to 4
fragments, whole tokens of every kind and the characters that make two of them
touch: a token nested in a token of another kind, with a third one next to
them. `spellout` has all texts of 6, two single-character words and the ends
of longer ones. `hyphens` has all texts of 5 and, without tab, Latin and `HanD`,
of 6: two hyphens that share a neighbour, with blanks. `punctuation` has all
texts of 4 and, over dots, ellipses, full stops, closing and plain characters, of 6:
two runs of dots or ellipses that meet. `pipeline` has all lines of up to 4
fragments, tokens of each kind, words, separators and a literal placeholder, of
5 over the fragments that nest, and inputs of two lines: a token in a token next
to a third, in a sentence that fails or in one that does not. `structure` has all
texts of 5 brackets and blanks (two kinds across each other and a word), of 4
arrow parts, and of 4 line parts, two of them line breaks. `bytes` has all texts
of 3 fragments and of 4 over those the hyphen loops tell apart: a character, a
blank, a hyphen and another character, each possibly one that misleads the
decoder; a hyphen and 4 fragments that mislead it twice, the second time into
the middle of a Chinese character; `。`, which has a byte they could begin at and does not
mislead them in front of ASCII; half a character at the end of all texts of 2.

**Fairness.** `Termination` and `Terminates` assume weak fairness of the step: a
function that has been called goes on to its next instruction. Nothing else
runs, so nothing can stop it. `Terminates` ends at the terminator or behind it;
what a loop does from there is undefined. `Pipeline` and `Structure` state no
fairness: the program waits for input, and `Setup` may abort it.

**Findings.**
1. `CollapseSpellout` takes the last letter of a longer word for a single
   character: `This is a test` becomes `This isa test`.
2. `EnsureTerminalPunctuation` makes a second full stop of the dot in `a。.`; a
   second run removes it, against the tests' idempotence check.
3. `RestoreSpans` replaces placeholders in ascending order, so the placeholder
   of a span that a later expression swallowed stays in the text: `#话题@bar` is
   answered with `___PROT0___` in it. `Post` then counts from 0 again, and its own
   restoring can put another span in that place: in `b.http吧#@b吧@b` the mention
   comes back as `b.http`.
4. The URL expression names three-byte characters in a class, which is matched
   by bytes: in `http://a.com看` the first two bytes of `看` go with the URL and
   the third stays.

Met on the way, without a statement in the repository to hold against it:
where four bytes from inside a character decode to a Chinese one, as they do from
the last byte of `（` on in front of most Chinese characters, the loops of
`RewriteHyphensBeforeZhWetext` can step over the terminator of a text that has a
hyphen (`OverrunOnlyByDecoding` says where); of an odd number of
ellipses one is left; and when an underscore is removed in the first round, the second
protects more than the first (`_#@b`), which is why the properties about lines
without nested tokens leave underscores out.

## 4. Proofs

TLAPS proves, for every set of input texts of any length, with the only
assumption that they are texts (`TextsAssumption`, `InputsAssumption`):

* `NormalizeSpaces_proofs`: `TypeCorrect`, `OutputIsTidy`, `SpacingKeepsContent`
  and `SecondCallChangesNothing`. `OutputTidy` is not inductive, because it speaks of
  the end of a call. The invariant `SpacingInv` gives each pass a level: it reads
  a text that satisfies the conditions of the level before it (`Spaced`), has
  written one of the level after it, and where the two meet (`Joint`) the
  condition on two or three neighbours already holds, except for the spaces that
  `CollapseSpaces` and `TightenZhPunct` remove a step later. Pass 7 needs one
  more fact, that a blank is only written when its run does not end at an ASCII
  mark (`BlankRunKept`). For the second call, `SecondCallInv` says that on a tidy
  text each pass has written exactly what it has read. `ContentKept` is inductive
  once it is stated of what is written and what is left to read together.
* `ProtectSpans_proofs`: `SpansTypeCorrect` and `SpansAreOrdered`, from `SpansInv`: placeholders in a span are below its
  index, and while `RestoreSpans` is at index `idx` no placeholder below it is left
  in a flat text (the lemma `FlatSpansAreRestored`). `EverySpanOnce` counts the
  placeholders in text and spans together, through the expressions and the
  underscore pass, and while spans are restored for those still to come: what is
  put in the place of a placeholder holds only smaller numbers. `NothingIsLost` has as its invariant that unfolding what is written
  and what is left gives the argument; that the unfolding is well defined
  (`SpanText` is a recursive function over the spans) comes from `SpansOrdered`.
  `RestoredExactlyWhenFlat` needs the converse of that lemma: a
  placeholder inside a later span is put into the text after its own turn has
  passed, and stays (`NestedLasts`).
* `CollapseSpellout_proofs`: `SpelloutTypeCorrect`, `SpacesGoByRule` and
  `SpelloutKeepsContent`. The invariant says of each loop how much of the rule's
  text it has written: the inner loop has written the characters of the
  spelled-out run so far, with its spaces deleted, and the rule, which looks at a
  space and its neighbours only, deletes the same ones.
* `Punctuation_proofs`: `PunctuationTypeCorrect`, `NoRepeatsAreLeft`, from
  `PunctuationInv`: what the second scan has written is reduced, and what it reads
  next does not continue the run it has just written a mark for. That the
  backward searches find a position is proved from the well-foundedness of the
  natural numbers. `TextsEndMarked` rests on lemmas about one call: what `Strip`
  leaves ends in ink, the search for the last mark stops where the appended
  full stop or the mark that was there is. `OnlyTwoStopsChange` is the precise form
  of the tests' idempotence check, which finding 2 refutes. Its invariant,
  `SettledInv`, follows both rounds: the first scan leaves no ellipsis, the second
  cannot put one together, because what it has written last is what it has read
  last; so the end of a round leaves a text without ellipses, reduced unless it
  ends in two full stops, stripped and marked (`Settled`), and on a settled text
  every step of the second round writes what it reads. `RepeatsAreReadByRule`: the
  two scans compute `EachRun`, a rule on each whole run. The rule is a recursive
  function over positions, also defined within a run, so `RuleInv` can say that
  what a scan has written, with the rule's reading of the rest from its pointer
  on, is the rule's reading of the text.
* `Pipeline_proofs`: `PipelineIsLineFilter`, that `Pipeline` implements
  `LineFilter`: for every input, however many sentences fail and whatever the
  stages compute, exactly one answer is printed for each line, in order, before
  the next is read. `FilterInv` ties the number of answers to the line and the
  phase.
* `Bytes_proofs`: `BytesTypeCorrect`, for every sequence of bytes, well-formed or
  not: the loops that go by an index never leave the text, the ones that go by a
  pointer pass the terminator by at most three bytes in the step that does it,
  and no zero byte is written. `OverrunsOnlyByDecoding` says when they do. Its
  invariant, `DecodingInv`: on a whole text the pointer is where a character
  begins, or, in a loop on hyphens, inside one that is not Chinese, until four
  bytes from there on decode to a Chinese character; and a text that comes to
  these loops has a hyphen (`HyphenInv`), as the second loop finds the ones the first
  has replaced. The attempt
  to prove an earlier form, which looked for that character among the last three,
  failed for a good reason: the four bytes taken at `（` may end inside a Chinese
  character, and that one leads past the end. The other three theorems are about
  whole texts. `CutsOnlyByUrl`, from `CutInv`: as long as the argument holds no
  place where the URL pattern would end within a character, what a loop has put
  out and what it has left to read are a whole text together (`Pending`), and no
  such place has come up in front of the URL pass. `CleansByCharacter`, from
  `CleanInv`: in each pass of `BaseCleanup` `Pending` cleans to what the argument
  cleans to, its first part is free of what this pass rewrites (`Free`), and all of
  it is free of what an earlier pass rewrote; so what is left at the end is clean.
  Both rest on one notion of a turn: it copies bytes, or exchanges whole characters
  for whole characters (`Turned`). `HyphensJoinByCharacter`, from `JoinInv`: a loop
  on hyphens has put out what becomes of the bytes in front of its pointer, and
  the pointer is not within a joint, the hyphen and blanks the loop may rewrite.
  Behind a Chinese character `SkipBlanks` finds a joint exactly where the
  definition on characters sees one (`JointFound`, `FoundJoint`); the hypothesis
  that nothing misleads the decoder is needed at the bytes of other characters,
  and only where four of them seem a Chinese one.
* `Structure_proofs`: `TypeInvariant`, `ContentIsKept`, `StructureIsRewritten`,
  `LinesAreKeptApart`, `PrefixesAreRemoved` and `ChangedOnlyByTheRest`. A pass is a recursive function over the positions of
  the text; that it is one follows from every turn moving on, and what it puts
  out is argued about from the last position back (`DownInduction`). A turn puts
  out the content of what it consumes (`TurnOK`), so `ContentInv` holds: what is
  written and what is left to read have, together, the content the call began
  with. For the marks, `MarksInv` says what each of the last passes may rely on;
  its lemmas are that a pass which copies or puts out one mark leaves no two
  symbols it looks for (`SoughtGone`) and brings none together (`AdjacentKept`;
  with that alone, `MarksAreRewritten`). For the brackets, `KindInv`: those of a
  kind that was not nested in the argument are not nested in the text of any
  pass, and once the pass of the kind is over no pair of them is left; that holds
  because what a pass puts out between quotation marks has no bracket of the kind
  and later passes bring no two together. For the lines, `GapInv`: until they are
  joined each line end of the argument is in front of all words, behind all of
  them, or where a mark of what is written, a line end of what is left or the
  place between the two cuts the words (`Reach`). For the prefixes, `LeftInv`: what
  is left to read has no order of prefixes that the argument lacks, and a prefix
  at the front of what is written was preceded there.
  For the second call, `RestInv` adds that the text has no line end and no blank
  at its ends once the lines are read (`Neat`), which every turn of every later
  pass keeps, and that a second call on a text without prefix and pair has all of
  it before it or all of it behind it.
* `TextOps_proofs`: the lemmas on `FlattenSeq`, `Spread` and `Kept` that the
  others cite. `FlattenSeq` is a recursive function, so its equations are derived
  by induction; the provers cannot instantiate the library's induction theorems,
  and lemmas about sets take their place: a set of numbers has a least one
  (`LeastNumber`), a set of positions is all of them if it goes on from each to
  the one before (`DownInduction`), and a set of texts that holds the empty one
  and is closed under appending a character holds all (`TextInduction`).
  `WalkExists` says that a recursive function over positions that always moves on
  is what its equation says.

Only model-checked: termination (fairness is out of the prover's reach);
`Implements` of `NormalizeSpaces`, a refinement whose abstract steps go by gaps of
varying length, so that each pass would have to be related to a place in another
text; `HyphensByRule` and the pointer bounds of `RewriteHyphens`; `ContentKept`,
`PlaceholdersOnce`, `LineRecoverable` and `SpansSurvive` of `Pipeline`, whose stages are whole
functions that fold over a text and call each other.

## 5. Plan

Done, in this order: `NormalizeSpaces` with its abstract specification and
proofs; `ProtectSpans` with proofs; `CollapseSpellout`; `RewriteHyphens`;
`Punctuation` with proofs; `Pipeline` with `LineFilter` and the refinement proof;
`Bytes` with proof; `Structure`.

Then the proofs about texts: `TextOps`, `ContentKept` of `NormalizeSpaces`, all of
`ProtectSpans` and `CollapseSpellout`, `ChangedOnlyAfterTwoStops` and
`RepeatedByRule`, all safety properties of `Bytes` and of `Structure`.

Next, all of it proofs: the pointer bounds of `RewriteHyphens` and `HyphensByRule`;
`PlaceholdersOnce` and `LineRecoverable` of `Pipeline`, from the theorems on `ProtectSpans`.

## 6. Not modelled, and why

* Sparrowhawk and the libraries under `third/`: third party. Their headers are
  nearly all the lines of the repository (some 258 000 of 259 500), so a share of
  all lines says little; of the two files of the program's own logic,
  `tts_robust_normalizer.cpp` and `main.cpp`, the map covers nearly all that
  executes.
* The compiled grammars and the data tables: generated files and pure data. The
  grammar sources are declarations of weighted transducers, without state or
  steps of their own.
* `ContainsCjk`, `PROT_TAG`, `kClosers`: nothing uses them.
* Logging, the usage message and the wording of output.
* The limit of 32 characters of a mention; lines with two literal placeholders
  in a row; numbers and dates in `Pipeline`, which Sparrowhawk's grammars
  verbalise.
