------------------------------ MODULE Splitting ------------------------------
(***************************************************************************)
(* How a document's text is cut: at headings (chunking/markdown_aware.py), *)
(* where the topic shifts (chunking/semantic.py), into batches for the     *)
(* embedding service (models/embeddings.py); and how a chunk is found      *)
(* again on the pages of its document (preview/locate.py, normalize.py).   *)
(*                                                                         *)
(* Lines are records, segments and words are values compared for equality; *)
(* the recursive splitters of LangChain, which re-split what is longer     *)
(* than CHUNK_SIZE, are external.                                          *)
(***************************************************************************)
EXTENDS Naturals, Integers, Sequences, FiniteSets, SequencesExt, FiniteSetsExt, Functions


CONSTANTS
  Percentile,       \* _BREAKPOINT_PERCENTILE
  NeedleSize,       \* size and stride of snippets
  NeedleStride,
  TrigramMinWords   \* _TRIGRAM_MIN_WORDS

\* Windows of a snippet overlap or touch, and a chunk with trigrams has one.
ASSUME SplittingAssumption ==
  /\ Percentile \in 0 .. 100
  /\ NeedleSize \in Nat /\ NeedleStride \in 1 .. NeedleSize
  /\ TrigramMinWords \in Nat /\ TrigramMinWords >= 3

\* sorted: by the number that goes with each item, equals in their order.
PlaceOf(keys, i) ==
  1 + Cardinality({j \in DOMAIN keys : keys[j] < keys[i] \/ (keys[j] = keys[i] /\ j < i)})
SortedBy(items, keys) ==
  [p \in DOMAIN keys |-> items[CHOOSE i \in DOMAIN keys : PlaceOf(keys, i) = p]]

-----------------------------------------------------------------------------
(* Headings.  A line is [kind, level, mark]: a heading of a level, a fence  *)
(* of a mark, text, or blank; `at` is its place in the document, which      *)
(* stands for its title as well.                                            *)

NoFence == "none"
NewScan == [sections |-> <<>>, path |-> <<>>, lines |-> <<>>, content |-> FALSE,
            fence |-> NoFence]

Flushed(scan) ==
  IF scan.content
  THEN Append(scan.sections, [path |-> scan.path, lines |-> scan.lines])
  ELSE scan.sections

\* Mutant of OpenPath: the heading of the same level stays on the path.
OpenPathBelow(path, level, title) ==
  Append(SubSeq(path, 1, IF Len(path) < level THEN Len(path) ELSE level), title)

\* (*path[: level - 1], title)
OpenPath(path, level, title) ==
  Append(SubSeq(path, 1, IF Len(path) < level - 1 THEN Len(path) ELSE level - 1), title)

\* The fence a line leaves open: only its own mark closes it.
Fence(fence, line) ==
  IF line.kind # "fence" THEN fence
  ELSE IF fence = NoFence THEN line.mark
  ELSE IF fence = line.mark THEN NoFence ELSE fence

\* A heading outside fences closes the section and opens its own.
ScanLine(scan, line, i) ==
  LET fence == Fence(scan.fence, line)
  IN  IF line.kind = "heading" /\ fence = NoFence
      THEN [sections |-> Flushed(scan), path |-> OpenPath(scan.path, line.level, i),
            lines |-> <<i>>, content |-> FALSE, fence |-> fence]
      ELSE [scan EXCEPT !.lines = Append(@, i), !.fence = fence,
                        !.content = @ \/ line.kind # "blank"]

ScannedTo(text) ==
  LET scan[n \in 0 .. Len(text)] == IF n = 0 THEN NewScan ELSE ScanLine(scan[n - 1], text[n], n)
  IN  scan

\* _sections
Sections(text) == Flushed(ScannedTo(text)[Len(text)])

\* A line is a heading when no fence is open at it: an even number of fences
\* of the mark that is open, counted from the outermost one.
FencedTo(text) ==
  LET fence[j \in 0 .. Len(text)] == IF j = 0 THEN NoFence ELSE Fence(fence[j - 1], text[j])
  IN  fence
IsHeading(text, i) ==
  text[i].kind = "heading" /\ FencedTo(text)[i] = NoFence

\* The headings a line is under: every heading not followed, up to the line,
\* by one of its own level or above.
Ancestors(text, i) ==
  {j \in 1 .. i : /\ IsHeading(text, j)
                  /\ \A k \in j + 1 .. i : IsHeading(text, k) => text[k].level > text[j].level}

\* No heading is more than one level below the one it follows, the first
\* heading is of level one.
LevelsInOrder(text) ==
  \A i \in DOMAIN text : IsHeading(text, i) /\ text[i].level > 1 =>
    \E j \in 1 .. i - 1 :
      /\ IsHeading(text, j) /\ text[j].level >= text[i].level - 1
      /\ \A k \in j + 1 .. i - 1 : ~IsHeading(text, k)

\* Every line of content is in exactly one section, in the document's order,
\* under the last heading before it; where levels are not skipped the
\* section's breadcrumb is exactly the headings it is under.  Lines in a
\* fence are content whatever they look like.
SectionsKeepText(text) ==
  LET sections == Sections(text)
      kept == FlattenSeq([s \in DOMAIN sections |-> sections[s].lines])
      heading(i) == Max({0} \cup {j \in 1 .. i : IsHeading(text, j)})
  IN  /\ \A i, j \in DOMAIN kept : i < j => kept[i] < kept[j]
      /\ \A i \in DOMAIN text : text[i].kind # "blank" /\ ~IsHeading(text, i) => i \in Range(kept)
      /\ \A s \in DOMAIN sections : \A i \in Range(sections[s].lines) :
           LET path == sections[s].path IN
           /\ heading(i) = IF path = <<>> THEN 0 ELSE path[Len(path)]
           /\ LevelsInOrder(text) => Range(path) = Ancestors(text, i)

-----------------------------------------------------------------------------
(* Topics.  distances[i] is the distance of segment i from segment i + 1.   *)

\* Percentile of a sample, a hundred times its value, by interpolation
\* between the two closest ranks.
PercentileOf(sample) ==
  LET ordered == SortedBy(sample, sample)
      position == (Len(sample) - 1) * Percentile
      lower == position \div 100
      rest == position % 100
  IN  IF rest = 0 THEN 100 * ordered[lower + 1]
      ELSE 100 * ordered[lower + 1] + (ordered[lower + 2] - ordered[lower + 1]) * rest

\* Mutant of Boundaries: a distance at the threshold cuts as well.
BoundariesAtThreshold(distances) ==
  {i \in DOMAIN distances : 100 * distances[i] >= PercentileOf(distances)}

Boundaries(distances) ==
  {i \in DOMAIN distances : 100 * distances[i] > PercentileOf(distances)}

\* A segment joins the group, which it closes when it is at a boundary.
GroupSegment(g, segment, closes) ==
  IF closes THEN [groups |-> Append(g.groups, Append(g.current, segment)), current |-> <<>>]
  ELSE [g EXCEPT !.current = Append(@, segment)]

GroupedTo(segments, cuts) ==
  LET grouped[n \in 0 .. Len(segments)] ==
        IF n = 0 THEN [groups |-> <<>>, current |-> <<>>]
        ELSE GroupSegment(grouped[n - 1], segments[n], n \in cuts)
  IN  grouped

\* _similarity_groups: fewer than three segments are one group unmeasured.
Groups(segments, distances) ==
  IF segments = <<>> THEN <<>>
  ELSE IF Len(segments) < 3 THEN <<segments>>
  ELSE LET last == GroupedTo(segments, Boundaries(distances))[Len(segments)]
       IN  IF last.current = <<>> THEN last.groups ELSE Append(last.groups, last.current)

\* The groups put together are the segments, none of them empty; a cut is a
\* real outlier: nothing is cut where all shifts are alike, and no distance
\* is cut at while as large a one is not.
GroupsRebuild(segments, distances) ==
  LET groups == Groups(segments, distances)
      cut == {i \in 1 .. Len(segments) - 1 :
                \E g \in DOMAIN groups : i = Len(FlattenSeq(SubSeq(groups, 1, g)))}
  IN  /\ FlattenSeq(groups) = segments
      /\ \A g \in DOMAIN groups : groups[g] # <<>>
      /\ \A i \in cut, j \in DOMAIN distances \ cut : distances[i] > distances[j]
      /\ Len(distances) >= 2 => cut # DOMAIN distances

-----------------------------------------------------------------------------
(* Batches.  An answer of the service is any order of the batch's places.   *)

\* Mutant of EmbedBatch: the vectors in the order they were sent back.
EmbedBatchAsSent(batch, order) == [i \in DOMAIN batch |-> batch[order[i]]]

\* _embed_batch: back into input order by the index each vector carries.
EmbedBatch(batch, order) == SortedBy([i \in DOMAIN batch |-> batch[order[i]]], order)

\* embed_passages: batches of a size, the last one short.
EmbedPassages(texts, size, order) ==
  LET count == (Len(texts) + size - 1) \div size
      batch(b) == SubSeq(texts, (b - 1) * size + 1, IF b * size < Len(texts) THEN b * size ELSE Len(texts))
  IN  FlattenSeq([b \in 1 .. count |-> EmbedBatch(batch(b), order[Len(batch(b))])])

\* Whatever order the service answers in, each text has its own vector (here
\* the text itself): a chunk stored with another chunk's vector is found for
\* the wrong questions and nothing else looks wrong.
VectorsFit(texts, size, order) == EmbedPassages(texts, size, order) = texts

-----------------------------------------------------------------------------
(* Finding a chunk on its pages.  A text is a sequence of words.            *)

\* Mutant of Needles: without the tail window.
NeedlesWithoutTail(sentence) ==
  IF Len(sentence) <= NeedleSize THEN {sentence}
  ELSE {SubSeq(sentence, NeedleStride * i + 1, NeedleStride * i + NeedleSize) :
          i \in 0 .. (Len(sentence) - NeedleSize) \div NeedleStride}

\* snippets of one sentence: windows every stride, and one at its end.
Needles(sentence) ==
  IF Len(sentence) <= NeedleSize THEN {sentence}
  ELSE {SubSeq(sentence, NeedleStride * i + 1, NeedleStride * i + NeedleSize) :
          i \in 0 .. (Len(sentence) - NeedleSize) \div NeedleStride}
       \cup {SubSeq(sentence, Len(sentence) - NeedleSize + 1, Len(sentence))}

Grams(words, trigrams) ==
  IF trigrams THEN {SubSeq(words, i, i + 2) : i \in 1 .. Len(words) - 2}
  ELSE {<<w>> : w \in Range(words)}

\* How much of the chunk is on a page: grams shared, out of all of them.
Shared(chunk, page) ==
  LET trigrams == Len(chunk) >= TrigramMinWords
  IN  Cardinality(Grams(chunk, trigrams) \cap Grams(page, trigrams))

\* _best_page: the lowest page that shares most, 0 for none.
BestPage(chunk, pages) ==
  LET most == Max({0} \cup {Shared(chunk, pages[p]) : p \in DOMAIN pages})
  IN  IF most = 0 THEN 0 ELSE Min({p \in DOMAIN pages : Shared(chunk, pages[p]) = most})

StandsOn(page, words) ==
  \E i \in 0 .. Len(page) - Len(words) : SubSeq(page, i + 1, i + Len(words)) = words

\* A chunk that stands on a page is located, with nothing of it missing, on
\* that page or an earlier one that has all of its grams; and there every
\* word of it lies under a needle that pdfium finds.
ChunkIsFound(chunk, pages) ==
  LET best == BestPage(chunk, pages)
      covered == {i \in DOMAIN chunk :
                    \E needle \in Needles(chunk), j \in 0 .. Len(chunk) - 1 :
                      /\ j + Len(needle) <= Len(chunk) /\ i \in j + 1 .. j + Len(needle)
                      /\ SubSeq(chunk, j + 1, j + Len(needle)) = needle}
  IN  \A p \in DOMAIN pages : chunk # <<>> /\ StandsOn(pages[p], chunk) =>
        /\ best \in 1 .. p
        /\ Shared(chunk, pages[best]) = Shared(chunk, chunk)
        /\ covered = DOMAIN chunk
=============================================================================
