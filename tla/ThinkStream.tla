----------------------------- MODULE ThinkStream -----------------------------
(***************************************************************************)
(* What becomes of the text a model streams: the two reasoning transports  *)
(* made one (_iter_stream_deltas), the splitter that classifies deltas     *)
(* while they arrive (models/stream.py), and clean_response, which strips  *)
(* the reasoning of the complete text.                                     *)
(*                                                                         *)
(* A text is a sequence of characters.  What is shown is a sequence of     *)
(* characters with their kind: where one fragment ends and the next begins *)
(* is left out.  So is the white space clean_response strips at the ends.  *)
(***************************************************************************)
EXTENDS Naturals, Sequences

CONSTANTS
  Alphabet,   \* the characters of a text
  OpenTag,    \* <think>
  CloseTag,   \* </think>
  QueryLabel  \* CONDENSE_QUERY_LABEL, which a model may echo

Tags == {OpenTag, CloseTag}

\* The first character of a tag, "<", comes in no other place of a tag, and
\* neither tag begins the other: so two tags never overlap.
ASSUME TagsAssumption ==
  /\ Tags \subseteq Seq(Alphabet) \ {<<>>}
  /\ \A tag, other \in Tags : \A i \in 2 .. Len(tag) : tag[i] # other[1]
  /\ \E i \in 1 .. Len(OpenTag) : i <= Len(CloseTag) /\ OpenTag[i] # CloseTag[i]

Upto(text, n) == SubSeq(text, 1, n)
After(text, n) == SubSeq(text, n + 1, Len(text))

\* The tag stands in the text at place i.
Occurs(text, tag, i) ==
  i + Len(tag) - 1 <= Len(text) /\ \A j \in 1 .. Len(tag) : text[i + j - 1] = tag[j]

Places(text, tag, n) == {i \in n + 1 .. Len(text) : Occurs(text, tag, i)}

\* str.find from place n on, counted from 1; 0 when the tag does not occur.
FindAfter(text, tag, n) ==
  IF Places(text, tag, n) = {} THEN 0
  ELSE CHOOSE i \in Places(text, tag, n) : \A j \in Places(text, tag, n) : i <= j

Find(text, tag) == FindAfter(text, tag, 0)

\* Is nothing of a text a tag?
Free(text, tags) == \A tag \in tags : Find(text, tag) = 0

\* The sequences one after the other, up to each of them.
JoinedTo(parts) ==
  LET joined[n \in 0 .. Len(parts)] == IF n = 0 THEN <<>> ELSE joined[n - 1] \o parts[n]
  IN  joined

Join(parts) == JoinedTo(parts)[Len(parts)]

Marked(text, reasoning) == [i \in 1 .. Len(text) |-> <<reasoning, text[i]>>]

-----------------------------------------------------------------------------
(* ThinkStreamSplitter: `shown` is every fragment emitted so far.           *)

NewSplitter == [pending |-> <<>>, reasoning |-> FALSE, orphan |-> FALSE, shown |-> <<>>]

\* Mutant of PartialTagSuffix: only a lone "<" is held back.
LoneBracket(text, tags) ==
  IF text # <<>> /\ \E tag \in tags : text[Len(text)] = tag[1] THEN 1 ELSE 0

\* The longest proper prefix of a tag that the text ends with.
PartialTagSuffix(text, tags) ==
  LET ends == {n \in 1 .. Len(text) : \E tag \in tags :
                 n < Len(tag) /\ \A j \in 1 .. n : text[Len(text) - n + j] = tag[j]}
  IN  IF ends = {} THEN 0 ELSE CHOOSE n \in ends : \A m \in ends : m <= n

\* The first n pending characters are classified under the current state.
Emit(s, n) ==
  [s EXCEPT !.shown = @ \o Marked(Upto(s.pending, n), s.reasoning),
            !.pending = After(@, n)]

\* Emits what cannot be part of a tag to come, keeps the rest pending.
HoldBack(s, tags) == Emit(s, Len(s.pending) - PartialTagSuffix(s.pending, tags))

\* Emits what is before a tag, and drops the tag.
Consume(s, i, tag) == LET before == Emit(s, i - 1) IN [before EXCEPT !.pending = After(@, Len(tag))]

\* Inside a block only the closer means anything.
ScanReasoning(s) ==
  LET i == Find(s.pending, CloseTag)
  IN  IF i = 0 THEN HoldBack(s, {CloseTag})
      ELSE [Consume(s, i, CloseTag) EXCEPT !.reasoning = FALSE]

\* Outside, the opener starts a block and a closer is dropped and flagged.
ScanAnswer(s) ==
  LET open == Find(s.pending, OpenTag)
      close == Find(s.pending, CloseTag)
      opens == open # 0 /\ (close = 0 \/ open < close)
  IN  IF open = 0 /\ close = 0 THEN HoldBack(s, Tags)
      ELSE IF opens THEN [Consume(s, open, OpenTag) EXCEPT !.reasoning = TRUE]
      ELSE [Consume(s, close, CloseTag) EXCEPT !.orphan = TRUE]

ScanOnce(s) == IF s.reasoning THEN ScanReasoning(s) ELSE ScanAnswer(s)

\* The rounds of feed's loop.  One that finds no tag is the last: from it on
\* nothing changes, and each of the others takes a character at least.
Rounds(s) ==
  LET round[n \in 0 .. Len(s.pending)] == IF n = 0 THEN s ELSE ScanOnce(round[n - 1])
  IN  round

Scan(s) == Rounds(s)[Len(s.pending)]

Feed(s, delta) == Scan([s EXCEPT !.pending = @ \o delta])

Finalize(s) == Emit(s, Len(s.pending))

\* The splitter after each delta.
FedTo(deltas) ==
  LET fed[n \in 0 .. Len(deltas)] == IF n = 0 THEN NewSplitter ELSE Feed(fed[n - 1], deltas[n])
  IN  fed

\* generate_answer_stream: feed each delta, then flush.
Split(deltas) == Finalize(FedTo(deltas)[Len(deltas)])

-----------------------------------------------------------------------------
(* clean_response.                                                          *)

\* One substitution of _THINK_BLOCK_RE, the closer not greedy: what is before
\* the block is kept, the search goes on behind it.
RemoveBlock(r, text) ==
  LET open == FindAfter(text, OpenTag, r.at)
      close == IF open = 0 THEN 0 ELSE FindAfter(text, CloseTag, open - 1 + Len(OpenTag))
  IN  IF close = 0 THEN r
      ELSE [kept |-> r.kept \o SubSeq(text, r.at + 1, open - 1), at |-> close - 1 + Len(CloseTag)]

Removals(text) ==
  LET sub[n \in 0 .. Len(text)] ==
        IF n = 0 THEN [kept |-> <<>>, at |-> 0] ELSE RemoveBlock(sub[n - 1], text)
  IN  sub

RemoveBlocks(text) ==
  LET last == Removals(text)[Len(text)] IN last.kept \o After(text, last.at)

RemoveUnclosed(text) ==
  LET open == Find(text, OpenTag) IN IF open = 0 THEN text ELSE Upto(text, open - 1)

CleanResponse(text) ==
  LET cleaned == RemoveUnclosed(RemoveBlocks(text))
      close == Find(cleaned, CloseTag)
  IN  IF close = 0 THEN cleaned ELSE After(cleaned, close - 1 + Len(CloseTag))

-----------------------------------------------------------------------------
(* _iter_stream_deltas: a run of reasoning_content is wrapped in tags of    *)
(* its own, closed when content comes, or at the end.                       *)

Yield(acc, delta) == [acc EXCEPT !.deltas = Append(@, delta)]

YieldReasoning(acc, text) ==
  IF text = <<>> THEN acc
  ELSE Yield(IF acc.thinking THEN acc ELSE [Yield(acc, OpenTag) EXCEPT !.thinking = TRUE], text)

YieldClose(acc) == IF acc.thinking THEN [Yield(acc, CloseTag) EXCEPT !.thinking = FALSE] ELSE acc

YieldContent(acc, text) == IF text = <<>> THEN acc ELSE Yield(YieldClose(acc), text)

NothingYielded == [thinking |-> FALSE, deltas |-> <<>>]

YieldedTo(chunks) ==
  LET yielded[n \in 0 .. Len(chunks)] ==
        IF n = 0 THEN NothingYielded
        ELSE YieldContent(YieldReasoning(yielded[n - 1], chunks[n].reasoning), chunks[n].content)
  IN  yielded

IterStreamDeltas(chunks) == YieldClose(YieldedTo(chunks)[Len(chunks)]).deltas

-----------------------------------------------------------------------------
(* What a text is, by the grammar of blocks alone: read from left to right  *)
(* with the text still ahead.  `skip` is what is left of a tag; `before` is *)
(* the answer up to the last orphaned closer, `said` the answer since.      *)

Unread == [skip |-> 0, reasoning |-> FALSE, orphans |-> 0, shown |-> <<>>,
           before |-> <<>>, said |-> <<>>]

Opened(r) == [r EXCEPT !.skip = Len(OpenTag) - 1, !.reasoning = TRUE]
Closed(r) == [r EXCEPT !.skip = Len(CloseTag) - 1, !.reasoning = FALSE]
Orphaned(r) == [r EXCEPT !.skip = Len(CloseTag) - 1, !.orphans = @ + 1,
                         !.before = @ \o r.said, !.said = <<>>]
Told(r, c) == [r EXCEPT !.shown = Append(@, <<r.reasoning, c>>),
                        !.said = IF r.reasoning THEN @ ELSE Append(@, c)]

Read(r, text, i) ==
  IF r.skip > 0 THEN [r EXCEPT !.skip = @ - 1]
  ELSE IF ~r.reasoning /\ Occurs(text, OpenTag, i) THEN Opened(r)
  ELSE IF ~Occurs(text, CloseTag, i) THEN Told(r, text[i])
  ELSE IF r.reasoning THEN Closed(r) ELSE Orphaned(r)

ReadTo(text) ==
  LET read[n \in 0 .. Len(text)] == IF n = 0 THEN Unread ELSE Read(read[n - 1], text, n)
  IN  read

Reading(text) == ReadTo(text)[Len(text)]

\* However a text is cut into deltas, the splitter classifies every character
\* as the grammar of blocks does, emits no character of a tag, takes nothing
\* back and flags every orphaned closer; and unless two closers were orphaned
\* (clean_response cuts at the first) or what is left around the blocks
\* spells a tag when joined, the answer that is stored is the one shown, less
\* what came before the orphan.
SplitsAlike(deltas) ==
  LET text == Join(deltas)
      r == Reading(text)
      s == Split(deltas)
  IN  /\ s.shown = r.shown /\ (s.orphan <=> r.orphans > 0)
      /\ \A n \in 0 .. Len(deltas) :
           LET shown == FedTo(deltas)[n].shown
           IN  Len(shown) <= Len(r.shown) /\ shown = Upto(r.shown, Len(shown))
      /\ r.orphans <= 1 /\ Free(r.before \o r.said, Tags) => CleanResponse(text) = r.said

\* The two transports agree: reasoning sent in its own field comes out of the
\* splitter as reasoning, content as the answer, in order, and the raw text
\* cleans to the content, as long as the fields themselves spell no tag.
TransportsAgree(chunks) ==
  LET content == Join([i \in 1 .. Len(chunks) |-> chunks[i].content])
      reasoning == Join([i \in 1 .. Len(chunks) |-> chunks[i].reasoning])
      sent == Join([i \in 1 .. Len(chunks) |->
                      Marked(chunks[i].reasoning, TRUE) \o Marked(chunks[i].content, FALSE)])
      deltas == IterStreamDeltas(chunks)
      s == Split(deltas)
  IN  Free(content, Tags) /\ Free(reasoning, {CloseTag}) =>
        /\ s.shown = sent /\ ~s.orphan
        /\ CleanResponse(Join(deltas)) = content
-----------------------------------------------------------------------------
(* CondenseContextEngine.prepare: the query that is searched for in place   *)
(* of the question, when a conversation precedes it.                        *)

ASSUME LabelAssumption == QueryLabel \in Seq(Alphabet)

LastMessages(history, limit) ==
  IF limit = 0 THEN <<>>
  ELSE After(history, IF Len(history) > limit THEN Len(history) - limit ELSE 0)

\* The model's text without its reasoning and an echoed label.
Condensed(reply) ==
  LET cleaned == CleanResponse(reply)
  IN  IF Occurs(cleaned, QueryLabel, 1) THEN After(cleaned, Len(QueryLabel)) ELSE cleaned

\* `reply` is the model's text; a call that fails leaves the question as an
\* empty one does.
Prepare(query, history, reply, settings) ==
  LET condensed == Condensed(reply)
      usable == condensed # <<>> /\ Len(condensed) <= settings.maxChars
  IN  IF settings.enabled /\ LastMessages(history, settings.turns) # <<>> /\ usable
        THEN [search |-> condensed, original |-> query, condensed |-> TRUE]
        ELSE [search |-> query, original |-> query, condensed |-> FALSE]

IsEnd(end, text) == Len(end) <= Len(text) /\ end = After(text, Len(text) - Len(end))

\* Whatever the model answers, the search is for something, no longer than
\* the cap or else the user's own words, opens no reasoning, and is the end
\* of what the model said as its answer, with nothing of what it thought,
\* unless clean_response cut elsewhere than the splitter shows (SplitsAlike);
\* what is answered is the question as asked; the model is told the newest
\* turns; and a first turn is the same turn whether condensing is on or not.
SearchIsClean(query, history, reply, settings) ==
  LET r == Reading(reply)
      turns == LastMessages(history, settings.turns)
  IN  \A p \in {Prepare(query, history, reply, settings)} :
      /\ p.original = query /\ p.search # <<>>
      /\ ~p.condensed => p.search = query
      /\ history = <<>> => ~p.condensed
      /\ p.condensed => Len(p.search) <= settings.maxChars /\ Find(p.search, OpenTag) = 0
      /\ p.condensed /\ r.orphans <= 1 /\ Free(r.before \o r.said, Tags) => IsEnd(p.search, r.said)
      /\ IsEnd(turns, history)
      /\ Len(turns) = (IF Len(history) < settings.turns THEN Len(history) ELSE settings.turns)
=============================================================================
