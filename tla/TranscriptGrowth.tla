-------------------------- MODULE TranscriptGrowth --------------------------
(***************************************************************************)
(* One conversation whose exports grow, in every window a build may take   *)
(* of it: the setting in which the renderer's and apply_bounds' promises   *)
(* can be stated.  The steps are the environment's; what is checked are    *)
(* the pure functions of module Transcripts.                               *)
(***************************************************************************)
EXTENDS Transcripts

CONSTANTS Windows  \* what a build may be asked to render of the corpus

ASSUME WindowsAssumption ==
  \A bound \in Windows : bound.since \in Nat /\ bound.limit \in Nat

VARIABLE exports  \* the parsed source files, in scan order

AnyExport == UNION {[S -> {0}] : S \in SUBSET Messages}

NoExports == exports = <<>>

\* Another export of the database is uploaded.
Upload(export) ==
  /\ Len(exports) < 2
  /\ exports' = Append(exports, export)

\* The newest file is exported again with one more message.
ExportAgain(m) ==
  /\ exports # <<>> /\ m \notin DOMAIN exports[Len(exports)]
  /\ exports' = [exports EXCEPT ![Len(exports)] =
       [n \in DOMAIN @ \cup {m} |-> 0]]

GrowthNext ==
  \/ \E export \in AnyExport : Upload(export)
  \/ \E m \in Messages : ExportAgain(m)

GrowthSpec == NoExports /\ [][GrowthNext]_exports

-----------------------------------------------------------------------------

Conversation == MergeBatches(exports)
Docs == ThreadTranscripts(Conversation)

\* thread_transcripts: every merged message is in the one document whose
\* day span contains it, spans do not overlap, and no day is split in two -
\* so a document key names the same messages in every render of one corpus.
KeyNamesContent == KeysNameContent(Conversation)

\* ... no document is over the cap unless it is a single day, and none could
\* have taken the next document's first day as well.
PackedTightly == TightlyPacked(Conversation)

\* An export that only gained messages at its newest end re-renders every
\* document but the last under its old key with its old text: the rest of an
\* archive costs no extraction when the database grows (render.py's "the same
\* thread-days always produce the same doc_key and the same text").
TailGrowthKeepsDocs ==
  [][GrownAtTail(Conversation, Conversation') => KeepsDocs(Conversation, Conversation')]_exports

\* A date floor cuts on a day boundary: two windows of one corpus that both
\* render a key render it alike.  (A message_limit may cut a day in two.)
SinceKeepsContent ==
  \A bound, other \in Windows :
    bound.limit = 0 /\ other.limit = 0 => WindowsAgree(exports, bound, other)

\* The docstring of apply_bounds on message_limit: "The cap applies to the
\* batches' merged timestamp order, so it means "N messages", not "N per
\* file"."
LimitMeansMessages ==
  \A bound \in Windows :
    LET inRange == {m \in DOMAIN Conversation : DayOf[m] >= bound.since}
        window == DOMAIN Window(exports, bound)
    IN  bound.limit # 0 => (Cardinality(window) = bound.limit \/ window = inRange)

\* What the code does guarantee: the window is a set of newest messages in
\* range, at most message_limit of them, and never empty when there are any.
LimitKeepsNewest == \A bound \in Windows : KeepsNewest(exports, bound)
-----------------------------------------------------------------------------
(* guids_in_payload: from what the engine cites back to messages.  A string *)
(* of a payload is the keys joined in it, and whether it is nothing else    *)
(* than a key.                                                              *)

\* Is the key a substring of the other: of its thread and span, only a day
\* is one of the span it begins.
Within(key, other) == key = other \/ (key[1] = key[2] /\ key[1] = other[1])

\* Mutant of KeysInText: of two keys, the shorter one is kept.
ShortestKeysInText(text, keys) ==
  LET hits == {key \in keys : \E cited \in text.cites : Within(key, cited)}
  IN  IF text.bare /\ text.cites \subseteq keys THEN text.cites
      ELSE {key \in hits : \A other \in hits : other = key \/ ~Within(other, key)}

KeysInText(text, keys) ==
  LET hits == {key \in keys : \E cited \in text.cites : Within(key, cited)}
  IN  IF text.bare /\ text.cites \subseteq keys THEN text.cites
      ELSE {key \in hits : \A other \in hits : other = key \/ ~Within(key, other)}

GuidsInPayload(payload, index) ==
  UNION {index[key] : key \in UNION {KeysInText(text, DOMAIN index) : text \in payload}}

\* doc_guid_index of a workdir with documents an earlier build left there.
GuidIndex(older, newer) ==
  [key \in DOMAIN older \cup DOMAIN newer |->
     IF key \in DOMAIN newer THEN DOMAIN newer[key] ELSE DOMAIN older[key]]

\* A citation of documents of one render names their messages, neither more
\* nor fewer, in a workdir that still has documents of an earlier export,
\* packed differently, so that one key begins another; a path around a key, or
\* several joined, do as well as the bare key.  (Joined with a key it begins,
\* a key is taken for a part of that one.)
CitationsResolve ==
  \A n \in 0 .. Len(exports) :
    LET older == ThreadTranscripts(MergeBatches(SubSeq(exports, 1, n)))
        index == GuidIndex(older, Docs)
    IN  \A cited \in (SUBSET DOMAIN older) \cup (SUBSET DOMAIN Docs) : cited # {} =>
          LET messages == UNION {index[key] : key \in cited}
          IN  /\ GuidsInPayload({[bare |-> FALSE, cites |-> cited]}, index) = messages
              /\ GuidsInPayload({[bare |-> TRUE, cites |-> {key}] : key \in cited}, index) = messages

\* The documents of a corpus in every window of it, and their citations.
TranscriptsHold ==
  /\ KeyNamesContent /\ PackedTightly
  /\ SinceKeepsContent /\ LimitKeepsNewest
  /\ CitationsResolve
=============================================================================
