----------------------------- MODULE Transcripts -----------------------------
(***************************************************************************)
(* What the graph engine is given to index: the pure functions of          *)
(* varagity/graph/render.py and apply_bounds of api/graph_runner.py.       *)
(*                                                                         *)
(* A message (guid) is a natural number, numbered in (timestamp, guid)     *)
(* order; a version stands for what it says.  A batch - one parsed source  *)
(* file - and a message stream are functions from messages to versions.    *)
(* All the messages are of one thread: packing, keys and every decision    *)
(* built on them are per thread.  A message renders to one line of unit    *)
(* length, so a block's size is its number of messages.                    *)
(***************************************************************************)
EXTENDS Naturals, Sequences, FiniteSets

CONSTANTS
  Messages,  \* guids, in (timestamp, guid) order
  DayOf,     \* the UTC day of each message's timestamp
  MaxChars   \* DEFAULT_TRANSCRIPT_MAX_CHARS, in lines

ASSUME TranscriptsAssumption ==
  /\ Messages \subseteq Nat /\ IsFiniteSet(Messages)
  /\ DayOf \in [Messages -> Nat \ {0}]
  /\ \A m, n \in Messages : m <= n => DayOf[m] <= DayOf[n]
  /\ MaxChars \in Nat \ {0}

-----------------------------------------------------------------------------
(* merge_batches: batches are numbered in the order they are listed *)

\* Union by guid; the first batch that holds a message decides its version.
MergeBatches(batches) ==
  LET Holding(m) == {i \in DOMAIN batches : m \in DOMAIN batches[i]}
      First(m) == CHOOSE i \in Holding(m) : \A j \in Holding(m) : i <= j
  IN  [m \in UNION {DOMAIN batches[i] : i \in DOMAIN batches} |-> batches[First(m)][m]]

-----------------------------------------------------------------------------
(* thread_transcripts *)

Days(messages) == {DayOf[m] : m \in DOMAIN messages}
OnDays(messages, days) == {m \in DOMAIN messages : DayOf[m] \in days}
Size(messages, days) == Cardinality(OnDays(messages, days))

\* Mutant of OpenDoc: packs from the newest day backwards.
OpenDocFromNewest(messages) ==
  LET last[day \in Nat] ==
        IF \A other \in Days(messages) : other < day THEN 0
        ELSE LET open == last[day + 1]
             IN  IF day \notin Days(messages) \/ (open # 0 /\ Size(messages, day..open) <= MaxChars)
                   THEN open ELSE day
  IN  last

\* The first day of the document a day goes into: that which is open, unless
\* the day would overflow it, or the day's own.
OpenAfter(messages, open, day) ==
  IF open # 0 /\ Size(messages, open..day) <= MaxChars THEN open ELSE day

\* The first day of the document that is open once a day has been taken; 0
\* before there is one.
OpenDoc(messages) ==
  LET first[day \in Nat] ==
        IF day = 0 THEN 0
        ELSE IF day \notin Days(messages) THEN first[day - 1]
        ELSE OpenAfter(messages, first[day - 1], day)
  IN  first

Packs(messages) ==
  LET open == OpenDoc(messages)
  IN  {{day \in Days(messages) : open[day] = first} : first \in {open[day] : day \in Days(messages)}}

\* doc_key is the day span: the first day and the last.
DocKey(days) ==
  CHOOSE key \in days \X days : \A day \in days : key[1] <= day /\ day <= key[2]

\* The documents by key; text and message_guids are the messages' content.
ThreadTranscripts(messages) ==
  LET packs == Packs(messages)
      Pack(key) == CHOOSE days \in packs : DocKey(days) = key
  IN  [key \in {DocKey(days) : days \in packs} |->
         [m \in OnDays(messages, Pack(key)) |-> messages[m]]]

-----------------------------------------------------------------------------
(* What the documents promise *)

InSpan(m, key) == key[1] <= DayOf[m] /\ DayOf[m] <= key[2]

\* Every message is in the one document whose day span contains it, spans do
\* not overlap, and no day is split in two.
KeysNameContent(messages) ==
  LET docs == ThreadTranscripts(messages)
  IN  /\ \A m \in DOMAIN messages : \E key \in DOMAIN docs : m \in DOMAIN docs[key]
      /\ \A key, other \in DOMAIN docs :
           key # other => key[2] < other[1] \/ other[2] < key[1]
      /\ \A key \in DOMAIN docs :
           DOMAIN docs[key] = {m \in DOMAIN messages : InSpan(m, key)}

\* No document is over the cap unless it is a single day, and none could have
\* taken the next document's first day as well.
TightlyPacked(messages) ==
  LET docs == ThreadTranscripts(messages)
  IN  \A key \in DOMAIN docs :
        /\ Cardinality(DOMAIN docs[key]) <= MaxChars \/ key[1] = key[2]
        /\ \A later \in DOMAIN docs :
             key[2] < later[1] => Size(messages, key[1]..later[1]) > MaxChars

\* A stream that only gained messages at its newest end...
GrownAtTail(old, new) ==
  /\ DOMAIN old \subseteq DOMAIN new /\ \A m \in DOMAIN old : new[m] = old[m]
  /\ \A m \in DOMAIN new \ DOMAIN old, n \in DOMAIN old : n < m

\* ...has every document but the last under its old key with its old text.
KeepsDocs(old, new) ==
  LET was == ThreadTranscripts(old)
      is == ThreadTranscripts(new)
  IN  \A key, later \in DOMAIN was : key[2] < later[1] =>
        key \in DOMAIN is /\ is[key] = was[key]

-----------------------------------------------------------------------------
(* apply_bounds: 0 stands for a since / message_limit of None *)

Bounded(bound) == bound.since # 0 \/ bound.limit # 0

\* What of the batches is kept; a batch left with nothing is dropped.
Narrowed(batches, kept) ==
  [i \in {j \in DOMAIN batches : DOMAIN batches[j] \cap kept # {}} |->
     [m \in DOMAIN batches[i] \cap kept |-> batches[i][m]]]

\* Mutant of ApplyBounds: since cuts between two messages of a day.
SinceMidDay(batches, bound) ==
  Narrowed(batches, {m \in Messages : bound.since # 0 => m > bound.since})

ApplyBounds(batches, bound) ==
  LET InRange(m) == DayOf[m] >= bound.since
      \* every batch's copy of a message is an entry of the sorted list
      Newer(m) == {e \in Messages \X DOMAIN batches :
                     e[1] > m /\ e[1] \in DOMAIN batches[e[2]] /\ InRange(e[1])}
  IN  Narrowed(batches, {m \in Messages : InRange(m) /\
        (bound.limit # 0 => Cardinality(Newer(m)) < bound.limit)})

\* What a bounded build is to render.
Window(batches, bound) == MergeBatches(ApplyBounds(batches, bound))

\* A window is a set of newest messages in range, at most message_limit of
\* them, and not empty when there are any.
KeepsNewest(batches, bound) ==
  LET inRange == {m \in DOMAIN MergeBatches(batches) : DayOf[m] >= bound.since}
      window == DOMAIN Window(batches, bound)
  IN  /\ window \subseteq inRange
      /\ bound.limit # 0 => Cardinality(window) <= bound.limit
      /\ \A m \in window, n \in inRange : n >= m => n \in window
      /\ inRange # {} => window # {}

\* Two windows that both render a key render it alike.
WindowsAgree(batches, bound, other) ==
  LET docs == ThreadTranscripts(Window(batches, bound))
      others == ThreadTranscripts(Window(batches, other))
  IN  \A key \in DOMAIN docs \cap DOMAIN others : docs[key] = others[key]
=============================================================================
