# A verification model of Varagity

TLA+ modules, TLC runs and TLAPS proofs for Varagity, a local
retrieval-augmented chat system: a FastAPI process (`src/varagity`) that
ingests a document corpus into Postgres/pgvector and Elasticsearch, builds a
knowledge graph of exported conversations with an external engine (LightRAG),
answers questions over either, and streams every job's progress to a web
client. Paths below are relative to `src/varagity` unless they start with `src/`.

`PROJECT.json` lists the components, the runs, the code lines each definition
stands for, the hazards and the theorems.

## Inventory

Parts with state that outlives a call:

| part | state | operations | what must hold |
| --- | --- | --- | --- |
| ingest runner, `api/ingest_runner.py` | the current run, the event log, the subscribers; the level and handlers of a logger | `start`, `subscribe`, `_emit`, `_close_feed`, `_execute` on a thread | one run at a time; every client sees every frame once; streams end; logging is put back |
| graph build runner, `api/graph_runner.py` | the same, and a sampler thread per run | the same, scan, bound, reset | the same with two emitting threads and a sampler that may hang |
| engine adapter and manifest, `graph/engines/lightrag.py`, `graph/manifest.py` | the engine's documents, the manifest in memory and on disk | `build`, `resume`, `delete_documents`, crash, restart | the manifest tells what the engine holds; builds converge; bounded builds lose nothing |
| graph service, `graph/service.py` | the one session, the open lock, the write lock | reads, writes, `close`; opening, draining and stopping a session's loop | no session leaked or handed out closed; one writer; reads never wait for a build |
| ingestion and document stores, `ingest/loader.py`, `stores/` | `documents` and `chunks` tables, the BM25 index | a run's per-file steps and failures | what is listed is searchable; indices are unique; failures are retried |
| document and graph routes, `api/routes/documents.py`, `graph.py`; previews, `preview/` | the files, the partial files, the cache of converted decks | upload in slices, delete, preview | a path holds a whole upload; a refused batch leaves nothing; a preview shows what is indexed |
| runtime settings, `api/routes/settings.py`, `api/runtime_settings.py`, `stores/app_settings_store.py`, `get_settings` | the process environment, the snapshots under it, the active overrides, the table, the cached settings, the stale flag | PATCH, GET, restart | the environment is exactly the overrides; process and table agree; the flag says when a reingest is due |
| chat turns, `api/routes/chat.py`, `api/streaming.py`, `pipeline/query_flow.py`, `graph_flow.py` | a queue and an abort flag per turn | preflight, flow on a thread, frames, abort, persist, title | one wire protocol whoever finishes first; what was answered is what is stored; nothing of an abandoned turn |
| conversations, `stores/conversation_store.py` | conversations, messages, groups | create, append, read, title, move, delete | a turn is stored whole and in one place |

Parts that compute, and keep nothing:

| part | what must hold |
| --- | --- |
| transcript renderer, `graph/render.py` | keys name content; growth re-keys only what it must; a citation names its messages |
| retrieval, `retrieval/` | ranks, scores and traces tell the truth even when the stores disagree; every accepted configuration serves every method |
| chunking, embedding batches, `chunking/`, `models/embeddings.py`; locating a chunk on its page, `preview/locate.py` | no text lost, doubled or given another's vector; a chunk is found where it stands |
| discovery and parsers, `ingest/discovery.py`, `ingest/parsers/`; message databases, `graph/sources/imessage.py` | every known file read once; a scan never taken for a digital document; a message with the reactions that stand |
| streaming and cleaning of answers, `models/stream.py`, `models/llm.py`; condensing, `chat/condense.py` | the streamed and the stored answer are the same; reasoning never searched for |
| prompt budgets, `graph/answer.py`, `context/contextual.py`, `models/llm.py` | a prompt fits its window and leaves room to answer |
| configuration, `config.py` | what the validators accept, the components can run with |
| evaluation, `eval/` | a reported number was measured on what its label says |
| migrations, observability, command line, web client | see *Not modelled* |

How they interact: a route starts a runner's thread; the thread calls the
orchestrator (and through it the stores) or the graph service (and through it a
session and its loop thread); every stage and every INFO log line comes back
through `_emit` to the queues of the clients' generators, which live on the
event loop. A chat request runs its flow in a worker thread, which reads the
stores or the graph and dispatches events through a bridge to the request's
generator; that generator writes the frames and persists the turn. The stale
flags are raised by the routes and cleared by a runner's completion hook.
Everybody reads settings that a PATCH may be changing. What is hard: three kinds
of thread around one lock; work done after a lock is released; two stores with
no common transaction; an engine that silently ignores a document it already
knows; a process that dies during builds that take days; reads that must not
wait for them; a client that leaves at any moment; files replaced between two
reads; an environment changed name by name.

## Modules

| module | models | used by |
| --- | --- | --- |
| `SingleFlight` | abstract: one job at a time claims, works, ends, releases | `RunFeed` implements it (`SlotSpec`) |
| `RunFeed` | both runners and their feeds | `MCRunFeed`, `RunFeedProofs` |
| `Transcripts` | `merge_batches`, `thread_transcripts`, `apply_bounds` as operators | `TranscriptGrowth`, `GraphBuild` |
| `TranscriptGrowth` | an environment in which exports arrive and grow, seen through every window; citations | `Computations`, `GraphBuildProofs` |
| `GraphBuild` | the upsert of a corpus into the engine, manifest, reset, crash | `MCGraphBuild`, `GraphBuildProofs` |
| `GraphService` | the session's owner, the session's life, reset and shutdown | run `service`, `GraphServiceProofs` |
| `CorpusIngest` | the chunk corpus: runs, uploads, deletes, settings, crash | `MCCorpusIngest`, `CorpusIngestProofs` |
| `Library` | the files: uploads by slices, the two reads of an ingest, previews, deletion, crash | `MCLibrary`, `LibraryProofs` |
| `Settings` | overrides, environment, cache and table under concurrent requests | `MCSettings`, `SettingsProofs` |
| `Conversations` | the conversation tables, each statement as an operator | `ChatTurn` |
| `ChatTurn` | chat requests, their workers, bridges and writes | `MCChatTurn`, `ChatTurnProofs` |
| `ThinkStream` | transports, reasoning splitter, cleaning, condensing | `Computations` |
| `Grounding` | packing evidence into a budget | `Configuration` |
| `Retrieval` | the retrieval methods, fusion, reranking, HyDE | `Configuration` |
| `Extraction` | discovery, OCR decisions, message databases | `Configuration` |
| `Configuration` | the validators, and the components under what they accept | `Computations` |
| `Splitting` | sections, topic groups, embedding batches, page location | `Computations` |
| `Evaluation` | metrics, pinned measurements, graph evaluations | `Computations` |
| `Computations` | an environment in which the inputs of the pure functions grow | `MCComputations`, `ComputationProofs` |

`MC*` modules give the constants small values; `*Proofs` modules hold theorems.
The modules meet where the code has a contract. `RunFeed` shows that one run
works at a time, which `GraphBuild` and `CorpusIngest` start from;
`GraphService` shows that its own write lock does the same for calls that bypass
the runner. `GraphBuild` extends `Transcripts`, so a build runs on what the
renderer really produces. `ChatTurn` writes to the tables of `Conversations`,
and `Configuration` puts the retrieval methods, the budgets and the OCR decision
under every setting the validators let pass. `CorpusIngest` and `Library` look
at the same corpus from two sides: the first keeps two stores and one step per
store call, and files are replaced at once; the second keeps the bytes of a file
and one store.

A definition followed by "Mutant of" in its comment is a plausible bug of the
definition after it. It is no part of any specification: it serves to show that
the property checked against it can fail.

### RunFeed

One action per critical section of `self._lock`, and one per stretch of code
between two of them that another thread can see. `_emit` is two actions, the
append with the snapshot of the subscribers (`Append1`) and the
`call_soon_threadsafe` calls after the lock (`Push`); `_close_feed` likewise
(`CloseFeed`, `SignalEnd`). `_execute` is read the level, pin it, run the flow,
settle, restore, emit the terminal frame, close. Since `state` is terminal four
steps before the thread is done, the next `start()` may overlap them: two
threads share log, subscribers and logger, which is why `feed_restart` has two
runs. Before it settles, the worker of a graph build asks the engine for its
documents' statuses (`Summarize`), in the same call, without a timeout, that its
sampler makes. A flow logs as well as it emits; a record goes to every relay handler
then on the logger, so overlapping runs relay each other's records.
`Sampled = TRUE` adds the graph runner's status sampler.

A frame is its rank in emission order, its run, its thread and its kind.
Payloads are left out, and so is `QueueFull`: the queues are unbounded.

### Transcripts, TranscriptGrowth

A message is a number in `(timestamp, guid)` order, with a day and a version of
its text; a batch is a function from messages to versions, and the batches are
numbered as the files are listed; a document is its key (first and last day) and
its messages. Lines have unit length, so `MaxChars` counts messages, and there
is one thread, since nothing in the renderer relates two. `merge_batches` keeps
the first copy of a message, and a `message_limit` counts the copies in every
batch, as the code's list of `(batch, message)` pairs does. The packing loop is
`OpenDoc`, a function over the days by recursion: the first day of the document
that is open once a day has been taken. `KeysNameContent`, `TightlyPacked`,
`KeepsDocs`, `WindowsAgree` and `KeepsNewest` say what the renderer promises of
any stream of messages and any window. A citation is found by
searching for keys in what the engine hands back: a key of one day is a
substring of the key of a span that begins with it, the longest match is kept,
and the documents of an earlier build may still be indexed under other keys.

### GraphBuild

The one writer of a workdir. `store` is the engine: documents by key, extracted
or not. The engine is external and modelled from how the adapter uses it: an
enqueue of a known id is ignored (the comment at lightrag.py:673-675 and the
tests rely on it), a pass extracts what is pending or raises, a delete removes
or is refused. `manifest` is the session's copy, `sidecar` the file. A build is
`Scan`, perhaps `RemoveEntry` and `Reopen`, `Diff`, `Delete` one by one,
`Enqueue` in chunks, `Process`, `Extract`, `FinishBuild`. `Kill` at any point
starts again from the sidecar.

### GraphService

A call is a thread in one of its phases. `session()` with its lock held across
the open is `Session`, `Open`, `Initialized` or `OpenFails`; `run()` is the
check of `_closed` (`Call`) and the submission (`Submit`), which are not one
step; `close()` is `Swap`, `Finalize`, `Drain`, `Stop`. A write is any number of
such calls, under the write lock, until it saves its manifest (`EndWrite`). A
call that fails (on a closed session, or cancelled by the drain) fails one
document or pass of it: `_delete`, `_enqueue` and `_process` catch whatever it
raises, so the write goes on, and still has the lock. The drain cancels what is
on the loop, but for coroutines that do not die within its timeout; a call
submitted after it is never run. `Engine` are the waits without a timeout.
`shared` stands for the
engine's process-global dictionaries, attached to by the first session that
finds them empty and reset by a close. Session objects are reused once nothing
refers to them.

### CorpusIngest

A run takes its files one by one: hash, look up and skip (`Take`; the lookup may
raise, `TakeFails`), the reingest's two deletes, parse and chunk (`Parse`), the write to Elasticsearch, the transaction
in Postgres. Each store call may fail; a bulk may fail half way, and so may a
delete in Elasticsearch, a `delete_by_query`, which can raise with any part of
the chunks gone; a transaction of Postgres that fails has not committed. A failed store
task may be retried by Prefect, or not, and then the file fails and the run goes
on. A request is a few steps too: delete is look up, Elasticsearch, Postgres,
unlink; a PATCH is apply to the process, persist, flag. `Kill` may happen
anywhere; a restart loads the persisted override. What a text is chunked into
depends on its version and on the settings, so chunk counts change with both.
`torn` (listed documents that a failed deletion took chunks from), `handled`,
`known` (those of them that were listed when the run came to them) and `failed`
are history variables: properties only.

### Library

A path holds an inode, since a writer keeps writing to the file it opened
whatever becomes of its name: two uploads of one name share the
`.upload-partial` file. An upload is a batch of parts; a part is screened,
written slice by slice under three caps, moved, and on failure cleaned up; a
graph source is sniffed after it was stored (`Sniff`), and unlinked if nothing
reads it (`RemoveUnread`), by name; the sidecars of a database, stored without
being probed, are left out. An ingest hashes a file and later
reads it again. A preview looks a document up, checks its file's hash, then
opens the file or converts it through the cache, whose lock is per hash.
Deletion is list, delete the rows, unlink. `Scenarios` says who takes part; a
kill drops everything in flight and leaves partial files behind. `history` says
when the paths of a name overlapped or a file changed between two reads.

### Settings

A PATCH reads the active overrides without the lock, merges its own, takes the
lock, swaps the environment name by name (`Swap`, with the snapshots that
clearing needs), clears the cache, validates the settings that result
(`Miss`, `Build`, `Reject`), commits or swaps back, releases, and writes its
rows one by one, rolling the process back when a write fails. Any other request
is a `get_settings()` at any of these moments, which may fill the cache from an
environment that is half swapped. It reads the environment in one step (`Miss`),
where pydantic reads name by name: a mixture that no moment of the swap has is
left out. A restart replays the table. `apart` remembers
that PATCHes overlapped, failed or died.

### Conversations, ChatTurn

`Conversations` has one operator per statement or transaction of the store.
`ChatTurn` has, per turn, the request (preflight, first pull, frames, outcome,
persist, `done`), the worker thread (condense, retrieve, generate with its polls
of `should_abort`, the finally that closes the bridge), the queue between them,
and the background title. The flow reads deltas; each is polled for before it is
fed to the splitter (`Poll`), which returns no fragment, one or several, each
dispatched on its own (`Dispatch`); when the stream ends, what the splitter held
back goes out as well, without another poll (`Finalize`; the code holds at most
one fragment, the model allows more). The abort flag is set by the stream's
finally, when the stream ends or a disconnect cancels it, also while the
shielded writes run (the turn is then written, untitled and without `done`:
`dropped`); the worker runs on until its next poll. `late` is a history variable:
what the flow still did after the abort. Decoding statistics, which are frames of
no consequence, are left out. `outcome` is
what the flow returned, `plan` the settings the preflight captured: what is
stored is written from `plan`, not from the settings of the moment. Text is left
out: a question, an answer and a title are their turn.

### The pure functions

`ThinkStream`, `Grounding`, `Retrieval`, `Extraction`, `Splitting`,
`Configuration` and `Evaluation` translate functions to operators, each followed
by the formula that relates it to a reference of its own: the splitter to the
grammar of blocks, fusion to the sum of its arms, an extraction's label to the
pass it came from. `Computations` grows their inputs piece by piece, so that a
behaviour is an input that becomes longer, and its invariants join the formulas
by what they are about. How long an input may become (`Bound`), the alphabet and
the tags, the excerpts, the budgets and the prompts, heading levels, distances,
words and the sizes of batches and snippets are constants, to which
`MCComputations` and `computations.cfg` give values. `sorted` is `SortedBy`: an
item goes to the place that counts the smaller ones and the equal ones before it.

Numbers are scaled where the code has fractions: weights and ratios are in
tenths, a fused score is in twelfths, a length of text counts characters and a
template's length is a constant. A model's reply, a file's pages, a ranking of
either store are inputs, chosen freely; only what the code makes of them is
computed.

## Runs

Bounds are chosen so that each interesting interleaving has room once.

| run | instance | shows |
| --- | --- | --- |
| `feed_restart` | 2 runs, 1 client, 1 emission per flow, no sampler | `NoDuplicate`, `NoGap`; `SlotSpec`. Two runs are the least that overlap, one client is enough since clients do not affect each other |
| `feed_graph` | 1 run with sampler and summary, 2 clients, 1 emission, 1 sample, fairness | `ThreadOrder`, `ClosedAfterTerminal`, `LoggingRestored`; `StreamsEnd`, `RunsSettle` |
| `build_upsert` | 2 files, 3 days, date windows, 2 edits, 2 faults of delete, process | `ManifestMirrorsGraph`, `NoGhosts`, `NeverDeletesUnrendered` |
| `build_kill` | 1 file, full builds, 2 edits, 3 faults of kill, delete, save | `CleanBuildIsCurrent` after crashes |
| `service` | a reader, a build, a reingest, a shutdown, 4 sessions, fairness | `NoLeakedSession`, `HandsOutOpen`, `WriteLock`; `ReadsAnswered`. Four sessions are as many as four calls can hold |
| `ingest` | 2 files, a text and an empty one, 2 settings, 2 runs, 2 requests, 1 fault of stage, es, pg, persist, kill | `MarkedIsSearchable`, `IndexUnique`, `FailedIsRetried`, `ReingestApplies` |
| `chat` | 1 turn on either corpus in either mode, 2 deltas, 2 fragments dispatched (`MaxFragments`), 1 fault, 1 edit by somebody else, a history of 2, fairness | the six properties of a turn. Two deltas are the least with a poll between them, two fragments the least that one delta, or the end of the stream, sends after another; turns meet only in the store, where the edits stand for the others |
| `settings` | 2 requests, 3 names of which two must sum to one, 5 bodies, 1 failed write, 1 restart, fairness | `EnvironmentIsActive`, `TableIsActive`, `RequestsEnd`. Two requests are a PATCH and whoever gets between its steps |
| `library` | scenarios of 1 or 2 uploads of up to 3 parts, up to 2 slices accepted, a total of 4, with an ingest run, a deletion, 1 or 2 previews and a fault | `FilesAreWhole`, `RefusedLeavesNothing`, `ShownIsIngested`. A second slice is what a cap, a fault or another upload can come before |
| `computations` | inputs that grow: texts of 6 characters, 3 deltas per transport, 5 lines, 5 words, 3 excerpts, corpora of 4 chunks, 3 pages, 5 rows of a message database, 6 messages on days 1, 1, 2, 4, 4, 4 in documents of 2 | eight properties, each the conjunction of what the pure functions of one area promise. A text of 6 holds a block and a stray tag; 3 ranks in each arm can disagree, tie and lose a chunk |
| `build_window` | violation of `NeverDeletesUnrendered` | see below |
| `chat_split` | violation of `TurnIsAtomic` | see below |

Fairness is asked for where the code's scheduling gives it, and for nothing that
waits without a timeout.

- `RunFeed`: threads that can take a step are scheduled, and a generator on the
  event loop is resumed when there is something on its queue. No fairness for
  the flow, nor for the engine call of the summary or of the sampler: each may
  hang, and `StreamsEnd` and `RunsSettle` say so (`AtEngine`).
- `GraphService`: threads are scheduled, an open comes to an end (it runs the
  engine's initialisation without a timeout: that it does end is assumed), and a
  read's coroutine completes as long as its loop runs. No fairness for a build's
  coroutines, nor for those of a close.
- `ChatTurn`: the request and the worker keep moving, since the model server
  stops at `max_tokens`, the clients of Postgres, Elasticsearch and the models
  answer or fail, and the event loop runs what is ready; but for the wait for a
  graph session (`Opening`) and the graph's retrieval (`Retrieving`), a `result()`
  without a timeout (graph_flow.py:147, lightrag.py:657).
- `Settings`: each thread runs on, and who gets a contended lock is left open.

None is assumed for starting a run, subscribing or hanging up, for the step by
which an attached client leaves of its own will, for a title, or for a failure.

Deadlock is checked except where the system may stop because everything it was
asked for is done: in `CorpusIngest`, `GraphService`, `ChatTurn`, `Settings` and
`Library`, where all requests may have been answered, and in `Computations`,
where an input has its full length. `RunFeed` states that it has stopped
(`Quiet`).

### What the properties leave out, and why

Several properties are checked with the faults that would falsify them left
out, because the code does not survive those faults; each has a configuration
that shows it. They are no runs of the project but are kept beside it: `tlc
-config <name>.cfg <MC module>` (`service_reset.cfg` with `GraphService`
itself). Where a configuration lists several invariants,
each can be tried by itself, or all with `-continue`.

- `ManifestMirrorsGraph` in `build_upsert`: no failed enqueue, no failed save, no
  kill. A failed enqueue is recorded as indexed (`OfferedIsStored` in
  `build_gaps`, against lightrag.py:723-725).
- `CleanBuildIsCurrent` in `build_kill`: the sources stay put while a killed
  build is unfinished (`DirtyEdits`), a kill does not fall between the two
  removals of a reset. Otherwise see `build_stale` (against lightrag.py:686-688:
  the engine keeps the killed build's text; `GraphIsRecorded`: it also keeps
  documents that no manifest records) and `build_wipe` (a manifest of a
  graph that is gone).
- `NeverDeletesUnrendered`: windows by date only, no unparsable file. See
  `build_window`; `build_gaps` for an unbounded build that skips a file and
  prunes its documents (against graph_runner.py:572-573). With these two left
  out (`WholeDayBuilds`) it is proved under every other failure; `build_lossy`
  is the same under failed enqueues, saves and wipes and under kills.
- `MarkedIsSearchable`: deletes and reingests do not overlap (`DeletesDuring`);
  `ingest_gaps` shows chunks that no document lists when they do
  (`NothingStranded`). Listed documents that a failed deletion took chunks from,
  in either store, are counted out (`torn`) until they are deleted again. A
  deletion that goes on in Elasticsearch after its client has timed out is taken
  to have ended when it raised.
- `FailedIsRetried`: a listed file whose lookup fails (loader.py:538-539) counts as
  failed and stays listed, with the ingest of this content that it had, so the
  next run skips it. Those are `known`.
- `ReingestApplies`: no PATCH during a run, and files that failed are left out;
  `FlagIsHonest` in `ingest_gaps` is the flag cleared although a file failed,
  against ingest_runner.py:233-236.
- `LoggingRestored`: runs that do not overlap (`StartsApart` in its theorem, one
  run in `feed_graph`). When two do, the second can run unpinned (`PinnedInFlow`
  in `feed_gaps`, against ingest_runner.py:381-384).
- `ClosedAfterTerminal`: likewise. When two overlap, the first one's `_close_feed` closes the
  clients that have subscribed to the second (`feed_gaps`).
- `RunsSettle`, `StreamsEnd`: a run whose flow, or whose last look at the engine
  before its terminal state, never returns is excepted; a sampler that hangs in the
  same call is not.
- `WriteLock` says who holds the lock, not that it is given back: a call of a write
  that was submitted between the drain and the stop of the loop waits for ever, and
  the lock with it (`WritersAreAnswered` in `service_reset`).
- `ReadsAnswered`: a read whose session is closed under it is excepted; it may be
  submitted between the drain and the stop of the loop and then waits for ever,
  where lightrag.py:651-652 promises a `RuntimeError`.
- `EnvironmentIsActive` is about the moments when nobody holds the lock: a
  `get_settings()` in the middle of a swap serves, and caches, values that are
  then rejected. `TableIsActive` excepts PATCHes that overlapped, failed or died
  (`apart`).
- `FilesAreWhole`, and the second part of `RefusedLeavesNothing`, except names
  whose uploads overlapped; `ShownIsIngested` also excepts files changed between
  two reads of one request. `RefusedLeavesNothing` is about what a batch adds,
  not about what it replaced.
- `AbortIsPrompt` is about deltas: after the abort at most one more is read, and
  nothing of it goes out. Fragments do, of the delta at hand or, if the stream ends
  before another poll, of what the splitter held.
- `TurnsEnd` excepts a turn that waits for the graph engine for ever (`Stuck`): the
  request of a client that left ends all the same once its session is open; its
  worker does not.
- `DoneIsStored` holds until somebody deletes the conversation; `TitlesStay` is
  not among the properties of `chat`, see below.
- `SplitsAlike`, in `StreamedAsWhole`, compares the streamed and the stored answer
  only where no closer is orphaned: `clean_response` cuts at the first of several
  orphaned closers, the splitter drops each.

### Disagreements between the code and what it says

Two are runs of the project.

- `build_window`: a `message_limit` that cuts a day in two re-renders that day's
  document, under its key, with fewer messages; it counts as changed, and the
  bounded build deletes the rest of the day from the graph. The test
  `test_a_bounded_build_never_deletes_what_it_did_not_render` covers windows that
  leave documents out, not windows that cut one.
- `chat_split`: a turn is said to persist in one transaction; it takes up to
  three, and a failure between them leaves a question without an answer.

The others are the configurations beside it.

- `service_reset`: a status poll between the reset's `close()` and its `rmtree`
  opens a session the rebuild then uses. Its manifest is the old one, so the
  rebuild finds nothing to do: the graph is empty and the run completes
  (`ResetStartsClean`). And at shutdown a write's call can be submitted after the
  drain and wait on a stopped loop for ever, holding the write lock
  (`WritersAreAnswered`), where lightrag.py:651-652 promises a `RuntimeError` for
  a closed session.
- `ingest_gaps`: overrides commit one by one before the flag is looked at; when
  that fails, the process is rolled back and the table is not
  (`ProcessMatchesTable`). Leftovers of a first attempt stay in Elasticsearch,
  under an identity that comes to name another chunk, when the retry has fewer
  chunks (`IdentityNamesOneChunk`, against loader.py:18-20). A file replaced
  between being hashed and being parsed is stored under the wrong hash
  (`ChunksMatchHash`). A delete request that fails at Elasticsearch answers
  "nothing deleted" (documents.py:594-601) when part or all of the chunks may be
  gone (`FailedDeleteKeeps`).
- `feed_order`: frames of two threads out of emission order. `feed_gaps`: a stream
  that ends without a terminal frame, after an empty backlog right after
  `start()` (`EndsWithTerminal`), or because the run before closes it
  (`ClosedAfterTerminal`); the log of a run holds the terminal frame of the
  one before (`LogIsOneRun`).
- `render_limit`: duplicates count twice against `message_limit`.
- `build_gaps`, `build_stale`, `build_wipe`: above.
- `settings_gaps`: a `get_settings()` that read the environment before a swap can
  store what it built after the PATCH has cleared the cache; the PATCH then
  validates that entry instead of its own environment, and commits an invalid one,
  against runtime_settings.py:16-18. And "nothing changed", says
  routes/settings.py:174, of rows that are already committed.
- `chat_title`: a title given between the two statements of `auto_title` is
  overwritten, against conversation_store.py:624.
- `library_gaps`: two uploads of a name mix their slices in the shared partial
  file (`UploadsAreWhole`); a deck is hashed before it is converted, so a cache
  entry can hold another deck's pages (`CacheIsNeverStale`, against
  convert.py:44-48); a source that sniffing refuses has already replaced, and then
  removes, an accepted one (`StoredSourceStays`).

Seen while modelling, without a configuration: a document whose heading levels
skip one gets a breadcrumb with a gap; `semantic.py` promises to keep its
segments, and chunks are stripped; final ranks have holes when hydration drops a
row; a graph evaluation with `--skip-build` over a workdir that was never indexed
measures an empty graph (`GraphRunsAreTold` says so); an export that lacks the
first of two identical reactions counts the removal of the first against the
second; a text of the engine that joins a document's key with a shorter one of
an earlier build, which the first key contains, is taken to cite the first
alone (render.py:337-357), so `CitationsResolve` is about citations of documents
of one render.

## Proofs

TLAPS proves the following for every value of the constants that satisfies the
modules' assumptions: any number of runs, clients, files, versions, sessions,
requests and faults. Each rests on an inductive invariant, since none of the
properties is inductive by itself. TLC checked each invariant before it was
proved.

- `RunFeedProofs`: `TypeInv` is the type invariant with `SlotInv`, which ties a
  run's recorded state to where its thread is. From it `FeedTypes`,
  `OneRunAtATime`, and the refinement `RunSlotIsSingleFlight`: initial states map
  to initial states and each step to a step of `SingleFlight` or a stutter.
  `DeliveryInv` adds that ids are unique in the log (`LogIds`) and on their way
  (`PushIds`), that a client which has not subscribed is in no snapshot
  (`Strangers`), that what a client has and what is on its way to it are disjoint
  (`FeedIds`), and that together they cover the log (`Reached`). From it
  `DeliveredOnce` and `DeliveredAll`. `OrderInv` adds that a frame still to be
  pushed is its thread's newest (`Ahead`), so that pushes of one thread keep the
  log's order. From it `ThreadsInOrder`. Two more hold of behaviours in which no
  run starts while the thread of an earlier one is alive, `[][StartsApart]_vars`,
  for any number of such runs: `LoggingIsRestored`, from `ApartInv` (the relays on
  the logger and the level are the pinned run's, which remembers the configured
  one), and `StreamsCloseAfterTerminal`, from `TerminalInv` (once a run is about
  to close its feed, every registered client has the terminal frame or has it on
  its way). Without the hypothesis both are false (`feed_gaps`).
- `GraphBuildProofs`, first part: the renderer, for every stream of messages, cap and window.
  The packing loop is a recursive function, and what is said of it is proved by
  induction over the days; since induction theorems with an operator parameter
  are out of reach, induction is taken over sets of naturals (`SetInduction`, from
  the library's least element of a well-founded set) and the function's
  recursion equation is derived from it (`Recursion`, `OpenDocDef`).
  `PacksAreSpans` then says that a pack is all the days between its first and
  last, and from there: `KeysNameTheirContent`, `PacksAreTight`,
  `GrowthKeepsDocuments` (two streams, one the other's growth at the tail, pack
  alike up to the last document, `PackedAsBefore`), `FloorsCutBetweenDays` (a
  floor only restricts the merged stream, `FloorWindow`), and `LimitsKeepNewest`.
  `KeysDiffer` proves the comment at render.py:346-347, that one render never emits
  a key that prefixes another, and with it `PayloadsResolve` the citations. The
  theorems `TranscriptsAlwaysHold` and `TailGrowthCostsTheTail` put them together
  as the two properties of run `computations` that are about the renderer.
- `GraphBuildProofs`, second part: in the middle of a write the engine holds `Expected`, a
  function of the manifest, the diff, and what has been deleted and enqueued so
  far; at the end of it that is what the code remembers (`MergedIsExpected`).
  From it (`MirrorInv`) `ManifestIsTheGraph` and `CleanBuildSucceeds`, under
  `Survivable`: parse, delete, process and save failures only. A failed enqueue
  is excluded because it is recorded as indexed (`build_gaps`), a wipe and a kill
  because then manifest and graph do differ. For kills there is
  `CrashesAreRecovered`: `CrashInv` says that the sidecar is behind the manifest
  in current records only (`SidecarLags`), that a document held is recorded or
  current (`GraphAccounted`), and what of a write is done, so that the next clean
  build is current whatever the crash left. Its hypotheses (`Recoverable`) are
  those without which it is false: no window, sources that wait for the recovery
  (`build_stale`), no kill inside a wipe (`build_wipe`). `KeyedInv`, which holds
  under every failure, says that wherever a document or its record went its key
  spans the days of its messages and begins with the day of one. With `RespansAll`
  it gives `WindowsLeaveNoGhosts` (under `Survivable`, for windows by date or by
  number); with `WindowInv` - what is deleted begins within the window, what has
  gone since the diff is of the window - `BoundedBuildsKeepTheRest`, whatever
  fails but a parse (`build_gaps`), for windows by date (`build_window`).
- `ComputationProofs`: functions that read their input piece by piece, for inputs
  of every length. Each is a recursive function over the pieces; its recursion
  equation is derived (`FiniteRecursion`) and what is said of it proved by
  induction up to the length (`UpTo`), on top of `InputInv`, the shape of an input
  that grows. `StreamsTellTheWholeAnswer` (`StreamedAsWhole`): splitter and
  `clean_response` are both compared with a reader of blocks (`ReadTo`), the one
  cutting the text into deltas as it comes, the other removing from the whole the
  first block of what is left again and again. `EvidenceFitsItsBudget`
  (`GroundingFits`): after any number of blocks the room used is the sum of
  their costs, and a cut block is the last. `TextsReachTheIndexWhole` (`TextsKept`):
  the sections closed so far and the open one are the lines read so far, and the
  path is the headings the line is under; the groups closed so far and the open
  one are the segments so far, and since the threshold lies between two distances
  of the sample something is kept together; sorting a permutation by its places
  puts it back (by a count of what is smaller); the windows of a snippet leave no
  word out, and the grams of a page hold those of what stands on it. They rest on
  `TagsAssumption` (neither tag overlaps itself or the other), `LabelAssumption`,
  `EvidenceAssumption` (what a cut strips is no longer than separator, label and
  frame), `GroundingAssumption` (the head room of a context is no more than
  that of the prompt around it), `StreamAssumption`, `ConfigurationAssumption`,
  `SplittingAssumption` (a percentile up to 100, a stride no longer than its
  window, trigrams only where there is one) and `TextAssumption`. They hold of the
  constants in the code, but for `EvidenceAssumption`, which is about the texts:
  an excerpt whose cut ends in a longer run of white space gives that room back,
  and one more block can follow the cut one.
- `LibraryProofs`: `FileInv` says that an inode is only ever at the name its part
  was for (`Owners`, `Fresh`), and that a name whose uploads do not overlap has
  one writer at a time, whose partial file is not the target and holds what this
  upload has written (`SoleWriter`, `Apart`, `Progress`), so that the target is
  the whole file of a part answered as stored (`StoredWhole`). From it
  `OnlyWholeFiles` and `RefusedIsGone`. `ReadInv`: between two reads of one request
  the file is what the first found, unless `history` says otherwise. From both
  `OnlyTheIngestedIsShown`. `LibraryAssumption` asks of the scenarios only that
  every part has content of its own.
- `GraphServiceProofs`: the holder of the open lock, the closer of each session
  and the holder of the write lock are unique and where their phases say
  (`LockInv`, `CloseInv`, `PhaseInv`). From it `SessionsAreOwned`,
  `SessionIsOpen`, `WritesAreExclusive`.
- `CorpusIngestProofs`: `IndexInv` says that indices about to be written are free
  and `next` is above all of them; `StoreInv`, that a run's document is unmarked
  until its last write and that a request's documents stay marked until theirs;
  `RetryInv`, that a run never comes back to a file it failed; `ApplyInv`, what a
  reingest has behind it. From them `CorpusTypes`, `IndicesAreUnique`,
  `StoresAgree` (under `DeletesApart`), `FailuresAreRetried`,
  `ReingestsApplySettings` (no PATCH during a run).
- `SettingsProofs`: `SettingsInv` is the types, `FlowInv` (a request's step and
  what is to follow it belong together), `EnvInv` (in the middle of the swap the
  names behind it are as its target asks, and every snapshot that a rollback or a
  clearing needs is there) and `TableInv` (as long as nothing set process and
  table apart, the rows still to be written are what tells them apart). From it
  `SettingsTypes`, `EnvironmentFollowsOverrides`, `ProcessFollowsTable`. The names
  of the catalog are any set, and the swap takes them in any order.
- `ChatTurnProofs`: `PipeInv` says what is between worker and client at each phase
  of the two: before retrieval nothing, then the retrieval frame first and the
  sentinel last (`Phased`, `Queued`, `Shown`, `Received`), and what the flow can
  have done since the abort (`Prompt`): fed fragments of the last delta read, or
  what is left at the end of the stream, or read one more and dropped it.
  `StoredInv` adds what of a
  turn is in the tables then: nothing until it persists, then its question, then
  both. From them `WireIsWellFormed`, `AbortStopsTheFlow`, `DoneMeansStored`,
  `AbandonedLeavesNothing`, `WireAgreesWithStore`. Run `chat` holds one turn; the
  theorems any number of them over one store, among deletions, moves, titles and
  PATCHes: no step of one turn touches the pipe or the messages of another
  (`OthersStay`, `OthersMessages`).

Type correctness is proved but not among the runs' properties, and
`OneRunAtATime` is what `SlotSpec` comes to in the runner's own variables.

Model-checked only:

- everything temporal beyond steps (`StreamsEnd`, `RunsSettle`, `ReadsAnswered`,
  `TurnsEnd`, `RequestsEnd`), since fairness and ENABLED are beyond the prover;
- `RetrievalHonest`, `FilesAreRead`, `EvaluationHonest`: these functions are
  written with the library's sorts, filters and folds, whose recursive definitions
  the prover cannot open; their definitions would have to become functions by
  recursion first, as those of `ThinkStream`, `Grounding` and `Splitting` did.

Every other property of a passing run is stated by a theorem, some of them under
a hypothesis that is named above with the configuration that shows why.

## Not modelled

- Wording, layout and drawing: prompts, reports, pages, the fixtures' generator;
  recursive splitting by size, which is LangChain's; the databases' own queries.
- Listings and searches of documents, conversations, entities, exports: reads of
  one statement.
- Migrations: a loop over ordered files, each in a transaction with its own
  tracking row, by one process before it serves.
- A second process: the command line's ingest can run beside the API's, and
  nothing in the code keeps two readers of `next_original_index` apart.
- The summary sidecar and the sweep of duplicate stubs (lightrag.py:1062-1095),
  which no decision is based on; the runner's cache of parse summaries.
- The graph's stale flag, which is raised and cleared like the corpus' but by
  other routes; the order of startup and what shutdown does to threads that are
  still running.
- Retries inside the clients: a call answers or fails, and one that fails in
  Postgres did not commit (a lost acknowledgement of a commit is left out).
- Observability: counters that nothing reads back.
- The web client: a reader of the modelled feeds, which keeps nothing the server
  relies on.

## Plan

Done: the runners, the renderer, the build, the service, the corpus, the files,
the settings, the chat turn with its conversations, and the computations.

What is left, by worth:

1. A second, abstract specification of the corpus (a set of documents, each
   searchable or not) that `CorpusIngest` and `Library` both implement.
2. Proofs about fusion, discovery and the evaluation, in the way of
   `ComputationProofs`: the loop as a function by recursion, then induction over it.
3. The graph's stale flag with the graph routes, in the way of `PatchFlag`.
4. The API's lifespan: startup order, shutdown with runs alive.
5. The web client's reducers and upload controller composed with `RunFeed` and
   `Library`.
