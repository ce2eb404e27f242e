----------------------------- MODULE CorpusIngest -----------------------------
(***************************************************************************)
(* The chunk corpus and everything that writes it: an ingest run           *)
(* (varagity/ingest/loader.py, its store task retried by                   *)
(* pipeline/ingest_flow.py), the two stores it writes to                   *)
(* (stores/vector_store.py and stores/bm25_store.py), the upload and delete*)
(* routes (api/routes/documents.py), the settings PATCH with the           *)
(* corpus-stale flag (api/routes/settings.py), and the hook that clears the*)
(* flag (api/ingest_runner.py).                                            *)
(*                                                                         *)
(* The runner lets one run at a time in (module RunFeed); a run is a thread*)
(* of its own, and so is each request.  Postgres holds the marker of a     *)
(* document with its chunk rows, Elasticsearch its chunks by chunk_id; each*)
(* statement is a step, and either store can fail between two of them.     *)
(***************************************************************************)
EXTENDS Naturals, FiniteSets

CONSTANTS
  Files,              \* paths under DOCS_PATH
  Versions,           \* contents a file may have
  Configs,            \* values of the settings that change how text is chunked
  Pieces,             \* into how many chunks a version goes under each of them
  DeletesDuring,      \* the kinds of run a delete request may overlap
  PatchesDuringRuns,  \* whether a settings PATCH may overlap a run
  Faults,             \* which calls may fail
  MaxRuns, MaxRequests, MaxFaults, \* bounds
  None

Kinds == {"plain", "reingest"}

FaultKinds == {"stage", "es", "pg", "persist", "flag", "kill"}

ASSUME CorpusIngestAssumption ==
  /\ Configs # {}
  /\ Pieces \in [Versions -> [Configs -> Nat]]
  /\ DeletesDuring \subseteq Kinds
  /\ PatchesDuringRuns \in BOOLEAN
  /\ Faults \subseteq FaultKinds
  /\ MaxRuns \in Nat /\ MaxRequests \in Nat /\ MaxFaults \in Nat
  /\ None \notin Versions \cup Configs

\* doc_id hashes a path with the content found there.
Docs == [file : Files, version : Versions]

VARIABLES
  disk,     \* what each file holds, None when it is not there
  marked,   \* the documents table
  rows,     \* the chunks table, by document
  es,       \* the BM25 index, by document
  stale,    \* _corpus_stale in app_settings
  saved,    \* the override in app_settings
  config,   \* what the process runs with
  kind, pc, \* of the run
  work,     \* files it has still to take
  doc,      \* the document at hand, and
  chunks,   \* its records
  next,     \* next_index
  handled,  \* history: the documents the run has taken,
  known,    \* ... those that were listed when it took them,
  failed,   \* ... and those it failed
  torn,     \* history: listed documents a failed deletion took chunks from
  hook,     \* a completed reingest has yet to clear the flag
  delPc, delDocs, delFiles,        \* a delete request: its documents, remove_file
  patchPc, before,                 \* a PATCH: the value it replaces
  runs, requests, faults           \* counters for the bounds

store == <<marked, rows, es, torn>>
settings == <<stale, saved, config>>
run == <<kind, pc, work, doc, chunks, next, handled, known, failed, hook>>
delete == <<delPc, delDocs, delFiles>>
patch == <<patchPc, before>>
bounds == <<runs, requests, faults>>
vars == <<disk, store, settings, run, delete, patch, bounds>>

\* The records of a document: ChunkRecord.create over the chunker's pieces.
\* Chunkers read the settings when they run, whatever the run started with.
Records(version, g, first) ==
  {[pos |-> i, index |-> first + i, version |-> version, config |-> g] :
     i \in {j \in 0..Pieces[version][g] : j < Pieces[version][g]}}

\* A bulk index addressed by chunk_id, doc_id::chunk_index.
Overwrite(old, new) == {e \in old : \A c \in new : c.pos # e.pos} \cup new

Indices == {c.index : c \in UNION {rows[d] : d \in Docs}}
NextIndex == IF Indices = {} THEN 0 ELSE 1 + CHOOSE m \in Indices : \A i \in Indices : i <= m

Running == pc \notin {"idle", "done"}

Fault(f) == f \in Faults /\ faults < MaxFaults /\ faults' = faults + 1

Init ==
  /\ disk \in [Files -> Versions]
  /\ marked = {} /\ rows = [d \in Docs |-> {}] /\ es = [d \in Docs |-> {}] /\ torn = {}
  /\ stale = FALSE
  /\ config \in Configs /\ saved = config
  /\ kind = "plain" /\ pc = "idle" /\ work = {} /\ doc = None /\ chunks = {}
  /\ next = 0 /\ handled = {} /\ known = {} /\ failed = {} /\ hook = FALSE
  /\ delPc = "idle" /\ delDocs = {} /\ delFiles = FALSE
  /\ patchPc = "idle" /\ before = None
  /\ runs = 0 /\ requests = 0 /\ faults = 0

-----------------------------------------------------------------------------
(* An ingest run *)

\* Discovery, and the first free index; the slot is free since the last run's
\* terminal state was set, whether or not its hook has run.
StartRun(k) ==
  /\ ~Running /\ runs < MaxRuns
  /\ delPc \in {"idle", "unlink"} \/ k \in DeletesDuring
  /\ patchPc = "idle" \/ PatchesDuringRuns
  /\ kind' = k /\ pc' = "next_file"
  /\ work' = {f \in Files : disk[f] # None}
  /\ next' = NextIndex
  /\ doc' = None /\ chunks' = {} /\ handled' = {} /\ known' = {} /\ failed' = {}
  /\ runs' = runs + 1
  /\ UNCHANGED <<disk, store, settings, hook, delete, patch, requests, faults>>

\* The run comes to a file's present content.
Taken(d) ==
  /\ doc' = d /\ handled' = handled \cup {d}
  /\ known' = known \cup ({d} \cap marked)

\* The next file is read and hashed; a plain run skips it if it is listed.
Take(f) ==
  /\ pc = "next_file" /\ f \in work
  /\ work' = work \ {f}
  /\ IF disk[f] = None
       THEN UNCHANGED <<doc, handled, known, pc>>
       ELSE LET d == [file |-> f, version |-> disk[f]]
            IN  /\ Taken(d)
                /\ pc' = IF kind = "reingest" THEN "es_delete"
                         ELSE IF d \in marked THEN "next_file" ELSE "parse"
  /\ UNCHANGED <<disk, store, settings, kind, chunks, next, failed, hook,
                 delete, patch, bounds>>

\* The lookup raises: the file has failed, listed or not.
TakeFails(f) ==
  /\ pc = "next_file" /\ f \in work /\ kind = "plain" /\ disk[f] # None
  /\ Fault("pg")
  /\ work' = work \ {f}
  /\ LET d == [file |-> f, version |-> disk[f]]
     IN  Taken(d) /\ failed' = failed \cup {d}
  /\ UNCHANGED <<disk, store, settings, kind, pc, chunks, next, hook, delete, patch,
                 runs, requests>>

\* An exception in _ingest_file: on with the next file.
Fail == pc' = "next_file" /\ failed' = failed \cup {doc}

EsDelete ==
  /\ pc = "es_delete"
  /\ es' = [es EXCEPT ![doc] = {}]
  /\ pc' = "pg_delete"
  /\ UNCHANGED <<disk, marked, rows, torn, settings, kind, work, doc, chunks, next,
                 handled, known, failed, hook, delete, patch, bounds>>

\* delete_by_query stops at a conflict, or times out here and goes on there:
\* any part of the chunks may be gone.
EsDeleteFails ==
  /\ pc = "es_delete" /\ Fault("es")
  /\ \E left \in SUBSET es[doc] :
       /\ es' = [es EXCEPT ![doc] = left]
       /\ torn' = IF left = es[doc] THEN torn ELSE torn \cup ({doc} \cap marked)
  /\ Fail
  /\ UNCHANGED <<disk, marked, rows, settings, kind, work, doc, chunks, next, handled,
                 known, hook, delete, patch, runs, requests>>

PgDelete ==
  /\ pc = "pg_delete"
  /\ marked' = marked \ {doc}
  /\ rows' = [rows EXCEPT ![doc] = {}]
  /\ torn' = torn \ {doc}
  /\ pc' = "parse"
  /\ UNCHANGED <<disk, es, settings, kind, work, doc, chunks, next, handled, known,
                 failed, hook, delete, patch, bounds>>

PgDeleteFails ==
  /\ pc = "pg_delete" /\ Fault("pg")
  /\ torn' = torn \cup {doc}
  /\ Fail
  /\ UNCHANGED <<disk, marked, rows, es, settings, kind, work, doc, chunks, next,
                 handled, known, hook, delete, patch, runs, requests>>

\* The parser reads the file again, and the chunker the settings.  Without
\* enough text the document is marked with no chunks.
Parse ==
  /\ pc = "parse" /\ disk[doc.file] # None
  /\ LET records == Records(disk[doc.file], config, next)
     IN  IF records = {}
           THEN /\ marked' = marked \cup {doc}
                /\ rows' = [rows EXCEPT ![doc] = {}]
                /\ pc' = "next_file"
                /\ UNCHANGED chunks
           ELSE /\ chunks' = records
                /\ pc' = "es_store"
                /\ UNCHANGED <<marked, rows>>
  /\ UNCHANGED <<disk, es, torn, settings, kind, work, doc, next, handled, known, failed,
                 hook, delete, patch, bounds>>

\* Mutant of StageFails: failures are recorded by path.
StageFailsByPath ==
  /\ pc = "parse"
  /\ \/ disk[doc.file] = None /\ UNCHANGED faults
     \/ Fault("stage")
  /\ pc' = "next_file" /\ failed' = failed \cup {doc.file}
  /\ UNCHANGED <<disk, store, settings, kind, work, doc, chunks, next, handled, known,
                 hook, delete, patch, runs, requests>>

\* Parsing, contextualizing or embedding raises; or the file has gone.
StageFails ==
  /\ pc = "parse"
  /\ \/ disk[doc.file] = None /\ UNCHANGED faults
     \/ Fault("stage")
  /\ Fail
  /\ UNCHANGED <<disk, store, settings, kind, work, doc, chunks, next, handled, known,
                 hook, delete, patch, runs, requests>>

EsStore ==
  /\ pc = "es_store"
  /\ es' = [es EXCEPT ![doc] = Overwrite(@, chunks)]
  /\ pc' = "pg_store"
  /\ UNCHANGED <<disk, marked, rows, torn, settings, kind, work, doc, chunks, next,
                 handled, known, failed, hook, delete, patch, bounds>>

\* Mutant of EsStoreFails: a rejected bulk goes unnoticed.
EsStoreFailsQuietly ==
  /\ pc = "es_store" /\ Fault("es")
  /\ \E part \in SUBSET chunks : es' = [es EXCEPT ![doc] = Overwrite(@, part)]
  /\ pc' = "pg_store"
  /\ UNCHANGED <<disk, marked, rows, torn, settings, kind, work, doc, chunks, next,
                 handled, known, failed, hook, delete, patch, runs, requests>>

\* A rejected bulk has indexed any part of it; the task may be retried.
EsStoreFails ==
  /\ pc = "es_store" /\ Fault("es")
  /\ \E part \in SUBSET chunks : es' = [es EXCEPT ![doc] = Overwrite(@, part)]
  /\ \/ Fail
     \/ UNCHANGED <<pc, failed>>
  /\ UNCHANGED <<disk, marked, rows, torn, settings, kind, work, doc, chunks, next,
                 handled, known, hook, delete, patch, runs, requests>>

\* Mutant of PgStore: next_index does not advance.
PgStoreKeepsNext ==
  /\ pc = "pg_store"
  /\ marked' = marked \cup {doc}
  /\ rows' = [rows EXCEPT ![doc] = Overwrite(@, chunks)]
  /\ pc' = "next_file"
  /\ UNCHANGED <<disk, es, torn, settings, kind, work, doc, chunks, next, handled, known,
                 failed, hook, delete, patch, bounds>>

\* store_document: the marker and its chunks in one transaction.
PgStore ==
  /\ pc = "pg_store"
  /\ marked' = marked \cup {doc}
  /\ rows' = [rows EXCEPT ![doc] = Overwrite(@, chunks)]
  /\ next' = next + Cardinality(chunks)
  /\ pc' = "next_file"
  /\ UNCHANGED <<disk, es, torn, settings, kind, work, doc, chunks, handled, known,
                 failed, hook, delete, patch, bounds>>

\* Mutant of PgStoreFails: without the transaction the marker stays.
PgStoreFailsMarked ==
  /\ pc = "pg_store" /\ Fault("pg")
  /\ marked' = marked \cup {doc}
  /\ \/ Fail
     \/ pc' = "es_store" /\ UNCHANGED failed
  /\ UNCHANGED <<disk, rows, es, torn, settings, kind, work, doc, chunks, next,
                 handled, known, hook, delete, patch, runs, requests>>

\* The transaction rolls back; a retry writes both stores again.
PgStoreFails ==
  /\ pc = "pg_store" /\ Fault("pg")
  /\ \/ Fail
     \/ pc' = "es_store" /\ UNCHANGED failed
  /\ UNCHANGED <<disk, store, settings, kind, work, doc, chunks, next, handled, known,
                 hook, delete, patch, runs, requests>>

\* The run completes, whatever failed in it.
EndRun ==
  /\ pc = "next_file" /\ work = {}
  /\ pc' = "done"
  /\ hook' = (hook \/ kind = "reingest")
  /\ UNCHANGED <<disk, store, settings, kind, work, doc, chunks, next, handled, known,
                 failed, delete, patch, bounds>>

\* _clear_corpus_stale, best effort.
ClearStale ==
  /\ hook
  /\ hook' = FALSE
  /\ \/ stale' = FALSE /\ UNCHANGED faults
     \/ Fault("pg") /\ UNCHANGED stale
  /\ UNCHANGED <<disk, store, saved, config, kind, pc, work, doc, chunks, next,
                 handled, known, failed, delete, patch, runs, requests>>

-----------------------------------------------------------------------------
(* Requests *)

Request == requests < MaxRequests /\ requests' = requests + 1

\* A new file, or another content for an old one; moved into place.
Upload(f, v) ==
  /\ Request /\ disk[f] # v
  /\ disk' = [disk EXCEPT ![f] = v]
  /\ UNCHANGED <<store, settings, run, delete, patch, runs, faults>>

\* Delete, of one document or several: look them up, ...
DeleteList(D, remove) ==
  /\ delPc = "idle" /\ Request
  /\ ~Running \/ kind \in DeletesDuring
  /\ D # {} /\ D \subseteq marked
  /\ delDocs' = D /\ delFiles' = remove /\ delPc' = "es"
  /\ UNCHANGED <<disk, store, settings, run, patch, runs, faults>>

\* ... Elasticsearch first, ...
DeleteEs ==
  /\ delPc = "es"
  /\ es' = [d \in Docs |-> IF d \in delDocs THEN {} ELSE es[d]]
  /\ delPc' = "pg"
  /\ UNCHANGED <<disk, marked, rows, torn, settings, run, delDocs, delFiles, patch,
                 bounds>>

\* ... where the query may raise with any part of the chunks gone, ...
DeleteEsFails ==
  /\ delPc = "es" /\ Fault("es")
  /\ \E lost \in SUBSET UNION {{<<d, c>> : c \in es[d]} : d \in delDocs} :
       LET left == [d \in Docs |-> {c \in es[d] : <<d, c>> \notin lost}]
       IN  /\ es' = left
           /\ torn' = torn \cup {d \in delDocs \cap marked : left[d] # es[d]}
  /\ delPc' = "idle"
  /\ UNCHANGED <<disk, marked, rows, settings, run, delDocs, delFiles, patch,
                 runs, requests>>

\* ... Postgres last, ...
DeletePg ==
  /\ delPc = "pg"
  /\ marked' = marked \ delDocs
  /\ rows' = [d \in Docs |-> IF d \in delDocs THEN {} ELSE rows[d]]
  /\ torn' = torn \ delDocs
  /\ delPc' = IF delFiles THEN "unlink" ELSE "idle"
  /\ UNCHANGED <<disk, es, settings, run, delDocs, delFiles, patch, bounds>>

DeletePgFails ==
  /\ delPc = "pg" /\ Fault("pg")
  /\ torn' = torn \cup (delDocs \cap marked)
  /\ delPc' = "idle"
  /\ UNCHANGED <<disk, marked, rows, es, settings, run, delDocs, delFiles, patch,
                 runs, requests>>

\* ... and the source files, whatever they hold by now.
Unlink ==
  /\ delPc = "unlink"
  /\ disk' = [f \in Files |-> IF \E d \in delDocs : d.file = f THEN None ELSE disk[f]]
  /\ delPc' = "idle"
  /\ UNCHANGED <<store, settings, run, delDocs, delFiles, patch, bounds>>

\* A settings PATCH takes effect in the process at once, ...
PatchApply(g) ==
  /\ patchPc = "idle" /\ Request
  /\ PatchesDuringRuns \/ (~Running /\ ~hook)
  /\ g # config
  /\ before' = config /\ config' = g /\ patchPc' = "persist"
  /\ UNCHANGED <<disk, store, stale, saved, run, delete, runs, faults>>

\* ... then the override is persisted, ...
PatchPersist ==
  /\ patchPc = "persist"
  /\ saved' = config /\ patchPc' = "flag"
  /\ UNCHANGED <<disk, store, stale, config, run, delete, before, bounds>>

\* Mutant of PatchFlag: the corpus-emptiness check is inverted.
PatchFlagOnEmpty ==
  /\ patchPc = "flag"
  /\ stale' = (stale \/ (config # before /\ marked = {}))
  /\ patchPc' = "idle"
  /\ UNCHANGED <<disk, store, saved, config, run, delete, before, bounds>>

\* ... then the flag is raised, unless it is up or there is no corpus.
PatchFlag ==
  /\ patchPc = "flag"
  /\ stale' = (stale \/ (config # before /\ marked # {}))
  /\ patchPc' = "idle"
  /\ UNCHANGED <<disk, store, saved, config, run, delete, before, bounds>>

\* Either fails: the process is rolled back.
PatchFails ==
  /\ patchPc \in {"persist", "flag"} /\ Fault(patchPc)
  /\ config' = before /\ patchPc' = "idle"
  /\ UNCHANGED <<disk, store, stale, saved, run, delete, before, runs, requests>>

\* Somebody is between the two deletions of d.
Deleting(d) == (pc = "pg_delete" /\ doc = d) \/ (delPc = "pg" /\ d \in delDocs)

\* The process dies and comes back with the persisted override.
Kill ==
  /\ Fault("kill")
  /\ torn' = torn \cup {d \in marked : Deleting(d)}
  /\ kind' = "plain" /\ pc' = "idle" /\ work' = {} /\ doc' = None /\ chunks' = {}
  /\ next' = 0 /\ handled' = {} /\ known' = {} /\ failed' = {} /\ hook' = FALSE
  /\ delPc' = "idle" /\ delDocs' = {} /\ delFiles' = FALSE
  /\ patchPc' = "idle" /\ before' = None
  /\ config' = saved
  /\ UNCHANGED <<disk, marked, rows, es, stale, saved, runs, requests>>

-----------------------------------------------------------------------------

RunStep ==
  \/ \E k \in Kinds : StartRun(k)
  \/ \E f \in Files : Take(f) \/ TakeFails(f)
  \/ EsDelete \/ EsDeleteFails \/ PgDelete \/ PgDeleteFails
  \/ Parse \/ StageFails
  \/ EsStore \/ EsStoreFails \/ PgStore \/ PgStoreFails
  \/ EndRun \/ ClearStale

RequestStep ==
  \/ \E f \in Files, v \in Versions : Upload(f, v)
  \/ \E D \in SUBSET marked, remove \in BOOLEAN : DeleteList(D, remove)
  \/ DeleteEs \/ DeleteEsFails \/ DeletePg \/ DeletePgFails \/ Unlink
  \/ \E g \in Configs : PatchApply(g)
  \/ PatchPersist \/ PatchFlag \/ PatchFails

Next == RunStep \/ RequestStep \/ Kill

Spec == Init /\ [][Next]_vars

-----------------------------------------------------------------------------
(* Properties *)

ChunkType == [pos : Nat, index : Nat, version : Versions, config : Configs]

TypeOK ==
  /\ disk \in [Files -> Versions \cup {None}]
  /\ marked \subseteq Docs
  /\ rows \in [Docs -> SUBSET ChunkType] /\ es \in [Docs -> SUBSET ChunkType]
  /\ torn \subseteq Docs
  /\ stale \in BOOLEAN /\ saved \in Configs /\ config \in Configs
  /\ kind \in Kinds
  /\ pc \in {"idle", "next_file", "es_delete", "pg_delete", "parse", "es_store",
             "pg_store", "done"}
  /\ work \subseteq Files
  /\ doc \in Docs \cup {None}
  /\ pc \in {"es_delete", "pg_delete", "parse", "es_store", "pg_store"} => doc \in Docs
  /\ chunks \subseteq ChunkType
  /\ next \in Nat
  /\ handled \subseteq Docs /\ known \subseteq Docs /\ failed \subseteq Docs
  /\ hook \in BOOLEAN
  /\ delPc \in {"idle", "es", "pg", "unlink"} /\ delDocs \subseteq Docs
  /\ delFiles \in BOOLEAN
  /\ patchPc \in {"idle", "persist", "flag"} /\ before \in Configs \cup {None}
  /\ patchPc # "idle" => before \in Configs
  /\ runs \in 0..MaxRuns /\ requests \in 0..MaxRequests /\ faults \in 0..MaxFaults

\* The marker is written last and deleted last: a document that lists has
\* every one of its chunks in Elasticsearch too, under the same identity - but
\* while it is between its two deletions, and from a deletion that failed in
\* either store until it is deleted again.
MarkedIsSearchable ==
  \A d \in marked : rows[d] \subseteq es[d] \/ Deleting(d) \/ d \in torn

\* original_index is a "global monotonic chunk index across the corpus": no two
\* chunk rows ever share one, whatever failed, was deleted or was re-ingested.
IndexUnique ==
  \A d, e \in Docs : \A a \in rows[d], b \in rows[e] :
    a.index = b.index => d = e /\ a = b

\* A file a plain run failed has no marker while that run is the last one, at
\* whichever call after the lookup it failed, so the next run re-attempts it.
\* One that had its marker when the run came to it (the lookup is what failed)
\* keeps it, and with it its earlier ingest of the same content.
FailedIsRetried == kind = "plain" => failed \cap marked \subseteq known

\* The documents the last run took, if it was a reingest, are chunked under the
\* settings in force, or the flag says that a reingest is needed.
Applied(D) ==
  kind = "reingest" /\ pc = "done" /\ ~stale /\ patchPc = "idle" =>
    \A d \in D : \A c \in rows[d] : c.config = config

\* A reingest applies the settings to every file it did not fail, and a PATCH
\* after it raises the flag again.
ReingestApplies == Applied(handled \ failed)

\* The flag is cleared because "a completed reingest=true run re-processed every
\* discovered file under the current settings".
FlagIsHonest == Applied(handled)

\* "The process never diverges from the table": between PATCHes it runs with
\* the persisted override.
ProcessMatchesTable == patchPc = "idle" => config = saved

\* "A marker deleted first would strand ES chunks invisibly (the exact v1 gap
\* this route closes)": with nothing under way, chunks in Elasticsearch belong
\* to a document that lists.
NothingStranded ==
  ~Running /\ delPc = "idle" => \A d \in Docs : es[d] # {} => d \in marked

\* "nothing has been deleted from either store, so the caller can simply
\* retry": a delete request that fails at Elasticsearch leaves it as it was.
FailedDeleteKeeps == [][delPc = "es" /\ delPc' = "idle" => UNCHANGED es]_vars

\* "The deterministic chunk_id-addressed BM25 docs then overwrite rather than
\* duplicate": one fusion identity, (doc_id, original_index), is one chunk.
IdentityNamesOneChunk ==
  \A d \in marked : \A a, b \in es[d] : a.index = b.index => a.pos = b.pos

\* content_hash is the hash of the bytes a document was ingested from.
ChunksMatchHash == \A d \in marked : \A c \in rows[d] : c.version = d.version
=============================================================================
