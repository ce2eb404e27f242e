----------------------------- MODULE GraphBuild -----------------------------
(***************************************************************************)
(* The upsert of a message corpus into the graph engine: one session of    *)
(* varagity/graph/engines/lightrag.py over one workdir, its manifest       *)
(* sidecar (graph/manifest.py), and the build run that scans the source    *)
(* files and hands them over (api/graph_runner.py).                        *)
(*                                                                         *)
(* The engine is external: a durable store of documents by id, which drops *)
(* a document offered under an id it already has, and keeps no record of   *)
(* what was rendered.  The manifest is this code's record of it, in memory *)
(* (self._manifest) and on disk, written only when a build is over.  A     *)
(* document's sha256 and guids are both determined by its messages, so a   *)
(* manifest record is the document's content.                              *)
(***************************************************************************)
EXTENDS Transcripts

CONSTANTS
  Files,           \* how many source files there are
  Exports,         \* what a source file may hold
  Bounds,          \* the windows a build may be asked for
  InsertBatch,     \* _INSERT_BATCH
  Faults,          \* the kinds of failure this instance may meet
  Retracts,        \* is delete_documents called? (no route of the API does)
  DirtyEdits,      \* may a source change while a killed build is unfinished?
  MaxEdits, MaxFaults  \* bounds: source changes, failures

ASSUME GraphBuildAssumption ==
  /\ Files \in Nat \ {0}
  /\ \A export \in Exports : DOMAIN export \subseteq Messages
  /\ \A bound \in Bounds : bound.since \in Nat /\ bound.limit \in Nat
  /\ Faults \subseteq {"parse", "wipe", "delete", "enqueue", "process", "save",
                      "kill", "kill_in_wipe"}
  /\ InsertBatch \in Nat \ {0}
  /\ Retracts \in BOOLEAN /\ DirtyEdits \in BOOLEAN
  /\ MaxEdits \in Nat /\ MaxFaults \in Nat

VARIABLES
  files,      \* the source files' content; a missing one is empty
  manifest,   \* self._manifest: doc id -> the content it was recorded with
  sidecar,    \* varagity_manifest.json
  store,      \* the engine: doc id -> its text and whether it is extracted
  pc,         \* where the one writer is
  task,       \* its local variables; the last build's once it is idle again
  edits, faults,  \* bounds used up
  unfinished  \* a build was killed, or its manifest not saved, and no full
              \* build has completed cleanly since

bounds == <<edits, faults>>
vars == <<files, manifest, sidecar, store, pc, task, bounds, unfinished>>

-----------------------------------------------------------------------------

Nothing == [k \in {} |-> {}]
Without(f, keys) == [k \in DOMAIN f \ keys |-> f[k]]

\* A failure of this kind is met (and the bound on failures used up).
Fault(kind) == kind \in Faults /\ faults < MaxFaults /\ faults' = faults + 1
NoFault == UNCHANGED faults

NoTask == [kind |-> "none", bound |-> [since |-> 0, limit |-> 0],
           rendered |-> Nothing, wiping |-> {}, stale |-> {}, queue |-> {},
           respanned |-> {}, undeleted |-> {}, failed |-> FALSE,
           sources |-> {},   \* for the properties: what the files held at the scan,
           held |-> {}]      \* and the graph at the diff

\* Every document's messages.
Guids(docs) == UNION {DOMAIN docs[k] : k \in DOMAIN docs}
Contents(docs) == [k \in DOMAIN docs |-> docs[k].content]

Render(batches) == ThreadTranscripts(MergeBatches(batches))

Init ==
  /\ files = [f \in 1..Files |-> Nothing]
  /\ manifest = Nothing /\ sidecar = Nothing /\ store = Nothing
  /\ pc = "idle" /\ task = NoTask
  /\ edits = 0 /\ faults = 0
  /\ unfinished = FALSE

-----------------------------------------------------------------------------
(* The source files *)

\* A source is uploaded, replaced by another export, or deleted.
Edit(f, export) ==
  /\ edits < MaxEdits /\ files[f] # export
  /\ unfinished => DirtyEdits
  /\ pc # "idle" /\ "kill" \in Faults => DirtyEdits
  /\ files' = [files EXCEPT ![f] = export]
  /\ edits' = edits + 1
  /\ UNCHANGED <<manifest, sidecar, store, pc, task, faults, unfinished>>

-----------------------------------------------------------------------------
(* GraphBuildRunner._run_build: scan, bound, optionally reset *)

\* The files that parse, as they are listed.
Parsed(sources, unparsed) == [f \in 1..Files \ unparsed |-> sources[f]]

\* A file that does not parse is counted and skipped.
Scan(bound, reingest, unparsed) ==
  /\ pc = "idle"
  /\ \/ unparsed = {} /\ NoFault
     \/ unparsed # {} /\ Fault("parse")
  /\ task' = [NoTask EXCEPT !.kind = "build", !.bound = bound,
                !.sources = UNION {DOMAIN files[f] : f \in 1..Files},
                !.rendered = Render(ApplyBounds(Parsed(files, unparsed), bound)),
                !.wiping = IF reingest THEN {"store", "sidecar"} ELSE {}]
  /\ pc' = IF reingest THEN "reset" ELSE "diff"
  /\ UNCHANGED <<files, manifest, sidecar, store, edits, unfinished>>

\* _reset_workdir: rmtree takes the workdir's entries one by one, in any
\* order, and leaves behind what it cannot remove.
RemoveEntry(entry) ==
  /\ pc = "reset" /\ entry \in task.wiping
  /\ task' = [task EXCEPT !.wiping = @ \ {entry}]
  /\ \/ /\ store' = IF entry = "store" THEN Nothing ELSE store
        /\ sidecar' = IF entry = "sidecar" THEN Nothing ELSE sidecar
        /\ NoFault
     \/ Fault("wipe") /\ UNCHANGED <<store, sidecar>>
  /\ UNCHANGED <<files, manifest, pc, edits, unfinished>>

\* The session is opened again; it reads the manifest from the workdir.
Reopen ==
  /\ pc = "reset" /\ task.wiping = {}
  /\ manifest' = sidecar
  /\ pc' = "diff"
  /\ UNCHANGED <<files, sidecar, store, task, bounds, unfinished>>

-----------------------------------------------------------------------------
(* build() *)

Changed(docs) == {k \in DOMAIN docs \cap DOMAIN manifest : docs[k] # manifest[k]}
New(docs) == DOMAIN docs \ DOMAIN manifest
Removed(docs) == DOMAIN manifest \ DOMAIN docs

\* Mutant of Respanned: a document the render overlaps is taken as re-indexed.
RespannedByOverlap(docs) ==
  {k \in Removed(docs) : DOMAIN manifest[k] \cap Guids(docs) # {}}

\* Mutant of Respanned: a bounded build prunes nothing.
RespannedNever(docs) == {}

\* Removed documents all of whose recorded messages this render re-indexes.
Respanned(docs) ==
  {k \in Removed(docs) : DOMAIN manifest[k] # {} /\ DOMAIN manifest[k] \subseteq Guids(docs)}

Prune == ~Bounded(task.bound)

\* Mutant of Diff: a changed document is offered again but not deleted first.
DiffKeepsChanged ==
  /\ pc = "diff"
  /\ LET docs == task.rendered
         respanned == IF Prune THEN {} ELSE Respanned(docs)
         dropped == IF Prune THEN Removed(docs) ELSE respanned
     IN  task' = [task EXCEPT !.respanned = respanned,
                    !.stale = dropped,
                    !.queue = New(docs) \cup Changed(docs),
                    !.held = Guids(Contents(store))]
  /\ pc' = "write"
  /\ UNCHANGED <<files, manifest, sidecar, store, bounds, unfinished>>

\* Mutant of Diff: the manifest is saved before the engine has the documents.
DiffRemembers ==
  /\ pc = "diff"
  /\ LET docs == task.rendered
         respanned == IF Prune THEN {} ELSE Respanned(docs)
         dropped == IF Prune THEN Removed(docs) ELSE respanned
     IN  /\ task' = [task EXCEPT !.respanned = respanned,
                      !.stale = Changed(docs) \cup dropped,
                      !.queue = New(docs) \cup Changed(docs),
                      !.held = Guids(Contents(store))]
         /\ sidecar' = docs
  /\ pc' = "write"
  /\ UNCHANGED <<files, manifest, store, bounds, unfinished>>

Diff ==
  /\ pc = "diff"
  /\ LET docs == task.rendered
         respanned == IF Prune THEN {} ELSE Respanned(docs)
         dropped == IF Prune THEN Removed(docs) ELSE respanned
     IN  task' = [task EXCEPT !.respanned = respanned,
                    !.stale = Changed(docs) \cup dropped,
                    !.queue = New(docs) \cup Changed(docs),
                    !.held = Guids(Contents(store))]
  /\ pc' = "write"
  /\ UNCHANGED <<files, manifest, sidecar, store, bounds, unfinished>>

\* _delete: one engine call per document; a failed one keeps its document.
\* (Deletes and chunks are taken in render order; here, in any order.)
Delete(key) ==
  /\ pc = "write" /\ key \in task.stale
  /\ \/ /\ store' = Without(store, {key})
        /\ task' = [task EXCEPT !.stale = @ \ {key}]
        /\ NoFault
     \/ /\ Fault("delete")
        /\ task' = [task EXCEPT !.stale = @ \ {key}, !.undeleted = @ \cup {key},
                                !.failed = TRUE]
        /\ UNCHANGED store
  /\ UNCHANGED <<files, manifest, sidecar, pc, edits, unfinished>>

\* The engine's enqueue: a known id, in any status, keeps what it has.
Offer(keys) ==
  [k \in DOMAIN store \cup keys |->
     IF k \in DOMAIN store THEN store[k]
     ELSE [content |-> task.rendered[k], extracted |-> FALSE]]

\* _enqueue: one engine call per chunk; a failed one leaves its chunk out.
Enqueue(chunk) ==
  /\ pc = "write" /\ task.stale = {} /\ chunk # {}
  /\ \/ Cardinality(chunk) = InsertBatch
     \/ chunk = task.queue /\ Cardinality(chunk) < InsertBatch
  /\ \/ /\ store' = Offer(chunk)
        /\ task' = [task EXCEPT !.queue = @ \ chunk]
        /\ NoFault
     \/ /\ Fault("enqueue")
        /\ task' = [task EXCEPT !.queue = @ \ chunk, !.failed = TRUE]
        /\ UNCHANGED store
  /\ UNCHANGED <<files, manifest, sidecar, pc, edits, unfinished>>

\* _process begins; resume() is nothing but this pass.
Process ==
  /\ pc = "write" /\ task.stale = {} /\ task.queue = {} /\ task.kind = "build"
  /\ pc' = "process"
  /\ UNCHANGED <<files, manifest, sidecar, store, task, bounds, unfinished>>

Resume ==
  /\ pc = "idle"
  /\ pc' = "process"
  /\ task' = [NoTask EXCEPT !.kind = "resume"]
  /\ UNCHANGED <<files, manifest, sidecar, store, bounds, unfinished>>

\* The engine extracts a document of its queue.
Extract(k) ==
  /\ pc = "process" /\ k \in DOMAIN store /\ ~store[k].extracted
  /\ store' = [store EXCEPT ![k].extracted = TRUE]
  /\ UNCHANGED <<files, manifest, sidecar, pc, task, bounds, unfinished>>

\* The pass returns when the queue is empty, or raises; either is survived.
Processed(failed) ==
  /\ pc = "process"
  /\ \/ ~failed /\ (\A k \in DOMAIN store : store[k].extracted)
     \/ failed /\ "process" \in Faults

\* Mutant of Merged: nothing is retained for a delete the engine refused.
MergedWithoutRetain ==
  LET docs == task.rendered
      base == IF Prune THEN {} ELSE DOMAIN manifest \ task.respanned
  IN  [k \in base \cup DOMAIN docs |->
         IF k \in DOMAIN docs THEN docs[k] ELSE manifest[k]]

\* Mutant of Merged: a refused delete leaves a record without messages.
MergedWithStubs ==
  LET docs == task.rendered
      retained == task.undeleted \cap DOMAIN manifest
      base == IF Prune THEN {} ELSE DOMAIN manifest \ (task.respanned \ task.undeleted)
      rendered == DOMAIN docs \ task.undeleted
  IN  [k \in base \cup rendered \cup retained |->
         IF k \in rendered THEN docs[k] ELSE Nothing]

\* merged(docs, prune, retain) without the respanned documents.
Merged ==
  LET docs == task.rendered
      retained == task.undeleted \cap DOMAIN manifest
      base == IF Prune THEN {} ELSE DOMAIN manifest \ (task.respanned \ task.undeleted)
      rendered == DOMAIN docs \ task.undeleted
  IN  [k \in base \cup rendered \cup retained |->
         IF k \in rendered THEN docs[k] ELSE manifest[k]]

\* _remember: adopt the manifest and save it; an OSError is logged, no more.
Remember(new) ==
  /\ manifest' = new
  /\ \/ sidecar' = new /\ NoFault
     \/ Fault("save") /\ UNCHANGED sidecar

FinishBuild(failed) ==
  /\ task.kind = "build" /\ Processed(failed)
  /\ Remember(Merged)
  /\ task' = [task EXCEPT !.failed = @ \/ failed]
  /\ unfinished' = (sidecar' # manifest'
                    \/ (unfinished /\ (~Prune \/ task'.failed)))
  /\ pc' = "idle"
  /\ UNCHANGED <<files, store, edits>>

FinishResume(failed) ==
  /\ task.kind = "resume" /\ Processed(failed)
  /\ pc' = "idle"
  /\ UNCHANGED <<files, manifest, sidecar, store, task, bounds, unfinished>>

-----------------------------------------------------------------------------
(* delete_documents() *)

DeleteDocuments(keys) ==
  /\ Retracts
  /\ pc = "idle"
  /\ pc' = "write"
  /\ task' = [NoTask EXCEPT !.kind = "delete", !.stale = keys,
                            !.respanned = keys]
  /\ UNCHANGED <<files, manifest, sidecar, store, bounds, unfinished>>

FinishDelete ==
  /\ pc = "write" /\ task.kind = "delete" /\ task.stale = {}
  /\ Remember(Without(manifest, task.respanned \ task.undeleted))
  /\ unfinished' = (unfinished \/ sidecar' # manifest')
  /\ pc' = "idle"
  /\ UNCHANGED <<files, store, task, edits>>

-----------------------------------------------------------------------------
(* The process is killed and started again: the new session loads the       *)
(* sidecar; the engine's storages and the sources are where they were.      *)

Kill ==
  /\ Fault("kill")
  /\ pc = "reset" => "kill_in_wipe" \in Faults \/ task.wiping \in {{}, {"store", "sidecar"}}
  /\ pc' = "idle" /\ task' = NoTask
  /\ manifest' = sidecar
  /\ unfinished' = (unfinished \/ (pc # "idle" /\ task.kind # "resume"))
  /\ UNCHANGED <<files, sidecar, store, edits>>

-----------------------------------------------------------------------------

Next ==
  \/ \E f \in 1..Files, export \in Exports : Edit(f, export)
  \/ \E bound \in Bounds, reingest \in BOOLEAN, unparsed \in SUBSET (1..Files) :
       Scan(bound, reingest, unparsed)
  \/ \E entry \in {"store", "sidecar"} : RemoveEntry(entry)
  \/ Reopen \/ Diff \/ Process \/ Resume
  \/ \E key \in task.stale : Delete(key)
  \/ \E chunk \in SUBSET task.queue : Enqueue(chunk)
  \/ \E k \in DOMAIN store : Extract(k)
  \/ \E failed \in BOOLEAN : FinishBuild(failed) \/ FinishResume(failed)
  \/ \E k \in DOMAIN store \cup DOMAIN manifest : DeleteDocuments({k})
  \/ FinishDelete
  \/ Kill

Spec == Init /\ [][Next]_vars

-----------------------------------------------------------------------------
(* Properties *)

IsDocs(docs) ==
  /\ DOMAIN docs \subseteq {<<a, b>> : a, b \in {DayOf[m] : m \in Messages}}
  /\ \A k \in DOMAIN docs : DOMAIN docs[k] \subseteq Messages /\ DOMAIN docs[k] # {}

TypeOK ==
  /\ \A f \in 1..Files : DOMAIN files[f] \subseteq Messages
  /\ IsDocs(manifest) /\ IsDocs(sidecar) /\ IsDocs(Contents(store))
  /\ \A k \in DOMAIN store : store[k].extracted \in BOOLEAN
  /\ pc \in {"idle", "reset", "diff", "write", "process"}
  /\ DOMAIN task = DOMAIN NoTask
  /\ task.kind \in {"none", "build", "resume", "delete"}
  /\ edits \in 0..MaxEdits /\ faults \in 0..MaxFaults
  /\ unfinished \in BOOLEAN

\* A build is over, and nothing has touched the graph since.
Built == pc = "idle" /\ task.kind = "build"

\* Between writes the manifest says exactly what the engine holds - also after
\* deletes the engine refused, whose records are retained: a document whose
\* text is not the manifest's would never look stale to a later build.
ManifestMirrorsGraph == pc = "idle" => manifest = Contents(store)

\* A build that reports no failure leaves every document of its render in the
\* graph, as rendered and extracted, whatever earlier builds failed to delete
\* or to extract; and nothing else, if its window was the whole corpus.
CleanBuildIsCurrent ==
  Built /\ ~task.failed =>
    /\ \A k \in DOMAIN task.rendered :
         k \in DOMAIN store /\ store[k] = [content |-> task.rendered[k], extracted |-> TRUE]
    /\ Prune => DOMAIN store = DOMAIN task.rendered

\* A build removes no message from the graph that its render left out and a
\* source file still holds ("a bounded build never deletes what it did not
\* render", tests/unit/test_graph_engines.py).
NeverDeletesUnrendered ==
  Built => (task.held \cap task.sources) \ Guids(task.rendered) \subseteq Guids(Contents(store))

\* Nor do document keys pile up as a bounded window moves: a document outside
\* the render, all of whose messages the render indexes, is pruned.
NoGhosts ==
  Built /\ ~task.failed =>
    \A k \in DOMAIN store \ DOMAIN task.rendered :
      ~(DOMAIN store[k].content \subseteq Guids(task.rendered))

\* manifest.py: the manifest has a record "for every transcript document the
\* graph holds"; what it does not record no later build would ever prune.
GraphIsRecorded == Built => DOMAIN store \subseteq DOMAIN manifest

\* The comment in build(): documents of a failed enqueue "were offered, and
\* they sit in LightRAG's doc-status store where the next pass retries them".
OfferedIsStored == Built => DOMAIN manifest \subseteq DOMAIN store
=============================================================================
