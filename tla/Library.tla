------------------------------- MODULE Library -------------------------------
(***************************************************************************)
(* The files of the two corpora and who touches them: uploads, which write *)
(* a partial file and move it over its target (api/routes/documents.py,    *)
(* graph.py), the ingest run that reads a file twice (ingest/loader.py),   *)
(* previews, which check a file and then open or convert it (preview/),    *)
(* and deletions that unlink what they listed.                             *)
(*                                                                         *)
(* A path holds an inode: a writer keeps writing to the one it opened,     *)
(* whatever becomes of the path.  An inode is named by the upload it was   *)
(* created for, its content is the sequence of slices written, and a slice *)
(* is named by the upload it came from.  The two document stores are one   *)
(* here; CorpusIngest tells them apart.                                    *)
(***************************************************************************)
EXTENDS Naturals, Sequences, FiniteSets

LOCAL INSTANCE SequencesExt

CONSTANTS
  Names,      \* the paths under DOCS_PATH and GRAPH_DOCS_PATH
  GraphNames, \* those under GRAPH_DOCS_PATH
  DeckNames,  \* those of presentations, which are converted to be previewed
  Scenarios,  \* what may be sent: [uploads: request -> parts, each [name, version];
              \* previews: requests; faults: those that may happen, once]
  Allowed,    \* the versions whose path and extension are accepted
  Sources,    \* the versions some message source recognises
  Length,     \* version -> slices
  MaxSlices,  \* UPLOAD_MAX_MB
  MaxFiles,   \* UPLOAD_MAX_FILES
  MaxTotal    \* UPLOAD_MAX_TOTAL_MB

Versions == DOMAIN Length
None == "none"

\* A version stands for one upload of one file: it is sent once.
ASSUME LibraryAssumption ==
  /\ Length \in [Versions -> Nat \ {0}] /\ None \notin Versions
  /\ GraphNames \subseteq Names /\ DeckNames \subseteq Names
  /\ MaxSlices \in Nat /\ MaxFiles \in Nat /\ MaxTotal \in Nat
  /\ \A s \in Scenarios :
       /\ \A r \in DOMAIN s.uploads :
            s.uploads[r] \in Seq([name : Names, version : Versions]) \ {<<>>}
       /\ \A r, q \in DOMAIN s.uploads : \A i \in DOMAIN s.uploads[r], j \in DOMAIN s.uploads[q] :
            s.uploads[r][i].version = s.uploads[q][j].version => r = q /\ i = j

VARIABLES
  target,   \* name -> the inode at the path
  partial,  \* name -> the inode at ".{name}.upload-partial"
  content,  \* inode -> slices
  uploads,  \* request -> where it is
  rows,     \* the documents table: [name, hash, text]
  run,      \* the file the ingest run is at
  previews, \* request -> where it is
  cache,    \* the converted decks: [name, hash, text]
  deletion, \* where the delete request is
  faults,   \* the faults still to come: "write", "convert", "kill"
  history   \* [overlapped, drifted, killed]: see the properties

vars == <<target, partial, content, uploads, rows, run, previews, cache, deletion, faults, history>>

Whole(v) == [i \in 1 .. Length[v] |-> v]
Doc(record) == <<record.name, record.hash>>  \* derive_doc_id

Init ==
  /\ target = [n \in Names |-> None] /\ partial = [n \in Names |-> None]
  /\ content = [v \in Versions |-> <<>>]
  /\ \E s \in Scenarios :
       /\ uploads = [r \in DOMAIN s.uploads |->
            [pc |-> "sent", parts |-> s.uploads[r], at |-> 1, inode |-> None, written |-> 0,
             results |-> <<>>, reply |-> None]]
       /\ previews = [p \in s.previews |-> [pc |-> "sent"]]
       /\ faults = s.faults
  /\ rows = {} /\ cache = {}
  /\ run = [pc |-> "idle"]
  /\ deletion = [pc |-> "idle"]
  /\ history = [overlapped |-> {}, drifted |-> FALSE, killed |-> FALSE]

-----------------------------------------------------------------------------
(* Uploads.                                                                 *)

Part(r) == uploads[r].parts[uploads[r].at]
At(r, pc) == uploads[r].pc = pc
Writing(r) == uploads[r].pc \in {"write", "cleanup"}
Step(r, changes) == uploads' = [uploads EXCEPT ![r] = changes]

\* Somebody is between two reads of the file at n.
Reading(n) ==
  \/ run.pc = "parse" /\ run.name = n
  \/ \E p \in DOMAIN previews : previews[p].pc \in {"cache", "lock", "convert", "render"}
                         /\ previews[p].row.name = n

Replace(n, inode) ==
  /\ target' = [target EXCEPT ![n] = inode]
  /\ history' = [history EXCEPT !.drifted = @ \/ Reading(n)]

TotalSize(batch) == FoldSeq(LAMBDA part, sum : sum + Length[part.version], 0, batch)

\* upload_documents, upload_graph_documents: a batch that is too much is
\* refused before anything is written (a graph upload has no total).
Receive(r) ==
  /\ At(r, "sent")
  /\ IF \/ Len(uploads[r].parts) > MaxFiles
        \/ uploads[r].parts[1].name \notin GraphNames /\ TotalSize(uploads[r].parts) > MaxTotal
     THEN Step(r, [uploads[r] EXCEPT !.pc = "replied", !.reply = "refused"])
     ELSE Step(r, [uploads[r] EXCEPT !.pc = "part"])
  /\ UNCHANGED <<target, partial, content, rows, run, previews, cache, deletion, faults, history>>

Settled(r, result) ==
  [uploads[r] EXCEPT !.pc = "part", !.at = @ + 1, !.results = Append(@, result)]

\* _safe_name, _safe_relative_path, the extension gate, resolve_contained.
RejectPart(r) ==
  /\ At(r, "part") /\ uploads[r].at <= Len(uploads[r].parts) /\ Part(r).version \notin Allowed
  /\ Step(r, Settled(r, "rejected"))
  /\ UNCHANGED <<target, partial, content, rows, run, previews, cache, deletion, faults, history>>

\* Mutant of OpenPartial: the file is written in place.
OpenTarget(r) ==
  LET n == Part(r).name v == Part(r).version IN
  /\ At(r, "part") /\ uploads[r].at <= Len(uploads[r].parts) /\ v \in Allowed
  /\ content' = [content EXCEPT ![v] = <<>>]
  /\ Step(r, [uploads[r] EXCEPT !.pc = "write", !.inode = v, !.written = 0])
  /\ partial' = [partial EXCEPT ![n] = v]
  /\ Replace(n, v)
  /\ UNCHANGED <<rows, run, previews, cache, deletion, faults>>

\* partial.open("wb"): a new inode, or the one that is there, emptied.
OpenPartial(r) ==
  LET n == Part(r).name
      inode == IF partial[n] = None THEN Part(r).version ELSE partial[n]
  IN
  /\ At(r, "part") /\ uploads[r].at <= Len(uploads[r].parts) /\ Part(r).version \in Allowed
  /\ partial' = [partial EXCEPT ![n] = inode]
  /\ content' = [content EXCEPT ![inode] = <<>>]
  /\ Step(r, [uploads[r] EXCEPT !.pc = "write", !.inode = inode, !.written = 0])
  /\ history' = [history EXCEPT !.overlapped = @ \cup
       {n : other \in {q \in DOMAIN uploads \ {r} : Writing(q) /\ Part(q).name = n}}]
  /\ UNCHANGED <<target, rows, run, previews, cache, deletion, faults>>

\* A slice goes where this writer is in the file; what it skips is a hole.
Written(slices, place, v) ==
  [i \in 1 .. (IF Len(slices) > place THEN Len(slices) ELSE place) |->
     IF i = place THEN v ELSE IF i <= Len(slices) THEN slices[i] ELSE None]

WriteSlice(r) ==
  LET u == uploads[r] IN
  /\ At(r, "write") /\ u.written < Length[Part(r).version] /\ u.written < MaxSlices
  /\ content' = [content EXCEPT ![u.inode] = Written(@, u.written + 1, Part(r).version)]
  /\ Step(r, [u EXCEPT !.written = @ + 1])
  /\ UNCHANGED <<target, partial, rows, run, previews, cache, deletion, faults, history>>

\* The slice that would pass the cap is not written.
TooLarge(r) ==
  /\ At(r, "write") /\ uploads[r].written < Length[Part(r).version] /\ uploads[r].written = MaxSlices
  /\ Step(r, [uploads[r] EXCEPT !.pc = "cleanup", !.results = Append(@, "too_large")])
  /\ UNCHANGED <<target, partial, content, rows, run, previews, cache, deletion, faults, history>>

\* An OSError of the open, a write or the move.
WriteFails(r) ==
  /\ At(r, "write") /\ "write" \in faults
  /\ faults' = faults \ {"write"}
  /\ Step(r, [uploads[r] EXCEPT !.pc = "cleanup", !.results = Append(@, "write_failed")])
  /\ UNCHANGED <<target, partial, content, rows, run, previews, cache, deletion, history>>

\* shutil.move: whatever is at the partial path by now; nothing there is an
\* OSError.
Move(r) ==
  LET n == Part(r).name IN
  /\ At(r, "write") /\ uploads[r].written = Length[Part(r).version]
  /\ IF partial[n] = None
     THEN /\ Step(r, [uploads[r] EXCEPT !.pc = "cleanup", !.results = Append(@, "write_failed")])
          /\ UNCHANGED <<target, partial, history>>
     ELSE /\ Replace(n, partial[n])
          /\ partial' = [partial EXCEPT ![n] = None]
          /\ Step(r, [uploads[r] EXCEPT !.pc = "cleanup", !.results = Append(@, "stored")])
  /\ UNCHANGED <<content, rows, run, previews, cache, deletion, faults>>

\* Mutant of Cleanup: only a write that failed is cleaned up after.
CleanupFailed(r) ==
  LET n == Part(r).name
      result == uploads[r].results[uploads[r].at]
  IN
  /\ At(r, "cleanup")
  /\ partial' = IF result = "write_failed" THEN [partial EXCEPT ![n] = None] ELSE partial
  /\ Step(r, IF n \in GraphNames /\ result = "stored"
             THEN [uploads[r] EXCEPT !.pc = "sniff"]
             ELSE [uploads[r] EXCEPT !.pc = "part", !.at = @ + 1, !.inode = None])
  /\ UNCHANGED <<target, content, rows, run, previews, cache, deletion, faults, history>>

\* The finally of _store_upload: partial.unlink(missing_ok).
Cleanup(r) ==
  LET n == Part(r).name IN
  /\ At(r, "cleanup")
  /\ partial' = [partial EXCEPT ![n] = None]
  /\ Step(r, IF n \in GraphNames /\ uploads[r].results[uploads[r].at] = "stored"
             THEN [uploads[r] EXCEPT !.pc = "sniff"]
             ELSE [uploads[r] EXCEPT !.pc = "part", !.at = @ + 1, !.inode = None])
  /\ UNCHANGED <<target, content, rows, run, previews, cache, deletion, faults, history>>

\* _sniff_stored: find_message_source probes the file.  (The sidecars of a
\* database, which are stored unprobed, are not among Names.)
Sniff(r) ==
  LET n == Part(r).name
      recognised == target[n] # None /\ content[target[n]] # <<>> /\ content[target[n]][1] \in Sources
  IN
  /\ At(r, "sniff")
  /\ Step(r, IF recognised THEN [uploads[r] EXCEPT !.pc = "part", !.at = @ + 1, !.inode = None]
             ELSE [uploads[r] EXCEPT !.pc = "unlink"])
  /\ UNCHANGED <<target, partial, content, rows, run, previews, cache, deletion, faults, history>>

\* A file no source recognised is removed again: whatever is there by now.
RemoveUnread(r) ==
  /\ At(r, "unlink")
  /\ Step(r, [uploads[r] EXCEPT !.pc = "part", !.at = @ + 1, !.results[uploads[r].at] = "unsupported"])
  /\ Replace(Part(r).name, None)
  /\ UNCHANGED <<partial, content, rows, run, previews, cache, deletion, faults>>

\* 201 when anything landed, 500 or 422 otherwise.
Outcome(results) ==
  IF \E i \in DOMAIN results : results[i] = "stored" THEN "created"
  ELSE IF \E i \in DOMAIN results : results[i] = "write_failed" THEN "not_writable"
  ELSE "refused"

Reply(r) ==
  /\ At(r, "part") /\ uploads[r].at > Len(uploads[r].parts)
  /\ Step(r, [uploads[r] EXCEPT !.pc = "replied", !.reply = Outcome(uploads[r].results)])
  /\ UNCHANGED <<target, partial, content, rows, run, previews, cache, deletion, faults, history>>

Upload(r) ==
  \/ Receive(r) \/ RejectPart(r) \/ OpenPartial(r) \/ WriteSlice(r) \/ TooLarge(r)
  \/ WriteFails(r) \/ Move(r) \/ Cleanup(r) \/ Sniff(r) \/ RemoveUnread(r)
  \/ Reply(r)

-----------------------------------------------------------------------------
(* The ingest run, a file at a time.                                        *)

Known(n, hash) == \E row \in rows : row.name = n /\ row.hash = hash

\* content_hash(path.read_bytes()): a known document is skipped.
HashFile(n) ==
  /\ run.pc = "idle" /\ n \notin GraphNames /\ target[n] # None
  /\ ~Known(n, content[target[n]])
  /\ run' = [pc |-> "parse", name |-> n, hash |-> content[target[n]]]
  /\ UNCHANGED <<target, partial, content, uploads, rows, previews, cache, deletion, faults, history>>

\* parse(path) opens the file again; a file that is gone fails.
ParseFile ==
  LET n == run.name IN
  /\ run.pc = "parse"
  /\ rows' = IF target[n] = None THEN rows
             ELSE {row \in rows : Doc(row) # <<n, run.hash>>}
                  \cup {[name |-> n, hash |-> run.hash, text |-> content[target[n]]]}
  /\ run' = [pc |-> "idle"]
  /\ UNCHANGED <<target, partial, content, uploads, previews, cache, deletion, faults, history>>

-----------------------------------------------------------------------------
(* Previews.                                                                *)

Go(p, state) == previews' = [previews EXCEPT ![p] = state]
Degrade(p) == Go(p, [pc |-> "replied"])
Converted(row) == \E pdf \in cache : Doc(pdf) = Doc(row)

\* _get_document_or_404
FindRow(p) ==
  /\ previews[p].pc = "sent"
  /\ \E row \in rows : Go(p, [pc |-> "check", row |-> row])
  /\ UNCHANGED <<target, partial, content, uploads, rows, run, cache, deletion, faults, history>>

\* Mutant of CheckFile: the bytes of a deck are not compared.
CheckPresence(p) ==
  /\ previews[p].pc = "check"
  /\ LET row == previews[p].row
         n == row.name
     IN  IF target[n] = None \/ (n \notin DeckNames /\ content[target[n]] # row.hash)
         THEN Degrade(p)
         ELSE Go(p, [previews[p] EXCEPT !.pc = IF n \in DeckNames THEN "cache" ELSE "render"])
  /\ UNCHANGED <<target, partial, content, uploads, rows, run, cache, deletion, faults, history>>

\* resolve_preview_source: file_missing, file_changed, or on to the PDF.
CheckFile(p) ==
  /\ previews[p].pc = "check"
  /\ LET row == previews[p].row
         n == row.name
     IN  IF target[n] = None \/ content[target[n]] # row.hash THEN Degrade(p)
         ELSE Go(p, [previews[p] EXCEPT !.pc = IF n \in DeckNames THEN "cache" ELSE "render"])
  /\ UNCHANGED <<target, partial, content, uploads, rows, run, cache, deletion, faults, history>>

\* ensure_pdf: the cache, and again once the lock is held.
LookUp(p) ==
  /\ previews[p].pc = "cache"
  /\ Go(p, [previews[p] EXCEPT !.pc = IF Converted(previews[p].row) THEN "render" ELSE "lock"])
  /\ UNCHANGED <<target, partial, content, uploads, rows, run, cache, deletion, faults, history>>
Lock(p) ==
  /\ previews[p].pc = "lock" /\ \A q \in DOMAIN previews : previews[q].pc # "convert"
  /\ Go(p, [previews[p] EXCEPT !.pc = IF Converted(previews[p].row) THEN "render" ELSE "convert"])
  /\ UNCHANGED <<target, partial, content, uploads, rows, run, cache, deletion, faults, history>>

\* _run_soffice reads the source for itself; the result is moved into place.
Convert(p) ==
  LET row == previews[p].row
      n == row.name
  IN
  /\ previews[p].pc = "convert"
  /\ IF target[n] = None
     THEN Degrade(p) /\ UNCHANGED cache
     ELSE /\ cache' = {pdf \in cache : Doc(pdf) # Doc(row)}
                      \cup {[name |-> n, hash |-> row.hash, text |-> content[target[n]]]}
          /\ Go(p, [previews[p] EXCEPT !.pc = "render"])
  /\ UNCHANGED <<target, partial, content, uploads, rows, run, deletion, faults, history>>

\* ConversionUnavailable, ConversionFailed.
ConvertFails(p) ==
  /\ previews[p].pc = "convert" /\ "convert" \in faults
  /\ faults' = faults \ {"convert"}
  /\ Degrade(p)
  /\ UNCHANGED <<target, partial, content, uploads, rows, run, cache, deletion, history>>

\* locate, render_page_png: the PDF is opened by its path.
Render(p) ==
  LET row == previews[p].row
      n == row.name
      pdfs == IF n \in DeckNames THEN {pdf.text : pdf \in {c \in cache : Doc(c) = Doc(row)}}
              ELSE IF target[n] = None THEN {} ELSE {content[target[n]]}
  IN
  /\ previews[p].pc = "render"
  /\ IF pdfs = {} THEN Degrade(p)
     ELSE \E pdf \in pdfs : Go(p, [pc |-> "shown", row |-> row, text |-> pdf])
  /\ UNCHANGED <<target, partial, content, uploads, rows, run, cache, deletion, faults, history>>

Preview(p) ==
  FindRow(p) \/ CheckFile(p) \/ LookUp(p) \/ Lock(p) \/ Convert(p) \/ ConvertFails(p) \/ Render(p)

-----------------------------------------------------------------------------
(* delete_documents with remove_file.                                       *)

ListRows ==
  /\ deletion.pc = "idle"
  /\ \E listed \in SUBSET rows \ {{}} :
       deletion' = [pc |-> "rows", listed |-> listed]
  /\ UNCHANGED <<target, partial, content, uploads, rows, run, previews, cache, faults, history>>

DeleteRows ==
  /\ deletion.pc = "rows"
  /\ rows' = {row \in rows : \A listed \in deletion.listed : Doc(listed) # Doc(row)}
  /\ deletion' = [deletion EXCEPT !.pc = "files"]
  /\ UNCHANGED <<target, partial, content, uploads, run, previews, cache, faults, history>>

\* _remove_source_file: the path, whatever is there by now.
RemoveFile ==
  /\ deletion.pc = "files"
  /\ \E row \in deletion.listed :
       /\ IF target[row.name] = None THEN UNCHANGED <<target, history>> ELSE Replace(row.name, None)
       /\ deletion' = [deletion EXCEPT !.listed = @ \ {row}]
  /\ UNCHANGED <<partial, content, uploads, rows, run, previews, cache, faults>>

-----------------------------------------------------------------------------
\* The process dies with everything in flight; disk, tables and converted
\* decks stay.
Kill ==
  /\ "kill" \in faults /\ faults' = faults \ {"kill"}
  /\ uploads' = [r \in DOMAIN uploads |->
       IF At(r, "sent") \/ At(r, "replied") THEN uploads[r]
       ELSE [uploads[r] EXCEPT !.pc = "replied", !.reply = "lost"]]
  /\ previews' = [p \in DOMAIN previews |->
       IF previews[p].pc \in {"sent", "shown"} THEN previews[p] ELSE [pc |-> "replied"]]
  /\ run' = [pc |-> "idle"] /\ deletion' = [pc |-> "idle"]
  /\ history' = [history EXCEPT !.killed = TRUE]
  /\ UNCHANGED <<target, partial, content, rows, cache>>

Next ==
  \/ \E r \in DOMAIN uploads : Upload(r)
  \/ \E n \in Names : HashFile(n)
  \/ ParseFile
  \/ \E p \in DOMAIN previews : Preview(p)
  \/ ListRows \/ DeleteRows \/ RemoveFile
  \/ Kill

Spec == Init /\ [][Next]_vars

-----------------------------------------------------------------------------
TypeOK ==
  /\ target \in [Names -> Versions \cup {None}] /\ partial \in [Names -> Versions \cup {None}]
  /\ \A v \in Versions : content[v] \in Seq(Versions \cup {None})
  /\ \A r \in DOMAIN uploads :
       uploads[r].pc \in {"sent", "part", "write", "cleanup", "sniff", "unlink", "replied"}
  /\ \A row \in rows \cup cache : row.name \in Names \ GraphNames
  /\ \A row, other \in rows : Doc(row) = Doc(other) => row = other

\* _store_upload: as long as uploads of a name do not overlap, its path only
\* ever holds one upload's file, whole - through caps, failing disks, kills,
\* and the partial files they leave behind.
FilesAreWhole ==
  \A n \in Names \ history.overlapped :
    target[n] # None => \E v \in Versions : content[target[n]] = Whole(v)

\* The uploads an inode has slices of.
Slices(inode) == {content[inode][i] : i \in DOMAIN content[inode]}

\* No partial file outlives the upload that wrote it, a kill aside; and a
\* batch refused with an error has left nothing of itself under any name.
RefusedLeavesNothing ==
  /\ \A n \in Names : partial[n] # None =>
       \/ history.killed
       \/ \E r \in DOMAIN uploads : Writing(r) /\ Part(r).name = n
  /\ \A r \in DOMAIN uploads, n \in Names \ history.overlapped :
       uploads[r].reply \in {"refused", "not_writable"} /\ target[n] # None =>
         \A i \in DOMAIN uploads[r].parts : uploads[r].parts[i].version \notin Slices(target[n])

\* What is indexed under a content hash, converted for it and shown for it is
\* the content of that hash, as long as uploads of the name do not overlap
\* and nobody replaced or removed a file between two reads of one request: an
\* edit, a deletion or a deck converted earlier never shows another
\* document's pages.
ShownIsIngested ==
  ~history.drifted =>
    /\ \A row \in rows \cup cache : row.name \notin history.overlapped => row.text = row.hash
    /\ \A p \in DOMAIN previews :
         previews[p].pc = "shown" /\ previews[p].row.name \notin history.overlapped =>
           previews[p].text = previews[p].row.hash

\* The same whatever overlaps: not what the code guarantees.
UploadsAreWhole ==
  \A n \in Names : target[n] # None => \E v \in Versions : content[target[n]] = Whole(v)

\* The docstring of conversion_cache_path: "so a cache hit can never be stale".
CacheIsNeverStale == \A pdf \in cache : pdf.text = pdf.hash

\* A graph source whose upload was answered with success is still there, as
\* nothing deletes one here.
StoredSourceStays ==
  \A r \in DOMAIN uploads : uploads[r].reply = "created" =>
    \A i \in DOMAIN uploads[r].results :
      uploads[r].results[i] = "stored" /\ uploads[r].parts[i].name \in GraphNames
        => target[uploads[r].parts[i].name] # None
=============================================================================
