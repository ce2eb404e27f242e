----------------------------- MODULE Extraction -----------------------------
(***************************************************************************)
(* From a docs directory to extracted text: discovery's buckets            *)
(* (ingest/discovery.py) and the parsers' passes (ingest/parsers/).  A     *)
(* conversion is what Docling makes of a file: it raises, or it is the     *)
(* number of characters on each page and of those in the export that are   *)
(* on no page (table rules, placeholders of pictures).                     *)
(***************************************************************************)
EXTENDS Naturals, Integers, Sequences, FiniteSets, SequencesExt, FiniteSetsExt, Folds


Buckets == <<"text_like", "pdf", "office", "web", "image">>

\* discover_documents: the files of each bucket, in the order of their paths.
\* The whitelist decides whether, the routing table which; a file the table
\* does not know is skipped even when it is allowed.
Discover(files, allowed, bucketOf) ==
  [b \in DOMAIN Buckets |->
     SelectSeq(files, LAMBDA file : file.extension \in allowed
                                    /\ bucketOf[file.extension] = Buckets[b])]

\* What a run works through: bucket after bucket, those without a parser
\* counted as unsupported.
Work(discovered, parsers) ==
  FlattenSeq([b \in DOMAIN discovered |->
                IF Buckets[b] \in parsers THEN discovered[b] ELSE <<>>])

\* Every allowed file of a known format with a parser is worked through once,
\* whatever the order of the paths: no file is ingested twice in a run, none
\* is lost between the buckets.
DiscoveryIsExact(files, allowed, bucketOf, parsers) ==
  LET work == Work(Discover(files, allowed, bucketOf), parsers)
  IN  \A i \in DOMAIN files :
        Cardinality({j \in DOMAIN work : work[j] = files[i]}) =
          IF files[i].extension \in allowed /\ bucketOf[files[i].extension] \in parsers
          THEN 1 ELSE 0

-----------------------------------------------------------------------------
Raises == [raises |-> TRUE]
Total(pages) == FoldSeq(+, 0, pages)

\* extraction_stats: the characters of the export, and the textless pages.
ExtractionStats(pass) ==
  [chars |-> Total(pass.pages) + pass.elsewhere, pages |-> Len(pass.pages),
   textless |-> Cardinality({p \in DOMAIN pass.pages : pass.pages[p] = 0})]

\* Mutant of NeedsOcrFallback: the ratio must be exceeded.
NeedsOcrAbove(stats, settings) ==
  \/ stats.chars < settings.PDF_OCR_MIN_CHARS
  \/ 10 * stats.textless > settings.PDF_OCR_TEXTLESS_PAGE_RATIO * stats.pages

\* The ratio is in tenths.
NeedsOcrFallback(stats, settings) ==
  \/ stats.chars < settings.PDF_OCR_MIN_CHARS
  \/ /\ stats.pages > 0
     /\ 10 * stats.textless >= settings.PDF_OCR_TEXTLESS_PAGE_RATIO * stats.pages

\* raw_document: the first page that contributed text, 0 for none.
RawDocument(pass, extraction) ==
  [pass |-> pass, extraction |-> extraction,
   page |-> Min({p \in DOMAIN pass.pages : pass.pages[p] > 0} \cup {Len(pass.pages) + 1})
              % (Len(pass.pages) + 1)]

\* A failed pass fails the file.
Converted(pass, extraction) ==
  IF pass = Raises THEN Raises ELSE RawDocument(pass, extraction)

\* PdfParser.extract: `text` and `ocr` are what the two passes make of the
\* file.
ExtractPdf(settings, text, ocr) ==
  IF settings.PDF_OCR_FORCE_FULL_PAGE THEN Converted(ocr, "ocr_fallback")
  ELSE IF text = Raises
       THEN IF settings.PDF_OCR_FALLBACK THEN Converted(ocr, "ocr_fallback") ELSE Raises
  ELSE IF settings.PDF_OCR_FALLBACK /\ NeedsOcrFallback(ExtractionStats(text), settings)
       THEN Converted(ocr, "ocr_fallback")
  ELSE Converted(text, "text")

\* The image parser has the one pass, the office and web parsers the other.
ExtractImage(ocr) == Converted(ocr, "ocr")
ExtractDigital(text) == Converted(text, "text")

\* With the fallback on, a PDF none of whose pages has text is never taken
\* for a digital one, however many placeholders its export has; a fuller
\* text layer is never what triggers OCR; and no half-extracted document is
\* recorded: the text is one pass's, the label says which, and a failed last
\* pass fails the file.
ScansAreRead(settings, text, ocr) ==
  LET result == ExtractPdf(settings, text, ocr)
      fuller(p) == [text EXCEPT !.pages[p] = @ + 1]
      digital(pass) == ExtractPdf([settings EXCEPT !.PDF_OCR_FALLBACK = TRUE], pass, Raises) # Raises
  IN  /\ settings.PDF_OCR_FALLBACK /\ text # Raises /\ text.pages # <<>> /\ Total(text.pages) = 0
           => result = Converted(ocr, "ocr_fallback")
      /\ text # Raises => \A p \in DOMAIN text.pages : digital(text) => digital(fuller(p))
      /\ result # Raises =>
           /\ result.pass = IF result.extraction = "text" THEN text ELSE ocr
           /\ result.page # 0 => /\ result.pass.pages[result.page] > 0
                                 /\ \A p \in 1 .. result.page - 1 : result.pass.pages[p] = 0
           /\ result.page = 0 => Total(result.pass.pages) = 0
-----------------------------------------------------------------------------
(* graph/sources/imessage.py: a chat.db, as the rows of its query.  A row   *)
(* joins a message with a chat it is linked into; one message's rows are    *)
(* next to each other.  A body is what the text column or else the decoded  *)
(* blob gives; a reaction says what it does, to which message, and whose it *)
(* is (sender and kind).                                                    *)

NoBody == "none"
NoTarget == 0  \* what _strip_target_prefix makes of a malformed guid

IsReaction(row) == row.reaction # "none"
Body(row) == IF row.text # NoBody THEN row.text ELSE row.blob

\* A message linked into several chats counts once, in the first.
FirstLinks(rows) ==
  {i \in DOMAIN rows : \A j \in 1 .. i - 1 : rows[j].rowid # rows[i].rowid}

\* Mutant of Net: a reaction counts once for each chat it is linked into.
NetPerLink(rows, target, by) ==
  LET count(what) == Cardinality({i \in DOMAIN rows :
        /\ rows[i].reaction = what /\ rows[i].target = target /\ rows[i].by = by})
  IN  count("add") - count("remove")

\* tapback_net: adds minus removes.
Net(rows, target, by) ==
  LET count(what) == Cardinality({i \in FirstLinks(rows) :
        /\ rows[i].reaction = what /\ rows[i].target = target /\ rows[i].by = by})
  IN  count("add") - count("remove")

\* IMessageSource.parse: the messages with a body, and the reactions that are
\* left on them; a reaction to a message that is not here is dropped.
ParseMessages(rows) ==
  LET said == {i \in FirstLinks(rows) : ~IsReaction(rows[i]) /\ Body(rows[i]) # NoBody}
      row(guid) == rows[CHOOSE i \in said : rows[i].rowid = guid]
  IN  [guid \in {rows[i].rowid : i \in said} |->
         [thread |-> row(guid).chat, text |-> Body(row(guid)),
          tapbacks |-> {by \in {rows[i].by : i \in DOMAIN rows} : Net(rows, guid, by) > 0}]]

\* The reactions of one person to one message, oldest first, each once.
Reactions(rows, target, by) ==
  LET links == FirstLinks(rows)
  IN  SelectSeq([i \in DOMAIN rows |-> [rows[i] EXCEPT !.rowid = IF i \in links THEN @ ELSE 0]],
                LAMBDA row : row.rowid # 0 /\ IsReaction(row) /\ row.target = target /\ row.by = by)

\* In a complete export, where reactions are added and taken back in turn, a
\* message shows those whose last word was an add, in however many chats the
\* rows are linked and however a message's body is stored; and an export of a
\* grown database says the same of every earlier message but its reactions.
ArchiveIsRead(rows) ==
  LET archive == ParseMessages(rows)
      inTurn(reactions) == \A i \in DOMAIN reactions :
        reactions[i].reaction = (IF i % 2 = 1 THEN "add" ELSE "remove")
  IN  /\ \A guid \in DOMAIN archive : \A by \in {rows[i].by : i \in DOMAIN rows} :
           LET reactions == Reactions(rows, guid, by)
           IN  inTurn(reactions) =>
                 (by \in archive[guid].tapbacks <=>
                    reactions # <<>> /\ Last(reactions).reaction = "add")
      /\ \A n \in 0 .. Len(rows) :
           LET earlier == ParseMessages(SubSeq(rows, 1, n)) IN
           \A guid \in DOMAIN earlier :
             /\ guid \in DOMAIN archive
             /\ archive[guid].thread = earlier[guid].thread
             /\ archive[guid].text = earlier[guid].text
=============================================================================
