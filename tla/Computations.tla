---------------------------- MODULE Computations ----------------------------
(***************************************************************************)
(* The pure functions of the modules below, together.  An input is built   *)
(* piece by piece - a character, a line, a chunk of a stream, an export -  *)
(* so that a behaviour is an input that grows, and what is said of every   *)
(* state is said of every input: what the code computes on it.             *)
(***************************************************************************)
EXTENDS ThinkStream, Configuration, Splitting, TranscriptGrowth, TLC

CONSTANTS
  Bound,       \* of how many pieces the input of each algorithm is made
  Pieces,      \* what a chunk of a stream may say
  Histories,   \* the messages before a query
  Condensings, \* the settings of the query's condensation
  Excerpts,    \* retrieved excerpts
  Facts,       \* lengths of the facts beside them
  Budgets,     \* characters an answer's context may take
  Frame,       \* characters around an excerpt's label
  Prompts,     \* window, blurb cap, and the prompt's parts, in tokens
  Levels,      \* of a markdown heading
  Distances,   \* of a segment from the next one
  BatchSizes,  \* of the embedding service
  Words        \* of a chunk and of the pages it is looked for on

ASSUME StreamAssumption ==
  /\ Pieces \subseteq Seq(Alphabet)
  /\ Histories \subseteq Seq(STRING)
  /\ \A settings \in Condensings : settings.turns \in Nat /\ settings.maxChars \in Nat

\* The white space a cut leaves behind is no longer than what separates and
\* frames the next excerpt.
ASSUME EvidenceAssumption ==
  /\ Excerpts \subseteq [label : Nat, length : Nat, blank : Nat]
  /\ Facts \subseteq Nat /\ Budgets \subseteq Nat /\ Frame \in Nat
  /\ \A cut, next \in Excerpts : cut.blank <= Separator + next.label + Frame
  /\ Prompts \subseteq [window : Nat, cap : Nat \ {0}, document : Nat, chunk : Nat,
                         scaffolding : Nat]

ASSUME TextAssumption ==
  Levels \subseteq Nat \ {0} /\ Distances \subseteq Nat /\ BatchSizes \subseteq Nat \ {0}

VARIABLE input  \* the algorithm and what it is given so far

Eval == INSTANCE Evaluation

vars == <<input, exports>>

-----------------------------------------------------------------------------
Sequential == {"stream", "reply", "deltas", "excerpts", "markdown", "distances", "passages", "scan",
               "files", "turns", "rows", "series", "answers"}

Init ==
  /\ input \in {[alg |-> alg, data |-> <<>>] :
                  alg \in Sequential \cup {"settings", "campaign", "prompt", "export"}}
              \cup {[alg |-> "corpus", data |-> [dense |-> <<>>, sparse |-> <<>>, lost |-> {}]],
                    [alg |-> "page", data |-> [chunk |-> <<>>, other |-> <<>>]],
                    [alg |-> "golden", data |-> [refs |-> <<>>, chunks |-> <<>>, retrieved |-> <<>>]]}
  /\ NoExports

Grow(alg, pieces) ==
  /\ input.alg = alg /\ Len(input.data) < Bound[alg]
  /\ \E piece \in pieces : input' = [input EXCEPT !.data = Append(@, piece)]
  /\ UNCHANGED exports

Extend(alg, field, pieces) ==
  /\ input.alg = alg /\ Len(input.data[field]) < Bound[alg][field]
  /\ \E piece \in pieces : input' = [input EXCEPT !.data[field] = Append(@, piece)]
  /\ UNCHANGED exports

Choose(alg, values) ==
  /\ input.alg = alg /\ input.data = <<>>
  /\ \E value \in values : input' = [input EXCEPT !.data = value]
  /\ UNCHANGED exports

\* The text a model streams: a character of a new delta or of the last one.
StreamCharacter ==
  /\ input.alg = "stream" /\ Len(Join(input.data)) < Bound["stream"]
  /\ \E c \in Alphabet :
       \/ input' = [input EXCEPT !.data = Append(@, <<c>>)]
       \/ /\ input.data # <<>>
          /\ input' = [input EXCEPT !.data[Len(input.data)] = Append(@, c)]
  /\ UNCHANGED exports

Reply == Grow("reply", Alphabet)

ReadDelta == Grow("deltas", [reasoning : Pieces, content : Pieces])

RetrieveExcerpt == Grow("excerpts", Excerpts)

Lines == [kind : {"heading"}, level : Levels, mark : {"none"}]
         \cup [kind : {"fence"}, level : {0}, mark : {"backticks", "tildes"}]
         \cup [kind : {"text", "blank"}, level : {0}, mark : {"none"}]
ReadLine == Grow("markdown", Lines)

Measure == Grow("distances", Distances)
ReadPassage == Grow("passages", {Len(input.data)})
ReadPage == Grow("scan", {0, 1, 9})
FindFile == Grow("files", [extension : {"md", "pdf", "png", "zip"}, path : {Len(input.data)}])
PlayConversation == Grow("turns", 1 .. 3)

\* A chat.db: messages and reactions to the first of them, and links of the
\* newest into another chat.
Rows ==
  [chat : {1}, text : {"said", "none"}, blob : {"none", "decoded"}, reaction : {"none"},
   target : {0}, by : {"nobody"}]
  \cup [chat : {1}, text : {"none"}, blob : {"none"}, reaction : {"add", "remove"}, target : {0, 1},
        by : {"somebody"}]
ReadRow ==
  \/ \E row \in Rows :
       Grow("rows", {row @@ [rowid |-> IF input.data = <<>> THEN 1
                                          ELSE input.data[Len(input.data)].rowid + 1]})
  \/ /\ input.alg = "rows" /\ input.data # <<>> /\ input.data[Len(input.data)].chat = 1
     /\ Grow("rows", {[input.data[Len(input.data)] EXCEPT !.chat = 2]})

\* Graph evaluations one after the other, and an engine's answers in one.
EvaluateGraph ==
  Grow("series", [profile : {"smoke", "full"}, target : {0, 1}, skip : BOOLEAN,
                     engines : {<<"a">>, <<"b">>, <<"a", "b">>}, failing : {"none", "a", "b"}])
AskEngine ==
  Grow("answers", [kind : {"one", "other"},
                      answer : {Eval!Unanswered} \cup
                        [says : {{}, {"F"}, {"f", "g"}}, cites : {{}, {1}, {2}, {1, 2}}]])

\* A chunk and what else is on its pages, word by word.
ReadWord == \E field \in {"chunk", "other"} : Extend("page", field, Words)

\* Four chunks: the arms rank some of them, the vector store lost some that
\* Elasticsearch still lists.
Ranked(arm) == {input.data[arm][i] : i \in DOMAIN input.data[arm]}
Rank ==
  /\ input.alg = "corpus"
  /\ \/ Extend("corpus", "dense", (1 .. 4) \ (Ranked("dense") \cup input.data.lost))
     \/ Extend("corpus", "sparse", (1 .. 4) \ Ranked("sparse"))
Lose ==
  /\ input.alg = "corpus"
  /\ \E c \in Ranked("sparse") \ (Ranked("dense") \cup input.data.lost) :
       input' = [input EXCEPT !.data.lost = @ \cup {c}]
  /\ UNCHANGED exports

\* A golden query over one document: its references, the chunks some strategy
\* made of it, and what was retrieved.
Author == input.alg = "golden" /\ input.data.chunks = <<>>
  /\ Extend("golden", "refs", [doc : {1}, index : 1 .. 3, fact : {"f", "none"}])
Rechunk == input.alg = "golden" /\ input.data.retrieved = <<>>
  /\ Extend("golden", "chunks", SUBSET {"f"})
RankGolden == input.alg = "golden"
  /\ Extend("golden", "retrieved", 
            {<<1, c>> : c \in DOMAIN input.data.chunks}
              \ {input.data.retrieved[i] : i \in DOMAIN input.data.retrieved})

\* Around every bound the validators have.
Configurations ==
  {[limits EXCEPT !.CHUNK_OVERLAP = size[1], !.CHUNK_SIZE = size[2], !.UPLOAD_MAX_MB = size[3]]
     @@ rank @@ method :
     limits \in {[UPLOAD_MAX_MB |-> 1, UPLOAD_MAX_FILES |-> 1, UPLOAD_MAX_TOTAL_MB |-> 2,
                  UPLOAD_MAX_PATH_DEPTH |-> 1, PDF_OCR_MIN_CHARS |-> 3,
                  PDF_OCR_TEXTLESS_PAGE_RATIO |-> 5, CHUNK_SIZE |-> 2, CHUNK_OVERLAP |-> 1,
                  MAX_TOKENS |-> 1, LLM_CONTEXT_TOKENS |-> 20, CONTEXTUALIZE_MAX_TOKENS |-> 2,
                  SEMANTIC_WEIGHT |-> 8, BM25_WEIGHT |-> 2, RERANK_ENABLED |-> TRUE,
                  HYDE_ENABLED |-> TRUE]},
     size \in {<<1, 2, 1>>, <<2, 2, 1>>, <<0, 1, 3>>},
     rank \in [TOP_K : 1 .. 3, RERANK_TOP_N : 0 .. 4, RERANK_CANDIDATES : 1 .. 4],
     method \in [RETRIEVAL_METHOD : {"hybrid", "reranked", "cosine"},
                 RERANK_BASE_METHOD : {"bm25", "hybrid", "hyde", "reranked"},
                 HYDE_BASE_METHOD : {"semantic", "hybrid", "bm25", "reranked"}]}
Configure == Choose("settings", Configurations)

\* What is sent to the contextualizing model, and the window it must fit.
Prompt == Choose("prompt", Prompts)

\* An evaluation on a host's environment, one of its ingests losing a file,
\* one of its configs failing or its golden set naming chunks there are not.
Hosts == [CONTEXTUALIZE : BOOLEAN, CHUNKING_STRATEGY : {"recursive_character", "semantic"},
          OCR_ENGINE : {"easyocr", "tesseract"}, RERANK_ENABLED : BOOLEAN, HYDE_ENABLED : BOOLEAN,
          CONDENSE_ENABLED : BOOLEAN]
Campaigns == [blocks : {"matrix", "chat", "ocr"}, host : Hosts,
              ingest : {"A", "B", "sweep", "chat", "ocr", "none"},
              fault : {"none", "hyde", "bm25", "simple", "drift"}]
Campaign == Choose("campaign", Campaigns)

Export == input.alg = "export" /\ GrowthNext /\ UNCHANGED input

Next ==
  \/ StreamCharacter \/ Reply \/ ReadDelta \/ RetrieveExcerpt \/ ReadLine \/ Measure \/ ReadPassage
  \/ ReadPage \/ FindFile \/ PlayConversation \/ ReadWord \/ Rank \/ Lose \/ Author \/ Rechunk
  \/ RankGolden \/ Configure \/ Prompt \/ Campaign \/ Export
  \/ ReadRow \/ EvaluateGraph \/ AskEngine

Spec == Init /\ [][Next]_vars
-----------------------------------------------------------------------------
\* models/stream.py, models/llm.py: the transcript a client saw arriving and
\* the answer that is stored are the same text, however the model's output is
\* cut into deltas and whichever way it marks its reasoning.
StreamedAsWhole ==
  /\ input.alg = "stream" => SplitsAlike(input.data)
  /\ input.alg = "reply" =>
       \A history \in Histories, settings \in Condensings :
         SearchIsClean(<<"q">>, history, input.data, settings)
  /\ input.alg = "deltas" => TransportsAgree(input.data)

\* graph/answer.py, chunking/contextual.py, models/llm.py: what is packed into
\* a prompt stays in its budget, and budgets computed in different modules
\* leave each other the room they assume.
GroundingFits ==
  /\ input.alg = "excerpts" => \A facts \in Facts, max \in Budgets :
       PacksInBudget([facts |-> facts, excerpts |-> input.data], max, Frame)
  /\ input.alg = "prompt" /\ input.data # <<>> =>
       LET p == input.data
           s == [LLM_CONTEXT_TOKENS |-> p.window, CONTEXTUALIZE_MAX_TOKENS |-> p.cap]
       IN  /\ BlurbKeepsItsCap(s, p.document, p.chunk, p.scaffolding)
           /\ BudgetsAgree(p.window, p.cap)

\* retrieval/: the methods rank honestly on stores that disagree, and every
\* configuration the validators accept serves every method.
RetrievalHonest ==
  /\ input.alg = "corpus" =>
       LET corpus == [dense |-> [v \in {"query", "passage"} |-> input.data.dense],
                      sparse |-> input.data.sparse, rows |-> 1 .. 4 \ input.data.lost,
                      relevance |-> <<2, 3, 1, 3>>]
       IN  \A k \in 1 .. 3, w \in {[semantic |-> 4, bm25 |-> 1], [semantic |-> 1, bm25 |-> 1],
                                   [semantic |-> 0, bm25 |-> 1]} :
             /\ FusionAgrees(corpus, k, w)
             /\ \A method \in {"semantic", "bm25", "hybrid"} :
                  /\ RanksAreHonest(Base(method, corpus, k, "query", w), corpus, k, FALSE)
                  /\ \A n \in 1 .. 2 :
                       RanksAreHonest(Reranked(method, corpus, k, "query", w,
                                        [enabled |-> TRUE, candidates |-> 3, topN |-> n]),
                                      corpus, k, TRUE)
  /\ input.alg = "settings" /\ input.data # <<>> =>
       \A usable \in BOOLEAN :
         AcceptedSettingsServe(input.data,
           [dense |-> [query |-> <<1, 2, 3, 4>>, passage |-> <<4, 2, 1, 3>>],
            sparse |-> <<2, 4, 3, 1>>, rows |-> 1 .. 4, relevance |-> <<2, 3, 1, 3>>], usable)

\* chunking/, models/embeddings.py, preview/, ingest/parsers/: no text is lost,
\* duplicated or given another's vector between a file and its chunks, and a
\* chunk is found again on its page.
Orders(n) == {p \in [1 .. n -> 1 .. n] : \A i, j \in 1 .. n : i # j => p[i] # p[j]}
TextsKept ==
  /\ input.alg = "markdown" => SectionsKeepText(input.data)
  /\ input.alg = "distances" =>
       LET segments == [i \in 1 .. Len(input.data) + 1 |-> i]
       IN  GroupsRebuild(segments, input.data)
  /\ input.alg = "passages" => \A size \in BatchSizes :
       \A order \in [1 .. size -> UNION {Orders(n) : n \in 1 .. size}] :
         (\A n \in 1 .. size : order[n] \in Orders(n)) => VectorsFit(input.data, size, order)
  /\ input.alg = "page" => \A before, after \in Words :
       LET whole == <<before>> \o input.data.chunk \o <<after>>
       IN  /\ ChunkIsFound(input.data.chunk, <<input.data.other, whole>>)
           /\ ChunkIsFound(input.data.chunk, <<whole, input.data.other>>)

\* ingest/discovery.py, ingest/parsers/: every file of a format the run knows
\* is read once, and a scan is never taken for a digital document under
\* settings the validators accept.
FilesAreRead ==
  /\ input.alg = "files" =>
       \A allowed \in SUBSET {"md", "pdf", "png", "zip"}, parsers \in SUBSET {"text_like", "pdf", "image"} :
         DiscoveryIsExact(input.data, allowed,
           [md |-> "text_like", pdf |-> "pdf", png |-> "image", zip |-> "unknown"], parsers)
  /\ input.alg = "scan" =>
       \A elsewhere \in {0, 2, 30}, ratio \in {0, 5, 10, 11}, fallback, force \in BOOLEAN :
       \A text \in {Raises, [pages |-> input.data, elsewhere |-> elsewhere]},
          ocr \in {Raises, [pages |-> [p \in DOMAIN input.data |-> p % 2], elsewhere |-> 1]} :
         LET settings == [PDF_OCR_MIN_CHARS |-> 3, PDF_OCR_TEXTLESS_PAGE_RATIO |-> ratio,
                          PDF_OCR_FALLBACK |-> fallback, PDF_OCR_FORCE_FULL_PAGE |-> force]
         IN  ValidPdfOcr(settings) => ScansAreRead(settings, text, ocr)
  /\ input.alg = "rows" => ArchiveIsRead(input.data)

\* eval/: a reported number was measured on what its label says, by a metric
\* that agrees with the ranks beside it.
EvaluationHonest ==
  /\ input.alg = "golden" =>
       Eval!MetricsAgree(input.data.refs, <<input.data.chunks>>, input.data.retrieved)
  /\ input.alg = "campaign" /\ input.data # <<>> =>
       LET c == input.data
           blocks == CASE c.blocks = "matrix" -> Eval!Matrix
                       [] c.blocks = "chat" -> Eval!ChatEval
                       [] c.blocks = "ocr" -> Eval!OcrBenchmark
       IN  Eval!MeasuredAsLabelled(blocks, c.host, {"f", "g"},
             [files |-> [name \in {"A", "B", "sweep", "chat", "ocr"} |->
                           IF name = c.ingest THEN {"g"} ELSE {}],
              config |-> c.fault, drifted |-> c.fault = "drift"])
  /\ input.alg = "turns" => Eval!EnginesAreComparable(input.data)
  /\ input.alg = "series" => Eval!GraphRunsAreTold(input.data)
  /\ input.alg = "answers" => Eval!FailureGainsNothing(input.data)
=============================================================================
