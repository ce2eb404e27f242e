----------------------------- MODULE Evaluation -----------------------------
(***************************************************************************)
(* The evaluation harness (eval/): how a ranked list is scored against the *)
(* golden set, how golden facts are found again under other chunk          *)
(* boundaries, and the sequence of pinned ingests and measurements of the  *)
(* retrieval matrix, the chat evaluation and the OCR benchmark.            *)
(*                                                                         *)
(* A score is the number of references satisfied; the code divides it by   *)
(* their number.                                                           *)
(***************************************************************************)
EXTENDS Naturals, Integers, Sequences, FiniteSets, SequencesExt, FiniteSetsExt, Functions, Folds, TLC


Top(retrieved, k) == {retrieved[i] : i \in 1 .. (IF k < Len(retrieved) THEN k ELSE Len(retrieved))}

RecallAtK(golden, retrieved, k) ==
  Cardinality({i \in DOMAIN golden : golden[i] \in Top(retrieved, k)})

PassAtK(golden, retrieved, k) == RecallAtK(golden, retrieved, k) = Len(golden)

\* acceptable[i] is the set of chunks that satisfy reference i.
RecallAtKAny(acceptable, retrieved, k) ==
  Cardinality({i \in DOMAIN acceptable : acceptable[i] \cap Top(retrieved, k) # {}})

PassAtKAny(acceptable, retrieved, k) == RecallAtKAny(acceptable, retrieved, k) = Len(acceptable)

\* Mutant of GoldenRank: the worst rank of the acceptable chunks.
GoldenRankWorst(ids, retrieved) ==
  LET ranks == {r \in DOMAIN retrieved : retrieved[r] \in ids} IN IF ranks = {} THEN 0 ELSE Max(ranks)

\* The best rank among a reference's acceptable chunks, 0 for none retrieved.
GoldenRank(ids, retrieved) ==
  LET ranks == {r \in DOMAIN retrieved : retrieved[r] \in ids} IN IF ranks = {} THEN 0 ELSE Min(ranks)

\* resolve_golden_by_fact: the chunks of the reference's document that hold
\* its fact; without a fact the chunk it was authored against.  A chunk is
\* the set of facts in it.
ResolveByFact(refs, chunks) ==
  [i \in DOMAIN refs |->
     IF refs[i].fact = "none" THEN {<<refs[i].doc, refs[i].index>>}
     ELSE {<<refs[i].doc, c>> : c \in {j \in DOMAIN chunks[refs[i].doc] :
                                          refs[i].fact \in chunks[refs[i].doc][j]}}]

\* validate_golden_against_store: references beyond a document's chunks.
Unresolvable(refs, chunks) ==
  {i \in DOMAIN refs : chunks[refs[i].doc] = <<>> \/ refs[i].index > Len(chunks[refs[i].doc])}

\* The reported numbers and the reported ranks tell the same story: a
\* reference counts at depth k exactly when its rank is at most k, so recall
\* never falls with k, a query passes from the depth of its worst rank on,
\* and a fact that no chunk holds can never be passed; under the boundaries
\* the golden set was authored for, the two forms of every metric agree.
MetricsAgree(refs, chunks, retrieved) ==
  LET ids == [i \in DOMAIN refs |-> <<refs[i].doc, refs[i].index>>]
      acceptable == ResolveByFact(refs, chunks)
      rank(i) == GoldenRank(acceptable[i], retrieved)
  IN  /\ \A k \in 1 .. Len(retrieved) + 1 :
           /\ RecallAtKAny(acceptable, retrieved, k) = Cardinality({i \in DOMAIN refs : rank(i) \in 1 .. k})
           /\ PassAtKAny(acceptable, retrieved, k)
                <=> \A i \in DOMAIN refs : rank(i) \in 1 .. k
           /\ (\A i \in DOMAIN refs : acceptable[i] = {ids[i]}) =>
                /\ RecallAtKAny(acceptable, retrieved, k) = RecallAtK(ids, retrieved, k)
                /\ PassAtKAny(acceptable, retrieved, k) = PassAtK(ids, retrieved, k)
           /\ (\E i \in DOMAIN refs : acceptable[i] = {}) => ~PassAtKAny(acceptable, retrieved, k)
      /\ Unresolvable(refs, chunks) # {} =>
           ~PassAtK(ids, SelectSeq(retrieved, LAMBDA id : id[2] <= Len(chunks[id[1]])), Len(retrieved) + 1)

-----------------------------------------------------------------------------
(* A run of the harness.  The world is the environment, the cached Settings *)
(* (None before the first get_settings), the label under which each file  *)
(* is in the stores, and the rows measured so far.                          *)

\* PINNED_EVAL_SETTINGS, PINNED_CHAT_SETTINGS; the pins that no config and no
\* label tells apart are left out.
PinnedEvalSettings ==
  [CHUNKING_STRATEGY |-> "recursive_character", RERANK_ENABLED |-> TRUE, HYDE_ENABLED |-> TRUE]
PinnedChatSettings == [CONDENSE_ENABLED |-> TRUE]

\* What a file is in the stores as: the settings its ingest ran under.
Label(settings) ==
  [contextual |-> settings.CONTEXTUALIZE, strategy |-> settings.CHUNKING_STRATEGY,
   engine |-> settings.OCR_ENGINE]

None == <<>>
Settings(world) == IF world.cache = None THEN world.env ELSE world.cache
GetSettings(world) == [world EXCEPT !.cache = Settings(world)]

\* Mutant of Pin: the cache is left alone.
PinWithoutClear(world, pins) == [world EXCEPT !.env = pins @@ @]

\* pinned_eval_settings, its entry and its finally.
Pin(world, pins) == [world EXCEPT !.env = pins @@ @, !.cache = None]
Unpin(world, saved) == [world EXCEPT !.env = saved, !.cache = None]

\* One ingest of the corpus: a plain one skips what is there, a reingest
\* deletes and replaces; `failing` files fail.
Ingest(world, mode, failing) ==
  LET ingested(file) ==
        IF mode = "reuse" \/ (mode = "plain" /\ world.stores[file] # None) THEN world.stores[file]
        ELSE IF file \in failing THEN None ELSE Label(Settings(world))
  IN  [GetSettings(world) EXCEPT !.stores = [file \in DOMAIN @ |-> ingested(file)],
                                 !.failed = mode # "reuse" /\ failing # {}]

\* Each config is measured on the stores as they are, under the settings the
\* retrievers and engines read then; one may raise.
Measure(world, block, raising) ==
  LET row(config) == [config |-> config, says |-> block.says, stores |-> world.stores,
                      settings |-> Settings(world)]
  IN  IF world.failed THEN world
      ELSE [GetSettings(world) EXCEPT
              !.rows = @ \o [c \in DOMAIN block.configs |-> row(block.configs[c])],
              !.failed = raising \in Range(block.configs)]

\* The golden set was authored for the chunks of ingest A, which alone is held
\* to it: a reference beyond them raises.
Validate(world, block, drifted) ==
  [world EXCEPT !.failed = @ \/ (block.name = "A" /\ drifted)]

\* A `with` block of a run: pins, ingest, validation, measurements, and the
\* finally.
RunBlock(world, block, faults) ==
  LET pinned == Pin(world, block.pins)
      ingested == Ingest(pinned, block.mode, faults.files[block.name])
      validated == Validate(ingested, block, faults.drifted)
      measured == Measure(validated, block, faults.config)
  IN  IF world.failed THEN world ELSE Unpin(measured, world.env)

\* run_matrix: ingest A and config 1, ingest B and configs 2 to 7, then the
\* sweep, recursive_character first.
SweepConfigs == <<"semantic", "bm25", "hybrid", "reranked">>
SweepStrategies == <<"docling_hybrid", "markdown_aware", "semantic", "token_based">>
Matrix ==
  LET block(name, mode, pins, says, configs) ==
        [name |-> name, mode |-> mode, pins |-> pins @@ PinnedEvalSettings,
         says |-> says, configs |-> configs]
      contextual == [contextual |-> TRUE, strategy |-> "recursive_character"]
  IN  << block("A", "plain", [CONTEXTUALIZE |-> FALSE], [contextual EXCEPT !.contextual = FALSE],
               <<"semantic">>),
         block("B", "reingest", [CONTEXTUALIZE |-> TRUE], contextual,
               <<"semantic", "bm25", "hybrid", "reranked", "hyde", "hyde_reranked">>),
         block("sweep", "reuse", [CONTEXTUALIZE |-> TRUE, CHUNKING_STRATEGY |-> "recursive_character"],
               contextual, SweepConfigs) >>
      \o [s \in DOMAIN SweepStrategies |->
            block("sweep", "reingest",
                  [CONTEXTUALIZE |-> TRUE, CHUNKING_STRATEGY |-> SweepStrategies[s]],
                  [contextual EXCEPT !.strategy = SweepStrategies[s]], SweepConfigs)]

\* run_chat_eval: one ingest, every engine of the registry on every method.
ChatEval ==
  << [name |-> "chat", mode |-> "plain",
      pins |-> PinnedChatSettings @@ [CONTEXTUALIZE |-> TRUE] @@ PinnedEvalSettings,
      says |-> [contextual |-> TRUE, strategy |-> "recursive_character", condense |-> TRUE],
      configs |-> <<"condense_context", "simple">>] >>

\* run_ocr_benchmark: a reingest for each engine.
OcrBenchmark ==
  LET engines == <<"easyocr", "tesseract">>
  IN  [e \in DOMAIN engines |->
         [name |-> "ocr", mode |-> "reingest",
          pins |-> [OCR_ENGINE |-> engines[e], CONTEXTUALIZE |-> FALSE] @@ PinnedEvalSettings,
          says |-> [contextual |-> FALSE, engine |-> engines[e]],
          configs |-> <<"semantic", "bm25", "hybrid">>]]

\* A run on a host's environment, whose settings the caller has read: the
\* blocks one after the other, up to the first that raises; the results are
\* written only when none did.
Evaluate(blocks, host, files, faults) ==
  LET world == [env |-> host, cache |-> host, stores |-> [f \in files |-> None], rows |-> <<>>,
                failed |-> FALSE]
  IN  FoldLeft(LAMBDA w, block : RunBlock(w, block, faults), world, blocks)

\* Every row of a written report was measured on what it says: all files of
\* the corpus in the stores, ingested under the row's own settings, with the
\* kill switches of the methods it names on - whatever the host's environment
\* says, with every ingest that lost a file refused, and no matrix written for
\* a golden set that names chunks its ingest has not made; and whether or not
\* the run failed, the process has the host's settings back.
MeasuredAsLabelled(blocks, host, files, faults) ==
  LET world == Evaluate(blocks, host, files, faults)
  IN  /\ world.env = host /\ Settings(world) = host
      /\ ~world.failed => ~(faults.drifted /\ \E b \in DOMAIN blocks : blocks[b].name = "A")
      /\ ~world.failed => \A r \in DOMAIN world.rows :
           LET row == world.rows[r] IN
           /\ \A file \in files : row.stores[file] # None
                /\ \A name \in DOMAIN row.says \cap {"contextual", "strategy", "engine"} :
                     row.stores[file][name] = row.says[name]
           /\ row.settings.RERANK_ENABLED /\ row.settings.HYDE_ENABLED
           /\ "condense" \in DOMAIN row.says => row.settings.CONDENSE_ENABLED

-----------------------------------------------------------------------------
\* measure_chat_engine: every turn with the history scripted before it; its
\* facts are taken from one flat list over all conversations.
History(conversation, turn) ==
  FlattenSeq([i \in 1 .. turn - 1 |-> <<<<"user", i>>, <<"assistant", i>>>>])

\* Mutant of FlatIndex: the index restarts with each conversation.
FlatIndexPerConversation(lengths, c, turn) == turn

FlatIndex(lengths, c, turn) == FoldSeq(+, 0, SubSeq(lengths, 1, c - 1)) + turn

PlayTurn(engine, lengths, facts, c, turn) ==
  [conversation |-> c, turn |-> turn, scored |-> facts[FlatIndex(lengths, c, turn)],
   history |-> History(c, turn),
   condensed |-> engine = "condense_context" /\ History(c, turn) # <<>>]

\* Both engines see the same conversation, each turn is scored against its
\* own facts, and the first turns, which nothing can condense, are the same
\* under both: what the comparison tells apart is the engines.
EnginesAreComparable(lengths) ==
  LET facts == FlattenSeq([c \in DOMAIN lengths |-> [t \in 1 .. lengths[c] |-> <<c, t>>]])
  IN  \A c \in DOMAIN lengths : \A turn \in 1 .. lengths[c] :
        LET simple == PlayTurn("simple", lengths, facts, c, turn)
            condense == PlayTurn("condense_context", lengths, facts, c, turn)
        IN  /\ simple.scored = <<c, turn>> /\ condense.scored = <<c, turn>>
            /\ condense.history = simple.history /\ Len(simple.history) = 2 * (turn - 1)
            /\ ~simple.condensed /\ (condense.condensed <=> turn > 1)
-----------------------------------------------------------------------------
(* run_graph_eval: corpora and the engines' working directories outlive a   *)
(* run, which indexes them or, with --skip-build, reuses what an earlier    *)
(* run has left.  The seed is FIXTURE_SEED: no caller passes another.  A    *)
(* corpus is what it was generated from, a graph what it was indexed from.  *)

\* Mutant of CorpusStem: a capped run shares its profile's corpus.
StemOfProfile(run) == <<run.profile>>
CorpusStem(run) == <<run.profile, run.target>>
Delta(corpus) == Append(corpus, "delta")

PrepareCorpus(files, stem, corpus, reuse) ==
  IF reuse /\ stem \in DOMAIN files THEN files ELSE (stem :> corpus) @@ files

\* One engine: wipe, index, index the grown corpus, ask.  A failure leaves
\* the directory wiped and ends the run.
RunEngine(world, run, engine) ==
  LET corpus == world.files[CorpusStem(run)]
      workdir == Append(CorpusStem(run), engine)
      left == IF run.skip /\ workdir \in DOMAIN world.workdirs THEN world.workdirs[workdir]
              ELSE None
      graph == IF run.skip THEN left
               ELSE IF run.profile = "smoke" THEN Delta(corpus) ELSE corpus
      row == [corpus |-> corpus, graph |-> graph, names |-> world.env]
  IN  IF world.failed THEN world
      ELSE IF run.failing = engine
      THEN [world EXCEPT !.workdirs = (workdir :> left) @@ @, !.failed = TRUE]
      ELSE [world EXCEPT !.workdirs = (workdir :> graph) @@ @, !.rows = Append(@, row)]

\* The corpora, the pins of their manifests, every engine, the report.
RunGraphEval(world, run) ==
  LET stem == CorpusStem(run)
      files == PrepareCorpus(world.files, stem, <<run.profile, run.target>>, run.skip)
      grown == IF run.profile = "smoke" /\ ~run.skip
               THEN PrepareCorpus(files, Delta(stem), Delta(files[stem]), FALSE) ELSE files
      pinned == [world EXCEPT !.files = grown, !.env = files[stem], !.rows = <<>>, !.failed = FALSE]
      done == FoldLeft(LAMBDA w, engine : RunEngine(w, run, engine), pinned, run.engines)
  IN  [done EXCEPT !.env = world.env,
                   !.reports = IF done.failed THEN @
                               ELSE Append(@, [run |-> run, rows |-> done.rows])]

\* Over any series of runs, capped or not, of some engines or all, one of
\* them failing: a reported engine was asked about a graph of the corpus the
\* report names, parsed with that corpus' names, or about none at all (a
\* directory nobody indexed is not refused); and the host's settings are back.
GraphRunsAreTold(runs) ==
  LET host == <<"host">>
      world == FoldLeft(RunGraphEval,
        [files |-> None, workdirs |-> None, env |-> host, rows |-> <<>>, failed |-> FALSE,
         reports |-> <<>>], runs)
  IN  /\ world.env = host
      /\ \A i \in DOMAIN world.reports :
           LET report == world.reports[i]
               corpus == <<report.run.profile, report.run.target>>
           IN  /\ Len(report.rows) = Len(report.run.engines)
               /\ \A e \in DOMAIN report.rows :
                    /\ report.rows[e].corpus = corpus /\ report.rows[e].names = corpus
                    /\ report.rows[e].graph \in {None, corpus, Delta(corpus)}

Unanswered == [raises |-> TRUE]

\* match_fact_groups and provenance_recall: groups of which some variant is
\* in the answer; required messages among those cited, none if none are.
GraphRecord(entry, answer) ==
  IF answer = Unanswered THEN [kind |-> entry.kind, facts |-> 0, provenance |-> None, error |-> TRUE]
  ELSE [kind |-> entry.kind, error |-> FALSE,
        facts |-> Cardinality({group \in entry.facts : group \cap answer.says # {}}),
        provenance |-> IF answer.cites = {} THEN None
                       ELSE <<Cardinality(answer.cites \cap entry.guids)>>]

\* _summarize: the totals the averages are made of; an average of citations is
\* over the answers that cited something.
Summarize(records) ==
  LET cited == SelectSeq(records, LAMBDA record : record.provenance # None)
  IN  [queries |-> Len(records),
       facts |-> FoldSeq(LAMBDA record, sum : record.facts + sum, 0, records),
       reported |-> Len(cited),
       provenance |-> FoldSeq(LAMBDA record, sum : record.provenance[1] + sum, 0, cited),
       errors |-> Len(SelectSeq(records, LAMBDA record : record.error))]

\* An engine gains nothing by failing: a question it does not answer is in
\* every denominator it was in but the one of citations, and lowers no other
\* question's score; and the slices by kind add up to the whole.
FailureGainsNothing(answers) ==
  LET entry(a) == [kind |-> a.kind, facts |-> {{"f", "F"}, {"g"}}, guids |-> {1}]
      records == [i \in DOMAIN answers |-> GraphRecord(entry(answers[i]), answers[i].answer)]
      whole == Summarize(records)
      slice(kind) == Summarize(SelectSeq(records, LAMBDA record : record.kind = kind))
  IN  /\ \A i \in DOMAIN answers :
           LET failed == Summarize([records EXCEPT ![i] = GraphRecord(entry(answers[i]), Unanswered)])
           IN  /\ failed.queries = whole.queries /\ failed.facts <= whole.facts
               /\ failed.errors >= whole.errors /\ failed.reported <= whole.reported
               /\ whole.facts - failed.facts = records[i].facts
      /\ \A field \in DOMAIN whole :
           whole[field] = slice("one")[field] + slice("other")[field]
=============================================================================
