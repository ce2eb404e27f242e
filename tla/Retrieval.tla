------------------------------ MODULE Retrieval ------------------------------
(***************************************************************************)
(* The retrieval methods (retrieval/), over what the two stores and the    *)
(* cross-encoder answer: rankings are sequences of chunk identities, best  *)
(* first; a score is a natural number (an arm's raw score plays no part in *)
(* fusion, so an arm is its ranking).                                      *)
(*                                                                         *)
(* A corpus is a record:                                                   *)
(*   dense[v]  the vector store's ranking for the query's own vector and   *)
(*             for the one of a hypothetical passage                       *)
(*   sparse    Elasticsearch's ranking of the query's words                *)
(*   rows      the identities pgvector holds                               *)
(*   relevance the cross-encoder's judgment of each chunk                  *)
(***************************************************************************)
EXTENDS Naturals, Integers, Sequences, FiniteSets, SequencesExt, FiniteSetsExt, Functions


CONSTANTS
  Oversample,  \* OVERSAMPLE: how much wider the arms of the fusion are
  Unit         \* 1.0, divisible by every rank

NoRank == 0
NoVector == "none"

Cut(ranking, k) == SubSeq(ranking, 1, IF Len(ranking) < k THEN Len(ranking) ELSE k)
RankIn(ranking, key) ==
  IF key \in Range(ranking) THEN CHOOSE r \in DOMAIN ranking : ranking[r] = key ELSE NoRank

\* Mutant of FusedScore: a second occurrence replaces the first.
LastScore(key, semantic, bm25, weights) ==
  LET share(ranking, weight) == (weight * Unit) \div RankIn(ranking, key)
  IN  IF RankIn(bm25, key) # NoRank THEN share(bm25, weights.bm25)
      ELSE share(semantic, weights.semantic)

\* weight / rank in each list the identity occurs in, added up.
FusedScore(key, semantic, bm25, weights) ==
  LET share(ranking, weight) ==
        IF RankIn(ranking, key) = NoRank THEN 0 ELSE (weight * Unit) \div RankIn(ranking, key)
  IN  share(semantic, weights.semantic) + share(bm25, weights.bm25)

\* Ties keep the order in which the scores were entered: the semantic list,
\* then what only the other arm found.
Fuse(semantic, bm25, weights, k) ==
  LET entered == semantic \o SelectSeq(bm25, LAMBDA key : key \notin Range(semantic))
      score(key) == FusedScore(key, semantic, bm25, weights)
      before(a, b) == \/ score(a) > score(b)
                      \/ score(a) = score(b) /\ RankIn(entered, a) <= RankIn(entered, b)
  IN  Cut(SetToSortSeq(Range(entered), before), k)

\* fuse_with_traces: where each survivor came from.
FusedTraces(fused, semantic, bm25) ==
  [r \in DOMAIN fused |->
     [key |-> fused[r], semantic |-> RankIn(semantic, fused[r]),
      bm25 |-> RankIn(bm25, fused[r]), fused |-> r, delta |-> 0, final |-> r]]

\* The trace of a method with one arm only.
SingleArm(ranking, arm) ==
  [r \in DOMAIN ranking |->
     [key |-> ranking[r], semantic |-> IF arm = "semantic" THEN r ELSE NoRank,
      bm25 |-> IF arm = "bm25" THEN r ELSE NoRank, fused |-> r, delta |-> 0, final |-> r]]

\* Mutant of Hydrate: what pgvector does not hold is returned as well.
HydrateAll(traces, rows) == traces

\* A key Elasticsearch still lists and pgvector does not is dropped.
Hydrate(traces, rows) == SelectSeq(traces, LAMBDA trace : trace.key \in rows)

Semantic(corpus, k, vector) == SingleArm(Cut(corpus.dense[vector], k), "semantic")

BM25(corpus, k) == Hydrate(SingleArm(Cut(corpus.sparse, k), "bm25"), corpus.rows)

Hybrid(corpus, k, vector, weights) ==
  LET semantic == Cut(corpus.dense[vector], k * Oversample)
      bm25 == Cut(corpus.sparse, k * Oversample)
      fused == Fuse(semantic, bm25, weights, k)
  IN  Hydrate(FusedTraces(fused, semantic, bm25), corpus.rows)

\* encode_query of a base method: a query vector, or none for bm25.
EncodeQuery(method) == IF method = "bm25" THEN NoVector ELSE "query"

Base(method, corpus, k, vector, weights) ==
  CASE method = "semantic" -> Semantic(corpus, k, vector)
    [] method = "bm25"     -> BM25(corpus, k)
    [] method = "hybrid"   -> Hybrid(corpus, k, vector, weights)

\* Mutant of ApplyRerank: the final rank is the rank before the reranking.
ApplyRerankKeepingRanks(candidates, relevance) ==
  LET before(a, b) == \/ relevance[candidates[a].key] > relevance[candidates[b].key]
                      \/ relevance[candidates[a].key] = relevance[candidates[b].key] /\ a <= b
      order == SetToSortSeq(DOMAIN candidates, before)
  IN  [r \in DOMAIN order |-> [candidates[order[r]] EXCEPT !.delta = order[r] - r]]

\* The candidates by relevance, a tie in the order the server returned, here
\* the candidates' own.
ApplyRerank(candidates, relevance) ==
  LET before(a, b) == \/ relevance[candidates[a].key] > relevance[candidates[b].key]
                      \/ relevance[candidates[a].key] = relevance[candidates[b].key] /\ a <= b
      order == SetToSortSeq(DOMAIN candidates, before)
  IN  [r \in DOMAIN order |->
         [candidates[order[r]] EXCEPT !.delta = order[r] - r, !.final = r]]

\* A wide pool, judged and cut; with the kill switch the base's order is cut.
Reranked(base, corpus, k, vector, weights, settings) ==
  LET least(a, b) == IF a < b THEN a ELSE b
      pool == IF settings.candidates > k THEN settings.candidates ELSE k
      found == Base(base, corpus, pool, vector, weights)
  IN  Cut(IF settings.enabled THEN ApplyRerank(found, corpus.relevance) ELSE found,
          least(k, settings.topN))

\* The vector HyDE searches with: the passage's when one was generated that
\* is neither empty nor overlong, else what the base would have used.
HydeVector(base, enabled, usable) ==
  IF enabled /\ usable THEN "passage" ELSE EncodeQuery(base)

\* A bm25 base has no vector of its own and ignores the one it is given.
Hyde(base, corpus, k, enabled, usable, weights) ==
  Base(base, corpus, k, HydeVector(base, enabled, usable), weights)

-----------------------------------------------------------------------------
Keys(chunks) == {chunks[r].key : r \in DOMAIN chunks}

\* Fusion respects agreement: a chunk no arm ranks below another, and some
\* arm above it, is not returned below it; and the ranks on a trace are where
\* the arms really had the chunk.
FusionAgrees(corpus, k, weights) ==
  LET chunks == Hybrid(corpus, k, "query", weights)
      semantic == Cut(corpus.dense["query"], k * Oversample)
      bm25 == Cut(corpus.sparse, k * Oversample)
      atLeast(arm, a, b) == LET ra == RankIn(arm, a) rb == RankIn(arm, b)
                            IN  rb = NoRank \/ (ra # NoRank /\ ra <= rb)
  IN  /\ \A r \in DOMAIN chunks :
           /\ chunks[r].semantic = RankIn(semantic, chunks[r].key)
           /\ chunks[r].bm25 = RankIn(bm25, chunks[r].key)
           /\ ~(chunks[r].semantic = NoRank /\ chunks[r].bm25 = NoRank)
      /\ \A i, j \in DOMAIN chunks : i < j =>
           ~ /\ atLeast(semantic, chunks[j].key, chunks[i].key)
             /\ atLeast(bm25, chunks[j].key, chunks[i].key)

\* Whatever the method: at most k chunks, none twice, each one in pgvector;
\* ranks in the order returned, without a gap when the stores agree; and a
\* reranked list is in order of relevance, its ranks the ones returned even
\* when the stores disagree.
RanksAreHonest(chunks, corpus, k, reranked) ==
  /\ Len(chunks) <= k /\ Cardinality(Keys(chunks)) = Len(chunks)
  /\ Keys(chunks) \subseteq corpus.rows
  /\ \A i, j \in DOMAIN chunks : i < j => chunks[i].final < chunks[j].final
  /\ reranked \/ Range(corpus.sparse) \subseteq corpus.rows
       => \A r \in DOMAIN chunks : chunks[r].final = r
  /\ reranked => \A i, j \in DOMAIN chunks :
                   i < j => corpus.relevance[chunks[i].key] >= corpus.relevance[chunks[j].key]

\* "final_rank: The rank actually returned to the caller" (RetrievalTrace).
FinalRankIsReturned(chunks) == \A r \in DOMAIN chunks : chunks[r].final = r
=============================================================================
