---------------------------- MODULE Configuration ----------------------------
(***************************************************************************)
(* The settings' model validators (config.py) and what the components read *)
(* the accepted values for: the retrieval methods and how they nest, the   *)
(* token budgets of a blurb, the OCR trigger, an upload batch.  A ratio or *)
(* a weight is in tenths, a port and a path are left out.                  *)
(***************************************************************************)
EXTENDS Retrieval, Grounding, Extraction

CONSTANTS
  ChunkAllowance, \* _CHUNK_ALLOWANCE_TOKENS
  PromptOverhead  \* _PROMPT_OVERHEAD_TOKENS

ASSUME ConfigurationAssumption == ChunkAllowance \in Nat /\ PromptOverhead \in Nat

\* Mutant of ValidPdfOcr: the upper bound is missing.
ValidPdfOcrUnbounded(s) == s.PDF_OCR_MIN_CHARS >= 0 /\ s.PDF_OCR_TEXTLESS_PAGE_RATIO >= 0

ValidPdfOcr(s) ==
  s.PDF_OCR_MIN_CHARS >= 0 /\ s.PDF_OCR_TEXTLESS_PAGE_RATIO \in 0 .. 10

ValidUploadLimits(s) ==
  /\ \A name \in {"UPLOAD_MAX_MB", "UPLOAD_MAX_FILES", "UPLOAD_MAX_TOTAL_MB", "UPLOAD_MAX_PATH_DEPTH"} :
       s[name] > 0
  /\ s.UPLOAD_MAX_MB <= s.UPLOAD_MAX_TOTAL_MB

ValidSizes(s) ==
  /\ \A name \in {"CHUNK_SIZE", "MAX_TOKENS", "TOP_K", "LLM_CONTEXT_TOKENS", "CONTEXTUALIZE_MAX_TOKENS"} :
       s[name] > 0
  /\ s.CHUNK_OVERLAP >= 0 /\ s.CHUNK_OVERLAP < s.CHUNK_SIZE
  /\ s.MAX_TOKENS < s.LLM_CONTEXT_TOKENS
  /\ s.CONTEXTUALIZE_MAX_TOKENS < s.LLM_CONTEXT_TOKENS

ValidRetrievalMethod(s) ==
  s.RETRIEVAL_METHOD \in {"semantic", "bm25", "hybrid", "reranked", "hyde"}

\* Mutant of ValidRerank: the base may be reranked as well.
ValidRerankNested(s) ==
  /\ 0 < s.RERANK_TOP_N /\ s.RERANK_TOP_N <= s.RERANK_CANDIDATES
  /\ s.RERANK_BASE_METHOD \in {"semantic", "bm25", "hybrid", "hyde", "reranked"}
  /\ s.RETRIEVAL_METHOD = "reranked" =>
       s.RERANK_TOP_N <= s.TOP_K /\ s.RERANK_CANDIDATES >= s.TOP_K

ValidRerank(s) ==
  /\ 0 < s.RERANK_TOP_N /\ s.RERANK_TOP_N <= s.RERANK_CANDIDATES
  /\ s.RERANK_BASE_METHOD \in {"semantic", "bm25", "hybrid", "hyde"}
  /\ s.RETRIEVAL_METHOD = "reranked" =>
       s.RERANK_TOP_N <= s.TOP_K /\ s.RERANK_CANDIDATES >= s.TOP_K

\* Mutant of ValidHyde: any method but hyde itself.
ValidHydeOverReranked(s) == s.HYDE_BASE_METHOD # "hyde"

ValidHyde(s) == s.HYDE_BASE_METHOD \in {"semantic", "hybrid"}

ValidFusionWeights(s) ==
  s.SEMANTIC_WEIGHT >= 0 /\ s.BM25_WEIGHT >= 0 /\ s.SEMANTIC_WEIGHT + s.BM25_WEIGHT = 10

\* Settings(): every validator, in the order of the class.
Accepts(s) ==
  /\ ValidUploadLimits(s) /\ ValidPdfOcr(s) /\ ValidSizes(s) /\ ValidRetrievalMethod(s)
  /\ ValidRerank(s) /\ ValidHyde(s) /\ ValidFusionWeights(s)

-----------------------------------------------------------------------------
\* get_retriever(method).retrieve(query, k): the registry, each composing
\* method with the base the settings name.  A method of its own cycle never
\* answers.
Loops == <<[loops |-> TRUE]>>
Retrieve(s, method, corpus, k, usable) ==
  LET weights == [semantic |-> s.SEMANTIC_WEIGHT, bm25 |-> s.BM25_WEIGHT]
      rerank == [enabled |-> s.RERANK_ENABLED, candidates |-> s.RERANK_CANDIDATES, topN |-> s.RERANK_TOP_N]
      hyde == HydeVector(s.HYDE_BASE_METHOD, s.HYDE_ENABLED, usable)
      hydeBases == {"semantic", "bm25", "hybrid"}
  IN  CASE method = "hyde" ->
             IF s.HYDE_BASE_METHOD \in hydeBases
             THEN Hyde(s.HYDE_BASE_METHOD, corpus, k, s.HYDE_ENABLED, usable, weights) ELSE Loops
        [] method = "reranked" ->
             IF s.RERANK_BASE_METHOD = "reranked" \/ (s.RERANK_BASE_METHOD = "hyde" /\ s.HYDE_BASE_METHOD \notin hydeBases)
             THEN Loops
             ELSE IF s.RERANK_BASE_METHOD = "hyde"
             THEN Reranked(s.HYDE_BASE_METHOD, corpus, k, hyde, weights, rerank)
             ELSE Reranked(s.RERANK_BASE_METHOD, corpus, k, "query", weights, rerank)
        [] OTHER -> Base(method, corpus, k, "query", weights)

\* Whatever settings the validators accept, every method a chat request may
\* ask for - the request's override is not seen by the validators - answers,
\* and promises the same number: TOP_K chunks, RERANK_TOP_N when reranked,
\* as long as the arms hold that many; the method the settings name never
\* promises more after the reranking than before it.
AcceptedSettingsServe(s, corpus, usable) ==
  Accepts(s) =>
    /\ \A method \in {"semantic", "bm25", "hybrid", "reranked", "hyde"} :
         LET chunks == Retrieve(s, method, corpus, s.TOP_K, usable)
             promised == IF method = "reranked" /\ s.RERANK_TOP_N < s.TOP_K
                         THEN s.RERANK_TOP_N ELSE s.TOP_K
         IN  /\ chunks # Loops
             /\ RanksAreHonest(chunks, corpus, s.TOP_K, method = "reranked" /\ s.RERANK_ENABLED)
             /\ Len(chunks) = promised
    /\ s.RETRIEVAL_METHOD = "reranked" =>
         Len(Retrieve(s, "reranked", corpus, s.TOP_K, usable)) = s.RERANK_TOP_N

-----------------------------------------------------------------------------
\* Mutant of DocTokenBudget: no room is kept for the chunk.
DocTokenBudgetGreedy(s) == s.LLM_CONTEXT_TOKENS - s.CONTEXTUALIZE_MAX_TOKENS - PromptOverhead

\* What is left of the window for the document itself.
DocTokenBudget(s) ==
  s.LLM_CONTEXT_TOKENS - s.CONTEXTUALIZE_MAX_TOKENS - ChunkAllowance - PromptOverhead

\* situate_context: the head of the document, nothing of it when there is no
\* room at all.
Preamble(s, document) ==
  LET budget == DocTokenBudget(s)
  IN  IF budget <= 0 THEN 0 ELSE IF document > budget THEN budget ELSE document

\* A blurb keeps its whole cap for every document and every chunk within the
\* allowance, the scaffolding within its own; and a larger chunk still gets
\* an answer as long as it leaves the window a token ("transport-safe").
BlurbKeepsItsCap(s, document, chunk, scaffolding) ==
  LET prompt == Preamble(s, document) + chunk + scaffolding
      cap == FitMaxTokens(prompt, s.CONTEXTUALIZE_MAX_TOKENS, s.LLM_CONTEXT_TOKENS)
  IN  scaffolding + CtxHeadroom <= PromptOverhead /\ DocTokenBudget(s) > 0 =>
        /\ chunk <= ChunkAllowance => cap = s.CONTEXTUALIZE_MAX_TOKENS
        /\ cap = 0 <=> prompt + CtxHeadroom >= s.LLM_CONTEXT_TOKENS
=============================================================================
