------------------------------ MODULE Grounding ------------------------------
(***************************************************************************)
(* How evidence is packed into a prompt: the character budget of a graph   *)
(* answer (graph/answer.py), the blocks it is filled with, and the cap on  *)
(* the generation that must still fit the model's window (models/llm.py).  *)
(*                                                                         *)
(* A text is its length; where the code strips the white space a cut left  *)
(* behind, `blank` says how much there is.                                 *)
(***************************************************************************)
EXTENDS Naturals, Integers, Sequences

CONSTANTS
  Separator,      \* len(_SECTION_SEPARATOR)
  Ellipsis,       \* len(_ELLIPSIS)
  FactsHeader,    \* len(_FACTS_HEADER), with its newline
  ExcerptsHeader, \* len(_EXCERPTS_HEADER), with its newline
  CharsPerToken,  \* _CHARS_PER_TOKEN
  PromptHeadroom, \* _PROMPT_HEADROOM_TOKENS
  CtxHeadroom,    \* _CTX_HEADROOM_TOKENS
  MinContext      \* _MIN_CONTEXT_CHARS

ASSUME GroundingAssumption ==
  /\ \A size \in {Separator, FactsHeader, ExcerptsHeader, PromptHeadroom, CtxHeadroom, MinContext} :
       size \in Nat
  /\ Ellipsis \in Nat \ {0} /\ CharsPerToken \in Nat \ {0}
  /\ CtxHeadroom <= PromptHeadroom

Larger(a, b) == IF a < b THEN b ELSE a
Smaller(a, b) == IF a < b THEN a ELSE b

\* Mutant of Truncate: the marker is added to a full-length cut.
TruncateAtLimit(length, limit, blank) ==
  IF limit <= 0 THEN 0 ELSE IF length <= limit THEN length ELSE limit - blank + Ellipsis

\* _truncate: the head of a text and a marker, never longer than the limit.
Truncate(length, limit, blank) ==
  IF limit <= 0 THEN 0
  ELSE IF length <= limit THEN length
  ELSE IF limit <= Ellipsis THEN limit
  ELSE Larger(0, limit - Ellipsis - blank) + Ellipsis

\* One turn of _pack's loop: the next excerpt, cut to what is left; an
\* excerpt with nothing left of it ends the loop.  `overhead` is what a
\* block's label and frame take.
PackNext(packed, excerpt, maxChars, overhead) ==
  LET cost == packed.used + (IF packed.blocks = <<>> THEN 0 ELSE Separator)
      frame == excerpt.label + overhead
      body == Truncate(excerpt.length, maxChars - cost - frame, excerpt.blank)
  IN  IF packed.stopped \/ body = 0 THEN [packed EXCEPT !.stopped = TRUE]
      ELSE [packed EXCEPT !.used = cost + frame + body,
                          !.blocks = Append(@, [excerpt |-> excerpt, body |-> body])]

NothingPacked == [used |-> 0, blocks |-> <<>>, stopped |-> FALSE]

\* The blocks after each excerpt, in order of relevance.
PackedAfter(excerpts, maxChars, overhead) ==
  LET packed[n \in 0 .. Len(excerpts)] ==
        IF n = 0 THEN NothingPacked
        ELSE PackNext(packed[n - 1], excerpts[n], maxChars, overhead)
  IN  packed

Pack(excerpts, maxChars, overhead) == PackedAfter(excerpts, maxChars, overhead)[Len(excerpts)]

Joined(a, b) == a + b + (IF a # 0 /\ b # 0 THEN Separator ELSE 0)

FactsSection(facts, maxChars) ==
  IF facts = 0 THEN 0 ELSE Truncate(FactsHeader + facts, maxChars, 0)

\* graph_answer_context: facts first, then [SOURCE] blocks in what is left.
GraphAnswerContext(retrieval, maxChars, overhead) ==
  LET facts == FactsSection(retrieval.facts, maxChars)
      room == maxChars - facts - (IF facts = 0 THEN 0 ELSE Separator)
      packed == Pack(retrieval.excerpts, Larger(0, room), overhead)
  IN  [length |-> Joined(facts, packed.used), blocks |-> packed.blocks, facts |-> facts]

\* synthesis_context, its twin in the evaluation harness, with a header of
\* its own over the excerpts.
SynthesisContext(retrieval, maxChars, overhead) ==
  LET facts == FactsSection(retrieval.facts, maxChars)
      room == maxChars - facts - ExcerptsHeader - (IF facts = 0 THEN 0 ELSE Separator)
      packed == Pack(retrieval.excerpts, Larger(0, room), overhead)
      excerpts == IF packed.used = 0 THEN 0 ELSE ExcerptsHeader + packed.used
  IN  [length |-> Joined(facts, excerpts), blocks |-> packed.blocks, facts |-> facts]

AnswerContextMaxChars(contextTokens, generationTokens) ==
  Larger(MinContext, (contextTokens - generationTokens - PromptHeadroom) * CharsPerToken)

\* _fit_max_tokens: 0 stands for the ValueError of a prompt that cannot fit.
FitMaxTokens(promptTokens, maxTokens, contextTokens) ==
  LET available == contextTokens - promptTokens - CtxHeadroom
  IN  IF available <= 0 THEN 0 ELSE Smaller(maxTokens, available)

-----------------------------------------------------------------------------
\* Both contexts stay within the budget; what is dropped is dropped from the
\* tail, and only the last block kept is ever cut short ("Whole excerpts are
\* packed", "a single excerpt larger than the whole budget is truncated
\* rather than dropped": when there is room for a label and a character).
\* The blank a cut leaves must not outgrow a frame, or another block slips in.
PacksInBudget(retrieval, maxChars, overhead) ==
  \A context \in {GraphAnswerContext(retrieval, maxChars, overhead),
                  SynthesisContext(retrieval, maxChars, overhead)} :
    /\ context.length <= maxChars
    /\ \A i \in DOMAIN context.blocks :
         /\ context.blocks[i].excerpt = retrieval.excerpts[i]
         /\ i < Len(context.blocks) => context.blocks[i].body = retrieval.excerpts[i].length
    /\ retrieval.facts = 0 /\ retrieval.excerpts # <<>> /\ retrieval.excerpts[1].length > 0
         /\ maxChars > ExcerptsHeader + retrieval.excerpts[1].label + overhead
         => context.blocks # <<>>

\* A context sized by answer_context_max_chars leaves the answer its whole
\* cap, as long as three characters make a token, question and template fit
\* in the headroom the two modules leave each other, and the floor on the
\* budget is not reached.
BudgetsAgree(contextTokens, generationTokens) ==
  LET chars == AnswerContextMaxChars(contextTokens, generationTokens)
  IN  chars > MinContext =>
        FitMaxTokens(chars \div CharsPerToken + PromptHeadroom - CtxHeadroom,
                     generationTokens, contextTokens) = generationTokens
=============================================================================
