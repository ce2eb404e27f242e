------------------------------ MODULE ChatTurn ------------------------------
(***************************************************************************)
(* POST /api/chat: a request coroutine on the event loop, the query flow   *)
(* in a worker thread, the EventBridge between them, a client that may     *)
(* leave, and what the turn stores.  Turns run concurrently, over one      *)
(* conversation store, while conversations are deleted, moved and titled   *)
(* and settings are changed.                                               *)
(*                                                                         *)
(* Text is left out: a turn's question, answer and title are the turn, and *)
(* a fragment is a fragment (module ThinkStream says what is in it).       *)
(***************************************************************************)
EXTENDS Conversations, FiniteSets

CONSTANTS
  Turns,        \* requests; also the ids of the conversations they create
  OldId,        \* a conversation that exists to begin with
  Modes,        \* values of GRAPH_QUERY_MODE
  Method,       \* the retrieval method of chunk turns
  HistoryTurns, \* CONDENSE_HISTORY_TURNS
  MaxDeltas,    \* bound: deltas of a generation
  MaxFragments, \* bound: fragments the splitter makes of them
  MaxFaults,    \* bound: failures of stages and of store calls
  MaxEdits      \* bound: deletions, moves, group deletions, settings changes

ASSUME ChatTurnAssumption ==
  /\ ConversationIds = Turns \cup {OldId} /\ OldId \notin Turns
  /\ Turns \subseteq Titles /\ DefaultTitle \notin Turns
  /\ Modes # {} /\ Method \notin Modes
  /\ {HistoryTurns, MaxDeltas, MaxFragments, MaxFaults, MaxEdits} \subseteq Nat

Corpora == {"rag", "graph"}
Plans == [corpus : Corpora, into : ConversationIds, mode : Modes \cup {Method},
          onGraph : BOOLEAN, history : BOOLEAN]
Outcomes == [status : {"none", "ok", "aborted", "failed"}, condensed : BOOLEAN]
NoOutcome == [status |-> "none", condensed |-> FALSE]
NewPlan == [corpus |-> "rag", into |-> OldId, mode |-> Method,
            onGraph |-> FALSE, history |-> FALSE]

VARIABLES
  settings,  \* GRAPH_ENABLED and GRAPH_QUERY_MODE
  store,     \* the conversations, see module Conversations
  groups,    \* the groups that exist
  plan,      \* per turn: the ChatPlan; into = the turn itself for a new conversation,
             \* history = is there any
  phase,     \* per turn: where the request coroutine is
  here,      \* per turn: is the client still connected
  flow,      \* per turn: where the worker thread is
  outcome,   \* per turn: the flow's outcome, and what condense decided
  queue,     \* per turn: the bridge's queue
  sent,      \* per turn: the frames the client has got
  abort,     \* per turn: the bridge's abort flag
  deltas,    \* per turn: deltas read from the model
  fragments, \* per turn: fragments dispatched
  late,      \* history: per turn, what the generation did after abort()
  titling,   \* per turn: where the auto-title worker is
  faults,
  edits

request == <<plan, phase, here, sent, abort>>
worker == <<flow, outcome, deltas, fragments, late>>
turnVars == <<request, worker, queue, titling>>
vars == <<settings, store, groups, turnVars, faults, edits>>

Phases == {"idle", "resolved", "opened", "checked", "streaming", "awaiting", "creating",
           "asking", "answering", "persisted", "done", "failed", "refused", "cancelled",
           "dropped"}
FlowPhases == {"idle", "condense", "retrieve", "generate", "polled", "finalizing",
               "closing", "ended"}
TitlePhases == {"idle", "queued", "generating", "over"}
Over == {"done", "failed", "refused", "cancelled", "dropped"}
LateSteps == [step : {"read", "fed", "final"}, delta : Nat]

\* ChatPlan.retrieval_label: what actually retrieved.
RetrievalLabel(p) == IF p.onGraph THEN p.mode ELSE Method

RetrievalFrame(t) ==
  [event |-> "retrieval", label |-> RetrievalLabel(plan[t]), corpus |-> plan[t].corpus,
   condensed |-> outcome[t].condensed, graph |-> plan[t].onGraph]
Frame(event) == [event |-> event]
EndOfStream == Frame("eof")

Question(t) == [role |-> "user", turn |-> t]
Answer(t) ==
  [role |-> "assistant", turn |-> t, label |-> RetrievalLabel(plan[t]),
   corpus |-> plan[t].corpus, condensed |-> outcome[t].condensed,
   graph |-> plan[t].onGraph]

\* What a turn that ended before left in the old conversation.
EarlierTurn == <<[role |-> "user", turn |-> OldId], [role |-> "assistant", turn |-> OldId]>>

Init ==
  /\ settings \in [graph : BOOLEAN, mode : Modes]
  /\ \E g \in Groups \cup {NoGroup}, earlier \in {<<>>, EarlierTurn} :
       store = [c \in {OldId} |-> [title |-> DefaultTitle, group |-> g, messages |-> earlier]]
  /\ groups = Groups
  /\ plan = [t \in Turns |-> NewPlan]
  /\ phase = [t \in Turns |-> "idle"] /\ here = [t \in Turns |-> TRUE]
  /\ flow = [t \in Turns |-> "idle"] /\ outcome = [t \in Turns |-> NoOutcome]
  /\ queue = [t \in Turns |-> <<>>] /\ sent = [t \in Turns |-> <<>>]
  /\ abort = [t \in Turns |-> FALSE]
  /\ deltas = [t \in Turns |-> 0] /\ fragments = [t \in Turns |-> 0]
  /\ late = [t \in Turns |-> {}]
  /\ titling = [t \in Turns |-> "idle"]
  /\ faults = 0 /\ edits = 0

Fault == faults < MaxFaults /\ faults' = faults + 1
Goto(t, from, to) == phase[t] = from /\ phase' = [phase EXCEPT ![t] = to]
Work(t, from, to) == flow[t] = from /\ flow' = [flow EXCEPT ![t] = to]
Emit(t, frame) == queue' = [queue EXCEPT ![t] = Append(@, frame)]
\* A frame reaches only a client that is still there.
Send(t, frame) == sent' = [sent EXCEPT ![t] = IF here[t] THEN Append(@, frame) ELSE @]
Abort(t) == abort' = [abort EXCEPT ![t] = TRUE]
Note(t, step, delta) ==
  late' = [late EXCEPT ![t] =
             IF abort[t] THEN @ \cup {[step |-> step, delta |-> delta]} ELSE @]

-----------------------------------------------------------------------------
(* prepare_chat: everything that can still be refused with a status.       *)

\* The settings the turn runs under are read once, here.
Resolve(t) ==
  /\ Goto(t, "idle", "resolved")
  /\ \E corpus \in Corpora, into \in {t, OldId} :
       plan' = [plan EXCEPT ![t] = [@ EXCEPT !.corpus = corpus, !.into = into,
                                             !.mode = settings.mode]]
  /\ UNCHANGED <<settings, store, groups, here, sent, abort, worker, queue, titling, faults, edits>>

\* An override names no registered method or engine (422).
RefuseOverride(t) ==
  /\ Goto(t, "idle", "refused")
  /\ UNCHANGED <<settings, store, groups, plan, here, sent, abort, worker, queue, titling,
                 faults, edits>>

\* _open_graph reads the settings again: the kill switch, or a session that
\* will not open, degrade the turn to the chunk corpus.
OpenGraph(t) ==
  /\ Goto(t, "resolved", "opened")
  /\ \/ UNCHANGED faults /\ plan' = [plan EXCEPT ![t].onGraph =
                                       plan[t].corpus = "graph" /\ settings.graph]
     \/ Fault /\ plan[t].corpus = "graph" /\ settings.graph /\ UNCHANGED plan
  /\ UNCHANGED <<settings, store, groups, here, sent, abort, worker, queue, titling, edits>>

\* A dependency the turn needs does not answer (503).
Preflight(t) ==
  /\ \/ Goto(t, "opened", "checked") /\ UNCHANGED faults
     \/ Goto(t, "opened", "refused") /\ Fault
  /\ UNCHANGED <<settings, store, groups, plan, here, sent, abort, worker, queue, titling, edits>>

\* Load the history (404 when the conversation is gone) and open the stream:
\* the bridge is created and the flow handed to a worker thread.
StartStream(t) ==
  LET into == plan[t].into IN
  /\ \/ /\ into = t \/ Exists(store, into)
        /\ Goto(t, "checked", "streaming") /\ Work(t, "idle", "condense")
        /\ plan' = [plan EXCEPT ![t].history =
                      into # t /\ RecentTurns(store, into, HistoryTurns) # <<>>]
     \/ /\ into # t /\ ~Exists(store, into)
        /\ Goto(t, "checked", "refused")
        /\ UNCHANGED <<plan, flow>>
  /\ UNCHANGED <<settings, store, groups, here, sent, abort, outcome, deltas, fragments,
                 late, queue, titling, faults, edits>>

-----------------------------------------------------------------------------
(* The flow, in its worker thread.                                         *)

WorkerFrame == UNCHANGED <<settings, store, groups, request, titling, edits>>
\* On to more when the splitter has another fragment to dispatch, or to next.
Split(t, from, more, next) ==
  \/ fragments'[t] < MaxFragments /\ Work(t, from, more)
  \/ Work(t, from, next)

\* Condensing needs a history, and falls back to the words as they are on
\* any failure.
Condense(t) ==
  /\ Work(t, "condense", "retrieve")
  /\ \E condensed \in {FALSE, plan[t].history} :
       outcome' = [outcome EXCEPT ![t].condensed = condensed]
  /\ UNCHANGED <<deltas, fragments, late, queue, faults>> /\ WorkerFrame

\* Mutant of Retrieve: no frame when there is no history.
RetrieveQuietly(t) ==
  /\ Work(t, "retrieve", "generate")
  /\ IF plan[t].history THEN Emit(t, RetrievalFrame(t)) ELSE UNCHANGED queue
  /\ UNCHANGED <<outcome, deltas, fragments, late, faults>> /\ WorkerFrame

\* Evidence before prose: the retrieval frame goes out first.
Retrieve(t) ==
  /\ Work(t, "retrieve", "generate")
  /\ Emit(t, RetrievalFrame(t))
  /\ UNCHANGED <<outcome, deltas, fragments, late, faults>> /\ WorkerFrame

\* Mutant of Poll: the flag is polled once, at the first delta.
PollOnce(t) ==
  /\ deltas[t] < MaxDeltas
  /\ deltas' = [deltas EXCEPT ![t] = @ + 1]
  /\ Note(t, "read", deltas[t] + 1) /\ UNCHANGED fragments
  /\ \/ /\ deltas[t] > 0 \/ ~abort[t]
        /\ Split(t, "generate", "polled", "generate") /\ UNCHANGED outcome
     \/ /\ deltas[t] = 0 /\ abort[t] /\ Work(t, "generate", "closing")
        /\ outcome' = [outcome EXCEPT ![t].status = "aborted"]
  /\ UNCHANGED <<queue, faults>> /\ WorkerFrame

\* The model has sent a delta: the abort flag is polled before it is fed to
\* the splitter, and nowhere else.
Poll(t) ==
  /\ deltas[t] < MaxDeltas
  /\ deltas' = [deltas EXCEPT ![t] = @ + 1]
  /\ Note(t, "read", deltas[t] + 1) /\ UNCHANGED fragments
  /\ \/ ~abort[t] /\ Split(t, "generate", "polled", "generate") /\ UNCHANGED outcome
     \/ /\ abort[t] /\ Work(t, "generate", "closing")
        /\ outcome' = [outcome EXCEPT ![t].status = "aborted"]
  /\ UNCHANGED <<queue, faults>> /\ WorkerFrame

\* One fragment of the delta goes out.
Dispatch(t) ==
  /\ fragments' = [fragments EXCEPT ![t] = @ + 1]
  /\ Split(t, "polled", "polled", "generate")
  /\ Emit(t, Frame("delta")) /\ Note(t, "fed", deltas[t])
  /\ UNCHANGED <<outcome, deltas, faults>> /\ WorkerFrame

\* The stream ends, and with it the polling; what the splitter still holds
\* goes out too.
Generated(t) ==
  /\ UNCHANGED fragments
  /\ Split(t, "generate", IF deltas[t] = 0 THEN "closing" ELSE "finalizing", "closing")
  /\ outcome' = [outcome EXCEPT ![t].status = "ok"]
  /\ UNCHANGED <<deltas, late, queue, faults>> /\ WorkerFrame

Finalize(t) ==
  /\ fragments' = [fragments EXCEPT ![t] = @ + 1]
  /\ Split(t, "finalizing", "finalizing", "closing")
  /\ Emit(t, Frame("delta")) /\ Note(t, "final", deltas[t])
  /\ UNCHANGED <<outcome, deltas, faults>> /\ WorkerFrame

\* Retrieval or the generation raises.
FlowFails(t) ==
  /\ Work(t, "retrieve", "closing") \/ Work(t, "generate", "closing")
  /\ Fault
  /\ outcome' = [outcome EXCEPT ![t].status = "failed"]
  /\ UNCHANGED <<deltas, fragments, late, queue>> /\ WorkerFrame

\* Mutant of CloseBridge: the bridge is closed after a success only, not in a finally.
CloseOnSuccess(t) ==
  /\ Work(t, "closing", "ended")
  /\ IF outcome[t].status = "failed" THEN UNCHANGED queue ELSE Emit(t, EndOfStream)
  /\ UNCHANGED <<outcome, deltas, fragments, late, faults>> /\ WorkerFrame

\* _run_flow's finally closes the bridge; only then is the future resolved.
CloseBridge(t) ==
  /\ Work(t, "closing", "ended")
  /\ Emit(t, EndOfStream)
  /\ UNCHANGED <<outcome, deltas, fragments, late, faults>> /\ WorkerFrame

WorkerStep(t) == Condense(t) \/ Retrieve(t) \/ Poll(t) \/ Dispatch(t) \/ Generated(t)
                 \/ Finalize(t) \/ FlowFails(t) \/ CloseBridge(t)

-----------------------------------------------------------------------------
(* The rest of chat(): forward, await, persist.  Each store call of         *)
(* _persist is a transaction of its own on an autocommit connection.        *)

CoroutineFrame == UNCHANGED <<settings, groups, plan, here, worker, edits>>

\* Drain the bridge until the end-of-stream sentinel.
Forward(t) ==
  /\ phase[t] = "streaming" /\ queue[t] # <<>>
  /\ queue' = [queue EXCEPT ![t] = Tail(@)]
  /\ \/ Head(queue[t]) # EndOfStream /\ Send(t, Head(queue[t])) /\ UNCHANGED phase
     \/ Head(queue[t]) = EndOfStream /\ Goto(t, "streaming", "awaiting") /\ UNCHANGED sent
  /\ UNCHANGED <<store, abort, titling, faults>> /\ CoroutineFrame

\* The stream fails from here: an in-band error frame, then the finally.
Fail(t) ==
  /\ phase' = [phase EXCEPT ![t] = "failed"]
  /\ Send(t, Frame("error")) /\ Abort(t)

\* Mutant of AwaitOutcome: a failed flow's partial answer is persisted like any other.
AwaitAnyOutcome(t) ==
  /\ phase[t] = "awaiting" /\ flow[t] = "ended"
  /\ Goto(t, "awaiting", IF plan[t].into = t THEN "creating" ELSE "asking")
  /\ UNCHANGED <<sent, abort, store, queue, titling, faults>> /\ CoroutineFrame

\* An aborted outcome is never awaited today: abort() comes only from the
\* finally of this coroutine.  The code would return without persisting.
AwaitOutcome(t) ==
  /\ phase[t] = "awaiting" /\ flow[t] = "ended"
  /\ IF outcome[t].status = "failed"
     THEN Fail(t)
     ELSE /\ Goto(t, "awaiting", IF outcome[t].status = "aborted" THEN "cancelled"
                                 ELSE IF plan[t].into = t THEN "creating" ELSE "asking")
          /\ UNCHANGED <<sent, abort>>
  /\ UNCHANGED <<store, queue, titling, faults>> /\ CoroutineFrame

Create(t) ==
  /\ Goto(t, "creating", "asking")
  /\ store' = CreateConversation(store, t)
  /\ UNCHANGED <<sent, abort, queue, titling, faults>> /\ CoroutineFrame

\* Mutant of Ask: a lost answer is not noticed: done after the question.
AskOnly(t) ==
  /\ Exists(store, plan[t].into)
  /\ phase[t] = "asking"
  /\ \E to \in {"answering", "persisted"} : Goto(t, "asking", to)
  /\ store' = AppendMessage(store, plan[t].into, Question(t))
  /\ UNCHANGED <<sent, abort, queue, titling, faults>> /\ CoroutineFrame

Ask(t) ==
  /\ Exists(store, plan[t].into)
  /\ Goto(t, "asking", "answering")
  /\ store' = AppendMessage(store, plan[t].into, Question(t))
  /\ UNCHANGED <<sent, abort, queue, titling, faults>> /\ CoroutineFrame

\* Mutant of StoreAnswer: the label is read from the settings when the turn is persisted.
StoreAnswerNow(t) ==
  /\ Exists(store, plan[t].into)
  /\ Goto(t, "answering", "persisted")
  /\ store' = AppendMessage(store, plan[t].into,
       [Answer(t) EXCEPT !.label = IF plan[t].onGraph THEN settings.mode ELSE Method])
  /\ UNCHANGED <<sent, abort, queue, titling, faults>> /\ CoroutineFrame

StoreAnswer(t) ==
  /\ Exists(store, plan[t].into)
  /\ Goto(t, "answering", "persisted")
  /\ store' = AppendMessage(store, plan[t].into, Answer(t))
  /\ UNCHANGED <<sent, abort, queue, titling, faults>> /\ CoroutineFrame

\* The foreign key refuses a deleted conversation, or the database fails.
PersistFails(t) ==
  /\ phase[t] \in {"creating", "asking", "answering"}
  /\ \/ Fault
     \/ phase[t] # "creating" /\ ~Exists(store, plan[t].into) /\ UNCHANGED faults
  /\ Fail(t)
  /\ UNCHANGED <<store, queue, titling>> /\ CoroutineFrame

\* Titling is handed to a worker before the done frame goes out.
Done(t) ==
  /\ Goto(t, "persisted", "done")
  /\ titling' = [titling EXCEPT ![t] = "queued"]
  /\ Send(t, Frame("done")) /\ Abort(t)
  /\ UNCHANGED <<store, queue, faults>> /\ CoroutineFrame

\* A disconnect cancels the stream wherever it waits; the store calls run in
\* a shielded thread and finish, and the turn ends after them, untitled.
Cancel(t) ==
  /\ ~here[t] /\ phase[t] \in {"streaming", "awaiting", "persisted"}
  /\ phase' = [phase EXCEPT ![t] = IF @ = "persisted" THEN "dropped" ELSE "cancelled"]
  /\ Abort(t)
  /\ UNCHANGED <<store, sent, queue, titling, faults>> /\ CoroutineFrame

RequestStep(t) == OpenGraph(t) \/ Preflight(t) \/ StartStream(t) \/ Forward(t) \/ AwaitOutcome(t)
                  \/ Create(t) \/ Ask(t) \/ StoreAnswer(t) \/ PersistFails(t) \/ Done(t)
                  \/ Cancel(t)

-----------------------------------------------------------------------------
(* The auto-title worker: look, generate, write.                           *)

ReadTitle(t) ==
  /\ titling[t] = "queued"
  /\ titling' = [titling EXCEPT ![t] =
       IF Exists(store, plan[t].into) /\ store[plan[t].into].title = DefaultTitle
       THEN "generating" ELSE "over"]
  /\ UNCHANGED <<settings, store, groups, request, worker, queue, faults, edits>>

WriteTitle(t) ==
  /\ titling[t] = "generating"
  /\ titling' = [titling EXCEPT ![t] = "over"]
  /\ store' = SetTitle(store, plan[t].into, t)
  /\ UNCHANGED <<settings, groups, request, worker, queue, faults, edits>>

-----------------------------------------------------------------------------
(* Everyone else.                                                          *)

Edit == edits < MaxEdits /\ edits' = edits + 1

\* The client closes the tab.
Leave(t) ==
  /\ here[t] /\ phase[t] \notin Over \cup {"idle"}
  /\ here' = [here EXCEPT ![t] = FALSE]
  /\ UNCHANGED <<settings, store, groups, plan, phase, sent, abort, worker, queue, titling,
                 faults, edits>>

PatchSettings ==
  /\ Edit
  /\ settings' \in [graph : BOOLEAN, mode : Modes] \ {settings}
  /\ UNCHANGED <<store, groups, turnVars, faults>>

Delete ==
  /\ Edit
  /\ \E c \in DOMAIN store : store' = DeleteConversation(store, c)
  /\ UNCHANGED <<settings, groups, turnVars, faults>>

\* update_conversation: the foreign key admits only a group that exists.
Move ==
  /\ Edit
  /\ \E c \in DOMAIN store, g \in groups \cup {NoGroup} :
       store[c].group # g /\ store' = SetGroup(store, c, g)
  /\ UNCHANGED <<settings, groups, turnVars, faults>>

RemoveGroup ==
  /\ Edit
  /\ \E g \in groups : groups' = groups \ {g} /\ store' = DeleteGroup(store, g)
  /\ UNCHANGED <<settings, turnVars, faults>>

-----------------------------------------------------------------------------
Next ==
  \/ \E t \in Turns : Resolve(t) \/ RefuseOverride(t) \/ RequestStep(t) \/ WorkerStep(t)
                      \/ ReadTitle(t) \/ WriteTitle(t) \/ Leave(t)
  \/ PatchSettings \/ Delete \/ Move \/ RemoveGroup

\* The turn waits for the graph engine, which answers when it likes: for the
\* lock that opens the session, or for a result() without timeout.
Opening(t) == phase[t] = "resolved" /\ plan[t].corpus = "graph"
Retrieving(t) == flow[t] = "retrieve" /\ plan[t].onGraph

\* Elsewhere the worker keeps moving: the model server stops at max_tokens, and
\* the clients of the services a turn needs have timeouts.  The event loop runs
\* whatever is ready, the disconnect listener included.
Fairness ==
  \A t \in Turns : /\ WF_vars(~Opening(t) /\ RequestStep(t))
                   /\ WF_vars(~Retrieving(t) /\ WorkerStep(t))

Spec == Init /\ [][Next]_vars /\ Fairness

-----------------------------------------------------------------------------
TypeOK ==
  /\ settings \in [graph : BOOLEAN, mode : Modes]
  /\ groups \subseteq Groups
  /\ plan \in [Turns -> Plans] /\ outcome \in [Turns -> Outcomes]
  /\ phase \in [Turns -> Phases] /\ flow \in [Turns -> FlowPhases]
  /\ titling \in [Turns -> TitlePhases]
  /\ here \in [Turns -> BOOLEAN] /\ abort \in [Turns -> BOOLEAN]
  /\ deltas \in [Turns -> 0 .. MaxDeltas] /\ late \in [Turns -> SUBSET LateSteps]
  /\ fragments \in [Turns -> Nat]
  /\ faults \in 0 .. MaxFaults /\ edits \in 0 .. MaxEdits

\* Where the messages of turn t are in conversation c.
MessagesOf(t, c) == {i \in DOMAIN store[c].messages : store[c].messages[i].turn = t}

\* The stream a client sees is a prefix of: the retrieval frame, deltas, one
\* terminal frame; or an error frame at any point (streaming.py, chat()).
WireProtocol ==
  \A t \in Turns : LET frames == sent[t] IN
    /\ \A i \in DOMAIN frames :
         /\ frames[i].event = "retrieval" => i = 1
         /\ frames[i].event \in {"delta", "done"} => i > 1
         /\ frames[i].event \in {"done", "error"} => i = Len(frames)
    /\ phase[t] = "done" /\ here[t] => frames # <<>> /\ frames[Len(frames)].event = "done"

\* A client that got done finds its question and its answer, in this order
\* and once, in the conversation, unless somebody deleted it; and a turn puts
\* nothing in any other conversation.
DoneIsStored ==
  \A t \in Turns : \A c \in DOMAIN store :
    /\ c # plan[t].into => MessagesOf(t, c) = {}
    /\ c = plan[t].into /\ (\E i \in DOMAIN sent[t] : sent[t][i].event = "done") =>
         \E q, a \in DOMAIN store[c].messages :
           /\ q < a /\ MessagesOf(t, c) = {q, a}
           /\ store[c].messages[q] = Question(t) /\ store[c].messages[a] = Answer(t)

\* A turn the client left before the answer was complete, or whose flow
\* failed, leaves no trace: the turn is persisted at done.
AbandonedStoresNothing ==
  \A t \in Turns, c \in DOMAIN store :
    phase[t] \in {"refused", "cancelled"} \/ outcome[t].status \in {"aborted", "failed"}
      => MessagesOf(t, c) = {}

\* What is stored with an answer is what its retrieval frame showed, whatever
\* became of the settings meanwhile: label, corpus, condensing, and evidence
\* only when the graph did answer.
WireMatchesStore ==
  \A t \in Turns, c \in DOMAIN store : \A i \in DOMAIN store[c].messages :
    LET m == store[c].messages[i] IN
    m.role = "assistant" /\ m.turn = t /\ sent[t] # <<>> /\ sent[t][1].event = "retrieval" =>
      LET shown == sent[t][1] IN
      /\ m.label = shown.label /\ m.corpus = shown.corpus
      /\ m.condensed = shown.condensed /\ m.graph = shown.graph
      /\ m.graph => m.corpus = "graph" /\ m.label # Method

\* "Polled between deltas; returning True stops generation", so that a closed
\* tab frees the model server: after abort() the flow reads one more delta at
\* most, and drops it with all that would follow.  What still goes out are the
\* fragments of the one delta it had polled for, or those that the splitter
\* holds when the stream ends before another poll.
AbortIsPrompt ==
  \A t \in Turns : \A a, b \in late[t] :
    /\ a.step = b.step => a = b
    /\ a.step = "read" => b.step # "final" /\ (b.step = "fed" => b.delta < a.delta)

\* The engine never answers; no request waits for its answer but one whose
\* client is there, or whose session is still to be opened.
Stuck(t) == Opening(t) \/ (Retrieving(t) /\ (here[t] \/ phase[t] \in Over))

\* A chat request ends, whatever fails and whoever leaves, and so does the
\* worker thread it started (the finally of _run_flow, the sentinel), unless
\* the graph engine never answers; and then the request of a client that left
\* ends all the same, once its session is open.
TurnsEnd ==
  \A t \in Turns :
    phase[t] # "idle" ~>
      (phase[t] \in Over /\ flow[t] \in {"idle", "ended"}) \/ []Stuck(t)

\* "A turn persists in one transaction" (golden-docs/quiz.md:488): when a turn
\* is over, its question is stored exactly when its answer is.
TurnIsAtomic ==
  \A t \in Turns, c \in DOMAIN store :
    phase[t] \in Over => Cardinality(MessagesOf(t, c)) \in {0, 2}

\* "Conversations already titled (auto or manually) are left alone"
\* (auto_title): a title, once given, stays.
TitlesStay ==
  [][\A c \in DOMAIN store \cap DOMAIN store' :
       store[c].title # DefaultTitle => store'[c].title = store[c].title]_vars

=============================================================================
