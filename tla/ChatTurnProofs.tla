--------------------------- MODULE ChatTurnProofs ---------------------------
(***************************************************************************)
(* The safety properties of chat turns, for any number of turns that run   *)
(* at once over one conversation store, any bounds and any settings.       *)
(*                                                                         *)
(* A turn's stream is a pipe: worker, queue, request, client.  PipeInv     *)
(* says what may be in it at each phase of the two; StoredInv, what of a   *)
(* turn is in the tables then.                                             *)
(***************************************************************************)
EXTENDS ChatTurn, TLAPS

Labels == Modes \cup {Method}
Frames ==
  [event : {"delta", "eof", "done", "error"}]
  \cup [event : {"retrieval"}, label : Labels, corpus : Corpora, condensed : BOOLEAN,
        graph : BOOLEAN]
Messages ==
  [role : {"user", "assistant"}, turn : Turns \cup {OldId}]
  \cup [role : {"assistant"}, turn : Turns, label : Labels, corpus : Corpora,
        condensed : BOOLEAN, graph : BOOLEAN]
Conversation == [title : Titles, group : Groups \cup {NoGroup}, messages : Seq(Messages)]

StoreOK == DOMAIN store \subseteq ConversationIds /\ store \in [DOMAIN store -> Conversation]
TypeInv ==
  TypeOK /\ queue \in [Turns -> Seq(Frames)] /\ sent \in [Turns -> Seq(Frames)] /\ StoreOK

\* Phases before the stream is opened, and after the bridge was drained.
Before == {"idle", "resolved", "opened", "checked", "refused"}
After == {"awaiting", "creating", "asking", "answering", "persisted", "done", "failed",
          "dropped"}
Persisting == {"creating", "asking", "answering", "persisted", "done", "dropped"}

\* Where the worker is when the request is there, and what that leaves in the
\* pipe; a plan is on the graph only for a graph turn.
Phased(t) ==
  /\ phase[t] \in Before <=> flow[t] = "idle"
  /\ phase[t] \in After => flow[t] = "ended" /\ queue[t] = <<>>
  /\ flow[t] \in {"idle", "condense", "retrieve"} => queue[t] = <<>> /\ sent[t] = <<>>
  /\ flow[t] \in {"finalizing", "closing", "ended"} <=> outcome[t].status # "none"
  /\ flow[t] = "finalizing" => outcome[t].status = "ok"
  /\ phase[t] \in Persisting => outcome[t].status = "ok"
  /\ plan[t].into \in {t, OldId}
  /\ phase[t] \notin {"idle", "refused"} => plan[t].mode \in Modes
  /\ plan[t].onGraph => plan[t].corpus = "graph" /\ plan[t].mode \in Modes /\ phase[t] # "idle"

\* The retrieval frame is the first thing in the queue, the sentinel the last.
Queued(t) ==
  \A i \in DOMAIN queue[t] :
    /\ queue[t][i].event \in {"retrieval", "delta", "eof"}
    /\ queue[t][i].event = "retrieval" =>
         i = 1 /\ sent[t] = <<>> /\ queue[t][i] = RetrievalFrame(t)
    /\ queue[t][i].event = "delta" => i > 1 \/ (here[t] => sent[t] # <<>>)
    /\ queue[t][i].event = "eof" => i = Len(queue[t]) /\ flow[t] = "ended"

\* Once retrieved, its frame is on its way or with the client.
Shown(t) ==
  flow[t] \in {"generate", "polled"} \/ outcome[t].status \in {"ok", "aborted"} =>
    \/ here[t] => sent[t] # <<>>
    \/ queue[t] # <<>> /\ queue[t][1].event # "eof"

Received(t) ==
  /\ \A i \in DOMAIN sent[t] :
       /\ sent[t][i].event \in {"retrieval", "delta", "done", "error"}
       /\ sent[t][i].event = "retrieval" => i = 1 /\ sent[t][i] = RetrievalFrame(t)
       /\ sent[t][i].event \in {"delta", "done"} => i > 1
       /\ sent[t][i].event = "done" => i = Len(sent[t]) /\ phase[t] = "done"
       /\ sent[t][i].event = "error" => i = Len(sent[t]) /\ phase[t] = "failed"
  /\ phase[t] = "done" /\ here[t] => sent[t] # <<>> /\ sent[t][Len(sent[t])].event = "done"

\* What the generation does after the abort: the rest of the delta it had
\* polled for, and then either the end of the stream or one more delta to drop.
Step(s, n) == [step |-> s, delta |-> n]
Prompt(t) ==
  /\ ~abort[t] => late[t] = {}
  /\ \/ late[t] \subseteq {Step("fed", deltas[t]), Step("final", deltas[t])}
     \/ late[t] \subseteq {Step("read", deltas[t]), Step("fed", deltas[t] - 1)}
  /\ flow[t] = "finalizing" =>
       late[t] \subseteq {Step("fed", deltas[t]), Step("final", deltas[t])}
  /\ flow[t] \in {"idle", "condense", "retrieve", "generate", "polled"} =>
       late[t] \subseteq {Step("fed", deltas[t])}

Pipe(t) == Phased(t) /\ Queued(t) /\ Shown(t) /\ Received(t) /\ Prompt(t)
PipeInv == TypeInv /\ \A t \in Turns : Pipe(t)

Stored(t) ==
  /\ \A c \in DOMAIN store : \A i \in MessagesOf(t, c) :
       /\ c = plan[t].into /\ phase[t] \in {"answering", "persisted", "done", "failed", "dropped"}
       /\ outcome[t].status = "ok"
       /\ store[c].messages[i].role = "assistant" => store[c].messages[i] = Answer(t)
  /\ Exists(store, plan[t].into) /\ phase[t] = "answering" =>
       \E q \in DOMAIN store[plan[t].into].messages :
         /\ MessagesOf(t, plan[t].into) = {q}
         /\ store[plan[t].into].messages[q] = Question(t)
  /\ Exists(store, plan[t].into) /\ phase[t] \in {"persisted", "done", "dropped"} =>
       \E q, a \in DOMAIN store[plan[t].into].messages :
         /\ q < a /\ MessagesOf(t, plan[t].into) = {q, a}
         /\ store[plan[t].into].messages[q] = Question(t)
         /\ store[plan[t].into].messages[a] = Answer(t)
StoredInv == PipeInv /\ \A t \in Turns : Stored(t)

-----------------------------------------------------------------------------
(* Types.                                                                  *)

LEMMA InitType == Init => TypeInv
<1> SUFFICES ASSUME Init PROVE TypeInv
  OBVIOUS
<1> USE ConversationsAssumption, ChatTurnAssumption
<1>1. TypeOK
  BY DEF Init, TypeOK, Plans, Outcomes, NewPlan, NoOutcome, Corpora, Phases, FlowPhases, TitlePhases
<1>2. queue \in [Turns -> Seq(Frames)] /\ sent \in [Turns -> Seq(Frames)]
  BY DEF Init
<1>3. StoreOK
  <2>1. PICK g \in Groups \cup {NoGroup}, earlier \in {<<>>, EarlierTurn} :
          store = [c \in {OldId} |-> [title |-> DefaultTitle, group |-> g, messages |-> earlier]]
    BY DEF Init
  <2>2. earlier \in Seq(Messages)
    <3>1. \A q, m \in Messages : <<q, m>> \in Seq(Messages)
      OBVIOUS
    <3>2. /\ [role |-> "user", turn |-> OldId] \in Messages
          /\ [role |-> "assistant", turn |-> OldId] \in Messages
      BY DEF Messages
    <3>3. EarlierTurn \in Seq(Messages)
      BY <3>1, <3>2 DEF EarlierTurn
    <3>4. <<>> \in Seq(Messages)
      OBVIOUS
    <3> HIDE DEF EarlierTurn
    <3> QED BY <3>3, <3>4
  <2> QED BY <2>1, <2>2 DEF StoreOK, Conversation
<1> QED BY <1>1, <1>2, <1>3 DEF TypeInv

LEMMA FrameTypes ==
  ASSUME TypeInv, NEW t \in Turns
  PROVE  /\ RetrievalFrame(t) \in Frames
         /\ \A event \in {"delta", "eof", "done", "error"} : Frame(event) \in Frames
         /\ Question(t) \in Messages /\ Answer(t) \in Messages
<1>1. /\ RetrievalLabel(plan[t]) \in Labels /\ plan[t].corpus \in Corpora
      /\ plan[t].onGraph \in BOOLEAN /\ outcome[t].condensed \in BOOLEAN
  BY DEF TypeInv, TypeOK, Plans, Outcomes, RetrievalLabel, Labels
<1> QED BY <1>1 DEF RetrievalFrame, Frame, Frames, Question, Answer, Messages

\* The statements of the store keep it a store.
LEMMA StoreTypes ==
  ASSUME StoreOK
  PROVE  /\ store' = store => StoreOK'
         /\ \A c \in ConversationIds : store' = CreateConversation(store, c) => StoreOK'
         /\ \A c \in DOMAIN store, m \in Messages :
              store' = AppendMessage(store, c, m) => StoreOK'
         /\ \A c \in DOMAIN store : store' = DeleteConversation(store, c) => StoreOK'
         /\ \A c \in ConversationIds, x \in Titles : store' = SetTitle(store, c, x) => StoreOK'
         /\ \A c \in DOMAIN store, g \in Groups \cup {NoGroup} :
              store' = SetGroup(store, c, g) => StoreOK'
         /\ \A g \in Groups : store' = DeleteGroup(store, g) => StoreOK'
<1> USE ConversationsAssumption DEF StoreOK, Conversation
<1>1. \A c \in ConversationIds : store' = CreateConversation(store, c) => StoreOK'
  BY DEF CreateConversation
<1>2. ASSUME NEW c \in DOMAIN store, NEW m \in Messages, store' = AppendMessage(store, c, m)
      PROVE  StoreOK'
  <2>1. /\ c \in ConversationIds /\ store[c] \in Conversation
        /\ Append(store[c].messages, m) \in Seq(Messages)
    OBVIOUS
  <2>2. [store[c] EXCEPT !.messages = Append(@, m)] \in Conversation
    BY <2>1
  <2>3. store' = [store EXCEPT ![c] = [store[c] EXCEPT !.messages = Append(@, m)]]
    BY <1>2 DEF AppendMessage
  <2> HIDE DEF Conversation
  <2> QED BY <2>2, <2>3
<1>3. \A c \in DOMAIN store : store' = DeleteConversation(store, c) => StoreOK'
  BY DEF DeleteConversation
<1>4. ASSUME NEW c \in ConversationIds, NEW x \in Titles, store' = SetTitle(store, c, x)
      PROVE  StoreOK'
  BY <1>4 DEF SetTitle, Exists
<1>5. ASSUME NEW c \in DOMAIN store, NEW g \in Groups \cup {NoGroup},
             store' = SetGroup(store, c, g)
      PROVE  StoreOK'
  BY <1>5 DEF SetGroup, Exists
<1>6. \A g \in Groups : store' = DeleteGroup(store, g) => StoreOK'
  BY DEF DeleteGroup
<1> QED BY <1>1, <1>2, <1>3, <1>4, <1>5, <1>6

LEMMA UpdateTypes ==
  ASSUME plan \in [Turns -> Plans], outcome \in [Turns -> Outcomes],
         settings \in [graph : BOOLEAN, mode : Modes], NEW t \in Turns
  PROVE  /\ \A x \in BOOLEAN : /\ [plan EXCEPT ![t].onGraph = x] \in [Turns -> Plans]
                               /\ [plan EXCEPT ![t].history = x] \in [Turns -> Plans]
         /\ \A corpus \in Corpora, into \in {t, OldId} :
              [plan EXCEPT ![t] = [@ EXCEPT !.corpus = corpus, !.into = into,
                                            !.mode = settings.mode]] \in [Turns -> Plans]
         /\ \A x \in {"none", "ok", "aborted", "failed"} :
              [outcome EXCEPT ![t].status = x] \in [Turns -> Outcomes]
         /\ \A x \in BOOLEAN : [outcome EXCEPT ![t].condensed = x] \in [Turns -> Outcomes]
         /\ plan[t].onGraph \in BOOLEAN /\ plan[t].history \in BOOLEAN
         /\ plan[t].into \in ConversationIds
<1>1. plan[t] \in Plans /\ outcome[t] \in Outcomes /\ OldId \in ConversationIds
      /\ t \in ConversationIds
  BY ChatTurnAssumption
<1>2. \A x \in BOOLEAN : /\ [plan[t] EXCEPT !.onGraph = x] \in Plans
                         /\ [plan[t] EXCEPT !.history = x] \in Plans
  BY <1>1 DEF Plans
<1>3. \A corpus \in Corpora, into \in {t, OldId} :
        [plan[t] EXCEPT !.corpus = corpus, !.into = into, !.mode = settings.mode] \in Plans
  BY <1>1 DEF Plans
<1>4. /\ \A x \in {"none", "ok", "aborted", "failed"} :
           [outcome[t] EXCEPT !.status = x] \in Outcomes
      /\ \A x \in BOOLEAN : [outcome[t] EXCEPT !.condensed = x] \in Outcomes
  BY <1>1 DEF Outcomes
<1>5. plan[t].onGraph \in BOOLEAN /\ plan[t].history \in BOOLEAN /\ plan[t].into \in ConversationIds
  BY <1>1 DEF Plans
<1>6. \A x \in BOOLEAN : /\ [plan EXCEPT ![t].onGraph = x] \in [Turns -> Plans]
                         /\ [plan EXCEPT ![t].history = x] \in [Turns -> Plans]
  BY <1>2
<1>7. \A corpus \in Corpora, into \in {t, OldId} :
        [plan EXCEPT ![t] = [@ EXCEPT !.corpus = corpus, !.into = into,
                                      !.mode = settings.mode]] \in [Turns -> Plans]
  BY <1>3
<1>8. /\ \A x \in {"none", "ok", "aborted", "failed"} :
           [outcome EXCEPT ![t].status = x] \in [Turns -> Outcomes]
      /\ \A x \in BOOLEAN : [outcome EXCEPT ![t].condensed = x] \in [Turns -> Outcomes]
  BY <1>4
<1> QED BY <1>5, <1>6, <1>7, <1>8

LEMMA PipeTypes ==
  ASSUME queue \in [Turns -> Seq(Frames)], sent \in [Turns -> Seq(Frames)], NEW t \in Turns
  PROVE  /\ \A f \in Frames : Emit(t, f) => queue' \in [Turns -> Seq(Frames)]
         /\ \A f \in Frames : Send(t, f) => sent' \in [Turns -> Seq(Frames)]
<1>1. \A f \in Frames : Append(queue[t], f) \in Seq(Frames) /\ Append(sent[t], f) \in Seq(Frames)
  OBVIOUS
<1> QED BY <1>1 DEF Emit, Send

LEMMA NoteTypes ==
  ASSUME late \in [Turns -> SUBSET LateSteps], deltas \in [Turns -> 0 .. MaxDeltas],
         NEW t \in Turns
  PROVE  \A s \in {"read", "fed", "final"}, n \in {deltas[t], deltas[t] + 1} :
           Note(t, s, n) => late' \in [Turns -> SUBSET LateSteps]
<1>1. MaxDeltas \in Nat
  BY ChatTurnAssumption
<1> QED BY <1>1 DEF Note, LateSteps

\* One step of turn t, and of everybody else.
LEMMA TurnTypes ==
  ASSUME TypeInv, NEW t \in Turns,
         \/ Resolve(t) \/ RefuseOverride(t) \/ RequestStep(t) \/ WorkerStep(t)
         \/ ReadTitle(t) \/ WriteTitle(t) \/ Leave(t)
  PROVE  TypeInv'
<1> USE ChatTurnAssumption
<1>0. /\ settings \in [graph : BOOLEAN, mode : Modes]
      /\ plan \in [Turns -> Plans] /\ outcome \in [Turns -> Outcomes]
      /\ phase \in [Turns -> Phases] /\ flow \in [Turns -> FlowPhases]
      /\ titling \in [Turns -> TitlePhases]
      /\ here \in [Turns -> BOOLEAN] /\ abort \in [Turns -> BOOLEAN]
      /\ deltas \in [Turns -> 0 .. MaxDeltas] /\ late \in [Turns -> SUBSET LateSteps]
      /\ fragments \in [Turns -> Nat]
      /\ faults \in 0 .. MaxFaults
      /\ queue \in [Turns -> Seq(Frames)] /\ sent \in [Turns -> Seq(Frames)] /\ StoreOK
  BY DEF TypeInv, TypeOK
<1> USE <1>0
<1>1. CASE Resolve(t)
  <2>1. phase' \in [Turns -> Phases]
    BY <1>1 DEF Resolve, Goto, Phases
  <2>2. plan' \in [Turns -> Plans]
    <3>1. PICK corpus \in Corpora, into \in {t, OldId} :
            plan' = [plan EXCEPT ![t] = [@ EXCEPT !.corpus = corpus, !.into = into,
                                                  !.mode = settings.mode]]
      BY <1>1 DEF Resolve
    <3> QED BY <3>1, UpdateTypes
  <2> QED BY <1>1, <2>1, <2>2, StoreTypes
    DEF Resolve, TypeInv, TypeOK, request, worker
<1>2. CASE RefuseOverride(t)
  <2>1. phase' \in [Turns -> Phases]
    BY <1>2 DEF RefuseOverride, Goto, Phases
  <2> QED BY <1>2, <2>1, StoreTypes
    DEF RefuseOverride, TypeInv, TypeOK, request, worker
<1>3. CASE OpenGraph(t)
  <2>1. phase' \in [Turns -> Phases]
    BY <1>3 DEF OpenGraph, Goto, Phases
  <2>2. plan' \in [Turns -> Plans]
    <3>1. \/ plan' = plan
          \/ \E x \in BOOLEAN : plan' = [plan EXCEPT ![t].onGraph = x]
      BY <1>3 DEF OpenGraph
    <3>2. \A x \in BOOLEAN : [plan EXCEPT ![t].onGraph = x] \in [Turns -> Plans]
      BY UpdateTypes
    <3> QED BY <3>1, <3>2, Zenon
  <2>3. faults' \in 0 .. MaxFaults
    BY <1>3 DEF OpenGraph, Fault
  <2> QED BY <1>3, <2>1, <2>2, <2>3, StoreTypes
    DEF OpenGraph, TypeInv, TypeOK, request, worker
<1>4. CASE Preflight(t)
  <2>1. phase' \in [Turns -> Phases]
    BY <1>4 DEF Preflight, Goto, Phases
  <2>2. faults' \in 0 .. MaxFaults
    BY <1>4 DEF Preflight, Fault
  <2> QED BY <1>4, <2>1, <2>2, StoreTypes
    DEF Preflight, TypeInv, TypeOK, request, worker
<1>5. CASE StartStream(t)
  <2>1. phase' \in [Turns -> Phases]
    BY <1>5 DEF StartStream, Goto, Phases
  <2>2. flow' \in [Turns -> FlowPhases]
    BY <1>5 DEF StartStream, Work, FlowPhases
  <2>3. plan' \in [Turns -> Plans]
    <3>1. \/ plan' = plan
          \/ \E x \in BOOLEAN : plan' = [plan EXCEPT ![t].history = x]
      BY <1>5 DEF StartStream
    <3>2. \A x \in BOOLEAN : [plan EXCEPT ![t].history = x] \in [Turns -> Plans]
      BY UpdateTypes
    <3> QED BY <3>1, <3>2, Zenon
  <2> QED BY <1>5, <2>1, <2>2, <2>3, StoreTypes
    DEF StartStream, TypeInv, TypeOK, request, worker
<1>6. CASE Forward(t)
  <2>1. phase' \in [Turns -> Phases]
    BY <1>6 DEF Forward, Goto, Phases
  <2>2. queue' \in [Turns -> Seq(Frames)]
    BY FrameTypes, <1>6 DEF Forward, Emit
  <2>3. sent' \in [Turns -> Seq(Frames)]
    <3>1. queue[t] # <<>> => Head(queue[t]) \in Frames
      OBVIOUS
    <3> QED BY <1>6, <3>1, PipeTypes DEF Forward
  <2> QED BY <1>6, <2>1, <2>2, <2>3, StoreTypes
    DEF Forward, CoroutineFrame, TypeInv, TypeOK, request, worker
<1>7. CASE AwaitOutcome(t)
  <2>1. phase' \in [Turns -> Phases]
    <3>1. {"failed", "cancelled", "creating", "asking"} \subseteq Phases
      BY DEF Phases
    <3> QED BY <1>7, <3>1 DEF AwaitOutcome, Fail, Goto
  <2>2. sent' \in [Turns -> Seq(Frames)]
    <3>1. Frame("error") \in Frames
      BY FrameTypes
    <3> QED BY <1>7, <3>1, PipeTypes DEF AwaitOutcome, Fail
  <2>3. abort' \in [Turns -> BOOLEAN]
    BY <1>7 DEF AwaitOutcome, Fail, Abort
  <2> QED BY <1>7, <2>1, <2>2, <2>3, StoreTypes
    DEF AwaitOutcome, CoroutineFrame, TypeInv, TypeOK, request, worker
<1>8. CASE Create(t)
  <2>1. phase' \in [Turns -> Phases]
    BY <1>8 DEF Create, Goto, Phases
  <2>2. StoreOK'
    BY FrameTypes, <1>8, StoreTypes DEF Create, Exists
  <2> QED BY <1>8, <2>1, <2>2
    DEF Create, CoroutineFrame, TypeInv, TypeOK, request, worker
<1>9. CASE Ask(t)
  <2>1. phase' \in [Turns -> Phases]
    BY <1>9 DEF Ask, Goto, Phases
  <2>2. StoreOK'
    BY FrameTypes, <1>9, StoreTypes DEF Ask, Exists
  <2> QED BY <1>9, <2>1, <2>2
    DEF Ask, CoroutineFrame, TypeInv, TypeOK, request, worker
<1>10. CASE StoreAnswer(t)
  <2>1. phase' \in [Turns -> Phases]
    BY <1>10 DEF StoreAnswer, Goto, Phases
  <2>2. StoreOK'
    BY FrameTypes, <1>10, StoreTypes DEF StoreAnswer, Exists
  <2> QED BY <1>10, <2>1, <2>2
    DEF StoreAnswer, CoroutineFrame, TypeInv, TypeOK, request, worker
<1>11. CASE PersistFails(t)
  <2>1. phase' \in [Turns -> Phases]
    BY <1>11 DEF PersistFails, Fail, Goto, Phases
  <2>2. sent' \in [Turns -> Seq(Frames)]
    BY FrameTypes, <1>11 DEF PersistFails, Fail, Send
  <2>3. abort' \in [Turns -> BOOLEAN]
    BY <1>11 DEF PersistFails, Fail, Abort
  <2>4. faults' \in 0 .. MaxFaults
    BY <1>11 DEF PersistFails, Fault
  <2> QED BY <1>11, <2>1, <2>2, <2>3, <2>4, StoreTypes
    DEF PersistFails, CoroutineFrame, TypeInv, TypeOK, request, worker
<1>12. CASE Done(t)
  <2>1. phase' \in [Turns -> Phases]
    BY <1>12 DEF Done, Goto, Phases
  <2>2. sent' \in [Turns -> Seq(Frames)]
    BY FrameTypes, <1>12 DEF Done, Send
  <2>3. abort' \in [Turns -> BOOLEAN]
    BY <1>12 DEF Done, Abort
  <2>4. titling' \in [Turns -> TitlePhases]
    BY <1>12 DEF Done, TitlePhases
  <2> QED BY <1>12, <2>1, <2>2, <2>3, <2>4, StoreTypes
    DEF Done, CoroutineFrame, TypeInv, TypeOK, request, worker
<1>13. CASE Cancel(t)
  <2>1. phase' \in [Turns -> Phases]
    BY <1>13 DEF Cancel, Goto, Phases
  <2>2. abort' \in [Turns -> BOOLEAN]
    BY <1>13 DEF Cancel, Abort
  <2> QED BY <1>13, <2>1, <2>2, StoreTypes
    DEF Cancel, CoroutineFrame, TypeInv, TypeOK, request, worker
<1>14. CASE Condense(t)
  <2>1. flow' \in [Turns -> FlowPhases]
    BY <1>14 DEF Condense, Work, FlowPhases
  <2>2. outcome' \in [Turns -> Outcomes]
    <3>1. plan[t].history \in BOOLEAN
      BY UpdateTypes
    <3>2. PICK x \in {FALSE, plan[t].history} :
            outcome' = [outcome EXCEPT ![t].condensed = x]
      BY <1>14 DEF Condense
    <3>3. x \in BOOLEAN
      BY <3>1
    <3> QED BY <3>2, <3>3, UpdateTypes
  <2> QED BY <1>14, <2>1, <2>2, StoreTypes
    DEF Condense, WorkerFrame, TypeInv, TypeOK, request, worker
<1>15. CASE Retrieve(t)
  <2>1. flow' \in [Turns -> FlowPhases]
    BY <1>15 DEF Retrieve, Work, FlowPhases
  <2>2. queue' \in [Turns -> Seq(Frames)]
    BY FrameTypes, <1>15 DEF Retrieve, Emit
  <2> QED BY <1>15, <2>1, <2>2, StoreTypes
    DEF Retrieve, WorkerFrame, TypeInv, TypeOK, request, worker
<1>16. CASE Poll(t)
  <2>1. flow' \in [Turns -> FlowPhases]
    BY <1>16 DEF Poll, Split, Work, FlowPhases
  <2>2. outcome' \in [Turns -> Outcomes]
    <3>1. \/ outcome' = outcome
          \/ outcome' = [outcome EXCEPT ![t].status = "aborted"]
      BY <1>16 DEF Poll
    <3>2. [outcome EXCEPT ![t].status = "aborted"] \in [Turns -> Outcomes]
      BY UpdateTypes
    <3> QED BY <3>1, <3>2, Zenon
  <2>3. deltas' \in [Turns -> 0 .. MaxDeltas]
    BY <1>16 DEF Poll
  <2>4. late' \in [Turns -> SUBSET LateSteps]
    BY <1>16, NoteTypes DEF Poll
  <2> QED BY <1>16, <2>1, <2>2, <2>3, <2>4, StoreTypes
    DEF Poll, WorkerFrame, TypeInv, TypeOK, request, worker
<1>17. CASE Dispatch(t)
  <2>1. flow' \in [Turns -> FlowPhases]
    BY <1>17 DEF Dispatch, Split, Work, FlowPhases
  <2>2. queue' \in [Turns -> Seq(Frames)]
    BY FrameTypes, <1>17 DEF Dispatch, Emit
  <2>3. late' \in [Turns -> SUBSET LateSteps]
    BY <1>17, NoteTypes DEF Dispatch
  <2>4. fragments' \in [Turns -> Nat]
    BY <1>17 DEF Dispatch
  <2> QED BY <1>17, <2>1, <2>2, <2>3, <2>4, StoreTypes
    DEF Dispatch, WorkerFrame, TypeInv, TypeOK, request, worker
<1>24. CASE Finalize(t)
  <2>1. flow' \in [Turns -> FlowPhases]
    BY <1>24 DEF Finalize, Split, Work, FlowPhases
  <2>2. queue' \in [Turns -> Seq(Frames)]
    BY FrameTypes, <1>24 DEF Finalize, Emit
  <2>3. late' \in [Turns -> SUBSET LateSteps]
    BY <1>24, NoteTypes DEF Finalize
  <2>4. fragments' \in [Turns -> Nat]
    BY <1>24 DEF Finalize
  <2> QED BY <1>24, <2>1, <2>2, <2>3, <2>4, StoreTypes
    DEF Finalize, WorkerFrame, TypeInv, TypeOK, request, worker
<1>18. CASE Generated(t)
  <2>1. flow' \in [Turns -> FlowPhases]
    BY <1>18 DEF Generated, Split, Work, FlowPhases
  <2>2. outcome' \in [Turns -> Outcomes]
    BY <1>18, UpdateTypes DEF Generated
  <2> QED BY <1>18, <2>1, <2>2, StoreTypes
    DEF Generated, WorkerFrame, TypeInv, TypeOK, request, worker
<1>19. CASE FlowFails(t)
  <2>1. flow' \in [Turns -> FlowPhases]
    BY <1>19 DEF FlowFails, Work, FlowPhases
  <2>2. outcome' \in [Turns -> Outcomes]
    BY <1>19, UpdateTypes DEF FlowFails
  <2>3. faults' \in 0 .. MaxFaults
    BY <1>19 DEF FlowFails, Fault
  <2> QED BY <1>19, <2>1, <2>2, <2>3, StoreTypes
    DEF FlowFails, WorkerFrame, TypeInv, TypeOK, request, worker
<1>20. CASE CloseBridge(t)
  <2>1. flow' \in [Turns -> FlowPhases]
    BY <1>20 DEF CloseBridge, Work, FlowPhases
  <2>2. queue' \in [Turns -> Seq(Frames)]
    BY FrameTypes, <1>20 DEF CloseBridge, EndOfStream, Emit
  <2> QED BY <1>20, <2>1, <2>2, StoreTypes
    DEF CloseBridge, WorkerFrame, TypeInv, TypeOK, request, worker
<1>21. CASE ReadTitle(t)
  <2>1. titling' \in [Turns -> TitlePhases]
    BY <1>21 DEF ReadTitle, TitlePhases
  <2> QED BY <1>21, <2>1, StoreTypes
    DEF ReadTitle, TypeInv, TypeOK, request, worker
<1>22. CASE WriteTitle(t)
  <2>1. titling' \in [Turns -> TitlePhases]
    BY <1>22 DEF WriteTitle, TitlePhases
  <2>2. StoreOK'
    BY <1>22, StoreTypes, UpdateTypes DEF WriteTitle
  <2> QED BY <1>22, <2>1, <2>2
    DEF WriteTitle, TypeInv, TypeOK, request, worker
<1>23. CASE Leave(t)
  <2>1. here' \in [Turns -> BOOLEAN]
    BY <1>23 DEF Leave
  <2> QED BY <1>23, <2>1, StoreTypes
    DEF Leave, TypeInv, TypeOK, request, worker
<1> QED
  BY <1>1, <1>2, <1>3, <1>4, <1>5, <1>6, <1>7, <1>8, <1>9, <1>10, <1>11, <1>12, <1>13, <1>14,
     <1>15, <1>16, <1>17, <1>18, <1>19, <1>20, <1>21, <1>22, <1>23, <1>24
     DEF RequestStep, WorkerStep

LEMMA OtherTypes ==
  ASSUME TypeInv, PatchSettings \/ Delete \/ Move \/ RemoveGroup \/ UNCHANGED vars
  PROVE  TypeInv'
<1> USE ChatTurnAssumption DEF TypeInv, TypeOK, Edit, request, worker, turnVars
<1>1. CASE PatchSettings
  BY <1>1, StoreTypes DEF PatchSettings
<1>2. CASE Delete
  BY <1>2, StoreTypes DEF Delete
<1>3. CASE Move
  BY <1>3, StoreTypes DEF Move
<1>4. CASE RemoveGroup
  BY <1>4, StoreTypes DEF RemoveGroup
<1>5. CASE UNCHANGED vars
  BY <1>5, StoreTypes DEF vars
<1> QED BY <1>1, <1>2, <1>3, <1>4, <1>5

LEMMA NextType == TypeInv /\ [Next]_vars => TypeInv'
BY TurnTypes, OtherTypes DEF Next

-----------------------------------------------------------------------------
(* The pipe of a turn.                                                     *)

SameTurn(u) ==
  /\ plan'[u] = plan[u] /\ phase'[u] = phase[u] /\ here'[u] = here[u] /\ flow'[u] = flow[u]
  /\ outcome'[u] = outcome[u] /\ queue'[u] = queue[u] /\ sent'[u] = sent[u]
  /\ abort'[u] = abort[u] /\ late'[u] = late[u]
  /\ deltas'[u] = deltas[u]

LEMMA SameFrame ==
  ASSUME NEW t \in Turns, plan'[t] = plan[t], outcome'[t].condensed = outcome[t].condensed
  PROVE  RetrievalFrame(t)' = RetrievalFrame(t) /\ Answer(t)' = Answer(t)
BY DEF RetrievalFrame, Answer, RetrievalLabel

LEMMA SamePipe ==
  ASSUME NEW u \in Turns, Pipe(u), SameTurn(u)
  PROVE  Pipe(u)'
<1>1. RetrievalFrame(u)' = RetrievalFrame(u)
  BY SameFrame DEF SameTurn
<1> QED BY <1>1 DEF SameTurn, Pipe, Phased, Queued, Shown, Received, Prompt, Step

\* A step of one turn touches no other.
LEMMA OthersStay ==
  ASSUME TypeInv, NEW t \in Turns, NEW u \in Turns \ {t},
         \/ Resolve(t) \/ RefuseOverride(t) \/ RequestStep(t) \/ WorkerStep(t)
         \/ ReadTitle(t) \/ WriteTitle(t) \/ Leave(t)
  PROVE  SameTurn(u)
<1>0. /\ plan \in [Turns -> Plans] /\ outcome \in [Turns -> Outcomes]
      /\ phase \in [Turns -> Phases] /\ flow \in [Turns -> FlowPhases]
      /\ here \in [Turns -> BOOLEAN] /\ abort \in [Turns -> BOOLEAN]
      /\ late \in [Turns -> SUBSET LateSteps] /\ deltas \in [Turns -> 0 .. MaxDeltas]
      /\ queue \in [Turns -> Seq(Frames)] /\ sent \in [Turns -> Seq(Frames)]
  BY DEF TypeInv, TypeOK
<1> USE <1>0 DEF SameTurn, request, worker, Goto, Work, Emit, Send, Abort, Note, Split
<1>1. CASE Resolve(t) \/ RefuseOverride(t) \/ Leave(t) \/ ReadTitle(t) \/ WriteTitle(t)
  BY <1>1 DEF Resolve, RefuseOverride, Leave, ReadTitle, WriteTitle
<1>2. CASE OpenGraph(t) \/ Preflight(t) \/ StartStream(t)
  BY <1>2 DEF OpenGraph, Preflight, StartStream
<1>3. CASE Forward(t) \/ Create(t) \/ Ask(t) \/ StoreAnswer(t) \/ Done(t) \/ Cancel(t)
  BY <1>3 DEF Forward, Create, Ask, StoreAnswer, Done, Cancel, CoroutineFrame
<1>4. CASE AwaitOutcome(t) \/ PersistFails(t)
  BY <1>4 DEF AwaitOutcome, PersistFails, Fail, CoroutineFrame
<1>5. CASE WorkerStep(t)
  BY <1>5 DEF WorkerStep, Condense, Retrieve, Poll, Dispatch, Generated, Finalize,
              FlowFails, CloseBridge, WorkerFrame
<1> QED BY <1>1, <1>2, <1>3, <1>4, <1>5 DEF RequestStep

LEMMA InitPipe == Init => PipeInv
<1> SUFFICES ASSUME Init, NEW t \in Turns PROVE Pipe(t)
  BY InitType DEF PipeInv
<1> QED
  BY DEF Init, NewPlan, NoOutcome, Pipe, Phased, Queued, Shown, Received, Prompt, Before, After,
         Persisting

\* Until the stream is open nothing has been put in the pipe.
LEMMA PreparePipe ==
  ASSUME TypeInv, NEW t \in Turns, Pipe(t),
         Resolve(t) \/ RefuseOverride(t) \/ OpenGraph(t) \/ Preflight(t) \/ StartStream(t)
  PROVE  Pipe(t)'
<1>0. /\ plan \in [Turns -> Plans] /\ outcome \in [Turns -> Outcomes]
      /\ phase \in [Turns -> Phases] /\ flow \in [Turns -> FlowPhases]
      /\ settings \in [graph : BOOLEAN, mode : Modes]
  BY DEF TypeInv, TypeOK
<1>1. /\ phase[t] \in Before /\ phase'[t] \in Before \cup {"streaming"} /\ phase'[t] # "idle"
      /\ flow[t] = "idle"
      /\ flow'[t] = IF phase'[t] = "streaming" THEN "condense" ELSE "idle"
  BY <1>0 DEF Pipe, Phased, Before, Resolve, RefuseOverride, OpenGraph, Preflight, StartStream,
              Goto, Work, worker, request
<1>2. UNCHANGED <<here, sent, abort, outcome, deltas, late, queue>>
  BY DEF Resolve, RefuseOverride, OpenGraph, Preflight, StartStream, worker, request
<1>3. queue[t] = <<>> /\ sent[t] = <<>> /\ outcome[t].status = "none"
      /\ (~abort[t] => late[t] = {}) /\ late[t] \subseteq {Step("fed", deltas[t])}
  BY <1>0, <1>1 DEF Pipe, Phased, Prompt, Outcomes
<1>4. /\ plan'[t].into \in {t, OldId}
      /\ phase'[t] \notin {"idle", "refused"} => plan'[t].mode \in Modes
      /\ plan'[t].onGraph => plan'[t].corpus = "graph" /\ plan'[t].mode \in Modes
  <2>0. plan[t] \in Plans
    BY <1>0
  <2>1. CASE Resolve(t)
    <3>1. PICK corpus \in Corpora, into \in {t, OldId} :
            plan' = [plan EXCEPT ![t] = [@ EXCEPT !.corpus = corpus, !.into = into,
                                                  !.mode = settings.mode]]
      BY <2>1 DEF Resolve
    <3>2. plan'[t] = [plan[t] EXCEPT !.corpus = corpus, !.into = into, !.mode = settings.mode]
      BY <1>0, <3>1
    <3>3. phase[t] = "idle" /\ plan[t].onGraph = FALSE
      BY <2>1, <2>0 DEF Resolve, Goto, Pipe, Phased, Plans
    <3> QED BY <1>0, <2>0, <3>2, <3>3 DEF Plans
  <2>2. CASE RefuseOverride(t) \/ Preflight(t)
    BY <1>0, <2>2 DEF RefuseOverride, Preflight, Pipe, Phased, Goto
  <2>3. CASE OpenGraph(t)
    BY <1>0, <2>0, <2>3 DEF OpenGraph, Pipe, Phased, Plans, Goto
  <2>4. CASE StartStream(t)
    BY <1>0, <2>0, <2>4 DEF StartStream, Pipe, Phased, Plans, Goto
  <2> QED BY <2>1, <2>2, <2>3, <2>4
<1>5. Phased(t)'
  BY <1>1, <1>2, <1>3, <1>4 DEF Phased, Before, After, Persisting
<1>6. Queued(t)' /\ Shown(t)' /\ Received(t)' /\ Prompt(t)'
  BY <1>1, <1>2, <1>3 DEF Queued, Shown, Received, Prompt, Before, Step
<1> QED BY <1>5, <1>6 DEF Pipe

\* What the worker does to the pipe of its turn.
LEMMA WorkerPipe ==
  ASSUME TypeInv, TypeInv', NEW t \in Turns, Pipe(t), WorkerStep(t)
  PROVE  Pipe(t)'
<1>0. /\ plan \in [Turns -> Plans] /\ outcome \in [Turns -> Outcomes] /\ outcome[t] \in Outcomes
      /\ phase \in [Turns -> Phases] /\ flow \in [Turns -> FlowPhases]
      /\ late \in [Turns -> SUBSET LateSteps] /\ deltas \in [Turns -> 0 .. MaxDeltas]
      /\ deltas[t] \in Nat
      /\ queue \in [Turns -> Seq(Frames)] /\ sent \in [Turns -> Seq(Frames)]
      /\ queue[t] \in Seq(Frames)
      /\ queue'[t] \in Seq(Frames) /\ here[t] \in BOOLEAN /\ abort[t] \in BOOLEAN
  BY ChatTurnAssumption DEF TypeInv, TypeOK
<1>1. /\ UNCHANGED <<plan, phase, here, sent, abort>>
      /\ flow[t] \in {"condense", "retrieve", "generate", "polled", "finalizing", "closing"}
      /\ flow'[t] \in {"retrieve", "generate", "polled", "finalizing", "closing", "ended"}
  BY <1>0 DEF WorkerStep, Condense, Retrieve, Poll, Dispatch, Generated, Finalize, FlowFails,
              CloseBridge, WorkerFrame, Work, Split, request
<1>2. phase[t] \in {"streaming", "cancelled"}
  BY <1>0, <1>1 DEF Pipe, Phased, Before, After, Phases
<1>3. CASE Condense(t)
  <2>1. /\ flow[t] = "condense" /\ flow'[t] = "retrieve" /\ queue' = queue
        /\ UNCHANGED <<deltas, late>> /\ outcome'[t].status = outcome[t].status
    BY <1>0, <1>3 DEF Condense, Work, Outcomes
  <2>2. queue[t] = <<>> /\ sent[t] = <<>> /\ outcome[t].status = "none"
    BY <1>0, <2>1 DEF Pipe, Phased, Outcomes
  <2> QED BY <1>1, <1>2, <2>1, <2>2
          DEF Pipe, Phased, Queued, Shown, Received, Prompt, Before, After, Persisting
<1>4. CASE Retrieve(t)
  <2>1. /\ flow[t] = "retrieve" /\ flow'[t] = "generate" /\ outcome' = outcome
        /\ UNCHANGED <<deltas, late>> /\ queue'[t] = Append(queue[t], RetrievalFrame(t))
    BY <1>0, <1>4 DEF Retrieve, Work, Emit
  <2>2. queue[t] = <<>> /\ sent[t] = <<>>
    BY <2>1 DEF Pipe, Phased
  <2>3. queue'[t] = <<RetrievalFrame(t)>> /\ RetrievalFrame(t)' = RetrievalFrame(t)
    BY <1>1, <2>1, <2>2, SameFrame
  <2>4. RetrievalFrame(t).event = "retrieval"
    BY DEF RetrievalFrame
  <2> QED BY <1>1, <1>2, <2>1, <2>2, <2>3, <2>4
          DEF Pipe, Phased, Queued, Shown, Received, Prompt, Before, After, Persisting
<1>5. CASE Poll(t)
  <2>1. /\ flow[t] = "generate" /\ queue' = queue /\ deltas'[t] = deltas[t] + 1
        /\ late'[t] = IF abort[t] THEN late[t] \cup {Step("read", deltas[t] + 1)} ELSE late[t]
        /\ outcome'[t].condensed = outcome[t].condensed
        /\ \/ ~abort[t] /\ flow'[t] \in {"generate", "polled"} /\ outcome' = outcome
           \/ abort[t] /\ flow'[t] = "closing" /\ outcome'[t].status = "aborted"
    BY <1>0, <1>5 DEF Poll, Split, Work, Note, Step, Outcomes
  <2>2. RetrievalFrame(t)' = RetrievalFrame(t)
    BY <1>1, <2>1, SameFrame
  <2>3. Prompt(t)'
    <3>1. (~abort[t] => late[t] = {}) /\ late[t] \subseteq {Step("fed", deltas[t])}
      BY <2>1 DEF Pipe, Prompt
    <3>2. deltas'[t] - 1 = deltas[t]
      BY <1>0, <2>1
    <3>3. CASE ~abort[t]
      BY <1>1, <2>1, <3>1, <3>3 DEF Prompt
    <3>4. CASE abort[t]
      BY <1>1, <2>1, <3>1, <3>2, <3>4 DEF Prompt
    <3> QED BY <1>0, <3>3, <3>4
  <2>4. Phased(t)' /\ Queued(t)' /\ Shown(t)' /\ Received(t)'
    BY <1>1, <1>2, <2>1, <2>2
       DEF Pipe, Phased, Queued, Shown, Received, Before, After, Persisting
  <2> QED BY <2>3, <2>4 DEF Pipe
<1>8. CASE FlowFails(t) \/ Generated(t)
  <2>1. /\ flow[t] \in {"retrieve", "generate"} /\ queue' = queue
        /\ UNCHANGED <<deltas, late>> /\ outcome'[t].condensed = outcome[t].condensed
        /\ \/ flow'[t] = "closing" /\ outcome'[t].status = "failed"
           \/ /\ flow[t] = "generate" /\ flow'[t] \in {"finalizing", "closing"}
              /\ outcome'[t].status = "ok"
    BY <1>0, <1>8 DEF FlowFails, Generated, Split, Work, Outcomes
  <2>2. RetrievalFrame(t)' = RetrievalFrame(t)
    BY <1>1, <2>1, SameFrame
  <2>3. Prompt(t)'
    BY <1>1, <2>1 DEF Pipe, Prompt
  <2>4. Phased(t)' /\ Queued(t)' /\ Shown(t)' /\ Received(t)'
    BY <1>1, <1>2, <2>1, <2>2
       DEF Pipe, Phased, Queued, Shown, Received, Before, After, Persisting
  <2> QED BY <2>3, <2>4 DEF Pipe
<1>6. CASE Dispatch(t) \/ Finalize(t)
  <2>1. /\ outcome' = outcome /\ deltas' = deltas
        /\ queue'[t] = Append(queue[t], Frame("delta"))
        /\ \/ /\ flow[t] = "polled" /\ flow'[t] \in {"polled", "generate"}
              /\ late'[t] = IF abort[t] THEN late[t] \cup {Step("fed", deltas[t])} ELSE late[t]
           \/ /\ flow[t] = "finalizing" /\ flow'[t] \in {"finalizing", "closing"}
              /\ late'[t] = IF abort[t] THEN late[t] \cup {Step("final", deltas[t])} ELSE late[t]
    BY <1>0, <1>6 DEF Dispatch, Finalize, Split, Work, Emit, Note, Step
  <2>2. RetrievalFrame(t)' = RetrievalFrame(t)
    BY <1>1, <2>1, SameFrame
  <2>3. Prompt(t)'
    BY <1>0, <1>1, <2>1 DEF Pipe, Prompt
  <2>4. Phased(t)' /\ Received(t)'
    BY <1>1, <1>2, <2>1, <2>2 DEF Pipe, Phased, Received, Before, After, Persisting
  <2>5. Queued(t)' /\ Shown(t)'
    <3>1. (here[t] => sent[t] # <<>>) \/ (queue[t] # <<>> /\ queue[t][1].event # "eof")
      BY <2>1 DEF Pipe, Phased, Shown
    <3>2. \A i \in DOMAIN queue[t] : queue[t][i].event # "eof"
      BY <2>1 DEF Pipe, Queued
    <3>3. /\ DOMAIN queue[t] = 1 .. Len(queue[t]) /\ Len(queue[t]) \in Nat
          /\ DOMAIN queue'[t] = 1 .. Len(queue[t]) + 1
          /\ \A i \in DOMAIN queue[t] : queue'[t][i] = queue[t][i]
          /\ queue'[t][Len(queue[t]) + 1].event = "delta"
      BY <1>0, <2>1 DEF Frame
    <3>4. queue[t] = <<>> \/ Len(queue[t]) > 0
      BY <1>0
    <3> QED BY <1>1, <2>1, <2>2, <3>1, <3>2, <3>3, <3>4 DEF Pipe, Queued, Shown
  <2> QED BY <2>3, <2>4, <2>5 DEF Pipe
<1>7. CASE CloseBridge(t)
  <2>1. /\ flow[t] = "closing" /\ flow'[t] = "ended" /\ UNCHANGED <<deltas, late, outcome>>
        /\ queue'[t] = Append(queue[t], Frame("eof"))
    BY <1>0, <1>7 DEF CloseBridge, Work, Emit, EndOfStream
  <2>2. RetrievalFrame(t)' = RetrievalFrame(t)
    BY <1>1, <2>1, SameFrame
  <2>3. Phased(t)' /\ Received(t)' /\ Prompt(t)'
    BY <1>0, <1>1, <1>2, <2>1, <2>2 DEF Pipe, Phased, Received, Prompt, Before, After, Persisting
  <2>4. /\ DOMAIN queue[t] = 1 .. Len(queue[t]) /\ Len(queue[t]) \in Nat
        /\ DOMAIN queue'[t] = 1 .. Len(queue[t]) + 1 /\ Len(queue'[t]) = Len(queue[t]) + 1
        /\ \A i \in DOMAIN queue[t] : queue'[t][i] = queue[t][i]
        /\ queue'[t][Len(queue[t]) + 1].event = "eof"
    BY <1>0, <2>1 DEF Frame
  <2>5. queue[t] # <<>> => 1 \in DOMAIN queue[t]
    BY <1>0
  <2>6. \A i \in DOMAIN queue[t] : queue[t][i].event # "eof"
    BY <2>1 DEF Pipe, Queued
  <2>7. Queued(t)' /\ Shown(t)'
    BY <1>1, <2>1, <2>2, <2>4, <2>5, <2>6 DEF Pipe, Queued, Shown
  <2> QED BY <2>3, <2>7 DEF Pipe
<1> QED BY <1>3, <1>4, <1>5, <1>6, <1>7, <1>8 DEF WorkerStep

\* What the request does to the pipe of its turn.
LEMMA ForwardPipe ==
  ASSUME TypeInv, TypeInv', NEW t \in Turns, Pipe(t), Forward(t)
  PROVE  Pipe(t)'
<1>0. /\ phase \in [Turns -> Phases] /\ queue \in [Turns -> Seq(Frames)]
      /\ sent \in [Turns -> Seq(Frames)] /\ queue[t] \in Seq(Frames) /\ sent[t] \in Seq(Frames)
      /\ queue'[t] \in Seq(Frames) /\ sent'[t] \in Seq(Frames) /\ here[t] \in BOOLEAN
  BY DEF TypeInv, TypeOK
<1>1. /\ UNCHANGED <<plan, here, flow, outcome, abort, deltas, late>> /\ phase[t] = "streaming"
      /\ queue[t] # <<>> /\ queue'[t] = Tail(queue[t])
  BY <1>0 DEF Forward, CoroutineFrame, worker
<1>2. RetrievalFrame(t)' = RetrievalFrame(t)
  BY <1>1, SameFrame
<1>3. /\ Len(queue[t]) \in Nat /\ Len(queue[t]) > 0 /\ DOMAIN queue[t] = 1 .. Len(queue[t])
      /\ Len(queue'[t]) = Len(queue[t]) - 1 /\ DOMAIN queue'[t] = 1 .. Len(queue[t]) - 1
      /\ \A i \in DOMAIN queue'[t] : i + 1 \in DOMAIN queue[t] /\ queue'[t][i] = queue[t][i + 1]
      /\ Head(queue[t]) = queue[t][1] /\ Head(queue[t]) \in Frames /\ 1 \in DOMAIN queue[t]
  BY <1>0, <1>1
<1>4. Prompt(t)'
  BY <1>1 DEF Pipe, Prompt
<1>5. CASE Head(queue[t]) # EndOfStream
  <2>1. /\ phase'[t] = phase[t]
        /\ sent'[t] = IF here[t] THEN Append(sent[t], queue[t][1]) ELSE sent[t]
    BY <1>0, <1>3, <1>5 DEF Forward, Send
  <2>2. queue[t][1].event \in {"retrieval", "delta"}
    BY <1>3, <1>5 DEF Pipe, Queued, EndOfStream, Frame, Frames
  <2>3. /\ Len(sent[t]) \in Nat /\ DOMAIN sent[t] = 1 .. Len(sent[t])
        /\ here[t] => /\ Len(sent'[t]) = Len(sent[t]) + 1
                      /\ DOMAIN sent'[t] = 1 .. Len(sent[t]) + 1
                      /\ \A i \in DOMAIN sent[t] : sent'[t][i] = sent[t][i]
                      /\ sent'[t][Len(sent[t]) + 1] = queue[t][1]
    BY <1>0, <2>1
  <2>8. (sent[t] # <<>> => Len(sent[t]) > 0) /\ (here[t] => sent'[t] # <<>>)
    BY <1>0, <2>3
  <2>4. Phased(t)'
    BY <1>1, <2>1, <1>3 DEF Pipe, Phased, After, Persisting, Before
  <2>5. Queued(t)'
    <3> SUFFICES ASSUME NEW i \in DOMAIN queue'[t]
                 PROVE  /\ queue'[t][i].event \in {"delta", "eof"}
                        /\ queue'[t][i].event = "eof" => i = Len(queue'[t]) /\ flow[t] = "ended"
      BY <1>1, <2>8 DEF Queued
    <3>1. /\ i \in Nat /\ i >= 1 /\ i + 1 \in DOMAIN queue[t] /\ i + 1 # 1
          /\ queue'[t][i] = queue[t][i + 1] /\ Len(queue'[t]) + 1 = Len(queue[t])
      BY <1>3
    <3>2. Queued(t)
      BY DEF Pipe
    <3>3. /\ queue[t][i + 1].event \in {"delta", "eof"}
          /\ queue[t][i + 1].event = "eof" => i + 1 = Len(queue[t]) /\ flow[t] = "ended"
      BY <3>1, <3>2 DEF Queued
    <3> QED BY <1>3, <3>1, <3>3
  <2>6. Shown(t)'
    BY <1>1, <2>8 DEF Shown
  <2>7. Received(t)'
    <3>1. CASE ~here[t]
      BY <1>1, <1>2, <2>1, <3>1 DEF Pipe, Received
    <3>2. CASE here[t]
      BY <1>1, <1>2, <1>3, <2>1, <2>2, <2>3, <2>8, <3>2 DEF Pipe, Received, Queued
    <3> QED BY <1>0, <3>1, <3>2
  <2> QED BY <1>4, <2>4, <2>5, <2>6, <2>7 DEF Pipe
<1>6. CASE Head(queue[t]) = EndOfStream
  <2>1. phase'[t] = "awaiting" /\ sent' = sent
    BY <1>0, <1>6 DEF Forward, Goto
  <2>2. queue[t][1].event = "eof"
    BY <1>3, <1>6 DEF EndOfStream, Frame
  <2>3. Len(queue[t]) = 1 /\ flow[t] = "ended"
    BY <1>3, <2>2 DEF Pipe, Queued
  <2>4. queue'[t] = <<>>
    BY <1>0, <1>3, <2>3
  <2>5. Phased(t)'
    BY <1>1, <2>1, <2>3, <2>4 DEF Pipe, Phased, After, Persisting, Before
  <2>6. Queued(t)'
    BY <2>4 DEF Queued
  <2>8. Received(t)'
    BY <1>1, <1>2, <2>1 DEF Pipe, Received
  <2>7. Shown(t)'
    BY <1>1, <2>1, <2>2 DEF Pipe, Shown
  <2> QED BY <1>4, <2>5, <2>6, <2>7, <2>8 DEF Pipe
<1> QED BY <1>5, <1>6

\* A frame of its own ends the stream, and the finally aborts the bridge.
LEMMA LastFramePipe ==
  ASSUME TypeInv, TypeInv', NEW t \in Turns, Pipe(t),
         UNCHANGED <<plan, here, queue, worker>>, Abort(t),
         phase[t] \in {"awaiting", "creating", "asking", "answering", "persisted"},
         \/ phase'[t] = "failed" /\ Send(t, Frame("error"))
         \/ phase[t] = "persisted" /\ phase'[t] = "done" /\ Send(t, Frame("done"))
  PROVE  Pipe(t)'
<1>0. /\ sent \in [Turns -> Seq(Frames)] /\ sent[t] \in Seq(Frames) /\ sent'[t] \in Seq(Frames)
      /\ here[t] \in BOOLEAN /\ abort \in [Turns -> BOOLEAN]
  BY DEF TypeInv, TypeOK
<1>1. UNCHANGED <<plan, here, flow, outcome, queue, deltas, late>>
  BY DEF worker
<1>2. RetrievalFrame(t)' = RetrievalFrame(t)
  BY <1>1, SameFrame
<1>3. /\ flow[t] = "ended" /\ queue[t] = <<>>
      /\ phase[t] = "persisted" => outcome[t].status = "ok"
  BY DEF Pipe, Phased, After, Persisting
<1>4. phase[t] = "persisted" /\ here[t] => sent[t] # <<>>
  BY <1>3 DEF Pipe, Shown
<1>5. PICK last \in {"error", "done"} :
        /\ sent'[t] = IF here[t] THEN Append(sent[t], Frame(last)) ELSE sent[t]
        /\ last = "error" => phase'[t] = "failed"
        /\ last = "done" => phase[t] = "persisted" /\ phase'[t] = "done"
  BY <1>0 DEF Send
<1>6. /\ Len(sent[t]) \in Nat /\ DOMAIN sent[t] = 1 .. Len(sent[t])
      /\ here[t] => /\ Len(sent'[t]) = Len(sent[t]) + 1
                    /\ DOMAIN sent'[t] = 1 .. Len(sent[t]) + 1
                    /\ \A i \in DOMAIN sent[t] : sent'[t][i] = sent[t][i]
                    /\ sent'[t][Len(sent[t]) + 1].event = last
  BY <1>0, <1>5 DEF Frame
<1>11. (sent[t] # <<>> => Len(sent[t]) > 0) /\ (here[t] => sent'[t] # <<>>)
  BY <1>0, <1>6
<1>7. Phased(t)'
  BY <1>1, <1>3, <1>5 DEF Pipe, Phased, After, Persisting, Before
<1>8. Queued(t)' /\ Prompt(t)'
  BY <1>0, <1>1, <1>3 DEF Pipe, Queued, Prompt, Abort
<1>9. Shown(t)'
  BY <1>1, <1>3, <1>5, <1>11 DEF Pipe, Shown
<1>10. Received(t)'
  <2>1. CASE ~here[t]
    BY <1>0, <1>1, <1>2, <1>5, <2>1 DEF Pipe, Received
  <2>2. CASE here[t]
    BY <1>1, <1>2, <1>4, <1>5, <1>6, <1>11, <2>2 DEF Pipe, Received
  <2> QED BY <1>0, <2>1, <2>2
<1> QED BY <1>7, <1>8, <1>9, <1>10 DEF Pipe

LEMMA RequestPipe ==
  ASSUME TypeInv, TypeInv', NEW t \in Turns, Pipe(t), RequestStep(t)
  PROVE  Pipe(t)'
<1>0. /\ phase \in [Turns -> Phases] /\ abort \in [Turns -> BOOLEAN] /\ outcome[t] \in Outcomes
  BY DEF TypeInv, TypeOK
<1>1. CASE OpenGraph(t) \/ Preflight(t) \/ StartStream(t)
  BY <1>1, PreparePipe
<1>2. CASE Forward(t)
  BY <1>2, ForwardPipe
<1>3. CASE Done(t) \/ PersistFails(t) \/ (AwaitOutcome(t) /\ outcome[t].status = "failed")
  BY <1>0, <1>3, LastFramePipe DEF Done, PersistFails, AwaitOutcome, Fail, Goto, CoroutineFrame
<1>4. CASE \/ AwaitOutcome(t) /\ outcome[t].status # "failed"
           \/ Create(t) \/ Ask(t) \/ StoreAnswer(t)
  <2>1. /\ UNCHANGED <<plan, here, sent, queue, abort, flow, outcome, deltas, late>>
        /\ phase[t] \in {"awaiting", "creating", "asking", "answering"}
        /\ phase'[t] \in {"cancelled", "creating", "asking", "answering", "persisted"}
        /\ phase'[t] # "cancelled" => phase[t] # "awaiting" \/ outcome[t].status # "aborted"
    BY <1>0, <1>4 DEF AwaitOutcome, Create, Ask, StoreAnswer, Goto, CoroutineFrame, worker
  <2>2. RetrievalFrame(t)' = RetrievalFrame(t)
    BY <2>1, SameFrame
  <2>3. phase'[t] # "cancelled" => outcome[t].status = "ok"
    BY <1>0, <1>4, <2>1
       DEF Pipe, Phased, After, Persisting, Outcomes, AwaitOutcome, Create, Ask, StoreAnswer, Goto
  <2>4. Phased(t)'
    BY <2>1, <2>3 DEF Pipe, Phased, After, Persisting, Before
  <2> QED BY <2>1, <2>2, <2>4 DEF Pipe, Queued, Shown, Received, Prompt
<1>5. CASE Cancel(t)
  <2>1. /\ UNCHANGED <<plan, here, sent, queue, flow, outcome, deltas, late>> /\ ~here[t]
        /\ \/ phase[t] \in {"streaming", "awaiting"} /\ phase'[t] = "cancelled"
           \/ phase[t] = "persisted" /\ phase'[t] = "dropped"
        /\ abort'[t] = TRUE
    BY <1>0, <1>5 DEF Cancel, Abort, CoroutineFrame, worker
  <2>2. RetrievalFrame(t)' = RetrievalFrame(t)
    BY <2>1, SameFrame
  <2>3. Phased(t)'
    BY <2>1 DEF Pipe, Phased, After, Persisting, Before
  <2> QED BY <2>1, <2>2, <2>3 DEF Pipe, Queued, Shown, Received, Prompt
<1> QED BY <1>1, <1>2, <1>3, <1>4, <1>5 DEF RequestStep

\* One step keeps every turn's pipe.
LEMMA NextPipe == PipeInv /\ [Next]_vars => PipeInv'
<1> SUFFICES ASSUME PipeInv, [Next]_vars, NEW u \in Turns PROVE Pipe(u)'
  BY NextType DEF PipeInv
<1>0. TypeInv /\ TypeInv' /\ Pipe(u)
  BY NextType DEF PipeInv
<1>1. CASE PatchSettings \/ Delete \/ Move \/ RemoveGroup \/ UNCHANGED vars
  <2>1. SameTurn(u)
    BY <1>1 DEF PatchSettings, Delete, Move, RemoveGroup, vars, turnVars, request, worker, SameTurn
  <2> QED BY <1>0, <2>1, SamePipe
<1>2. ASSUME NEW t \in Turns, \/ Resolve(t) \/ RefuseOverride(t) \/ RequestStep(t) \/ WorkerStep(t)
                              \/ ReadTitle(t) \/ WriteTitle(t) \/ Leave(t)
      PROVE  Pipe(u)'
  <2>1. CASE u # t
    BY <1>0, <1>2, <2>1, OthersStay, SamePipe
  <2>2. CASE u = t
    <3>1. CASE Resolve(u) \/ RefuseOverride(u)
      BY <1>0, <3>1, PreparePipe
    <3>2. CASE RequestStep(u)
      BY <1>0, <3>2, RequestPipe
    <3>3. CASE WorkerStep(u)
      BY <1>0, <3>3, WorkerPipe
    <3>4. CASE ReadTitle(u) \/ WriteTitle(u)
      <4>1. SameTurn(u)
        BY <3>4 DEF ReadTitle, WriteTitle, request, worker, SameTurn
      <4> QED BY <1>0, <4>1, SamePipe
    <3>5. CASE Leave(u)
      <4>0. here \in [Turns -> BOOLEAN]
        BY <1>0 DEF TypeInv, TypeOK
      <4>1. /\ UNCHANGED <<plan, phase, sent, abort, flow, outcome, deltas, late, queue>>
            /\ here'[u] = FALSE /\ here[u] = TRUE
        BY <3>5, <4>0 DEF Leave, worker
      <4>2. RetrievalFrame(u)' = RetrievalFrame(u)
        BY <4>1, SameFrame
      <4> QED BY <1>0, <4>1, <4>2 DEF Pipe, Phased, Queued, Shown, Received, Prompt
    <3> QED BY <1>2, <2>2, <3>1, <3>2, <3>3, <3>4, <3>5
  <2> QED BY <2>1, <2>2
<1> QED BY <1>1, <1>2 DEF Next

\* A client sees the retrieval frame, then deltas, then one terminal frame,
\* and nothing after it (streaming.py, chat()).
THEOREM WireIsWellFormed == Spec => []WireProtocol
<1>1. PipeInv => WireProtocol
  BY DEF PipeInv, Pipe, Received, WireProtocol
<1> QED BY InitPipe, NextPipe, <1>1, PTL DEF Spec

\* Once aborted, the flow reads one more delta at most and dispatches nothing
\* of it: for any number of deltas, and of fragments of each.
THEOREM AbortStopsTheFlow == Spec => []AbortIsPrompt
<1>1. PipeInv => AbortIsPrompt
  <2> SUFFICES ASSUME PipeInv, NEW t \in Turns, NEW a \in late[t], NEW b \in late[t]
               PROVE  /\ a.step = b.step => a = b
                      /\ a.step = "read" => /\ b.step # "final"
                                            /\ b.step = "fed" => b.delta < a.delta
    BY DEF AbortIsPrompt
  <2>1. Prompt(t) /\ deltas[t] \in Nat
    BY ChatTurnAssumption DEF PipeInv, Pipe, TypeInv, TypeOK
  <2> QED BY <2>1 DEF Prompt, Step
<1> QED BY InitPipe, NextPipe, <1>1, PTL DEF Spec

\* Every variable keeps its type.
THEOREM Typed == Spec => []TypeOK
<1>1. TypeInv => TypeOK
  BY DEF TypeInv
<1> QED BY InitType, NextType, <1>1, PTL DEF Spec

-----------------------------------------------------------------------------
(* What a turn stores.                                                     *)

\* The conversations a step leaves hold the messages they held.
Kept(c) == c \in DOMAIN store /\ store'[c].messages = store[c].messages

LEMMA StoreMessages ==
  ASSUME StoreOK
  PROVE  /\ store' = store => \A c \in DOMAIN store' : Kept(c)
         /\ \A c \in DOMAIN store : store' = DeleteConversation(store, c) =>
              \A d \in DOMAIN store' : Kept(d)
         /\ \A c \in ConversationIds, x \in Titles : store' = SetTitle(store, c, x) =>
              \A d \in DOMAIN store' : Kept(d)
         /\ \A c \in DOMAIN store, g \in Groups \cup {NoGroup} :
              store' = SetGroup(store, c, g) => \A d \in DOMAIN store' : Kept(d)
         /\ \A g \in Groups : store' = DeleteGroup(store, g) => \A d \in DOMAIN store' : Kept(d)
<1> USE DEF StoreOK, Conversation, Kept
<1>1. \A c \in DOMAIN store : store' = DeleteConversation(store, c) =>
        \A d \in DOMAIN store' : Kept(d)
  BY DEF DeleteConversation
<1>2. ASSUME NEW c \in ConversationIds, NEW x \in Titles, store' = SetTitle(store, c, x)
      PROVE  \A d \in DOMAIN store' : Kept(d)
  BY <1>2 DEF SetTitle, Exists
<1>3. ASSUME NEW c \in DOMAIN store, NEW g \in Groups \cup {NoGroup},
             store' = SetGroup(store, c, g)
      PROVE  \A d \in DOMAIN store' : Kept(d)
  BY <1>3 DEF SetGroup, Exists
<1>4. ASSUME NEW g \in Groups, store' = DeleteGroup(store, g)
      PROVE  \A d \in DOMAIN store' : Kept(d)
  BY <1>4 DEF DeleteGroup
<1> QED BY <1>1, <1>2, <1>3, <1>4

\* The messages of turn u, wherever they are, stay where they are.
KeepsTurn(u) ==
  \A c \in DOMAIN store' :
    \/ c # plan[u].into /\ MessagesOf(u, c)' = {}
    \/ /\ c \in DOMAIN store /\ MessagesOf(u, c)' = MessagesOf(u, c)
       /\ \A i \in MessagesOf(u, c) : i \in DOMAIN store'[c].messages
                                      /\ store'[c].messages[i] = store[c].messages[i]

LEMMA KeptTurn ==
  ASSUME NEW u \in Turns, \A c \in DOMAIN store' : Kept(c)
  PROVE  KeepsTurn(u)
BY DEF KeepsTurn, Kept, MessagesOf

LEMMA Appended ==
  ASSUME StoreOK, NEW c \in DOMAIN store, NEW m \in Messages,
         store' = AppendMessage(store, c, m), NEW n, n = Len(store[c].messages) + 1
  PROVE  /\ DOMAIN store' = DOMAIN store
         /\ \A d \in DOMAIN store : d # c => store'[d] = store[d]
         /\ DOMAIN store'[c].messages = DOMAIN store[c].messages \cup {n}
         /\ \A i \in DOMAIN store[c].messages :
              i \in Nat /\ n \in Nat /\ i < n /\ store'[c].messages[i] = store[c].messages[i]
         /\ store'[c].messages[n] = m
<1>1. /\ DOMAIN store' = DOMAIN store
      /\ \A d \in DOMAIN store : d # c => store'[d] = store[d]
      /\ store'[c].messages = Append(store[c].messages, m) /\ store[c].messages \in Seq(Messages)
  BY DEF AppendMessage, StoreOK, Conversation
<1> QED BY <1>1

\* A message of another turn changes nothing for this one.
LEMMA AppendKeeps ==
  ASSUME StoreOK, NEW c \in DOMAIN store, NEW m \in Messages,
         store' = AppendMessage(store, c, m), NEW u \in Turns, m.turn # u
  PROVE  KeepsTurn(u)
<1> DEFINE n == Len(store[c].messages) + 1
<1>1. /\ DOMAIN store' = DOMAIN store
      /\ \A d \in DOMAIN store : d # c => store'[d] = store[d]
      /\ DOMAIN store'[c].messages = DOMAIN store[c].messages \cup {n}
      /\ \A i \in DOMAIN store[c].messages : store'[c].messages[i] = store[c].messages[i]
      /\ store'[c].messages[n] = m
  BY Appended
<1> HIDE DEF n
<1> QED BY <1>1 DEF KeepsTurn, MessagesOf

\* A step that adds none of u's messages keeps what is said of them.
LEMMA SameStored ==
  ASSUME NEW u \in Turns, Stored(u), KeepsTurn(u), plan'[u] = plan[u], outcome'[u] = outcome[u],
         \/ phase'[u] = phase[u]
         \/ phase[u] = "persisted" /\ phase'[u] \in {"done", "dropped"}
         \/ phase[u] \in {"answering", "persisted"} /\ phase'[u] = "failed"
  PROVE  Stored(u)'
<1>1. Answer(u)' = Answer(u) /\ Question(u)' = Question(u)
  BY SameFrame DEF Question
<1> QED BY <1>1 DEF Stored, KeepsTurn, Exists, MessagesOf

LEMMA NothingStored ==
  ASSUME NEW u \in Turns, \A c \in DOMAIN store' : MessagesOf(u, c)' = {},
         phase'[u] \notin {"answering", "persisted", "done", "dropped"}
  PROVE  Stored(u)'
BY DEF Stored

LEMMA AskStored ==
  ASSUME PipeInv, NEW t \in Turns, Stored(t), Ask(t)
  PROVE  Stored(t)'
<1> DEFINE c == plan[t].into
           n == Len(store[c].messages) + 1
           m == Question(t)
<1>0. StoreOK /\ phase \in [Turns -> Phases] /\ m \in Messages
  BY FrameTypes DEF PipeInv, TypeInv, TypeOK
<1>1. /\ phase[t] = "asking" /\ phase'[t] = "answering" /\ c \in DOMAIN store
      /\ store' = AppendMessage(store, c, m) /\ UNCHANGED <<plan, outcome>>
      /\ outcome[t].status = "ok"
  BY <1>0 DEF Ask, Goto, Exists, CoroutineFrame, worker, PipeInv, Pipe, Phased, Persisting
<1>2. \A d \in DOMAIN store : MessagesOf(t, d) = {}
  BY <1>1 DEF Stored
<1>3. m.role = "user" /\ m.turn = t /\ m' = m /\ c' = c
  BY <1>1 DEF Question
<1> HIDE DEF c, n, m
<1>4. /\ DOMAIN store' = DOMAIN store
      /\ \A d \in DOMAIN store : d # c => store'[d] = store[d]
      /\ DOMAIN store'[c].messages = DOMAIN store[c].messages \cup {n}
      /\ \A i \in DOMAIN store[c].messages : store'[c].messages[i] = store[c].messages[i]
      /\ store'[c].messages[n] = m
  BY <1>0, <1>1, Appended DEF n
<1>5. MessagesOf(t, c)' = {n} /\ \A d \in DOMAIN store : d # c => MessagesOf(t, d)' = {}
  BY <1>1, <1>2, <1>3, <1>4 DEF MessagesOf
<1> QED BY <1>1, <1>3, <1>4, <1>5 DEF Stored, c, m

LEMMA AnswerStored ==
  ASSUME PipeInv, NEW t \in Turns, Stored(t), StoreAnswer(t)
  PROVE  Stored(t)'
<1> DEFINE c == plan[t].into
           n == Len(store[c].messages) + 1
           m == Answer(t)
<1>0. StoreOK /\ phase \in [Turns -> Phases] /\ m \in Messages
  BY FrameTypes DEF PipeInv, TypeInv, TypeOK
<1>1. /\ phase[t] = "answering" /\ phase'[t] = "persisted" /\ c \in DOMAIN store
      /\ store' = AppendMessage(store, c, m) /\ UNCHANGED <<plan, outcome>>
      /\ outcome[t].status = "ok"
  BY <1>0 DEF StoreAnswer, Goto, Exists, CoroutineFrame, worker, PipeInv, Pipe, Phased, Persisting
<1>2. PICK q \in DOMAIN store[c].messages :
        MessagesOf(t, c) = {q} /\ store[c].messages[q] = Question(t)
  BY <1>1 DEF Stored, Exists
<1>3. /\ m.turn = t /\ m' = m /\ c' = c /\ Question(t)' = Question(t)
      /\ Question(t).role = "user"
  BY <1>1, SameFrame DEF Question, Answer
<1> HIDE DEF c, n, m
<1>4. /\ DOMAIN store' = DOMAIN store
      /\ \A d \in DOMAIN store : d # c => store'[d] = store[d]
      /\ DOMAIN store'[c].messages = DOMAIN store[c].messages \cup {n}
      /\ \A i \in DOMAIN store[c].messages :
           i < n /\ store'[c].messages[i] = store[c].messages[i]
      /\ store'[c].messages[n] = m
  BY <1>0, <1>1, Appended DEF n
<1>5. \A d \in DOMAIN store : d # c => MessagesOf(t, d) = {}
  BY <1>1 DEF Stored, c
<1>6. MessagesOf(t, c)' = {q, n} /\ \A d \in DOMAIN store : d # c => MessagesOf(t, d)' = {}
  BY <1>1, <1>2, <1>3, <1>4, <1>5 DEF MessagesOf
<1> QED BY <1>1, <1>2, <1>3, <1>4, <1>6 DEF Stored, c, m

LEMMA CreateMessages ==
  ASSUME NEW t \in Turns, store' = CreateConversation(store, t)
  PROVE  store'[t].messages = <<>> /\ \A c \in DOMAIN store' : c # t => Kept(c)
BY DEF CreateConversation, Kept

\* Another turn's step leaves this one's messages alone.
LEMMA OthersMessages ==
  ASSUME PipeInv, NEW t \in Turns, NEW u \in Turns \ {t},
         \/ Resolve(t) \/ RefuseOverride(t) \/ RequestStep(t) \/ WorkerStep(t)
         \/ ReadTitle(t) \/ WriteTitle(t) \/ Leave(t)
  PROVE  KeepsTurn(u)
<1>0. StoreOK /\ plan \in [Turns -> Plans] /\ outcome \in [Turns -> Outcomes]
      /\ plan[t].into \in ConversationIds /\ plan[u].into \in {u, OldId}
  BY DEF PipeInv, TypeInv, TypeOK, Plans, Pipe, Phased
<1>1. CASE Create(t)
  <2>1. t # plan[u].into
    BY <1>0, ChatTurnAssumption
  <2>2. store'[t].messages = <<>> /\ \A c \in DOMAIN store' : c # t => Kept(c)
    BY <1>1, CreateMessages DEF Create
  <2> QED BY <2>1, <2>2 DEF KeepsTurn, Kept, MessagesOf
<1>2. CASE Ask(t) \/ StoreAnswer(t)
  <2>1. Question(t).turn # u /\ Answer(t).turn # u
    BY DEF Question, Answer
  <2> QED BY <1>0, <1>2, <2>1, FrameTypes, AppendKeeps DEF Ask, StoreAnswer, Exists, PipeInv
<1>3. CASE WriteTitle(t)
  BY <1>0, <1>3, StoreMessages, KeptTurn, ChatTurnAssumption DEF WriteTitle
<1>4. CASE store' = store
  BY <1>0, <1>4, StoreMessages, KeptTurn
<1>5. CASE \/ Resolve(t) \/ RefuseOverride(t) \/ WorkerStep(t) \/ ReadTitle(t) \/ Leave(t)
           \/ OpenGraph(t) \/ Preflight(t) \/ StartStream(t) \/ Forward(t) \/ AwaitOutcome(t)
           \/ PersistFails(t) \/ Done(t) \/ Cancel(t)
  <2>1. store' = store
    BY <1>5 DEF Resolve, RefuseOverride, WorkerStep, Condense, Retrieve, Poll, Dispatch, Generated,
                Finalize, FlowFails, CloseBridge, WorkerFrame, ReadTitle, Leave, OpenGraph, Preflight,
                StartStream, Forward, AwaitOutcome, PersistFails, Done, Cancel
  <2> QED BY <1>4, <2>1
<1> QED BY <1>1, <1>2, <1>3, <1>5 DEF RequestStep

\* What a turn's own step does to its messages.
LEMMA OwnMessages ==
  ASSUME PipeInv, NEW t \in Turns, Stored(t),
         \/ Resolve(t) \/ RefuseOverride(t) \/ RequestStep(t) \/ WorkerStep(t)
         \/ ReadTitle(t) \/ WriteTitle(t) \/ Leave(t)
  PROVE  Stored(t)'
<1>0. StoreOK /\ phase \in [Turns -> Phases] /\ plan[t].into \in ConversationIds
      /\ flow \in [Turns -> FlowPhases]
  BY DEF PipeInv, TypeInv, TypeOK, Plans
<1>1. store' = store => KeepsTurn(t)
  BY <1>0, StoreMessages, KeptTurn
<1>2. phase[t] \notin {"answering", "persisted", "done", "failed", "dropped"} =>
        \A c \in DOMAIN store : MessagesOf(t, c) = {}
  BY DEF Stored
<1>3. CASE Ask(t) \/ StoreAnswer(t)
  BY <1>3, AskStored, AnswerStored
<1>4. CASE Create(t)
  <2>1. phase[t] = "creating" /\ phase'[t] = "asking"
    BY <1>0, <1>4 DEF Create, Goto
  <2>2. store'[t].messages = <<>> /\ \A c \in DOMAIN store' : c # t => Kept(c)
    BY <1>4, CreateMessages DEF Create
  <2>3. \A c \in DOMAIN store' : MessagesOf(t, c)' = {}
    BY <1>2, <2>1, <2>2 DEF Kept, MessagesOf
  <2> QED BY <2>1, <2>3, NothingStored
<1>5. CASE ReadTitle(t) \/ WriteTitle(t) \/ Leave(t)
  <2>1. KeepsTurn(t)
    <3>1. CASE WriteTitle(t)
      BY <1>0, <3>1, StoreMessages, KeptTurn, ChatTurnAssumption DEF WriteTitle
    <3>2. CASE ReadTitle(t) \/ Leave(t)
      BY <1>1, <3>2 DEF ReadTitle, Leave
    <3> QED BY <1>5, <3>1, <3>2
  <2>2. UNCHANGED <<plan, outcome, phase>>
    BY <1>5 DEF ReadTitle, WriteTitle, Leave, request, worker
  <2> QED BY <2>1, <2>2, SameStored
<1>6. CASE \/ Done(t) \/ (PersistFails(t) /\ phase[t] = "answering")
           \/ (Cancel(t) /\ phase[t] = "persisted")
  <2>1. /\ UNCHANGED <<store, plan, outcome>>
        /\ \/ phase[t] = "persisted" /\ phase'[t] \in {"done", "dropped"}
           \/ phase[t] = "answering" /\ phase'[t] = "failed"
    BY <1>0, <1>6 DEF Done, PersistFails, Cancel, Fail, Goto, CoroutineFrame, worker
  <2> QED BY <1>1, <2>1, SameStored
<1>7. CASE \/ Resolve(t) \/ RefuseOverride(t) \/ WorkerStep(t)
           \/ OpenGraph(t) \/ Preflight(t) \/ StartStream(t) \/ Forward(t) \/ AwaitOutcome(t)
           \/ (PersistFails(t) /\ phase[t] # "answering")
           \/ (Cancel(t) /\ phase[t] # "persisted")
  <2>1. store' = store
    BY <1>7 DEF Resolve, RefuseOverride, WorkerStep, Condense, Retrieve, Poll, Dispatch, Generated,
                Finalize, FlowFails, CloseBridge, WorkerFrame, OpenGraph, Preflight,
                StartStream, Forward, AwaitOutcome, PersistFails, Cancel
  <2>2. /\ phase[t] \notin {"answering", "persisted", "done", "failed", "dropped"}
        /\ phase'[t] \notin {"answering", "persisted", "done", "dropped"}
    <3>1. CASE WorkerStep(t)
      <4>1. flow[t] # "ended" /\ phase' = phase
        BY <1>0, <3>1 DEF WorkerStep, Condense, Retrieve, Poll, Dispatch, Generated,
                          Finalize, FlowFails, CloseBridge, WorkerFrame, Work, Split, request
      <4> QED BY <4>1 DEF PipeInv, Pipe, Phased, After
    <3>2. CASE ~WorkerStep(t)
      BY <1>0, <1>7, <3>2 DEF Resolve, RefuseOverride, OpenGraph, Preflight, StartStream, Forward,
                              AwaitOutcome, PersistFails, Cancel, Fail, Goto
    <3> QED BY <3>1, <3>2
  <2>3. \A c \in DOMAIN store' : MessagesOf(t, c)' = {}
    BY <1>2, <2>1, <2>2 DEF MessagesOf
  <2> QED BY <2>2, <2>3, NothingStored
<1> QED BY <1>3, <1>4, <1>5, <1>6, <1>7 DEF RequestStep

LEMMA InitStored == Init => StoredInv
<1> SUFFICES ASSUME Init, NEW t \in Turns PROVE Stored(t)
  BY InitPipe DEF StoredInv
<1>1. phase[t] = "idle"
  BY DEF Init
<1>2. PICK g \in Groups \cup {NoGroup}, earlier \in {<<>>, EarlierTurn} :
        store = [c \in {OldId} |-> [title |-> DefaultTitle, group |-> g, messages |-> earlier]]
  BY DEF Init
<1>3. \A c \in DOMAIN store : store[c].messages = earlier
  BY <1>2
<1>4. \A i \in DOMAIN earlier : earlier[i].turn = OldId
  <2>1. \A i \in DOMAIN EarlierTurn : EarlierTurn[i].turn = OldId
    BY DEF EarlierTurn
  <2>2. DOMAIN <<>> = {}
    OBVIOUS
  <2> HIDE DEF EarlierTurn
  <2> QED BY <2>1, <2>2
<1>5. \A c \in DOMAIN store : MessagesOf(t, c) = {}
  BY <1>3, <1>4, ChatTurnAssumption DEF MessagesOf
<1> QED BY <1>1, <1>5 DEF Stored

LEMMA NextStored == StoredInv /\ [Next]_vars => StoredInv'
<1> SUFFICES ASSUME StoredInv, [Next]_vars, NEW u \in Turns PROVE Stored(u)'
  BY NextPipe DEF StoredInv
<1>0. PipeInv /\ StoreOK /\ TypeInv /\ Stored(u)
  BY DEF StoredInv, PipeInv, TypeInv
<1>1. CASE PatchSettings \/ Delete \/ Move \/ RemoveGroup \/ UNCHANGED vars
  <2>1. UNCHANGED <<plan, outcome, phase>>
    BY <1>1 DEF PatchSettings, Delete, Move, RemoveGroup, vars, turnVars, request, worker
  <2>2. groups \subseteq Groups
    BY <1>0 DEF TypeInv, TypeOK
  <2>3. \A c \in DOMAIN store' : Kept(c)
    BY <1>0, <1>1, <2>2, StoreMessages DEF PatchSettings, Delete, Move, RemoveGroup, vars
  <2> QED BY <1>0, <2>1, <2>3, KeptTurn, SameStored
<1>2. ASSUME NEW t \in Turns, \/ Resolve(t) \/ RefuseOverride(t) \/ RequestStep(t) \/ WorkerStep(t)
                              \/ ReadTitle(t) \/ WriteTitle(t) \/ Leave(t)
      PROVE  Stored(u)'
  <2>1. CASE u = t
    BY <1>0, <1>2, <2>1, OwnMessages
  <2>2. CASE u # t
    <3>1. SameTurn(u) /\ KeepsTurn(u)
      BY <1>0, <1>2, <2>2, OthersStay, OthersMessages
    <3> QED BY <1>0, <3>1, SameStored DEF SameTurn
  <2> QED BY <2>1, <2>2
<1> QED BY <1>1, <1>2 DEF Next

\* A client that got done finds its question and its answer, once and in
\* this order, and a turn writes into no conversation but its own.
THEOREM DoneMeansStored == Spec => []DoneIsStored
<1>1. StoredInv => DoneIsStored
  <2> SUFFICES ASSUME StoredInv, NEW t \in Turns, NEW c \in DOMAIN store
               PROVE  /\ c # plan[t].into => MessagesOf(t, c) = {}
                      /\ c = plan[t].into /\ (\E i \in DOMAIN sent[t] : sent[t][i].event = "done") =>
                           \E q, a \in DOMAIN store[c].messages :
                             /\ q < a /\ MessagesOf(t, c) = {q, a}
                             /\ store[c].messages[q] = Question(t)
                             /\ store[c].messages[a] = Answer(t)
    BY DEF DoneIsStored
  <2>1. Stored(t) /\ Received(t)
    BY DEF StoredInv, PipeInv, Pipe
  <2>2. (\E i \in DOMAIN sent[t] : sent[t][i].event = "done") => phase[t] = "done"
    BY <2>1 DEF Received
  <2> QED BY <2>1, <2>2 DEF Stored, Exists
<1> QED BY InitStored, NextStored, <1>1, PTL DEF Spec

\* A turn that was refused, cancelled, aborted or failed before its answer
\* was complete leaves no message.
THEOREM AbandonedLeavesNothing == Spec => []AbandonedStoresNothing
<1>1. StoredInv => AbandonedStoresNothing
  BY DEF StoredInv, Stored, AbandonedStoresNothing
<1> QED BY InitStored, NextStored, <1>1, PTL DEF Spec

\* The provenance stored with an answer is what its retrieval frame showed.
THEOREM WireAgreesWithStore == Spec => []WireMatchesStore
<1>1. StoredInv => WireMatchesStore
  <2> SUFFICES ASSUME StoredInv, NEW t \in Turns, NEW c \in DOMAIN store,
                      NEW i \in DOMAIN store[c].messages,
                      store[c].messages[i].role = "assistant", store[c].messages[i].turn = t,
                      sent[t] # <<>>, sent[t][1].event = "retrieval"
               PROVE  LET m == store[c].messages[i]
                          shown == sent[t][1]
                      IN  /\ m.label = shown.label /\ m.corpus = shown.corpus
                          /\ m.condensed = shown.condensed /\ m.graph = shown.graph
                          /\ m.graph => m.corpus = "graph" /\ m.label # Method
    BY DEF WireMatchesStore
  <2>1. Stored(t) /\ Received(t) /\ Phased(t) /\ sent[t] \in Seq(Frames)
    BY DEF StoredInv, PipeInv, Pipe, TypeInv
  <2>2. store[c].messages[i] = Answer(t)
    BY <2>1 DEF Stored, MessagesOf
  <2>3. 1 \in DOMAIN sent[t]
    BY <2>1
  <2>4. sent[t][1] = RetrievalFrame(t)
    BY <2>1, <2>3 DEF Received
  <2>5. plan[t].onGraph =>
          plan[t].corpus = "graph" /\ RetrievalLabel(plan[t]) # Method
    BY <2>1, ChatTurnAssumption DEF Phased, RetrievalLabel
  <2> QED BY <2>2, <2>4, <2>5 DEF Answer, RetrievalFrame
<1> QED BY InitStored, NextStored, <1>1, PTL DEF Spec
=============================================================================
