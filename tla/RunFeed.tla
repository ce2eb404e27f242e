------------------------------- MODULE RunFeed -------------------------------
(***************************************************************************)
(* The background job runner and its replayable event feed:                *)
(* IngestRunner (varagity/api/ingest_runner.py) and GraphBuildRunner       *)
(* (varagity/api/graph_runner.py).  The two classes share their machinery  *)
(* line for line; the graph runner adds a second emitting thread per run,  *)
(* the status sampler (Sampled = TRUE).                                    *)
(*                                                                         *)
(* Every critical section of the runner's lock is one action, and so is    *)
(* every stretch of code between two of them that another thread can       *)
(* observe.  In particular _emit is two actions: the append and the        *)
(* snapshot of the subscribers under the lock (Append), and the            *)
(* call_soon_threadsafe calls after it (Push).                             *)
(*                                                                         *)
(* A frame is [id, run, by, kind]: its rank in emission order, the run and *)
(* the thread that emitted it, and what it says.  The client's consumption *)
(* is not modelled: feed[c] is the backlog followed by everything put on   *)
(* its asyncio.Queue, which is the sequence the generator yields.          *)
(***************************************************************************)
EXTENDS Naturals, Sequences, FiniteSets

CONSTANTS
  Runs,        \* run ids (uuid4): each is started at most once
  Clients,     \* GET .../status requests: each subscribes at most once
  NoRun,       \* _run is None
  Sampled,     \* TRUE for the graph runner: a sampler thread per run
  MaxEmits,    \* bound: frames and log records one flow produces
  MaxSamples   \* bound: status samples one build takes

ASSUME RunsAssumption == NoRun \notin Runs
ASSUME BoundsAssumption ==
  Sampled \in BOOLEAN /\ MaxEmits \in Nat /\ MaxSamples \in Nat

VARIABLES
  run,          \* self._run
  state,        \* _RunState.state of each run
  events,       \* self._events
  subscribers,  \* self._subscribers
  emitted,      \* how many frames were ever appended (ids)
  pc,           \* where each run's start() call, then its thread, is
  frame, to,    \* per thread: the frame _emit is pushing, and to whom
  closing,      \* the subscribers _close_feed swapped out
  budget,       \* bound: emissions the flow has left
  sampler,      \* where each run's sampler thread is
  samples,      \* bound: samples taken
  level,        \* the relayed logger's level
  previous,     \* previous_level of each run
  relays,       \* runs whose _RelayHandler is on the logger
  due,          \* relays that still have to forward the current log record
  cpc,          \* where each client's subscribe() generator is
  feed          \* what each client's generator yields

runVars    == <<run, state, events, subscribers, emitted>>
threadVars == <<pc, frame, to, closing, budget>>
samplerVars == <<sampler, samples>>
logVars    == <<level, previous, relays, due>>
clientVars == <<cpc, feed>>
vars == <<runVars, threadVars, samplerVars, logVars, clientVars>>

-----------------------------------------------------------------------------

Terminal == {"completed", "failed"}
Levels == {"configured", "info"}
Threads == Runs \X {"worker", "sampler"}
Worker(r) == <<r, "worker">>
Sampler(r) == <<r, "sampler">>

Kinds == {"running", "progress", "log"} \cup Terminal
Frames == [id : Nat, run : Runs, by : Threads, kind : Kinds]
\* The unrecorded frame subscribe() makes up when the backlog is empty.
SnapshotFrames == [id : {0}, run : Runs \cup {NoRun}, by : {NoRun},
                   kind : Kinds \cup {"idle"}]
NoFrame == [id |-> 0, run |-> NoRun, by |-> NoRun, kind |-> "idle"]

Phases == {"idle", "announce", "read_level", "pin_level", "flow", "join",
           "summary", "settle", "restore", "finish", "close", "signal", "done"}

Free(t) == frame[t] = NoFrame

Running == run # NoRun /\ state[run] = "running"

Init ==
  /\ run = NoRun
  /\ state = [r \in Runs |-> "unstarted"]
  /\ events = <<>>
  /\ subscribers = {}
  /\ emitted = 0
  /\ pc = [r \in Runs |-> "idle"]
  /\ frame = [t \in Threads |-> NoFrame]
  /\ to = [t \in Threads |-> {}]
  /\ closing = [r \in Runs |-> {}]
  /\ budget = [r \in Runs |-> MaxEmits]
  /\ sampler = [r \in Runs |-> "none"]
  /\ samples = [r \in Runs |-> 0]
  /\ level = "configured"
  /\ previous = [r \in Runs |-> "configured"]
  /\ relays = {}
  /\ due = [r \in Runs |-> {}]
  /\ cpc = [c \in Clients |-> "idle"]
  /\ feed = [c \in Clients |-> <<>>]

-----------------------------------------------------------------------------
(* _emit *)

\* Under the lock: append to the log and snapshot the subscribers.
Append1(t, kind) ==
  LET f == [id |-> emitted + 1, run |-> t[1], by |-> t, kind |-> kind]
  IN  /\ Free(t)
      /\ emitted' = emitted + 1
      /\ events' = Append(events, f)
      /\ frame' = [frame EXCEPT ![t] = f]
      /\ to' = [to EXCEPT ![t] = subscribers]

\* Mutant of Push: delivers to whoever is registered by then.
PushToCurrent(t) ==
  /\ ~Free(t)
  /\ feed' = [c \in Clients |->
                IF c \in subscribers /\ cpc[c] = "attached"
                  THEN Append(feed[c], frame[t]) ELSE feed[c]]
  /\ frame' = [frame EXCEPT ![t] = NoFrame]
  /\ to' = [to EXCEPT ![t] = {}]
  /\ UNCHANGED <<runVars, pc, closing, budget, samplerVars, logVars, cpc>>

\* Mutant of Push: puts the frame in front of what the client has.
PushLeft(t) ==
  /\ ~Free(t)
  /\ feed' = [c \in Clients |->
                IF c \in to[t] /\ cpc[c] = "attached"
                  THEN <<frame[t]>> \o feed[c] ELSE feed[c]]
  /\ frame' = [frame EXCEPT ![t] = NoFrame]
  /\ to' = [to EXCEPT ![t] = {}]
  /\ UNCHANGED <<runVars, pc, closing, budget, samplerVars, logVars, cpc>>

\* After the lock: hand the frame to every queue of the snapshot.  A queue
\* that was closed, abandoned or never read takes it without anyone seeing it.
Push(t) ==
  /\ ~Free(t)
  /\ feed' = [c \in Clients |->
                IF c \in to[t] /\ cpc[c] = "attached"
                  THEN Append(feed[c], frame[t]) ELSE feed[c]]
  /\ frame' = [frame EXCEPT ![t] = NoFrame]
  /\ to' = [to EXCEPT ![t] = {}]
  /\ UNCHANGED <<runVars, pc, closing, budget, samplerVars, logVars, cpc>>

-----------------------------------------------------------------------------
(* start() *)

\* Mutant of Start: no single-flight check.
StartUnchecked(r) ==
  /\ pc[r] = "idle"
  /\ run' = r
  /\ state' = [state EXCEPT ![r] = "running"]
  /\ events' = <<>>
  /\ pc' = [pc EXCEPT ![r] = "announce"]
  /\ UNCHANGED <<subscribers, emitted, frame, to, closing, budget,
                 samplerVars, logVars, clientVars>>

\* The single-flight check and the claim of the slot, under the lock.  A
\* refused start (IngestAlreadyRunning) changes nothing.
Start(r) ==
  /\ pc[r] = "idle"
  /\ ~Running
  /\ run' = r
  /\ state' = [state EXCEPT ![r] = "running"]
  /\ events' = <<>>
  /\ pc' = [pc EXCEPT ![r] = "announce"]
  /\ UNCHANGED <<subscribers, emitted, frame, to, closing, budget,
                 samplerVars, logVars, clientVars>>

\* The "running" status frame; the thread is started after it is pushed.
Announce(r) ==
  /\ pc[r] = "announce"
  /\ Append1(Worker(r), "running")
  /\ pc' = [pc EXCEPT ![r] = "read_level"]
  /\ UNCHANGED <<run, state, subscribers, closing, budget, samplerVars,
                 logVars, clientVars>>

-----------------------------------------------------------------------------
(* _execute() *)

ReadLevel(r) ==
  /\ pc[r] = "read_level" /\ Free(Worker(r))
  /\ previous' = [previous EXCEPT ![r] = level]
  /\ pc' = [pc EXCEPT ![r] = "pin_level"]
  /\ UNCHANGED <<runVars, frame, to, closing, budget, samplerVars, level,
                 relays, due, clientVars>>

PinLevel(r) ==
  /\ pc[r] = "pin_level"
  /\ level' = "info"
  /\ relays' = relays \cup {r}
  /\ pc' = [pc EXCEPT ![r] = "flow"]
  /\ UNCHANGED <<runVars, frame, to, closing, budget, samplerVars, previous,
                 due, clientVars>>

\* A stage wrapper, on_file or the per-chunk proxy emits a progress frame.
FlowProgress(r) ==
  /\ pc[r] = "flow" /\ due[r] = {} /\ budget[r] > 0
  /\ Append1(Worker(r), "progress")
  /\ budget' = [budget EXCEPT ![r] = @ - 1]
  /\ UNCHANGED <<run, state, subscribers, pc, closing, samplerVars, logVars,
                 clientVars>>

\* The flow, or the session the graph runner's summary opens, logs one INFO
\* record: every handler then on the logger forwards it; at a higher level the
\* record is dropped before it reaches a handler.
FlowLog(r) ==
  /\ pc[r] \in {"flow", "summary"} /\ Free(Worker(r)) /\ due[r] = {} /\ budget[r] > 0
  /\ due' = [due EXCEPT ![r] = IF level = "info" THEN relays ELSE {}]
  /\ budget' = [budget EXCEPT ![r] = @ - 1]
  /\ UNCHANGED <<runVars, pc, frame, to, closing, samplerVars, level,
                 previous, relays, clientVars>>

\* _RelayHandler.emit, in the logging thread.
Relay(r) ==
  /\ due[r] # {}
  /\ \E h \in due[r] : due' = [due EXCEPT ![r] = @ \ {h}]
  /\ Append1(Worker(r), "log")
  /\ UNCHANGED <<run, state, subscribers, pc, closing, budget, samplerVars,
                 level, previous, relays, clientVars>>

\* The flow returns or raises, if it ever does.  The graph runner then stops
\* the sampler it has started, and writes its summary.
FlowEnd(r) ==
  /\ pc[r] = "flow" /\ Free(Worker(r)) /\ due[r] = {}
  /\ pc' = [pc EXCEPT ![r] = IF sampler[r] # "none" THEN "join"
                             ELSE IF Sampled THEN "summary" ELSE "settle"]
  /\ UNCHANGED <<runVars, frame, to, closing, budget, samplerVars, logVars,
                 clientVars>>

\* Mutant of Settle: a state no reader of the feed knows.
SettleStopped(r, outcome) ==
  /\ pc[r] = "settle"
  /\ state' = [state EXCEPT ![r] = "stopped"]
  /\ pc' = [pc EXCEPT ![r] = "restore"]
  /\ UNCHANGED <<run, events, subscribers, emitted, frame, to, closing, budget,
                 samplerVars, logVars, clientVars>>

Settle(r, outcome) ==
  /\ pc[r] = "settle"
  /\ state' = [state EXCEPT ![r] = outcome]
  /\ pc' = [pc EXCEPT ![r] = "restore"]
  /\ UNCHANGED <<run, events, subscribers, emitted, frame, to, closing, budget,
                 samplerVars, logVars, clientVars>>

\* Mutant of Restore: the level stays pinned.
RestoreHandlerOnly(r) ==
  /\ pc[r] = "restore"
  /\ relays' = relays \ {r}
  /\ pc' = [pc EXCEPT ![r] = "finish"]
  /\ UNCHANGED <<runVars, frame, to, closing, budget, samplerVars, level,
                 previous, due, clientVars>>

\* Mutant of Restore: goes on to close the feed without a terminal frame.
RestoreThenClose(r) ==
  /\ pc[r] = "restore"
  /\ relays' = relays \ {r}
  /\ level' = previous[r]
  /\ pc' = [pc EXCEPT ![r] = "close"]
  /\ UNCHANGED <<runVars, frame, to, closing, budget, samplerVars, previous,
                 due, clientVars>>

Restore(r) ==
  /\ pc[r] = "restore"
  /\ relays' = relays \ {r}
  /\ level' = previous[r]
  /\ pc' = [pc EXCEPT ![r] = "finish"]
  /\ UNCHANGED <<runVars, frame, to, closing, budget, samplerVars, previous,
                 due, clientVars>>

\* The terminal status frame.
Finish(r) ==
  /\ pc[r] = "finish"
  /\ Append1(Worker(r), state[r])
  /\ pc' = [pc EXCEPT ![r] = "close"]
  /\ UNCHANGED <<run, state, subscribers, closing, budget, samplerVars,
                 logVars, clientVars>>

\* _close_feed, under the lock ...
CloseFeed(r) ==
  /\ pc[r] = "close" /\ Free(Worker(r))
  /\ closing' = [closing EXCEPT ![r] = subscribers]
  /\ subscribers' = {}
  /\ pc' = [pc EXCEPT ![r] = "signal"]
  /\ UNCHANGED <<run, state, events, emitted, frame, to, budget, samplerVars,
                 logVars, clientVars>>

\* Mutant of SignalEnd: signals the set it has just emptied.
SignalCurrent(r) ==
  /\ pc[r] = "signal"
  /\ cpc' = [c \in Clients |->
               IF c \in subscribers /\ cpc[c] = "attached" THEN "closed" ELSE cpc[c]]
  /\ closing' = [closing EXCEPT ![r] = {}]
  /\ pc' = [pc EXCEPT ![r] = "done"]
  /\ UNCHANGED <<runVars, frame, to, budget, samplerVars, logVars, feed>>

\* ... and after it: None on every queue it swapped out.
SignalEnd(r) ==
  /\ pc[r] = "signal"
  /\ cpc' = [c \in Clients |->
               IF c \in closing[r] /\ cpc[c] = "attached" THEN "closed" ELSE cpc[c]]
  /\ closing' = [closing EXCEPT ![r] = {}]
  /\ pc' = [pc EXCEPT ![r] = "done"]
  /\ UNCHANGED <<runVars, frame, to, budget, samplerVars, logVars, feed>>

-----------------------------------------------------------------------------
(* The graph runner's sampler thread *)

\* Started by the worker once the corpus is scanned.
SamplerStart(r) ==
  /\ Sampled
  /\ pc[r] = "flow" /\ Free(Worker(r)) /\ due[r] = {} /\ sampler[r] = "none"
  /\ sampler' = [sampler EXCEPT ![r] = "waiting"]
  /\ UNCHANGED <<runVars, threadVars, samples, logVars, clientVars>>

\* stop.wait timed out: go and read the engine's document counts.
SampleRead(r) ==
  /\ sampler[r] = "waiting" /\ Free(Sampler(r))
  /\ pc[r] = "flow" /\ samples[r] < MaxSamples
  /\ sampler' = [sampler EXCEPT ![r] = "reading"]
  /\ samples' = [samples EXCEPT ![r] = @ + 1]
  /\ UNCHANGED <<runVars, threadVars, logVars, clientVars>>

\* The counts came back; no counts, no frame.
SampleEmit(r) ==
  /\ sampler[r] = "reading"
  /\ sampler' = [sampler EXCEPT ![r] = "waiting"]
  /\ \/ Append1(Sampler(r), "progress")
     \/ UNCHANGED <<emitted, events, frame, to>>
  /\ UNCHANGED <<run, state, subscribers, pc, closing, budget, samples,
                 logVars, clientVars>>

\* stop is set (the worker has left the flow): the loop ends.
SamplerExit(r) ==
  /\ sampler[r] = "waiting" /\ Free(Sampler(r)) /\ pc[r] # "flow"
  /\ sampler' = [sampler EXCEPT ![r] = "exited"]
  /\ UNCHANGED <<runVars, threadVars, samples, logVars, clientVars>>

\* Mutant of Join: no timeout.
JoinForever(r) ==
  /\ pc[r] = "join" /\ sampler[r] = "exited"
  /\ pc' = [pc EXCEPT ![r] = "summary"]
  /\ UNCHANGED <<runVars, frame, to, closing, budget, samplerVars, logVars,
                 clientVars>>

\* sampler.join(timeout) returns when the sampler is gone or the timeout has
\* passed, whatever the sampler is doing then.
Join(r) ==
  /\ pc[r] = "join"
  /\ pc' = [pc EXCEPT ![r] = "summary"]
  /\ UNCHANGED <<runVars, frame, to, closing, budget, samplerVars, logVars,
                 clientVars>>

\* _summary: the graph runner's worker asks the engine for its document counts
\* before it settles.  An error is no counts; an engine that never answers
\* holds the worker here, as the same call may hold the sampler.
Summarize(r) ==
  /\ pc[r] = "summary" /\ Free(Worker(r)) /\ due[r] = {}
  /\ pc' = [pc EXCEPT ![r] = "settle"]
  /\ UNCHANGED <<runVars, frame, to, closing, budget, samplerVars, logVars,
                 clientVars>>

-----------------------------------------------------------------------------
(* subscribe() *)

\* Mutant of Subscribe: replays only the frames of the current run.
SubscribeOwnRun(c) ==
  /\ cpc[c] = "idle"
  /\ feed' = [feed EXCEPT ![c] = SelectSeq(events, LAMBDA f : f.run = run)]
  /\ subscribers' = IF Running THEN subscribers \cup {c} ELSE subscribers
  /\ cpc' = [cpc EXCEPT ![c] = IF events = <<>> THEN "snapshot"
                               ELSE IF Running THEN "attached" ELSE "replay"]
  /\ UNCHANGED <<run, state, events, emitted, threadVars, samplerVars, logVars>>

\* Under the lock: the backlog, whether a run is live, and the registration.
Subscribe(c) ==
  /\ cpc[c] = "idle"
  /\ feed' = [feed EXCEPT ![c] = events]
  /\ subscribers' = IF Running THEN subscribers \cup {c} ELSE subscribers
  /\ cpc' = [cpc EXCEPT ![c] = IF events = <<>> THEN "snapshot"
                               ELSE IF Running THEN "attached" ELSE "replay"]
  /\ UNCHANGED <<run, state, events, emitted, threadVars, samplerVars, logVars>>

\* An empty backlog: yield one made-up status frame and return.  This return
\* is before the try block, so a registration made above stays behind.
Snapshot(c) ==
  /\ cpc[c] = "snapshot"
  /\ feed' = [feed EXCEPT ![c] =
       <<[id |-> 0, run |-> run, by |-> NoRun,
          kind |-> IF run = NoRun THEN "idle" ELSE state[run]]>>]
  /\ cpc' = [cpc EXCEPT ![c] = "ended"]
  /\ UNCHANGED <<runVars, threadVars, samplerVars, logVars>>

\* The generator's finally: after a replay, after None, or when an attached
\* client goes away.
Leave(c) ==
  /\ cpc[c] \in {"replay", "closed", "attached"}
  /\ subscribers' = subscribers \ {c}
  /\ cpc' = [cpc EXCEPT ![c] = IF @ = "attached" THEN "left" ELSE "ended"]
  /\ UNCHANGED <<run, state, events, emitted, threadVars, samplerVars, logVars,
                 feed>>

-----------------------------------------------------------------------------

\* The returns of what the worker waits for without a timeout ...
Return(r) == FlowEnd(r) \/ Summarize(r)

\* ... and the steps it takes by itself.
RunStep(r) ==
  \/ Announce(r) \/ ReadLevel(r) \/ PinLevel(r)
  \/ FlowProgress(r) \/ FlowLog(r) \/ Relay(r)
  \/ \E outcome \in Terminal : Settle(r, outcome)
  \/ Restore(r) \/ Finish(r) \/ CloseFeed(r) \/ SignalEnd(r)
  \/ SamplerStart(r) \/ Join(r)

SamplerStep(r) == SampleRead(r) \/ SampleEmit(r) \/ SamplerExit(r)

\* Every run is over and every client is gone: the bounded model has stopped.
Quiet ==
  /\ \A r \in Runs : pc[r] = "done" /\ sampler[r] \in {"none", "exited"}
  /\ \A t \in Threads : Free(t)
  /\ \A c \in Clients : cpc[c] \in {"ended", "left"}
  /\ UNCHANGED vars

Next ==
  \/ \E r \in Runs : Start(r) \/ RunStep(r) \/ Return(r) \/ SamplerStep(r)
  \/ \E t \in Threads : Push(t)
  \/ \E c \in Clients : Subscribe(c) \/ Snapshot(c) \/ Leave(c)
  \/ Quiet

Spec == Init /\ [][Next]_vars

\* Threads and the event loop are scheduled; nobody is obliged to start a run,
\* to subscribe or to hang up.  What is waited for without a timeout gets no
\* fairness: the flow, the summary's read of the engine and the sampler's may
\* each hang.
Fairness ==
  /\ \A r \in Runs : WF_vars(RunStep(r))
  /\ \A t \in Threads : WF_vars(Push(t))
  /\ \A c \in Clients :
       WF_vars(Snapshot(c)) /\ WF_vars(cpc[c] # "attached" /\ Leave(c))

FairSpec == Spec /\ Fairness

-----------------------------------------------------------------------------
(* Properties *)

Elems(s) == {s[i] : i \in DOMAIN s}
InFlight(c) == {frame[t] : t \in {u \in Threads : c \in to[u]}}
SlotPhases == {"announce", "read_level", "pin_level", "flow", "join",
               "summary", "settle"}

\* The run's thread waits for a call that has no timeout.
AtEngine(r) == pc[r] \in {"flow", "summary"}

TypeOK ==
  /\ run \in Runs \cup {NoRun}
  /\ state \in [Runs -> {"unstarted", "running"} \cup Terminal]
  /\ events \in Seq(Frames)
  /\ subscribers \subseteq Clients
  /\ emitted \in Nat
  /\ pc \in [Runs -> Phases]
  /\ frame \in [Threads -> Frames \cup {NoFrame}]
  /\ to \in [Threads -> SUBSET Clients]
  /\ closing \in [Runs -> SUBSET Clients]
  /\ budget \in [Runs -> 0..MaxEmits]
  /\ sampler \in [Runs -> {"none", "waiting", "reading", "exited"}]
  /\ samples \in [Runs -> 0..MaxSamples]
  /\ level \in Levels
  /\ previous \in [Runs -> Levels]
  /\ relays \subseteq Runs
  /\ due \in [Runs -> SUBSET Runs]
  /\ cpc \in [Clients -> {"idle", "snapshot", "replay", "attached", "closed",
                          "ended", "left"}]
  /\ feed \in [Clients -> Seq(Frames \cup SnapshotFrames)]

\* The slot says "running" exactly while a start() call or a thread of that run
\* is between its claim and its terminal state: no second run can execute, and
\* no finished thread leaves the slot occupied (every later start would be 409).
SlotMatchesThread ==
  \A r \in Runs : (run = r /\ state[r] = "running") <=> pc[r] \in SlotPhases

\* subscribe() copies the backlog and registers in the critical section in
\* which _emit appends and snapshots: no frame reaches a client twice, once
\* from the backlog and once from the queue.
NoDuplicate ==
  \A c \in Clients :
    /\ \A i, j \in DOMAIN feed[c] : feed[c][i].id = feed[c][j].id => i = j
    /\ cpc[c] = "attached" => InFlight(c) \cap Elems(feed[c]) = {}

\* ... and none is missed: while a client is registered, every frame of the
\* run's log has reached it or is on its way.
NoGap ==
  \A c \in subscribers :
    cpc[c] = "attached" => Elems(events) \subseteq Elems(feed[c]) \cup InFlight(c)

\* The frames one thread emitted arrive in the order it emitted them.
ThreadOrder ==
  \A c \in Clients : \A i, j \in DOMAIN feed[c] :
    i < j /\ feed[c][i].by = feed[c][j].by => feed[c][i].id < feed[c][j].id

\* The docstring of subscribe(): "feed items in emission order".
EmissionOrder ==
  \A c \in Clients : \A i, j \in DOMAIN feed[c] :
    i < j => feed[c][i].id < feed[c][j].id

\* A live client whose queue got its None was given the terminal frame before.
ClosedAfterTerminal ==
  \A c \in Clients :
    cpc[c] = "closed" => \E i \in DOMAIN feed[c] : feed[c][i].kind \in Terminal

\* The docstring of subscribe(): "The stream ends after the terminal status
\* frame (or immediately after an idle/terminal snapshot when nothing is
\* running)".
EndsWithTerminal ==
  \A c \in Clients :
    cpc[c] = "ended" =>
      \E i \in DOMAIN feed[c] : feed[c][i].kind \in Terminal \cup {"idle"}

\* The module's documentation: "Events accumulate per run".
LogIsOneRun == \A f \in Elems(events) : f.run = run

\* The comment in _execute: the feed must carry INFO records regardless of the
\* process log level, "so the namespace is pinned to INFO for the run".
PinnedInFlow == \A r \in Runs : pc[r] = "flow" => level = "info"

\* A run leaves the process's logging as it found it.
LoggingRestored ==
  (\A r \in Runs : pc[r] \in {"idle", "finish", "close", "signal", "done"}) =>
    level = "configured" /\ relays = {}

\* A stream that went live ends: nobody waits on its queue for ever, unless a
\* run never comes back from its flow or from the engine.
StreamsEnd ==
  \A c \in Clients :
    cpc[c] = "attached" ~>
      cpc[c] \in {"ended", "left"} \/ \E r \in Runs : []AtEngine(r)

\* An accepted start reaches its terminal state and frees the slot, unless its
\* own flow or its own summary's engine call never returns (neither has a
\* timeout).  A sampler that hangs in the same engine call keeps no run from
\* settling: the worker joins it with a timeout (_run_build's finally).
RunsSettle ==
  \A r \in Runs : pc[r] = "announce" ~> state[r] \in Terminal \/ []AtEngine(r)

\* The runner's slot is a single-flight slot: the flow is the guarded work.
Slot == INSTANCE SingleFlight WITH
  Jobs <- Runs, None <- NoRun,
  holder <- IF Running THEN run ELSE NoRun,
  working <- {r \in Runs : pc[r] = "flow"},
  over <- {r \in Runs : state[r] \in Terminal}
SlotSpec == Slot!Spec
=============================================================================
