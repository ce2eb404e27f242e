---------------------------- MODULE RunFeedProofs ----------------------------
(***************************************************************************)
(* The run slot and the event feed, for any number of runs (whose threads  *)
(* may overlap), samplers and clients: one run at a time claims, works and *)
(* releases; every frame of a log reaches every registered client once and *)
(* in its thread's order.  For runs that do not overlap: logging is put    *)
(* back, and streams end with the terminal frame.                          *)
(***************************************************************************)
EXTENDS RunFeed, TLAPS

\* How a run's recorded state and the slot follow from where its thread is.
SlotInv ==
  \A r \in Runs :
    /\ state[r] = "unstarted" <=> pc[r] = "idle"
    /\ state[r] = "running" <=> pc[r] \in SlotPhases
    /\ state[r] = "running" => run = r
    /\ run = r => state[r] # "unstarted"

TypeInv == TypeOK /\ SlotInv

-----------------------------------------------------------------------------

\* Appending a frame: the critical section of _emit keeps the types of what
\* it writes.
LEMMA AppendTypes ==
  ASSUME TypeOK, NEW t \in Threads, NEW kind \in Kinds, Append1(t, kind)
  PROVE  /\ emitted' \in Nat
         /\ events' \in Seq(Frames)
         /\ frame' \in [Threads -> Frames \cup {NoFrame}]
         /\ to' \in [Threads -> SUBSET Clients]
<1> DEFINE f == [id |-> emitted + 1, run |-> t[1], by |-> t, kind |-> kind]
<1>1. t[1] \in Runs
  BY DEF Threads
<1>2. f \in Frames
  BY <1>1 DEF Frames, TypeOK
<1> QED
  BY <1>2 DEF Append1, TypeOK

\* The initial state has the types and the slot is free.
LEMMA InitTypeInv == Init => TypeInv
<1> SUFFICES ASSUME Init PROVE TypeInv
  OBVIOUS
<1>1. TypeOK
  BY RunsAssumption, BoundsAssumption DEF Init, TypeOK, Levels, Phases
<1>2. SlotInv
  BY RunsAssumption DEF Init, SlotInv, SlotPhases
<1> QED
  BY <1>1, <1>2 DEF TypeInv

\* Every step keeps them.
LEMMA NextTypeInv == TypeInv /\ [Next]_vars => TypeInv'
<1> SUFFICES ASSUME TypeInv, [Next]_vars PROVE TypeInv'
  OBVIOUS
<1> USE RunsAssumption, BoundsAssumption
<1>0. TypeOK /\ SlotInv
  BY DEF TypeInv
<1>1. ASSUME NEW r \in Runs, Start(r) PROVE TypeInv'
  <2>1. TypeOK'
    BY <1>0, <1>1 DEF Start, TypeOK, samplerVars, logVars, clientVars, Phases
  <2>2. SlotInv'
    BY <1>0, <1>1 DEF Start, SlotInv, TypeOK, SlotPhases, Running, Terminal
  <2> QED
    BY <2>1, <2>2 DEF TypeInv
<1>2. ASSUME NEW r \in Runs, Announce(r) PROVE TypeInv'
  <2>1. Worker(r) \in Threads /\ "running" \in Kinds
    BY DEF Worker, Threads, Kinds
  <2>2. TypeOK'
    BY <1>0, <1>2, <2>1, AppendTypes
    DEF Announce, TypeOK, samplerVars, logVars, clientVars, Phases
  <2>3. SlotInv'
    BY <1>0, <1>2 DEF Announce, SlotInv, TypeOK, SlotPhases, Terminal
  <2> QED
    BY <2>2, <2>3 DEF TypeInv
<1>3. ASSUME NEW r \in Runs, ReadLevel(r) \/ PinLevel(r) \/ Restore(r)
      PROVE  TypeInv'
  <2>1. CASE ReadLevel(r)
    <3>1. TypeOK'
      BY <1>0, <2>1 DEF ReadLevel, TypeOK, runVars, samplerVars, clientVars,
         Phases
    <3>2. SlotInv'
      BY <1>0, <2>1 DEF ReadLevel, SlotInv, TypeOK, SlotPhases, runVars
    <3> QED
      BY <3>1, <3>2 DEF TypeInv
  <2>2. CASE PinLevel(r)
    <3>1. TypeOK'
      BY <1>0, <2>2 DEF PinLevel, TypeOK, runVars, samplerVars, clientVars,
         Phases, Levels
    <3>2. SlotInv'
      BY <1>0, <2>2 DEF PinLevel, SlotInv, TypeOK, SlotPhases, runVars
    <3> QED
      BY <3>1, <3>2 DEF TypeInv
  <2>3. CASE Restore(r)
    <3>1. TypeOK'
      BY <1>0, <2>3 DEF Restore, TypeOK, runVars, samplerVars, clientVars,
         Phases
    <3>2. SlotInv'
      BY <1>0, <2>3 DEF Restore, SlotInv, TypeOK, SlotPhases, runVars
    <3> QED
      BY <3>1, <3>2 DEF TypeInv
  <2> QED
    BY <1>3, <2>1, <2>2, <2>3
<1>4. ASSUME NEW r \in Runs, FlowProgress(r) PROVE TypeInv'
  <2>1. Worker(r) \in Threads /\ "progress" \in Kinds
    BY DEF Worker, Threads, Kinds
  <2>2. TypeOK'
    BY <1>0, <1>4, <2>1, AppendTypes
    DEF FlowProgress, TypeOK, samplerVars, logVars, clientVars
  <2>3. SlotInv'
    BY <1>0, <1>4 DEF FlowProgress, SlotInv
  <2> QED
    BY <2>2, <2>3 DEF TypeInv
<1>5. ASSUME NEW r \in Runs, FlowLog(r) PROVE TypeInv'
  <2>1. TypeOK'
    BY <1>0, <1>5 DEF FlowLog, TypeOK, runVars, samplerVars, clientVars
  <2>2. SlotInv'
    BY <1>0, <1>5 DEF FlowLog, SlotInv, runVars
  <2> QED
    BY <2>1, <2>2 DEF TypeInv
<1>6. ASSUME NEW r \in Runs, Relay(r) PROVE TypeInv'
  <2>1. Worker(r) \in Threads /\ "log" \in Kinds
    BY DEF Worker, Threads, Kinds
  <2>2. due' \in [Runs -> SUBSET Runs]
    BY <1>0, <1>6 DEF Relay, TypeOK
  <2>3. TypeOK'
    BY <1>0, <1>6, <2>1, <2>2, AppendTypes
    DEF Relay, TypeOK, samplerVars, clientVars
  <2>4. SlotInv'
    BY <1>0, <1>6 DEF Relay, SlotInv
  <2> QED
    BY <2>3, <2>4 DEF TypeInv
<1>7. ASSUME NEW r \in Runs, FlowEnd(r) \/ Join(r) \/ Summarize(r) PROVE TypeInv'
  <2>1. TypeOK'
    <3>1. CASE FlowEnd(r)
      BY <1>0, <3>1 DEF FlowEnd, TypeOK, runVars, samplerVars, logVars, clientVars, Phases
    <3>2. CASE Join(r)
      BY <1>0, <3>2 DEF Join, TypeOK, runVars, samplerVars, logVars, clientVars, Phases
    <3>3. CASE Summarize(r)
      BY <1>0, <3>3 DEF Summarize, TypeOK, runVars, samplerVars, logVars, clientVars, Phases
    <3> QED
      BY <1>7, <3>1, <3>2, <3>3
  <2>2. SlotInv'
    BY <1>0, <1>7 DEF FlowEnd, Join, Summarize, SlotInv, TypeOK, SlotPhases, runVars
  <2> QED
    BY <2>1, <2>2 DEF TypeInv
<1>8. ASSUME NEW r \in Runs, NEW outcome \in Terminal, Settle(r, outcome)
      PROVE  TypeInv'
  <2>1. TypeOK'
    BY <1>0, <1>8 DEF Settle, TypeOK, samplerVars, logVars, clientVars, Phases
  <2>2. SlotInv'
    BY <1>0, <1>8 DEF Settle, SlotInv, TypeOK, SlotPhases, Terminal
  <2> QED
    BY <2>1, <2>2 DEF TypeInv
<1>9. ASSUME NEW r \in Runs, Finish(r) PROVE TypeInv'
  <2>1. Worker(r) \in Threads /\ state[r] \in Kinds
    BY <1>0, <1>9 DEF Worker, Threads, Kinds, Finish, SlotInv, SlotPhases,
       TypeOK, Terminal
  <2>2. TypeOK'
    BY <1>0, <1>9, <2>1, AppendTypes
    DEF Finish, TypeOK, samplerVars, logVars, clientVars, Phases
  <2>3. SlotInv'
    BY <1>0, <1>9 DEF Finish, SlotInv, TypeOK, SlotPhases
  <2> QED
    BY <2>2, <2>3 DEF TypeInv
<1>10. ASSUME NEW r \in Runs, CloseFeed(r) \/ SignalEnd(r) PROVE TypeInv'
  <2>1. CASE CloseFeed(r)
    <3>1. TypeOK'
      BY <1>0, <2>1 DEF CloseFeed, TypeOK, samplerVars, logVars, clientVars,
         Phases
    <3>2. SlotInv'
      BY <1>0, <2>1 DEF CloseFeed, SlotInv, TypeOK, SlotPhases
    <3> QED
      BY <3>1, <3>2 DEF TypeInv
  <2>2. CASE SignalEnd(r)
    <3>1. TypeOK'
      BY <1>0, <2>2 DEF SignalEnd, TypeOK, runVars, samplerVars, logVars,
         Phases
    <3>2. SlotInv'
      BY <1>0, <2>2 DEF SignalEnd, SlotInv, TypeOK, SlotPhases, runVars
    <3> QED
      BY <3>1, <3>2 DEF TypeInv
  <2> QED
    BY <1>10, <2>1, <2>2
<1>11. ASSUME NEW r \in Runs, SamplerStart(r) \/ SampleRead(r) \/ SamplerExit(r)
       PROVE  TypeInv'
  <2>1. CASE SamplerStart(r)
    BY <1>0, <2>1 DEF SamplerStart, TypeOK, SlotInv, TypeInv, runVars,
       threadVars, logVars, clientVars
  <2>2. CASE SampleRead(r)
    <3>1. samples[r] \in Nat /\ samples[r] + 1 \in 0..MaxSamples
      BY <1>0, <2>2 DEF SampleRead, TypeOK
    <3>2. samples' \in [Runs -> 0..MaxSamples]
      BY <1>0, <2>2, <3>1 DEF SampleRead, TypeOK
    <3> QED
      BY <1>0, <2>2, <3>2 DEF SampleRead, TypeOK, SlotInv, TypeInv, runVars,
         threadVars, logVars, clientVars
  <2>3. CASE SamplerExit(r)
    BY <1>0, <2>3 DEF SamplerExit, TypeOK, SlotInv, TypeInv, runVars,
       threadVars, logVars, clientVars
  <2> QED
    BY <1>11, <2>1, <2>2, <2>3
<1>12. ASSUME NEW r \in Runs, SampleEmit(r) PROVE TypeInv'
  <2>1. Sampler(r) \in Threads /\ "progress" \in Kinds
    BY DEF Sampler, Threads, Kinds
  <2>2. TypeOK'
    BY <1>0, <1>12, <2>1, AppendTypes
    DEF SampleEmit, TypeOK, logVars, clientVars
  <2>3. SlotInv'
    BY <1>0, <1>12 DEF SampleEmit, SlotInv
  <2> QED
    BY <2>2, <2>3 DEF TypeInv
<1>13. ASSUME NEW t \in Threads, Push(t) PROVE TypeInv'
  <2>1. frame[t] \in Frames
    BY <1>0, <1>13 DEF Push, Free, TypeOK
  <2>2. feed' \in [Clients -> Seq(Frames \cup SnapshotFrames)]
    BY <1>0, <1>13, <2>1 DEF Push, TypeOK
  <2>3. TypeOK'
    BY <1>0, <1>13, <2>2 DEF Push, TypeOK, runVars, samplerVars, logVars
  <2>4. SlotInv'
    BY <1>0, <1>13 DEF Push, SlotInv, runVars
  <2> QED
    BY <2>3, <2>4 DEF TypeInv
<1>14. ASSUME NEW c \in Clients, Subscribe(c) PROVE TypeInv'
  <2>1. events \in Seq(Frames \cup SnapshotFrames)
    BY <1>0 DEF TypeOK
  <2>2. TypeOK'
    BY <1>0, <1>14, <2>1 DEF Subscribe, TypeOK, threadVars, samplerVars, logVars
  <2>3. SlotInv'
    BY <1>0, <1>14 DEF Subscribe, SlotInv, threadVars
  <2> QED
    BY <2>2, <2>3 DEF TypeInv
<1>15. ASSUME NEW c \in Clients, Snapshot(c) PROVE TypeInv'
  <2> DEFINE k == IF run = NoRun THEN "idle" ELSE state[run]
             f == [id |-> 0, run |-> run, by |-> NoRun, kind |-> k]
  <2>1. k \in Kinds \cup {"idle"}
    BY <1>0 DEF TypeOK, SlotInv, Kinds, Terminal
  <2>2. f \in SnapshotFrames
    BY <1>0, <2>1 DEF SnapshotFrames, TypeOK
  <2>3. <<f>> \in Seq(Frames \cup SnapshotFrames)
    BY <2>2
  <2>4. TypeOK'
    BY <1>0, <1>15, <2>3 DEF Snapshot, TypeOK, runVars, threadVars,
       samplerVars, logVars
  <2>5. SlotInv'
    BY <1>0, <1>15 DEF Snapshot, SlotInv, runVars, threadVars
  <2> QED
    BY <2>4, <2>5 DEF TypeInv
<1>16. ASSUME NEW c \in Clients, Leave(c) PROVE TypeInv'
  <2>1. TypeOK'
    BY <1>0, <1>16 DEF Leave, TypeOK, threadVars, samplerVars, logVars
  <2>2. SlotInv'
    BY <1>0, <1>16 DEF Leave, SlotInv, threadVars
  <2> QED
    BY <2>1, <2>2 DEF TypeInv
<1>17. CASE UNCHANGED vars
  <2>1. TypeOK'
    BY <1>0, <1>17 DEF TypeOK, vars, runVars, threadVars, samplerVars, logVars,
       clientVars
  <2>2. SlotInv'
    BY <1>0, <1>17 DEF SlotInv, vars, runVars, threadVars
  <2> QED
    BY <2>1, <2>2 DEF TypeInv
<1> QED
  BY <1>1, <1>2, <1>3, <1>4, <1>5, <1>6, <1>7, <1>8, <1>9, <1>10, <1>11,
     <1>12, <1>13, <1>14, <1>15, <1>16, <1>17
  DEF Next, RunStep, Return, SamplerStep, Quiet

\* Type correctness of the feed.
THEOREM FeedTypes == Spec => []TypeOK
<1>1. TypeInv => TypeOK
  BY DEF TypeInv
<1> QED
  BY InitTypeInv, NextTypeInv, <1>1, PTL DEF Spec

\* At most one run holds the slot, exactly while its thread is between its
\* claim and its terminal state.
THEOREM OneRunAtATime == Spec => []SlotMatchesThread
<1>1. TypeInv => SlotMatchesThread
  BY DEF TypeInv, SlotInv, SlotMatchesThread
<1> QED
  BY InitTypeInv, NextTypeInv, <1>1, PTL DEF Spec

-----------------------------------------------------------------------------
(* The run slot implements the single-flight slot. *)

\* The runner starts with its slot free.
LEMMA SlotInit == Init => Slot!Init
BY RunsAssumption DEF Init, Slot!Init, Running, Terminal

\* Every step is a claim, begin, end or release of the slot, or none of them:
\* only the run whose state is "running" can be in its flow.
LEMMA SlotStep == TypeInv /\ [Next]_vars => [Slot!Next]_(Slot!vars)
<1> SUFFICES ASSUME TypeInv, [Next]_vars PROVE [Slot!Next]_(Slot!vars)
  OBVIOUS
<1> DEFINE H == IF Running THEN run ELSE NoRun
           W == {r \in Runs : pc[r] = "flow"}
           O == {r \in Runs : state[r] \in Terminal}
<1> USE RunsAssumption
<1>0. TypeOK /\ SlotInv
  BY DEF TypeInv
<1>1. ASSUME NEW r \in Runs, Start(r) PROVE Slot!Claim(r)
  <2>1. H = NoRun /\ H' = r
    BY <1>0, <1>1 DEF Start, Running, TypeOK
  <2>2. r \notin O /\ O' = O /\ W' = W
    BY <1>0, <1>1 DEF Start, TypeOK, SlotInv, Terminal
  <2> QED
    BY <2>1, <2>2 DEF Slot!Claim
<1>2. ASSUME NEW r \in Runs, PinLevel(r) PROVE Slot!Begin(r)
  <2>1. H = r /\ H' = r
    BY <1>0, <1>2 DEF PinLevel, Running, TypeOK, SlotInv, SlotPhases, runVars
  <2>2. r \notin W /\ W' = W \cup {r} /\ O' = O
    BY <1>0, <1>2 DEF PinLevel, TypeOK, runVars
  <2> QED
    BY <2>1, <2>2 DEF Slot!Begin
<1>3. ASSUME NEW r \in Runs, FlowEnd(r) PROVE Slot!End(r)
  <2>1. H' = H /\ O' = O
    BY <1>3 DEF FlowEnd, Running, runVars
  <2>2. r \in W /\ W' = W \ {r}
    BY <1>0, <1>3 DEF FlowEnd, TypeOK
  <2> QED
    BY <2>1, <2>2 DEF Slot!End
<1>4. ASSUME NEW r \in Runs, NEW outcome \in Terminal, Settle(r, outcome)
      PROVE  Slot!Release(r)
  <2>1. H = r /\ H' = NoRun
    BY <1>0, <1>4 DEF Settle, Running, TypeOK, SlotInv, SlotPhases, Terminal
  <2>2. r \notin W /\ W' = W /\ O' = O \cup {r}
    BY <1>0, <1>4 DEF Settle, TypeOK
  <2> QED
    BY <2>1, <2>2 DEF Slot!Release
<1>5. ASSUME UNCHANGED <<run, state>>, W' = W PROVE UNCHANGED Slot!vars
  BY <1>5 DEF Slot!vars, Running
<1>6. ASSUME NEW r \in Runs,
             Announce(r) \/ ReadLevel(r) \/ Restore(r) \/ Finish(r)
               \/ CloseFeed(r) \/ SignalEnd(r) \/ Join(r) \/ Summarize(r)
      PROVE  UNCHANGED <<run, state>> /\ W' = W
  BY <1>0, <1>6 DEF Announce, ReadLevel, Restore, Finish, CloseFeed, SignalEnd,
     Join, Summarize, TypeOK, runVars
<1>7. ASSUME NEW r \in Runs,
             FlowProgress(r) \/ FlowLog(r) \/ Relay(r) \/ SamplerStart(r)
               \/ SamplerStep(r)
      PROVE  UNCHANGED <<run, state, pc>>
  BY <1>7 DEF FlowProgress, FlowLog, Relay, SamplerStart, SamplerStep,
     SampleRead, SampleEmit, SamplerExit, runVars, threadVars
<1>8. ASSUME NEW t \in Threads, Push(t) PROVE UNCHANGED <<run, state, pc>>
  BY <1>8 DEF Push, runVars
<1>9. ASSUME NEW c \in Clients, Subscribe(c) \/ Snapshot(c) \/ Leave(c)
      PROVE  UNCHANGED <<run, state, pc>>
  BY <1>9 DEF Subscribe, Snapshot, Leave, runVars, threadVars
<1>10. ASSUME UNCHANGED vars PROVE UNCHANGED <<run, state, pc>>
  BY <1>10 DEF vars, runVars, threadVars
<1> QED
  BY <1>1, <1>2, <1>3, <1>4, <1>5, <1>6, <1>7, <1>8, <1>9, <1>10
  DEF Next, RunStep, Return, Quiet, Slot!Next

\* Every behaviour of the runner is a behaviour of the single-flight slot.
THEOREM RunSlotIsSingleFlight == Spec => SlotSpec
BY InitTypeInv, NextTypeInv, SlotInit, SlotStep, PTL
   DEF Spec, SlotSpec, Slot!Spec

-----------------------------------------------------------------------------
(* Runs that do not overlap: each start finds every other thread finished.  *)

StartsApart ==
  \A r \in Runs : Start(r) => \A s \in Runs : pc[s] \in {"idle", "done"}

Active(r) == pc[r] \notin {"idle", "done"}

\* From pin_level to the end of restore a run's relay is on the logger.
Pinned(r) == pc[r] \in {"flow", "join", "summary", "settle", "restore"}

\* One run at a time up to its last step, and the level is the configured one
\* unless that run has pinned it, in which case the run remembers it.
ApartInv ==
  /\ \A r \in Runs : Active(r) => run = r
  /\ relays = {r \in Runs : Pinned(r)}
  /\ \A r \in Runs : Pinned(r) \/ pc[r] = "pin_level" => previous[r] = "configured"
  /\ (\A r \in Runs : ~Pinned(r)) => level = "configured"

\* At first nothing runs.
LEMMA InitApart == Init => ApartInv
BY DEF Init, ApartInv, Active, Pinned

\* Where a run's thread goes decides whether it is active and pinned.
LEMMA PhaseStep ==
  ASSUME TypeOK, NEW r \in Runs, NEW phase, pc' = [pc EXCEPT ![r] = phase]
  PROVE  /\ pc'[r] = phase
         /\ \A s \in Runs : s # r => pc'[s] = pc[s]
BY DEF TypeOK

\* Every step that begins no run while another is active keeps it.
LEMMA NextApart ==
  ASSUME TypeInv, ApartInv, [Next]_vars, [StartsApart]_vars
  PROVE  ApartInv'
<1>0. TypeOK
  BY DEF TypeInv
<1>1. ASSUME NEW r \in Runs, Start(r) PROVE ApartInv'
  <2>1. \A s \in Runs : pc[s] \in {"idle", "done"}
    <3>1. vars' # vars
      <4>1. pc[r] = "idle" /\ pc'[r] = "announce"
        BY <1>0, <1>1 DEF Start, TypeOK
      <4> QED
        BY <4>1 DEF vars, threadVars
    <3> QED
      BY <1>1, <3>1 DEF StartsApart
  <2>2. /\ pc'[r] = "announce" /\ \A s \in Runs : s # r => pc'[s] = pc[s]
        /\ run' = r /\ UNCHANGED logVars
    BY <1>0, <1>1, PhaseStep DEF Start
  <2> QED
    BY <2>1, <2>2 DEF ApartInv, Active, Pinned, logVars
<1>2. ASSUME NEW r \in Runs, ReadLevel(r) PROVE ApartInv'
  <2>1. /\ pc[r] = "read_level" /\ pc'[r] = "pin_level"
        /\ \A s \in Runs : s # r => pc'[s] = pc[s]
        /\ UNCHANGED <<run, level, relays>>
        /\ previous'[r] = level /\ \A s \in Runs : s # r => previous'[s] = previous[s]
    BY <1>0, <1>2, PhaseStep DEF ReadLevel, runVars, TypeOK
  <2>2. \A s \in Runs : Active(s) => s = r
    BY <2>1 DEF ApartInv, Active
  <2>3. level = "configured"
    BY <2>1, <2>2 DEF ApartInv, Active, Pinned
  <2> QED
    BY <2>1, <2>2, <2>3 DEF ApartInv, Active, Pinned
<1>3. ASSUME NEW r \in Runs, PinLevel(r) PROVE ApartInv'
  <2>1. /\ pc[r] = "pin_level" /\ pc'[r] = "flow"
        /\ \A s \in Runs : s # r => pc'[s] = pc[s]
        /\ UNCHANGED <<run, previous>> /\ relays' = relays \cup {r}
    BY <1>0, <1>3, PhaseStep DEF PinLevel, runVars
  <2> QED
    BY <2>1 DEF ApartInv, Active, Pinned
<1>4. ASSUME NEW r \in Runs, Restore(r) PROVE ApartInv'
  <2>1. /\ pc[r] = "restore" /\ pc'[r] = "finish"
        /\ \A s \in Runs : s # r => pc'[s] = pc[s]
        /\ UNCHANGED <<run, previous>> /\ relays' = relays \ {r} /\ level' = previous[r]
    BY <1>0, <1>4, PhaseStep DEF Restore, runVars
  <2>2. level' = "configured"
    BY <2>1 DEF ApartInv, Pinned
  <2> QED
    BY <2>1, <2>2 DEF ApartInv, Active, Pinned
<1>5. ASSUME NEW r \in Runs, NEW phase \in Phases \ {"idle"},
             pc' = [pc EXCEPT ![r] = phase], Active(r),
             Pinned(r) <=> phase \in {"flow", "join", "summary", "settle", "restore"},
             phase # "pin_level", UNCHANGED <<run, level, relays, previous>>
      PROVE  ApartInv'
  <2>1. pc'[r] = phase /\ \A s \in Runs : s # r => pc'[s] = pc[s]
    BY <1>0, <1>5, PhaseStep
  <2> QED
    BY <1>5, <2>1 DEF ApartInv, Active, Pinned
<1>6. ASSUME NEW r \in Runs,
             \/ Announce(r) \/ FlowEnd(r) \/ Join(r) \/ Summarize(r)
             \/ \E outcome \in Terminal : Settle(r, outcome)
             \/ Finish(r) \/ CloseFeed(r) \/ SignalEnd(r)
      PROVE  ApartInv'
  <2>1. UNCHANGED <<run, level, relays, previous>>
    BY <1>6 DEF Announce, FlowEnd, Join, Summarize, Settle, Finish, CloseFeed, SignalEnd,
       runVars, logVars
  <2>2. PICK phase \in Phases \ {"idle"} :
          /\ pc' = [pc EXCEPT ![r] = phase] /\ Active(r) /\ phase # "pin_level"
          /\ Pinned(r) <=> phase \in {"flow", "join", "summary", "settle", "restore"}
    BY <1>6 DEF Announce, FlowEnd, Join, Summarize, Settle, Finish, CloseFeed, SignalEnd,
       Active, Pinned, Phases
  <2> QED
    BY <1>5, <2>1, <2>2
<1>7. ASSUME UNCHANGED <<run, pc, level, relays, previous>> PROVE ApartInv'
  BY <1>7 DEF ApartInv, Active, Pinned
<1>8. ASSUME NEW r \in Runs,
             FlowProgress(r) \/ FlowLog(r) \/ Relay(r) \/ SamplerStart(r) \/ SamplerStep(r)
      PROVE  UNCHANGED <<run, pc, level, relays, previous>>
  BY <1>8 DEF FlowProgress, FlowLog, Relay, SamplerStart, SamplerStep, SampleRead,
     SampleEmit, SamplerExit, runVars, threadVars, logVars
<1>9. ASSUME NEW t \in Threads, Push(t)
      PROVE  UNCHANGED <<run, pc, level, relays, previous>>
  BY <1>9 DEF Push, runVars, logVars
<1>10. ASSUME NEW c \in Clients, Subscribe(c) \/ Snapshot(c) \/ Leave(c)
       PROVE  UNCHANGED <<run, pc, level, relays, previous>>
  BY <1>10 DEF Subscribe, Snapshot, Leave, runVars, threadVars, logVars
<1>11. ASSUME UNCHANGED vars
       PROVE  UNCHANGED <<run, pc, level, relays, previous>>
  BY <1>11 DEF vars, runVars, threadVars, logVars
<1> QED
  BY <1>1, <1>2, <1>3, <1>4, <1>6, <1>7, <1>8, <1>9, <1>10, <1>11
  DEF Next, RunStep, Return, Quiet

\* Runs that do not overlap leave the process's logging as they found it,
\* however they end and whatever they emit (_execute's finally).
THEOREM LoggingIsRestored == Spec /\ [][StartsApart]_vars => []LoggingRestored
<1>1. ApartInv => LoggingRestored
  BY DEF ApartInv, LoggingRestored, Pinned
<1>2. TypeInv /\ ApartInv /\ [Next]_vars /\ [StartsApart]_vars => TypeInv' /\ ApartInv'
  BY NextTypeInv, NextApart
<1>3. Init => TypeInv /\ ApartInv
  BY InitTypeInv, InitApart
<1> QED
  BY <1>1, <1>2, <1>3, PTL DEF Spec
-----------------------------------------------------------------------------
(* Delivery: what reaches the clients *)

\* Ids are handed out in emission order, one per frame.
LogIds ==
  /\ \A i \in DOMAIN events : events[i].id \in 1..emitted
  /\ \A i, j \in DOMAIN events : events[i].id = events[j].id => i = j

\* A thread pushes one frame at a time, and no two threads the same one.
PushIds ==
  /\ \A t \in Threads :
       IF Free(t) THEN to[t] = {} ELSE frame[t].id \in 1..emitted
  /\ \A t, u \in Threads :
       ~Free(t) /\ ~Free(u) /\ frame[t].id = frame[u].id => t = u

\* A client that has not subscribed is in nobody's snapshot.
Strangers ==
  \A c \in Clients : cpc[c] = "idle" =>
    c \notin subscribers /\ \A t \in Threads : c \notin to[t]

\* What a client was given has distinct ids, and none that is still to come.
FeedIds ==
  \A c \in Clients :
    /\ \A i \in DOMAIN feed[c] : feed[c][i].id \in 0..emitted
    /\ \A i, j \in DOMAIN feed[c] : feed[c][i].id = feed[c][j].id => i = j
    /\ \A t \in Threads : cpc[c] = "attached" /\ c \in to[t] =>
         \A i \in DOMAIN feed[c] : feed[c][i].id # frame[t].id

\* A registered client has each frame of the log, or a thread carries it.
Reached ==
  \A c \in Clients : c \in subscribers /\ cpc[c] = "attached" =>
    \A i \in DOMAIN events :
      \/ \E j \in DOMAIN feed[c] : feed[c][j] = events[i]
      \/ \E t \in Threads : c \in to[t] /\ frame[t] = events[i]

DeliveryInv ==
  TypeInv /\ LogIds /\ PushIds /\ Strangers /\ FeedIds /\ Reached

-----------------------------------------------------------------------------

\* At first nothing is emitted and nobody has subscribed.
LEMMA InitDelivery == Init => DeliveryInv
<1> SUFFICES ASSUME Init PROVE DeliveryInv
  OBVIOUS
<1>1. TypeInv
  BY InitTypeInv
<1>2. LogIds /\ PushIds /\ Strangers /\ FeedIds /\ Reached
  BY DEF Init, LogIds, PushIds, Strangers, FeedIds, Reached, Free
<1> QED
  BY <1>1, <1>2 DEF DeliveryInv

\* Steps that emit nothing and deliver nothing: registrations only shrink,
\* and no client becomes attached or a stranger again.
LEMMA SilentStep ==
  ASSUME DeliveryInv, UNCHANGED <<events, emitted, frame, to, feed>>,
         subscribers' \subseteq subscribers,
         \A c \in Clients : cpc'[c] \in {"idle", "attached"} => cpc'[c] = cpc[c]
  PROVE  LogIds' /\ PushIds' /\ Strangers' /\ FeedIds' /\ Reached'
<1>1. LogIds' /\ PushIds'
  BY DEF DeliveryInv, LogIds, PushIds, Free
<1>2. Strangers'
  BY DEF DeliveryInv, Strangers
<1>3. FeedIds'
  BY DEF DeliveryInv, FeedIds
<1>4. Reached'
  BY DEF DeliveryInv, Reached
<1> QED
  BY <1>1, <1>2, <1>3, <1>4

\* An append is seen by exactly the clients registered in the same critical
\* section.
LEMMA AppendDelivery ==
  ASSUME DeliveryInv, NEW t \in Threads, NEW kind \in Kinds, Append1(t, kind),
         UNCHANGED <<subscribers, cpc, feed>>
  PROVE  LogIds' /\ PushIds' /\ Strangers' /\ FeedIds' /\ Reached'
<1> DEFINE f == [id |-> emitted + 1, run |-> t[1], by |-> t, kind |-> kind]
<1>0. TypeOK
  BY DEF DeliveryInv, TypeInv
<1>1. /\ Free(t) /\ emitted \in Nat /\ emitted' = emitted + 1
      /\ events' = Append(events, f)
      /\ frame' = [frame EXCEPT ![t] = f]
      /\ to' = [to EXCEPT ![t] = subscribers]
  BY <1>0 DEF Append1, TypeOK
<1>2. f.id = emitted + 1 /\ f # NoFrame
  BY <1>1 DEF NoFrame
<1>3. /\ DOMAIN events = 1..Len(events)
      /\ DOMAIN events' = 1..(Len(events) + 1) /\ Len(events) \in Nat
      /\ \A i \in 1..Len(events) : events'[i] = events[i]
      /\ events'[Len(events) + 1] = f
  BY <1>0, <1>1 DEF TypeOK
<1>4. /\ frame'[t] = f /\ to'[t] = subscribers
      /\ \A u \in Threads : u # t => frame'[u] = frame[u] /\ to'[u] = to[u]
  BY <1>0, <1>1 DEF TypeOK
<1> HIDE DEF f
<1>5. LogIds'
  BY <1>1, <1>2, <1>3 DEF DeliveryInv, LogIds
<1>6. PushIds'
  BY <1>1, <1>2, <1>4 DEF DeliveryInv, PushIds, Free
<1>7. Strangers'
  BY <1>4 DEF DeliveryInv, Strangers
<1>8. FeedIds'
  BY <1>1, <1>2, <1>4 DEF DeliveryInv, FeedIds
<1>9. Reached'
  <2> SUFFICES ASSUME NEW c \in Clients, c \in subscribers,
                      cpc[c] = "attached", NEW i \in DOMAIN events'
               PROVE  \/ \E j \in DOMAIN feed[c] : feed[c][j] = events'[i]
                      \/ \E u \in Threads : c \in to'[u] /\ frame'[u] = events'[i]
    BY DEF Reached
  <2>1. CASE i = Len(events) + 1
    BY <1>3, <1>4, <2>1
  <2>2. CASE i \in 1..Len(events)
    <3>1. \A u \in Threads : c \in to[u] => u # t
      BY <1>1 DEF DeliveryInv, PushIds
    <3> QED
      BY <1>3, <1>4, <2>2, <3>1 DEF DeliveryInv, Reached
  <2> QED
    BY <1>3, <2>1, <2>2
<1> QED
  BY <1>5, <1>6, <1>7, <1>8, <1>9

\* A push moves the frame from the thread to the clients of its snapshot.
LEMMA PushDelivery ==
  ASSUME DeliveryInv, NEW t \in Threads, Push(t)
  PROVE  LogIds' /\ PushIds' /\ Strangers' /\ FeedIds' /\ Reached'
<1>0. TypeOK
  BY DEF DeliveryInv, TypeInv
<1>1. /\ ~Free(t)
      /\ frame' = [frame EXCEPT ![t] = NoFrame] /\ to' = [to EXCEPT ![t] = {}]
      /\ UNCHANGED <<events, emitted, subscribers, cpc>>
  BY DEF Push, runVars
<1>2. \A c \in Clients :
        feed'[c] = IF c \in to[t] /\ cpc[c] = "attached"
                     THEN Append(feed[c], frame[t]) ELSE feed[c]
  BY DEF Push
<1>3. /\ frame'[t] = NoFrame /\ to'[t] = {}
      /\ \A u \in Threads : u # t => frame'[u] = frame[u] /\ to'[u] = to[u]
  BY <1>0, <1>1 DEF TypeOK
<1>4. LogIds' /\ Strangers'
  BY <1>1, <1>3 DEF DeliveryInv, LogIds, Strangers
<1>5. PushIds'
  BY <1>1, <1>3 DEF DeliveryInv, PushIds, Free
<1>6. ASSUME NEW c \in Clients, c \in to[t], cpc[c] = "attached"
      PROVE  /\ DOMAIN feed[c] = 1..Len(feed[c]) /\ Len(feed[c]) \in Nat
             /\ DOMAIN feed'[c] = 1..(Len(feed[c]) + 1)
             /\ \A i \in 1..Len(feed[c]) : feed'[c][i] = feed[c][i]
             /\ feed'[c][Len(feed[c]) + 1] = frame[t]
  <2>1. feed[c] \in Seq(Frames \cup SnapshotFrames)
    BY <1>0 DEF TypeOK
  <2>2. frame[t] \in Frames \cup SnapshotFrames
    BY <1>0, <1>1 DEF TypeOK, Free
  <2>3. feed'[c] = Append(feed[c], frame[t])
    BY <1>2, <1>6
  <2> QED
    BY <2>1, <2>2, <2>3
<1>7. FeedIds'
  <2> SUFFICES ASSUME NEW c \in Clients
               PROVE  /\ \A i \in DOMAIN feed'[c] : feed'[c][i].id \in 0..emitted
                      /\ \A i, j \in DOMAIN feed'[c] :
                           feed'[c][i].id = feed'[c][j].id => i = j
                      /\ \A u \in Threads : cpc[c] = "attached" /\ c \in to'[u] =>
                           \A i \in DOMAIN feed'[c] : feed'[c][i].id # frame'[u].id
    BY <1>1 DEF FeedIds
  <2>1. CASE c \in to[t] /\ cpc[c] = "attached"
    <3>1. frame[t].id \in 1..emitted /\ emitted \in Nat
      BY <1>0, <1>1 DEF DeliveryInv, PushIds, TypeOK
    <3>2. \A i \in DOMAIN feed[c] : feed[c][i].id # frame[t].id
      BY <2>1 DEF DeliveryInv, FeedIds
    <3>3. \A u \in Threads : c \in to'[u] =>
            /\ u # t /\ c \in to[u] /\ frame'[u] = frame[u] /\ ~Free(u)
            /\ frame[u].id # frame[t].id
      BY <1>1, <1>3 DEF DeliveryInv, PushIds
    <3> DEFINE n == Len(feed[c])
    <3>4. /\ DOMAIN feed[c] = 1..n /\ n \in Nat
          /\ DOMAIN feed'[c] = 1..(n + 1)
          /\ \A i \in 1..n : feed'[c][i] = feed[c][i]
          /\ feed'[c][n + 1] = frame[t]
      BY <1>6, <2>1
    <3>5. /\ \A i \in 1..n : feed[c][i].id \in 0..emitted
          /\ \A i, j \in 1..n : feed[c][i].id = feed[c][j].id => i = j
          /\ \A u \in Threads : c \in to[u] =>
               \A i \in 1..n : feed[c][i].id # frame[u].id
      BY <2>1, <3>4 DEF DeliveryInv, FeedIds
    <3> HIDE DEF n
    <3>9. \A i \in 1..(n + 1) : i = n + 1 \/ i \in 1..n
      BY <3>4
    <3>6. \A i \in 1..(n + 1) : feed'[c][i].id \in 0..emitted
      BY <3>1, <3>4, <3>5, <3>9
    <3>7. \A i, j \in 1..(n + 1) : feed'[c][i].id = feed'[c][j].id => i = j
      <4> SUFFICES ASSUME NEW i \in 1..(n + 1), NEW j \in 1..(n + 1),
                          feed'[c][i].id = feed'[c][j].id
                   PROVE  i = j
        OBVIOUS
      <4>1. \A k \in 1..n : feed'[c][k].id # frame[t].id
        BY <3>2, <3>4
      <4>2. CASE i \in 1..n /\ j \in 1..n
        BY <3>4, <3>5, <4>2
      <4>3. CASE i = n + 1 \/ j = n + 1
        BY <3>4, <3>9, <4>1, <4>3
      <4> QED
        BY <3>9, <4>2, <4>3
    <3>8. \A u \in Threads : c \in to'[u] =>
            \A i \in 1..(n + 1) : feed'[c][i].id # frame'[u].id
      <4> SUFFICES ASSUME NEW u \in Threads, c \in to'[u], NEW i \in 1..(n + 1)
                   PROVE  feed'[c][i].id # frame'[u].id
        OBVIOUS
      <4>1. CASE i = n + 1
        BY <3>3, <3>4, <4>1
      <4>2. CASE i \in 1..n
        BY <3>3, <3>4, <3>5, <4>2
      <4> QED
        BY <3>4, <4>1, <4>2
    <3> QED
      BY <3>4, <3>6, <3>7, <3>8
  <2>2. CASE ~(c \in to[t] /\ cpc[c] = "attached")
    BY <1>2, <1>3, <2>2 DEF DeliveryInv, FeedIds
  <2> QED
    BY <2>1, <2>2
<1>8. Reached'
  <2> SUFFICES ASSUME NEW c \in Clients, c \in subscribers,
                      cpc[c] = "attached", NEW i \in DOMAIN events
               PROVE  \/ \E j \in DOMAIN feed'[c] : feed'[c][j] = events[i]
                      \/ \E u \in Threads : c \in to'[u] /\ frame'[u] = events[i]
    BY <1>1 DEF Reached
  <2>1. CASE c \in to[t]
    <3>1. CASE frame[t] = events[i]
      BY <1>6, <2>1, <3>1
    <3>2. CASE frame[t] # events[i]
      BY <1>3, <1>6, <2>1, <3>2 DEF DeliveryInv, Reached
    <3> QED
      BY <3>1, <3>2
  <2>2. CASE c \notin to[t]
    BY <1>2, <1>3, <2>2 DEF DeliveryInv, Reached
  <2> QED
    BY <2>1, <2>2
<1> QED
  BY <1>4, <1>5, <1>7, <1>8

\* A subscription copies the log and registers at once; a snapshot replaces
\* the feed of a client that is not attached.
LEMMA SubscribeDelivery ==
  ASSUME DeliveryInv, NEW c \in Clients, Subscribe(c) \/ Snapshot(c)
  PROVE  LogIds' /\ PushIds' /\ Strangers' /\ FeedIds' /\ Reached'
<1>0. TypeOK
  BY DEF DeliveryInv, TypeInv
<1>1. UNCHANGED <<events, emitted, frame, to>> /\ emitted \in Nat
  BY <1>0 DEF Subscribe, Snapshot, threadVars, runVars, TypeOK
<1>2. LogIds' /\ PushIds'
  BY <1>1 DEF DeliveryInv, LogIds, PushIds, Free
<1>3. CASE Subscribe(c)
  <2>1. /\ cpc[c] = "idle" /\ feed' = [feed EXCEPT ![c] = events]
        /\ subscribers' \subseteq subscribers \cup {c}
        /\ cpc'[c] # "idle"
        /\ \A d \in Clients : d # c => cpc'[d] = cpc[d] /\ feed'[d] = feed[d]
        /\ feed'[c] = events
    BY <1>0, <1>3 DEF Subscribe, TypeOK
  <2>2. \A t \in Threads : c \notin to[t]
    BY <2>1 DEF DeliveryInv, Strangers
  <2>3. Strangers'
    BY <1>1, <2>1 DEF DeliveryInv, Strangers
  <2>4. FeedIds'
    BY <1>1, <2>1, <2>2 DEF DeliveryInv, FeedIds, LogIds
  <2>5. Reached'
    BY <1>1, <2>1 DEF DeliveryInv, Reached
  <2> QED
    BY <1>2, <2>3, <2>4, <2>5
<1>4. CASE Snapshot(c)
  <2> DEFINE s == [id |-> 0, run |-> run, by |-> NoRun,
                   kind |-> IF run = NoRun THEN "idle" ELSE state[run]]
  <2>1. /\ subscribers' = subscribers /\ cpc'[c] = "ended"
        /\ feed'[c] = <<s>>
        /\ \A d \in Clients : d # c => cpc'[d] = cpc[d] /\ feed'[d] = feed[d]
    BY <1>0, <1>4 DEF Snapshot, TypeOK, runVars
  <2>2. DOMAIN feed'[c] = {1} /\ feed'[c][1].id = 0
    BY <2>1
  <2> HIDE DEF s
  <2>3. Strangers' /\ Reached'
    BY <1>1, <2>1 DEF DeliveryInv, Strangers, Reached
  <2>4. FeedIds'
    BY <1>1, <2>1, <2>2 DEF DeliveryInv, FeedIds
  <2> QED
    BY <1>2, <2>3, <2>4
<1> QED
  BY <1>3, <1>4

\* Every step keeps the delivery invariant.
LEMMA NextDelivery == DeliveryInv /\ [Next]_vars => DeliveryInv'
<1> SUFFICES ASSUME DeliveryInv, [Next]_vars PROVE DeliveryInv'
  OBVIOUS
<1> DEFINE Goal == LogIds' /\ PushIds' /\ Strangers' /\ FeedIds' /\ Reached'
<1>0. TypeInv /\ TypeInv' /\ TypeOK
  BY NextTypeInv DEF DeliveryInv, TypeInv
<1>1. ASSUME NEW r \in Runs, Start(r) PROVE Goal
  <2>1. UNCHANGED <<emitted, frame, to, feed, subscribers, cpc>> /\ events' = <<>>
    BY <1>1 DEF Start, clientVars
  <2> QED
    BY <2>1 DEF DeliveryInv, LogIds, PushIds, Strangers, FeedIds, Reached, Free
<1>2. ASSUME NEW r \in Runs, Announce(r) \/ FlowProgress(r) \/ Relay(r) PROVE Goal
  <2>1. Worker(r) \in Threads /\ {"running", "progress", "log"} \subseteq Kinds
    BY DEF Worker, Threads, Kinds
  <2>2. UNCHANGED <<subscribers, cpc, feed>>
    BY <1>2 DEF Announce, FlowProgress, Relay, clientVars
  <2> QED
    BY <1>2, <2>1, <2>2, AppendDelivery DEF Announce, FlowProgress, Relay
<1>3. ASSUME NEW r \in Runs, Finish(r) PROVE Goal
  <2>1. Worker(r) \in Threads /\ state[r] \in Kinds
    BY <1>0, <1>3 DEF Worker, Threads, Kinds, Finish, TypeInv, SlotInv,
       SlotPhases, TypeOK, Terminal
  <2> QED
    BY <1>3, <2>1, AppendDelivery DEF Finish, clientVars
<1>4. ASSUME NEW r \in Runs, SampleEmit(r) PROVE Goal
  <2>1. Sampler(r) \in Threads /\ "progress" \in Kinds
    BY DEF Sampler, Threads, Kinds
  <2>2. CASE Append1(Sampler(r), "progress")
    BY <1>4, <2>1, <2>2, AppendDelivery DEF SampleEmit, clientVars
  <2>3. CASE UNCHANGED <<emitted, events, frame, to>>
    BY <1>4, <2>3, SilentStep DEF SampleEmit, clientVars
  <2> QED
    BY <1>4, <2>2, <2>3 DEF SampleEmit
<1>5. ASSUME NEW t \in Threads, Push(t) PROVE Goal
  BY <1>5, PushDelivery
<1>6. ASSUME NEW c \in Clients, Subscribe(c) \/ Snapshot(c) PROVE Goal
  BY <1>6, SubscribeDelivery
<1>7. ASSUME NEW c \in Clients, Leave(c) PROVE Goal
  <2>1. /\ UNCHANGED <<events, emitted, frame, to, feed>>
        /\ subscribers' \subseteq subscribers
        /\ \A d \in Clients : cpc'[d] \in {"idle", "attached"} => cpc'[d] = cpc[d]
    BY <1>0, <1>7 DEF Leave, threadVars, TypeOK
  <2> QED
    BY <2>1, SilentStep
<1>8. ASSUME NEW r \in Runs, CloseFeed(r) \/ SignalEnd(r) PROVE Goal
  <2>1. /\ UNCHANGED <<events, emitted, frame, to, feed>>
        /\ subscribers' \subseteq subscribers
        /\ \A d \in Clients : cpc'[d] \in {"idle", "attached"} => cpc'[d] = cpc[d]
    BY <1>0, <1>8 DEF CloseFeed, SignalEnd, clientVars, runVars, TypeOK
  <2> QED
    BY <2>1, SilentStep
<1>9. ASSUME NEW r \in Runs,
             \/ ReadLevel(r) \/ PinLevel(r) \/ FlowLog(r) \/ Return(r)
             \/ \E outcome \in Terminal : Settle(r, outcome)
             \/ Restore(r) \/ SamplerStart(r) \/ Join(r)
             \/ SampleRead(r) \/ SamplerExit(r)
      PROVE  Goal
  <2>1. UNCHANGED <<events, emitted, frame, to, feed, subscribers, cpc>>
    BY <1>9 DEF ReadLevel, PinLevel, FlowLog, Return, FlowEnd, Summarize, Settle, Restore,
       SamplerStart, Join, SampleRead, SamplerExit, runVars, threadVars,
       clientVars
  <2> QED
    BY <2>1, SilentStep
<1>10. ASSUME UNCHANGED vars PROVE Goal
  <2>1. UNCHANGED <<events, emitted, frame, to, feed, subscribers, cpc>>
    BY <1>10 DEF vars, runVars, threadVars, clientVars
  <2> QED
    BY <2>1, SilentStep
<1> HIDE DEF Goal
<1>11. Goal
  <2>1. CASE \E r \in Runs : Start(r) \/ RunStep(r) \/ Return(r) \/ SamplerStep(r)
    BY <1>1, <1>2, <1>3, <1>4, <1>8, <1>9, <2>1 DEF RunStep, SamplerStep
  <2>2. CASE \E t \in Threads : Push(t)
    BY <1>5, <2>2
  <2>3. CASE \E c \in Clients : Subscribe(c) \/ Snapshot(c) \/ Leave(c)
    BY <1>6, <1>7, <2>3
  <2>4. CASE Quiet \/ UNCHANGED vars
    BY <1>10, <2>4 DEF Quiet
  <2> QED
    BY <2>1, <2>2, <2>3, <2>4 DEF Next
<1> QED
  BY <1>0, <1>11 DEF DeliveryInv, Goal

\* No frame is delivered twice to a client.
THEOREM DeliveredOnce == Spec => []NoDuplicate
<1>1. DeliveryInv => NoDuplicate
  <2> SUFFICES ASSUME DeliveryInv, NEW c \in Clients, cpc[c] = "attached"
               PROVE  InFlight(c) \cap Elems(feed[c]) = {}
    BY DEF NoDuplicate, DeliveryInv, FeedIds
  <2> QED
    BY DEF DeliveryInv, FeedIds, InFlight, Elems
<1> QED
  BY InitDelivery, NextDelivery, <1>1, PTL DEF Spec

\* No frame of the log is missed by a registered client.
THEOREM DeliveredAll == Spec => []NoGap
<1>1. DeliveryInv => NoGap
  <2> SUFFICES ASSUME DeliveryInv, NEW c \in subscribers, cpc[c] = "attached",
                      NEW i \in DOMAIN events
               PROVE  events[i] \in Elems(feed[c]) \cup InFlight(c)
    BY DEF NoGap, Elems
  <2>1. c \in Clients
    BY DEF DeliveryInv, TypeInv, TypeOK
  <2> QED
    BY <2>1 DEF DeliveryInv, Reached, InFlight, Elems
<1> QED
  BY InitDelivery, NextDelivery, <1>1, PTL DEF Spec

-----------------------------------------------------------------------------

\* Frames are logged in the order of their ids.
LogOrder ==
  \A i, j \in DOMAIN events : i < j => events[i].id < events[j].id

\* What a thread pushes is its own, and later than whatever of it a client of
\* its snapshot has.
OwnFrames == \A t \in Threads : ~Free(t) => frame[t].by = t
Ahead ==
  \A c \in Clients, t \in Threads : cpc[c] = "attached" /\ c \in to[t] =>
    \A i \in DOMAIN feed[c] : feed[c][i].by = t => feed[c][i].id < frame[t].id

OrderInv == DeliveryInv /\ LogOrder /\ OwnFrames /\ Ahead /\ ThreadOrder

\* At first there is nothing to be in order.
LEMMA InitOrder == Init => OrderInv
<1> SUFFICES ASSUME Init PROVE OrderInv
  OBVIOUS
<1>1. LogOrder /\ OwnFrames /\ Ahead /\ ThreadOrder
  BY DEF Init, LogOrder, OwnFrames, Ahead, ThreadOrder, Free
<1> QED
  BY <1>1, InitDelivery DEF OrderInv

\* Steps that emit nothing and deliver nothing keep the order.
LEMMA SilentOrder ==
  ASSUME OrderInv, UNCHANGED <<events, frame, to, feed>>,
         \A c \in Clients : cpc'[c] = "attached" => cpc[c] = "attached"
  PROVE  LogOrder' /\ OwnFrames' /\ Ahead' /\ ThreadOrder'
<1>1. LogOrder' /\ OwnFrames' /\ ThreadOrder'
  BY DEF OrderInv, LogOrder, OwnFrames, ThreadOrder, Free
<1>2. Ahead'
  BY DEF OrderInv, Ahead
<1> QED
  BY <1>1, <1>2

\* A new frame is later than everything anybody has.
LEMMA AppendOrder ==
  ASSUME OrderInv, NEW t \in Threads, NEW kind \in Kinds, Append1(t, kind),
         UNCHANGED <<cpc, feed>>
  PROVE  LogOrder' /\ OwnFrames' /\ Ahead' /\ ThreadOrder'
<1> DEFINE f == [id |-> emitted + 1, run |-> t[1], by |-> t, kind |-> kind]
<1>0. TypeOK
  BY DEF OrderInv, DeliveryInv, TypeInv
<1>1. /\ emitted \in Nat
      /\ events' = Append(events, f)
      /\ frame' = [frame EXCEPT ![t] = f]
      /\ to' = [to EXCEPT ![t] = subscribers]
  BY <1>0 DEF Append1, TypeOK
<1>2. f.id = emitted + 1 /\ f.by = t
  OBVIOUS
<1>3. /\ DOMAIN events = 1..Len(events)
      /\ DOMAIN events' = 1..(Len(events) + 1) /\ Len(events) \in Nat
      /\ \A i \in 1..Len(events) : events'[i] = events[i]
      /\ events'[Len(events) + 1] = f
  BY <1>0, <1>1 DEF TypeOK
<1>4. /\ frame'[t] = f
      /\ \A u \in Threads : u # t => frame'[u] = frame[u] /\ to'[u] = to[u]
  BY <1>0, <1>1 DEF TypeOK
<1> HIDE DEF f
<1>5. LogOrder'
  <2> SUFFICES ASSUME NEW i \in DOMAIN events', NEW j \in DOMAIN events', i < j
               PROVE  events'[i].id < events'[j].id
    BY DEF LogOrder
  <2>1. i \in 1..Len(events) /\ events'[i] = events[i]
    BY <1>3
  <2>2. CASE j = Len(events) + 1
    <3>1. events[i].id \in 1..emitted
      BY <1>3, <2>1 DEF OrderInv, DeliveryInv, LogIds
    <3> QED
      BY <1>1, <1>2, <1>3, <2>1, <2>2, <3>1
  <2>3. CASE j \in 1..Len(events)
    BY <1>3, <2>1, <2>3 DEF OrderInv, LogOrder
  <2> QED
    BY <1>3, <2>2, <2>3
<1>6. OwnFrames'
  BY <1>2, <1>4 DEF OrderInv, OwnFrames, Free
<1>7. Ahead'
  <2> SUFFICES ASSUME NEW c \in Clients, NEW u \in Threads, cpc[c] = "attached",
                      c \in to'[u], NEW i \in DOMAIN feed[c], feed[c][i].by = u
               PROVE  feed[c][i].id < frame'[u].id
    BY DEF Ahead
  <2>1. CASE u = t
    <3>1. feed[c][i].id \in 0..emitted
      BY DEF OrderInv, DeliveryInv, FeedIds
    <3> QED
      BY <1>1, <1>2, <1>4, <2>1, <3>1
  <2>2. CASE u # t
    BY <1>4, <2>2 DEF OrderInv, Ahead
  <2> QED
    BY <2>1, <2>2
<1>8. ThreadOrder'
  BY DEF OrderInv, ThreadOrder
<1> QED
  BY <1>5, <1>6, <1>7, <1>8

\* A pushed frame follows what the client has of its thread; it is in no
\* other thread's way.
LEMMA PushOrder ==
  ASSUME OrderInv, NEW t \in Threads, Push(t)
  PROVE  LogOrder' /\ OwnFrames' /\ Ahead' /\ ThreadOrder'
<1>0. TypeOK
  BY DEF OrderInv, DeliveryInv, TypeInv
<1>1. /\ ~Free(t) /\ UNCHANGED <<events, cpc>>
      /\ frame'[t] = NoFrame /\ to'[t] = {}
      /\ \A u \in Threads : u # t => frame'[u] = frame[u] /\ to'[u] = to[u]
  BY <1>0 DEF Push, runVars, TypeOK
<1>2. \A c \in Clients :
        feed'[c] = IF c \in to[t] /\ cpc[c] = "attached"
                     THEN Append(feed[c], frame[t]) ELSE feed[c]
  BY DEF Push
<1>3. LogOrder' /\ OwnFrames' /\ frame[t].by = t
  BY <1>1 DEF OrderInv, LogOrder, OwnFrames, Free
<1>4. ASSUME NEW c \in Clients, c \in to[t], cpc[c] = "attached"
      PROVE  /\ DOMAIN feed[c] = 1..Len(feed[c]) /\ Len(feed[c]) \in Nat
             /\ DOMAIN feed'[c] = 1..(Len(feed[c]) + 1)
             /\ \A i \in 1..Len(feed[c]) : feed'[c][i] = feed[c][i]
             /\ feed'[c][Len(feed[c]) + 1] = frame[t]
  <2>1. feed[c] \in Seq(Frames \cup SnapshotFrames)
    BY <1>0 DEF TypeOK
  <2>2. frame[t] \in Frames \cup SnapshotFrames
    BY <1>0, <1>1 DEF TypeOK, Free
  <2>3. feed'[c] = Append(feed[c], frame[t])
    BY <1>2, <1>4
  <2> QED
    BY <2>1, <2>2, <2>3
<1>5. Ahead'
  <2> SUFFICES ASSUME NEW c \in Clients, NEW u \in Threads, cpc[c] = "attached",
                      c \in to'[u], NEW i \in DOMAIN feed'[c], feed'[c][i].by = u
               PROVE  feed'[c][i].id < frame'[u].id
    BY <1>1 DEF Ahead
  <2>1. u # t /\ c \in to[u] /\ frame'[u] = frame[u]
    BY <1>1
  <2>2. i \in DOMAIN feed[c] /\ feed'[c][i] = feed[c][i]
    <3>1. CASE c \in to[t]
      BY <1>3, <1>4, <2>1, <3>1
    <3>2. CASE c \notin to[t]
      BY <1>2, <3>2
    <3> QED
      BY <3>1, <3>2
  <2> QED
    BY <2>1, <2>2 DEF OrderInv, Ahead
<1>6. ThreadOrder'
  <2> SUFFICES ASSUME NEW c \in Clients, NEW i \in DOMAIN feed'[c],
                      NEW j \in DOMAIN feed'[c], i < j,
                      feed'[c][i].by = feed'[c][j].by
               PROVE  feed'[c][i].id < feed'[c][j].id
    BY DEF ThreadOrder
  <2>1. CASE c \in to[t] /\ cpc[c] = "attached"
    <3>1. i \in 1..Len(feed[c]) /\ i \in DOMAIN feed[c] /\ feed'[c][i] = feed[c][i]
      BY <1>4, <2>1
    <3>2. CASE j = Len(feed[c]) + 1
      BY <1>3, <1>4, <2>1, <3>1, <3>2 DEF OrderInv, Ahead
    <3>3. CASE j \in 1..Len(feed[c])
      BY <1>4, <2>1, <3>1, <3>3 DEF OrderInv, ThreadOrder
    <3> QED
      BY <1>4, <2>1, <3>2, <3>3
  <2>2. CASE ~(c \in to[t] /\ cpc[c] = "attached")
    BY <1>2, <2>2 DEF OrderInv, ThreadOrder
  <2> QED
    BY <2>1, <2>2
<1> QED
  BY <1>3, <1>5, <1>6

\* A replay has the log's order, and nobody carries anything for a client that
\* only now subscribes; a snapshot is one frame.
LEMMA SubscribeOrder ==
  ASSUME OrderInv, NEW c \in Clients, Subscribe(c) \/ Snapshot(c)
  PROVE  LogOrder' /\ OwnFrames' /\ Ahead' /\ ThreadOrder'
<1>0. TypeOK
  BY DEF OrderInv, DeliveryInv, TypeInv
<1>1. /\ UNCHANGED <<events, frame, to>>
      /\ \A d \in Clients : d # c => cpc'[d] = cpc[d] /\ feed'[d] = feed[d]
  BY <1>0 DEF Subscribe, Snapshot, threadVars, runVars, TypeOK
<1>2. LogOrder' /\ OwnFrames'
  BY <1>1 DEF OrderInv, LogOrder, OwnFrames, Free
<1>3. CASE Subscribe(c)
  <2>1. cpc[c] = "idle" /\ feed'[c] = events
    BY <1>0, <1>3 DEF Subscribe, TypeOK
  <2>2. \A t \in Threads : c \notin to[t]
    BY <2>1 DEF OrderInv, DeliveryInv, Strangers
  <2>3. Ahead'
    BY <1>1, <2>2 DEF OrderInv, Ahead
  <2>4. ThreadOrder'
    BY <1>1, <2>1 DEF OrderInv, ThreadOrder, LogOrder
  <2> QED
    BY <1>2, <2>3, <2>4
<1>4. CASE Snapshot(c)
  <2>1. cpc'[c] = "ended" /\ DOMAIN feed'[c] = {1}
    BY <1>0, <1>4 DEF Snapshot, TypeOK
  <2>2. Ahead'
    BY <1>1, <2>1 DEF OrderInv, Ahead
  <2>3. ThreadOrder'
    BY <1>1, <2>1 DEF OrderInv, ThreadOrder
  <2> QED
    BY <1>2, <2>2, <2>3
<1> QED
  BY <1>3, <1>4

\* Every step keeps the order.
LEMMA NextOrder == OrderInv /\ [Next]_vars => OrderInv'
<1> SUFFICES ASSUME OrderInv, [Next]_vars PROVE OrderInv'
  OBVIOUS
<1> DEFINE Goal == LogOrder' /\ OwnFrames' /\ Ahead' /\ ThreadOrder'
<1>0. DeliveryInv' /\ TypeInv /\ TypeOK
  BY NextDelivery DEF OrderInv, DeliveryInv, TypeInv
<1>1. ASSUME NEW r \in Runs, Start(r) PROVE Goal
  <2>1. UNCHANGED <<frame, to, feed, cpc>> /\ events' = <<>>
    BY <1>1 DEF Start, clientVars
  <2> QED
    BY <2>1 DEF OrderInv, LogOrder, OwnFrames, Ahead, ThreadOrder, Free
<1>2. ASSUME NEW r \in Runs, Announce(r) \/ FlowProgress(r) \/ Relay(r) PROVE Goal
  <2>1. Worker(r) \in Threads /\ {"running", "progress", "log"} \subseteq Kinds
    BY DEF Worker, Threads, Kinds
  <2> QED
    BY <1>2, <2>1, AppendOrder DEF Announce, FlowProgress, Relay, clientVars
<1>3. ASSUME NEW r \in Runs, Finish(r) PROVE Goal
  <2>1. Worker(r) \in Threads /\ state[r] \in Kinds
    BY <1>0, <1>3 DEF Worker, Threads, Kinds, Finish, TypeInv, SlotInv,
       SlotPhases, TypeOK, Terminal
  <2> QED
    BY <1>3, <2>1, AppendOrder DEF Finish, clientVars
<1>4. ASSUME NEW r \in Runs, SampleEmit(r) PROVE Goal
  <2>1. Sampler(r) \in Threads /\ "progress" \in Kinds
    BY DEF Sampler, Threads, Kinds
  <2>2. CASE Append1(Sampler(r), "progress")
    BY <1>4, <2>1, <2>2, AppendOrder DEF SampleEmit, clientVars
  <2>3. CASE UNCHANGED <<emitted, events, frame, to>>
    BY <1>4, <2>3, SilentOrder DEF SampleEmit, clientVars
  <2> QED
    BY <1>4, <2>2, <2>3 DEF SampleEmit
<1>5. ASSUME NEW t \in Threads, Push(t) PROVE Goal
  BY <1>5, PushOrder
<1>6. ASSUME NEW c \in Clients, Subscribe(c) \/ Snapshot(c) PROVE Goal
  BY <1>6, SubscribeOrder
<1>7. ASSUME NEW c \in Clients, Leave(c) PROVE Goal
  <2>1. /\ UNCHANGED <<events, frame, to, feed>>
        /\ \A d \in Clients : cpc'[d] = "attached" => cpc[d] = "attached"
    BY <1>0, <1>7 DEF Leave, threadVars, TypeOK
  <2> QED
    BY <2>1, SilentOrder
<1>8. ASSUME NEW r \in Runs, CloseFeed(r) \/ SignalEnd(r) PROVE Goal
  <2>1. /\ UNCHANGED <<events, frame, to, feed>>
        /\ \A d \in Clients : cpc'[d] = "attached" => cpc[d] = "attached"
    BY <1>0, <1>8 DEF CloseFeed, SignalEnd, clientVars, runVars, TypeOK
  <2> QED
    BY <2>1, SilentOrder
<1>9. ASSUME NEW r \in Runs,
             \/ ReadLevel(r) \/ PinLevel(r) \/ FlowLog(r) \/ Return(r)
             \/ \E outcome \in Terminal : Settle(r, outcome)
             \/ Restore(r) \/ SamplerStart(r) \/ Join(r)
             \/ SampleRead(r) \/ SamplerExit(r)
      PROVE  Goal
  <2>1. UNCHANGED <<events, frame, to, feed, cpc>>
    BY <1>9 DEF ReadLevel, PinLevel, FlowLog, Return, FlowEnd, Summarize, Settle, Restore,
       SamplerStart, Join, SampleRead, SamplerExit, runVars, threadVars,
       clientVars
  <2> QED
    BY <2>1, SilentOrder
<1>10. ASSUME UNCHANGED vars PROVE Goal
  <2>1. UNCHANGED <<events, frame, to, feed, cpc>>
    BY <1>10 DEF vars, runVars, threadVars, clientVars
  <2> QED
    BY <2>1, SilentOrder
<1> HIDE DEF Goal
<1>11. Goal
  <2>1. CASE \E r \in Runs : Start(r) \/ RunStep(r) \/ Return(r) \/ SamplerStep(r)
    BY <1>1, <1>2, <1>3, <1>4, <1>8, <1>9, <2>1 DEF RunStep, SamplerStep
  <2>2. CASE \E t \in Threads : Push(t)
    BY <1>5, <2>2
  <2>3. CASE \E c \in Clients : Subscribe(c) \/ Snapshot(c) \/ Leave(c)
    BY <1>6, <1>7, <2>3
  <2>4. CASE Quiet \/ UNCHANGED vars
    BY <1>10, <2>4 DEF Quiet
  <2> QED
    BY <2>1, <2>2, <2>3, <2>4 DEF Next
<1> QED
  BY <1>0, <1>11 DEF OrderInv, Goal

\* A client sees the frames of one thread in the order it emitted them,
\* whatever other threads push in between and whenever the client subscribed.
THEOREM ThreadsInOrder == Spec => []ThreadOrder
<1>1. OrderInv => ThreadOrder
  BY DEF OrderInv
<1> QED
  BY InitOrder, NextOrder, <1>1, PTL DEF Spec

-----------------------------------------------------------------------------
(* The end of a stream, for runs that do not overlap.                       *)

Told(frames) == \E i \in DOMAIN frames : frames[i].kind \in Terminal

\* A registered client is one of the current run, which has not closed its
\* feed, and at the end the terminal frame has reached it or is on its way;
\* whoever is about to be closed, or is, has it.
TerminalInv ==
  /\ \A c \in Clients : c \in subscribers /\ cpc[c] = "attached" =>
       /\ run \in Runs /\ pc[run] \notin {"idle", "signal", "done"}
       /\ pc[run] = "close" =>
            \/ Told(feed[c])
            \/ c \in to[Worker(run)] /\ frame[Worker(run)].kind \in Terminal
  /\ \A r \in Runs, c \in Clients :
       c \in closing[r] => cpc[c] # "idle" /\ (cpc[c] = "attached" => Told(feed[c]))
  /\ \A c \in Clients : cpc[c] = "closed" => Told(feed[c])

\* At first nobody is registered.
LEMMA InitTerminal == Init => TerminalInv
BY DEF Init, TerminalInv

\* A longer feed tells at least as much.
LEMMA ToldMore ==
  ASSUME NEW frames \in Seq(Frames \cup SnapshotFrames),
         NEW f \in Frames \cup SnapshotFrames
  PROVE  /\ Told(frames) => Told(Append(frames, f))
         /\ f.kind \in Terminal => Told(Append(frames, f))
<1>1. /\ DOMAIN Append(frames, f) = 1..(Len(frames) + 1) /\ Len(frames) \in Nat
      /\ DOMAIN frames = 1..Len(frames)
      /\ \A i \in DOMAIN frames : Append(frames, f)[i] = frames[i]
      /\ Append(frames, f)[Len(frames) + 1] = f
  OBVIOUS
<1> QED
  BY <1>1 DEF Told

\* A step in which a thread only moves on, short of closing the feed.
LEMMA PhaseTerminal ==
  ASSUME TypeOK, TerminalInv, UNCHANGED <<run, subscribers, cpc, feed, frame, to, closing>>,
         \A s \in Runs : pc'[s] = pc[s] \/ pc'[s] \notin {"idle", "close", "signal", "done"}
  PROVE  TerminalInv'
BY DEF TerminalInv, Worker

\* A frame that is appended is pushed by a thread that was free, and so owed
\* nobody a terminal frame.
LEMMA AppendTerminal ==
  ASSUME DeliveryInv, TerminalInv, NEW t \in Threads, NEW kind, Append1(t, kind),
         UNCHANGED <<run, subscribers, cpc, feed, closing>>,
         \A s \in Runs : pc'[s] = pc[s] \/ pc'[s] \notin {"idle", "close", "signal", "done"}
  PROVE  TerminalInv'
<1>1. /\ Free(t) /\ to[t] = {}
      /\ \A u \in Threads : u # t => to'[u] = to[u] /\ frame'[u] = frame[u]
  BY DEF Append1, DeliveryInv, PushIds, TypeInv, TypeOK
<1>2. ASSUME NEW c \in Clients, c \in subscribers, cpc[c] = "attached"
      PROVE  /\ run \in Runs /\ pc'[run] \notin {"idle", "signal", "done"}
             /\ pc'[run] = "close" =>
                  \/ Told(feed[c])
                  \/ c \in to'[Worker(run)] /\ frame'[Worker(run)].kind \in Terminal
  <2>1. run \in Runs /\ pc'[run] \notin {"idle", "signal", "done"}
        /\ (pc'[run] = "close" => pc[run] = "close")
    BY <1>2 DEF TerminalInv
  <2>2. Worker(run) \in Threads
    BY <2>1 DEF Worker, Threads
  <2> QED
    BY <1>1, <1>2, <2>1, <2>2 DEF TerminalInv
<1> QED
  BY <1>2 DEF TerminalInv, Worker

\* A push hands the terminal frame to those it is owed.
LEMMA PushTerminal ==
  ASSUME DeliveryInv, TerminalInv, NEW t \in Threads, Push(t)
  PROVE  TerminalInv'
<1>0. TypeOK
  BY DEF DeliveryInv, TypeInv
<1>1. /\ ~Free(t) /\ UNCHANGED <<run, pc, subscribers, cpc, closing>>
      /\ \A u \in Threads : u # t => to'[u] = to[u] /\ frame'[u] = frame[u]
      /\ frame[t] \in Frames \cup SnapshotFrames
  BY <1>0 DEF Push, runVars, TypeOK, Free
<1>2. ASSUME NEW c \in Clients
      PROVE  /\ Told(feed[c]) => Told(feed'[c])
             /\ (c \in to[t] /\ cpc[c] = "attached" /\ frame[t].kind \in Terminal) => Told(feed'[c])
  <2>1. feed[c] \in Seq(Frames \cup SnapshotFrames)
    BY <1>0 DEF TypeOK
  <2>2. feed'[c] = IF c \in to[t] /\ cpc[c] = "attached"
                     THEN Append(feed[c], frame[t]) ELSE feed[c]
    BY DEF Push
  <2> QED
    BY <1>1, <2>1, <2>2, ToldMore
<1>3. ASSUME NEW c \in Clients, c \in subscribers, cpc[c] = "attached"
      PROVE  /\ run \in Runs /\ pc[run] \notin {"idle", "signal", "done"}
             /\ pc[run] = "close" =>
                  \/ Told(feed'[c])
                  \/ c \in to'[Worker(run)] /\ frame'[Worker(run)].kind \in Terminal
  <2>1. run \in Runs /\ Worker(run) \in Threads
    BY <1>3 DEF TerminalInv, Worker, Threads
  <2> QED
    BY <1>1, <1>2, <1>3, <2>1 DEF TerminalInv
<1> QED
  BY <1>1, <1>2, <1>3 DEF TerminalInv, Worker

\* The terminal frame goes to everybody registered.
LEMMA FinishTerminal ==
  ASSUME DeliveryInv, ApartInv, TerminalInv, NEW r \in Runs, Finish(r)
  PROVE  TerminalInv'
<1>0. TypeOK /\ SlotInv
  BY DEF DeliveryInv, TypeInv
<1>1. state[r] \in Terminal /\ run = r
  BY <1>0 DEF Finish, SlotInv, SlotPhases, TypeOK, Terminal, ApartInv, Active
<1>2. /\ UNCHANGED <<run, subscribers, cpc, feed, closing>>
      /\ pc'[r] = "close" /\ Worker(r) \in Threads
      /\ to'[Worker(r)] = subscribers /\ frame'[Worker(r)].kind = state[r]
  BY <1>0 DEF Finish, Append1, clientVars, Worker, Threads, TypeOK
<1> QED
  BY <1>1, <1>2 DEF TerminalInv

\* Nothing is owed when the feed is closed.
LEMMA CloseTerminal ==
  ASSUME DeliveryInv, ApartInv, TerminalInv, NEW r \in Runs, CloseFeed(r)
  PROVE  TerminalInv'
<1>0. TypeOK
  BY DEF DeliveryInv, TypeInv
<1>1. run = r /\ pc[r] = "close" /\ Worker(r) \in Threads /\ to[Worker(r)] = {}
  BY DEF CloseFeed, ApartInv, Active, Worker, Threads, DeliveryInv, PushIds
<1>2. /\ UNCHANGED <<run, cpc, feed>> /\ subscribers' = {}
      /\ closing'[r] = subscribers /\ \A s \in Runs : s # r => closing'[s] = closing[s]
  BY <1>0 DEF CloseFeed, clientVars, TypeOK
<1>3. \A c \in Clients : c \in subscribers =>
        cpc[c] # "idle" /\ (cpc[c] = "attached" => Told(feed[c]))
  BY <1>1 DEF TerminalInv, DeliveryInv, Strangers
<1>4. \A s \in Runs, c \in Clients :
        c \in closing'[s] => cpc[c] # "idle" /\ (cpc[c] = "attached" => Told(feed[c]))
  <2> SUFFICES ASSUME NEW s \in Runs, NEW c \in Clients, c \in closing'[s]
               PROVE  cpc[c] # "idle" /\ (cpc[c] = "attached" => Told(feed[c]))
    OBVIOUS
  <2>1. CASE s = r
    BY <1>2, <1>3, <2>1
  <2>2. CASE s # r
    BY <1>2, <2>2 DEF TerminalInv
  <2> QED
    BY <2>1, <2>2
<1> QED
  BY <1>2, <1>4 DEF TerminalInv

\* Whoever is closed was told before the feed was.
LEMMA SignalTerminal ==
  ASSUME DeliveryInv, ApartInv, TerminalInv, NEW r \in Runs, SignalEnd(r)
  PROVE  TerminalInv'
<1>0. TypeOK
  BY DEF DeliveryInv, TypeInv
<1>1. run = r /\ pc[r] = "signal"
  BY DEF SignalEnd, ApartInv, Active
<1>2. \A c \in Clients : c \in subscribers => cpc[c] # "attached"
  BY <1>1 DEF TerminalInv
<1>3. /\ UNCHANGED <<run, subscribers, feed>>
      /\ \A s \in Runs : closing'[s] \subseteq closing[s]
      /\ \A c \in Clients : cpc'[c] = IF c \in closing[r] /\ cpc[c] = "attached"
                                     THEN "closed" ELSE cpc[c]
  BY <1>0 DEF SignalEnd, runVars, TypeOK
<1> QED
  BY <1>2, <1>3 DEF TerminalInv

\* A client becomes attached only to a run that has not settled.
LEMMA SubscribeTerminal ==
  ASSUME DeliveryInv, TerminalInv, NEW c \in Clients, Subscribe(c) \/ Snapshot(c) \/ Leave(c)
  PROVE  TerminalInv'
<1>0. TypeOK /\ SlotInv
  BY DEF DeliveryInv, TypeInv
<1>1. /\ UNCHANGED <<run, pc, frame, to, closing>>
      /\ \A d \in Clients : d # c =>
           /\ cpc'[d] = cpc[d] /\ feed'[d] = feed[d]
           /\ d \in subscribers' => d \in subscribers
  BY <1>0 DEF Subscribe, Snapshot, Leave, threadVars, runVars, TypeOK
<1>2. /\ cpc'[c] \notin {"idle", "closed"}
      /\ cpc'[c] = "attached" =>
           /\ cpc[c] = "idle" /\ run \in Runs /\ pc[run] \in SlotPhases
  BY <1>0 DEF Subscribe, Snapshot, Leave, TypeOK, Running, SlotInv
<1>3. \A d \in Clients : d \in subscribers' /\ cpc'[d] = "attached" =>
        /\ run \in Runs /\ pc[run] \notin {"idle", "signal", "done"}
        /\ pc[run] = "close" =>
             \/ Told(feed'[d])
             \/ d \in to[Worker(run)] /\ frame[Worker(run)].kind \in Terminal
  <2> SUFFICES ASSUME NEW d \in Clients, d \in subscribers', cpc'[d] = "attached"
               PROVE  /\ run \in Runs /\ pc[run] \notin {"idle", "signal", "done"}
                      /\ pc[run] = "close" =>
                           \/ Told(feed'[d])
                           \/ d \in to[Worker(run)] /\ frame[Worker(run)].kind \in Terminal
    OBVIOUS
  <2>1. CASE d = c
    BY <1>2, <2>1 DEF SlotPhases
  <2>2. CASE d # c
    BY <1>1, <2>2 DEF TerminalInv
  <2> QED
    BY <2>1, <2>2
<1>4. \A s \in Runs, d \in Clients : d \in closing[s] =>
        cpc'[d] # "idle" /\ (cpc'[d] = "attached" => Told(feed'[d]))
  <2> SUFFICES ASSUME NEW s \in Runs, NEW d \in Clients, d \in closing[s]
               PROVE  cpc'[d] # "idle" /\ (cpc'[d] = "attached" => Told(feed'[d]))
    OBVIOUS
  <2>1. CASE d = c
    BY <1>2, <2>1 DEF TerminalInv
  <2>2. CASE d # c
    BY <1>1, <2>2 DEF TerminalInv
  <2> QED
    BY <2>1, <2>2
<1>5. \A d \in Clients : cpc'[d] = "closed" => Told(feed'[d])
  BY <1>1, <1>2 DEF TerminalInv
<1> QED
  BY <1>1, <1>3, <1>4, <1>5 DEF TerminalInv, Worker

\* A run starts when nobody is registered with another.
LEMMA StartTerminal ==
  ASSUME DeliveryInv, TerminalInv, NEW r \in Runs, Start(r),
         \A s \in Runs : pc[s] \in {"idle", "done"}
  PROVE  TerminalInv'
<1>1. \A c \in Clients : c \in subscribers => cpc[c] # "attached"
  BY DEF TerminalInv
<1>2. UNCHANGED <<subscribers, cpc, feed, closing>>
  BY DEF Start, clientVars
<1> QED
  BY <1>1, <1>2 DEF TerminalInv

\* Every step that begins no run while another is active keeps it.
LEMMA NextTerminal ==
  ASSUME DeliveryInv, ApartInv, TerminalInv, [Next]_vars, [StartsApart]_vars
  PROVE  TerminalInv'
<1>0. TypeInv /\ TypeOK
  BY DEF DeliveryInv, TypeInv
<1>1. ASSUME NEW r \in Runs, Start(r) PROVE TerminalInv'
  <2>1. pc[r] = "idle" /\ pc'[r] = "announce"
    BY <1>0, <1>1 DEF Start, TypeOK
  <2>2. vars' # vars
    BY <2>1 DEF vars, threadVars
  <2> QED
    BY <1>1, <2>2, StartTerminal DEF StartsApart
<1>2. ASSUME NEW r \in Runs, Announce(r) \/ FlowProgress(r) \/ Relay(r) PROVE TerminalInv'
  <2>1. Worker(r) \in Threads
    BY DEF Worker, Threads
  <2>2. \A s \in Runs : pc'[s] = pc[s] \/ pc'[s] = "read_level"
    BY <1>0, <1>2 DEF Announce, FlowProgress, Relay, TypeOK
  <2>3. UNCHANGED <<run, subscribers, cpc, feed, closing>>
    BY <1>2 DEF Announce, FlowProgress, Relay, clientVars
  <2> QED
    BY <1>2, <2>1, <2>2, <2>3, AppendTerminal DEF Announce, FlowProgress, Relay
<1>3. ASSUME NEW r \in Runs, SampleEmit(r) PROVE TerminalInv'
  <2>1. Sampler(r) \in Threads /\ UNCHANGED <<run, subscribers, cpc, feed, closing, pc>>
    BY <1>3 DEF Sampler, Threads, SampleEmit, clientVars
  <2> QED
    BY <1>0, <1>3, <2>1, AppendTerminal, PhaseTerminal DEF SampleEmit
<1>4. ASSUME NEW r \in Runs,
             \/ ReadLevel(r) \/ PinLevel(r) \/ FlowLog(r) \/ Return(r)
             \/ \E outcome \in Terminal : Settle(r, outcome)
             \/ Restore(r) \/ SamplerStart(r) \/ Join(r)
             \/ SampleRead(r) \/ SamplerExit(r)
      PROVE  TerminalInv'
  <2>1. UNCHANGED <<run, subscribers, cpc, feed, frame, to, closing>>
    BY <1>4 DEF ReadLevel, PinLevel, FlowLog, Return, FlowEnd, Summarize, Settle, Restore, SamplerStart,
       Join, SampleRead, SamplerExit, runVars, threadVars, clientVars
  <2>2. pc' = pc \/ \E phase \in {"pin_level", "flow", "join", "summary", "settle", "restore", "finish"} :
                      pc' = [pc EXCEPT ![r] = phase]
    BY <1>4 DEF ReadLevel, PinLevel, FlowLog, Return, FlowEnd, Summarize, Settle, Restore, SamplerStart,
       Join, SampleRead, SamplerExit, threadVars
  <2>3. \A s \in Runs :
          pc'[s] = pc[s] \/ pc'[s] \in {"pin_level", "flow", "join", "summary", "settle", "restore", "finish"}
    BY <1>0, <2>2 DEF TypeOK
  <2> QED
    BY <1>0, <2>1, <2>3, PhaseTerminal
<1>5. CASE UNCHANGED vars
  BY <1>0, <1>5, PhaseTerminal DEF vars, runVars, threadVars, clientVars
<1>6. CASE \E r \in Runs : Start(r) \/ RunStep(r) \/ Return(r) \/ SamplerStep(r)
  BY <1>1, <1>2, <1>3, <1>4, <1>6, FinishTerminal, CloseTerminal, SignalTerminal
  DEF RunStep, SamplerStep
<1>7. CASE \E c \in Clients : Subscribe(c) \/ Snapshot(c) \/ Leave(c)
  BY <1>7, SubscribeTerminal
<1> QED
  BY <1>5, <1>6, <1>7, PushTerminal DEF Next, Quiet

\* When runs do not overlap, a live client whose stream was closed was given
\* its run's terminal frame before, whenever it subscribed (_close_feed).
THEOREM StreamsCloseAfterTerminal ==
  Spec /\ [][StartsApart]_vars => []ClosedAfterTerminal
<1>1. TerminalInv => ClosedAfterTerminal
  BY DEF TerminalInv, ClosedAfterTerminal, Told
<1>2. Init => DeliveryInv /\ ApartInv /\ TerminalInv
  BY InitDelivery, InitApart, InitTerminal
<1>3. DeliveryInv /\ ApartInv /\ TerminalInv /\ [Next]_vars /\ [StartsApart]_vars
        => DeliveryInv' /\ ApartInv' /\ TerminalInv'
  BY NextDelivery, NextApart, NextTerminal DEF DeliveryInv
<1> QED
  BY <1>1, <1>2, <1>3, PTL DEF Spec
=============================================================================
