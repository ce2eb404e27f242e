-------------------------- MODULE GraphServiceProofs --------------------------
(***************************************************************************)
(* The locking of GraphService, for any number of calls and sessions: no   *)
(* session is lost or handed out while it is being closed, and the write   *)
(* lock is held by the one call that is writing.                           *)
(***************************************************************************)
EXTENDS GraphService, TLAPS

ClosingLives == {"finalizing", "closed", "drained"}
OpenPhases == {"read_opening", "write_opening", "reopening"}
ResetPhases == {"wipe", "reopen", "reopening", "build"}
ReadPhases == {"read_session", "read_opening", "read_call", "read_submit", "read_wait"}

\* While the open lock is held there is no session, and its holder opens one.
LockInv ==
  openLock # None =>
    /\ openLock \in Calls /\ pc[openLock] \in OpenPhases
    /\ session = None
    /\ using[openLock] \in Sessions /\ life[using[openLock]] = "opening"

\* Each closing session has one closer.
CloseInv ==
  /\ \A c \in Calls : pc[c] = "close" =>
       using[c] \in Sessions /\ life[using[c]] \in ClosingLives
  /\ \A c, d \in Calls : pc[c] = "close" /\ pc[d] = "close" /\ using[c] = using[d] => c = d

\* Only writes come to the phases that lead to and follow the write lock.
PhaseInv ==
  \A c \in Calls : pc[c] \in ResetPhases \cup WritePhases => c \in Writers

\* Only reads wait for a read.
ReadInv ==
  \A c \in Calls : pc[c] \in ReadPhases => c \in Readers

ServiceInv ==
  /\ TypeOK /\ LockInv /\ CloseInv /\ PhaseInv /\ ReadInv
  /\ NoLeakedSession /\ HandsOutOpen /\ WriteLock

-----------------------------------------------------------------------------

\* At first there is no session and no lock is held.
LEMMA InitService == Init => ServiceInv
  BY GraphServiceAssumption
  DEF Init, ServiceInv, TypeOK, LockInv, CloseInv, PhaseInv, ReadInv, NoLeakedSession,
      HandsOutOpen, WriteLock, Lives, Calls, ResetPhases, ReadPhases, WritePhases

\* A call that begins holds nothing, but for a write, the build lock.
LEMMA StartStep ==
  ASSUME ServiceInv, NEW c \in Calls, Start(c) PROVE ServiceInv'
<1> USE GraphServiceAssumption
    DEF ServiceInv, TypeOK, Lives, Calls, WritePhases, ResetPhases, ReadPhases, OpenPhases
<1>1. TypeOK'
  BY DEF Start, StartRead, StartReset, StartShutdown, StartWrite, PhaseInv, ReadInv
<1>2. LockInv'
  BY DEF Start, StartRead, StartReset, StartShutdown, StartWrite, LockInv
<1>3. CloseInv'
  BY DEF Start, StartRead, StartReset, StartShutdown, StartWrite, CloseInv
<1>4. PhaseInv' /\ ReadInv'
  BY DEF Start, StartRead, StartReset, StartShutdown, StartWrite, PhaseInv, ReadInv
<1>5. NoLeakedSession'
  BY DEF Start, StartRead, StartReset, StartShutdown, StartWrite, NoLeakedSession
<1>6. HandsOutOpen'
  BY DEF Start, StartRead, StartReset, StartShutdown, StartWrite, HandsOutOpen
<1>7. WriteLock'
  BY DEF Start, StartRead, StartReset, StartShutdown, StartWrite, WriteLock
<1> QED BY <1>1, <1>2, <1>3, <1>4, <1>5, <1>6, <1>7 DEF ServiceInv

\* The open session is handed to one more call.
LEMMA SessionStep ==
  ASSUME ServiceInv, NEW c \in Calls, Session(c) PROVE ServiceInv'
<1> USE GraphServiceAssumption
    DEF ServiceInv, TypeOK, Lives, Calls, WritePhases, ResetPhases, ReadPhases, OpenPhases
<1>1. /\ Wants(c) /\ openLock = None /\ session \in Sessions
      /\ using' = [using EXCEPT ![c] = session]
      /\ pc' = [pc EXCEPT ![c] = Opened(pc[c])]
      /\ UNCHANGED <<session, openLock, buildLock, life, loaded, wipes, shared>>
  BY DEF Session
<1>2. /\ pc[c] = "read_session" => Opened(pc[c]) = "read_call"
      /\ pc[c] = "write_session" => Opened(pc[c]) = "write_call"
      /\ pc[c] = "reopen" => Opened(pc[c]) = "build"
  BY DEF Opened
<1>3. TypeOK'
  BY <1>1, <1>2 DEF Wants
<1>4. LockInv'
  BY <1>1, <1>2 DEF LockInv, Wants
<1>5. CloseInv'
  BY <1>1, <1>2 DEF CloseInv, Wants
<1>6. PhaseInv' /\ ReadInv'
  BY <1>1, <1>2 DEF PhaseInv, ReadInv, Wants
<1>7. NoLeakedSession'
  BY <1>1, <1>2 DEF NoLeakedSession, Wants
<1>8. HandsOutOpen' /\ WriteLock'
  BY <1>1, <1>2 DEF HandsOutOpen, WriteLock, Wants
<1> QED BY <1>3, <1>4, <1>5, <1>6, <1>7, <1>8 DEF ServiceInv

\* A first caller takes the open lock and an unused session.
LEMMA OpenStep ==
  ASSUME ServiceInv, NEW c \in Calls, Open(c) PROVE ServiceInv'
<1> USE GraphServiceAssumption
    DEF ServiceInv, TypeOK, Lives, Calls, WritePhases, ResetPhases, ReadPhases, OpenPhases
<1>1. PICK s \in Sessions :
        /\ Unused(s)
        /\ life' = [life EXCEPT ![s] = "opening"]
        /\ loaded' = [loaded EXCEPT ![s] = wipes]
        /\ using' = [using EXCEPT ![c] = s]
  BY DEF Open
<1>2. /\ Wants(c) /\ openLock = None /\ session = None
      /\ openLock' = c /\ pc' = [pc EXCEPT ![c] = Opening(pc[c])]
      /\ UNCHANGED <<session, buildLock, wipes, shared>>
  BY DEF Open
<1>3. /\ pc[c] = "read_session" => Opening(pc[c]) = "read_opening"
      /\ pc[c] = "write_session" => Opening(pc[c]) = "write_opening"
      /\ pc[c] = "reopen" => Opening(pc[c]) = "reopening"
  BY DEF Opening
<1>4. life[s] \in {"unopened", "stopped"}
  BY <1>1 DEF Unused
<1>5. TypeOK'
  BY <1>1, <1>2, <1>3 DEF Wants
<1>6. LockInv'
  BY <1>1, <1>2, <1>3 DEF LockInv, Wants
<1>7. CloseInv'
  BY <1>1, <1>2, <1>3, <1>4 DEF CloseInv, Wants, ClosingLives
<1>8. PhaseInv' /\ ReadInv'
  BY <1>1, <1>2, <1>3 DEF PhaseInv, ReadInv, Wants
<1>9. NoLeakedSession'
  BY <1>1, <1>2, <1>3, <1>4 DEF NoLeakedSession, Wants
<1>10. HandsOutOpen' /\ WriteLock'
  BY <1>1, <1>2, <1>3 DEF HandsOutOpen, WriteLock, Wants
<1> QED BY <1>5, <1>6, <1>7, <1>8, <1>9, <1>10 DEF ServiceInv

\* The opened session becomes the service's.
LEMMA InitializedStep ==
  ASSUME ServiceInv, NEW c \in Calls, Initialized(c) PROVE ServiceInv'
<1> USE GraphServiceAssumption
    DEF ServiceInv, TypeOK, Lives, Calls, WritePhases, ResetPhases, ReadPhases, OpenPhases
<1>1. /\ openLock = c /\ using[c] \in Sessions /\ session = None
      /\ pc[c] \in OpenPhases
      /\ life' = [life EXCEPT ![using[c]] = "open"]
      /\ shared' = IF shared = None THEN using[c] ELSE shared
      /\ session' = using[c] /\ openLock' = None
      /\ pc' = [pc EXCEPT ![c] = Opened(pc[c])]
      /\ UNCHANGED <<buildLock, loaded, wipes, using>>
  BY DEF Initialized, LockInv
<1>2. /\ pc[c] = "read_opening" => Opened(pc[c]) = "read_call"
      /\ pc[c] = "write_opening" => Opened(pc[c]) = "write_call"
      /\ pc[c] = "reopening" => Opened(pc[c]) = "build"
  BY DEF Opened
<1>3. TypeOK'
  BY <1>1, <1>2
<1>4. LockInv'
  BY <1>1 DEF LockInv
<1>5. CloseInv'
  BY <1>1, <1>2 DEF CloseInv, LockInv, ClosingLives
<1>6. PhaseInv' /\ ReadInv'
  BY <1>1, <1>2 DEF PhaseInv, ReadInv
<1>7. NoLeakedSession'
  BY <1>1, <1>2 DEF NoLeakedSession, LockInv
<1>8. HandsOutOpen' /\ WriteLock'
  BY <1>1, <1>2 DEF HandsOutOpen, WriteLock
<1> QED BY <1>3, <1>4, <1>5, <1>6, <1>7, <1>8 DEF ServiceInv

\* An open that fails leaves neither session nor lock.
LEMMA OpenFailsStep ==
  ASSUME ServiceInv, NEW c \in Calls, OpenFails(c) PROVE ServiceInv'
<1> USE GraphServiceAssumption
    DEF ServiceInv, TypeOK, Lives, Calls, WritePhases, ResetPhases, ReadPhases, OpenPhases
<1>1. /\ openLock = c /\ using[c] \in Sessions /\ session = None
      /\ pc[c] \in OpenPhases
      /\ life' = [life EXCEPT ![using[c]] = "stopped"]
      /\ shared' = None /\ openLock' = None
      /\ pc' = [pc EXCEPT ![c] = "done"] /\ using' = [using EXCEPT ![c] = None]
      /\ buildLock' = IF buildLock = c THEN None ELSE buildLock
      /\ UNCHANGED <<session, loaded, wipes>>
  BY DEF OpenFails, EndCall, LockInv
<1>2. TypeOK' /\ LockInv' /\ PhaseInv' /\ ReadInv'
  BY <1>1 DEF LockInv, PhaseInv, ReadInv
<1>3. CloseInv'
  BY <1>1 DEF CloseInv, LockInv, ClosingLives
<1>4. NoLeakedSession'
  BY <1>1 DEF NoLeakedSession, LockInv
<1>5. HandsOutOpen' /\ WriteLock'
  BY <1>1 DEF HandsOutOpen, WriteLock
<1> QED BY <1>2, <1>3, <1>4, <1>5 DEF ServiceInv

\* Steps that only move calls between reading, writing and done.
LEMMA RunStep ==
  ASSUME ServiceInv, NEW c \in Calls,
         Call(c) \/ Submit(c) \/ ReadResult(c) \/ WriteResult(c) \/ EndWrite(c)
  PROVE  ServiceInv'
<1> USE GraphServiceAssumption
    DEF ServiceInv, TypeOK, Lives, Calls, WritePhases, ResetPhases, ReadPhases, OpenPhases
<1> DEFINE CallPhases == {"read_call", "read_submit", "read_wait"}
           Writing == {"write_call", "write_submit", "write_wait"}
<1>1. PICK next \in {"done"} \cup CallPhases \cup Writing :
        /\ pc[c] \in CallPhases \cup Writing
        /\ pc' = [pc EXCEPT ![c] = next]
        /\ \/ next = "done" /\ using' = [using EXCEPT ![c] = None]
              /\ buildLock' = IF buildLock = c THEN None ELSE buildLock
           \/ /\ pc[c] \in CallPhases => next \in CallPhases
              /\ pc[c] \in Writing => next \in Writing
              /\ UNCHANGED <<buildLock, using>>
        /\ UNCHANGED <<session, openLock, life, loaded, wipes, shared>>
  <2>1. CASE Call(c)
    BY <2>1 DEF Call, EndCall
  <2>2. CASE Submit(c)
    BY <2>2 DEF Submit, EndCall
  <2>3. CASE ReadResult(c)
    BY <2>3 DEF ReadResult, EndCall
  <2>4. CASE WriteResult(c)
    BY <2>4 DEF WriteResult
  <2>5. CASE EndWrite(c)
    BY <2>5 DEF EndWrite, EndCall
  <2> QED BY <2>1, <2>2, <2>3, <2>4, <2>5
<1>2. TypeOK' /\ PhaseInv' /\ ReadInv'
  BY <1>1 DEF PhaseInv, ReadInv
<1>3. LockInv'
  BY <1>1 DEF LockInv
<1>4. CloseInv'
  BY <1>1 DEF CloseInv
<1>5. NoLeakedSession' /\ HandsOutOpen'
  BY <1>1 DEF NoLeakedSession, HandsOutOpen, LockInv
<1>6. WriteLock'
  BY <1>1 DEF WriteLock
<1> QED BY <1>2, <1>3, <1>4, <1>5, <1>6 DEF ServiceInv

\* close() takes the session out of the service; it has one closer.
LEMMA SwapStep ==
  ASSUME ServiceInv, NEW c \in Calls, Swap(c) PROVE ServiceInv'
<1> USE GraphServiceAssumption
    DEF ServiceInv, TypeOK, Lives, Calls, WritePhases, ResetPhases, ReadPhases, OpenPhases
<1>1. /\ pc[c] = "swap" /\ openLock = None /\ session' = None
      /\ UNCHANGED <<openLock, buildLock, loaded, wipes, shared>>
      /\ AfterClose(c) \in {"wipe", "done"}
      /\ AfterClose(c) = "wipe" => c \in Writers
  BY DEF Swap, AfterClose
<1>2. CASE session = None
  <2>1. pc' = [pc EXCEPT ![c] = AfterClose(c)] /\ UNCHANGED <<life, using>>
    BY <1>2 DEF Swap
  <2>2. TypeOK' /\ LockInv' /\ PhaseInv' /\ ReadInv' /\ HandsOutOpen'
    BY <1>1, <1>2, <2>1 DEF LockInv, PhaseInv, ReadInv, HandsOutOpen
  <2>3. CloseInv' /\ WriteLock'
    BY <1>1, <1>2, <2>1 DEF CloseInv, WriteLock
  <2>4. NoLeakedSession'
    BY <1>1, <1>2, <2>1 DEF NoLeakedSession
  <2> QED BY <2>2, <2>3, <2>4 DEF ServiceInv
<1>3. CASE session # None
  <2>1. /\ session \in Sessions /\ life[session] = "open"
        /\ pc' = [pc EXCEPT ![c] = "close"]
        /\ using' = [using EXCEPT ![c] = session]
        /\ life' = [life EXCEPT ![session] = "finalizing"]
    BY <1>3 DEF Swap, HandsOutOpen
  <2>2. TypeOK' /\ LockInv' /\ PhaseInv' /\ ReadInv' /\ HandsOutOpen'
    BY <1>1, <2>1 DEF LockInv, PhaseInv, ReadInv, HandsOutOpen
  <2>3. CloseInv'
    BY <1>1, <2>1 DEF CloseInv, ClosingLives
  <2>4. WriteLock'
    BY <1>1, <2>1 DEF WriteLock
  <2>5. NoLeakedSession'
    BY <1>1, <2>1 DEF NoLeakedSession
  <2> QED BY <2>2, <2>3, <2>4, <2>5 DEF ServiceInv
<1> QED BY <1>2, <1>3

\* The closer finalizes its session.
LEMMA FinalizeStep ==
  ASSUME ServiceInv, NEW c \in Calls, Finalize(c) PROVE ServiceInv'
<1> USE GraphServiceAssumption
    DEF ServiceInv, TypeOK, Lives, Calls, WritePhases, ResetPhases, ReadPhases, OpenPhases, Finalize
<1>1. using[c] \in Sessions
  BY DEF CloseInv
<1>2. TypeOK' /\ PhaseInv' /\ ReadInv' /\ WriteLock'
  BY <1>1 DEF PhaseInv, ReadInv, WriteLock
<1>3. LockInv' /\ HandsOutOpen'
  BY <1>1 DEF LockInv, HandsOutOpen
<1>4. CloseInv' /\ NoLeakedSession'
  BY <1>1 DEF CloseInv, NoLeakedSession, ClosingLives
<1> QED BY <1>2, <1>3, <1>4 DEF ServiceInv

\* The drain ends reads on its session, and sends writes back to their calls.
LEMMA DrainStep ==
  ASSUME ServiceInv, NEW c \in Calls, Drain(c) PROVE ServiceInv'
<1> USE GraphServiceAssumption
    DEF ServiceInv, TypeOK, Lives, Calls, WritePhases, ResetPhases, ReadPhases, OpenPhases
<1>1. PICK cancelled \in SUBSET {d \in Calls : using[d] = using[c]
                                    /\ pc[d] \in {"read_wait", "write_wait"}} :
        /\ pc' = [d \in Calls |-> IF d \in cancelled \cap Readers THEN "done"
                                  ELSE IF d \in cancelled THEN "write_call" ELSE pc[d]]
        /\ using' = [d \in Calls |-> IF d \in cancelled \cap Readers THEN None ELSE using[d]]
  BY DEF Drain
<1>2. /\ pc[c] = "close" /\ life[using[c]] = "closed" /\ using[c] \in Sessions
      /\ life' = [life EXCEPT ![using[c]] = "drained"]
      /\ UNCHANGED <<session, openLock, buildLock, loaded, wipes, shared>>
  BY DEF Drain, CloseInv
<1>3. \A d \in cancelled : /\ pc[d] \in {"read_wait", "write_wait"}
                           /\ d \in Readers => pc[d] = "read_wait"
                           /\ d \notin Readers => d \in Writers /\ pc[d] = "write_wait"
  BY <1>1 DEF PhaseInv, ReadInv
<1>4. TypeOK' /\ PhaseInv' /\ ReadInv'
  BY <1>1, <1>2, <1>3 DEF PhaseInv, ReadInv
<1>5. LockInv' /\ HandsOutOpen'
  BY <1>1, <1>2, <1>3 DEF LockInv, HandsOutOpen
<1>6. CloseInv'
  BY <1>1, <1>2, <1>3 DEF CloseInv, ClosingLives
<1>7. NoLeakedSession'
  BY <1>1, <1>2, <1>3 DEF NoLeakedSession, LockInv
<1>8. WriteLock'
  BY <1>1, <1>2, <1>3 DEF WriteLock
<1> QED BY <1>4, <1>5, <1>6, <1>7, <1>8 DEF ServiceInv

\* The closer stops its session's loop.
LEMMA StopStep ==
  ASSUME ServiceInv, NEW c \in Calls, Stop(c) PROVE ServiceInv'
<1> USE GraphServiceAssumption
    DEF ServiceInv, TypeOK, Lives, Calls, WritePhases, ResetPhases, ReadPhases, OpenPhases
<1>1. /\ pc[c] = "close" /\ life[using[c]] = "drained" /\ using[c] \in Sessions
      /\ life' = [life EXCEPT ![using[c]] = "stopped"]
      /\ shared' = None
      /\ pc' = [pc EXCEPT ![c] = AfterClose(c)]
      /\ using' = [using EXCEPT ![c] = None]
      /\ UNCHANGED <<session, openLock, buildLock, loaded, wipes>>
      /\ AfterClose(c) \in {"wipe", "done"}
      /\ AfterClose(c) = "wipe" => c \in Writers
  BY DEF Stop, CloseInv, AfterClose
<1>2. TypeOK' /\ PhaseInv' /\ ReadInv'
  BY <1>1 DEF PhaseInv, ReadInv
<1>3. LockInv' /\ HandsOutOpen' /\ WriteLock'
  BY <1>1 DEF LockInv, HandsOutOpen, WriteLock
<1>4. CloseInv'
  BY <1>1 DEF CloseInv, ClosingLives
<1>5. NoLeakedSession'
  BY <1>1 DEF NoLeakedSession, CloseInv
<1> QED BY <1>2, <1>3, <1>4, <1>5 DEF ServiceInv

\* A reset wipes the directory.
LEMMA WipeStep ==
  ASSUME ServiceInv, NEW c \in Calls, Wipe(c) PROVE ServiceInv'
<1> USE GraphServiceAssumption
    DEF ServiceInv, TypeOK, Lives, Calls, WritePhases, ResetPhases, ReadPhases, OpenPhases, Wipe
<1>1. TypeOK' /\ PhaseInv' /\ ReadInv' /\ LockInv' /\ HandsOutOpen'
  BY DEF PhaseInv, ReadInv, LockInv, HandsOutOpen
<1>2. CloseInv' /\ WriteLock'
  BY DEF CloseInv, WriteLock
<1>3. NoLeakedSession'
  BY DEF NoLeakedSession
<1> QED BY <1>1, <1>2, <1>3 DEF ServiceInv

\* A write taken after a reset.
LEMMA BuildStep ==
  ASSUME ServiceInv, NEW c \in Calls, StartWrite(c), pc[c] = "build" PROVE ServiceInv'
<1> USE GraphServiceAssumption
    DEF ServiceInv, TypeOK, Lives, Calls, WritePhases, ResetPhases, ReadPhases,
        OpenPhases, StartWrite
<1>1. TypeOK' /\ PhaseInv' /\ ReadInv'
  BY DEF PhaseInv, ReadInv
<1>2. LockInv' /\ HandsOutOpen' /\ CloseInv'
  BY DEF LockInv, HandsOutOpen, CloseInv
<1>3. NoLeakedSession'
  BY DEF NoLeakedSession
<1>4. WriteLock'
  <2>1. CASE buildLock = None
    BY <2>1 DEF WriteLock, PhaseInv, ReadInv
  <2>2. CASE buildLock # None
    BY <2>2 DEF WriteLock
  <2> QED BY <2>1, <2>2
<1> QED BY <1>1, <1>2, <1>3, <1>4 DEF ServiceInv

\* Every step keeps the service's invariant.
LEMMA ServiceStep == ServiceInv /\ [Next]_vars => ServiceInv'
<1> SUFFICES ASSUME ServiceInv, [Next]_vars PROVE ServiceInv'
  OBVIOUS
<1>1. CASE UNCHANGED vars
  BY <1>1
  DEF vars, ServiceInv, TypeOK, LockInv, CloseInv, PhaseInv, ReadInv, NoLeakedSession,
      HandsOutOpen, WriteLock
<1>2. ASSUME NEW c \in Calls, Start(c) PROVE ServiceInv'
  BY <1>2, StartStep
<1>3. ASSUME NEW c \in Calls, Step(c) PROVE ServiceInv'
  BY <1>3, BuildStep, SessionStep, OpenStep, InitializedStep, OpenFailsStep,
     RunStep, SwapStep, DrainStep, StopStep, WipeStep DEF Step
<1>4. ASSUME NEW c \in Calls, Engine(c) PROVE ServiceInv'
  BY <1>4, RunStep, FinalizeStep DEF Engine
<1> QED BY <1>1, <1>2, <1>3, <1>4 DEF Next

\* The invariant holds in every reachable state.
LEMMA ServiceAlways == Spec => []ServiceInv
  BY InitService, ServiceStep, PTL DEF Spec

-----------------------------------------------------------------------------

\* Whatever calls overlap, an open session is the service's own or the business
\* of the call that opens or closes it: close() and two first callers of
\* session() never leave one behind.
THEOREM SessionsAreOwned == Spec => []NoLeakedSession
  BY ServiceAlways, PTL DEF ServiceInv

\* session() never returns a session a close() has taken out of the service.
THEOREM SessionIsOpen == Spec => []HandsOutOpen
  BY ServiceAlways, PTL DEF ServiceInv

\* Exactly the one write in progress holds the build lock, whatever calls fail
\* and whichever sessions close.
THEOREM WritesAreExclusive == Spec => []WriteLock
  BY ServiceAlways, PTL DEF ServiceInv
=============================================================================
