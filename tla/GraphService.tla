----------------------------- MODULE GraphService -----------------------------
(***************************************************************************)
(* The owner of the process's one graph session: GraphService              *)
(* (varagity/graph/service.py) with the life of a LightRAG session         *)
(* (graph/engines/lightrag.py: opening, run, close) and the reset a        *)
(* reingest makes before its build (_reset_workdir of                      *)
(* api/graph_runner.py).                                                   *)
(*                                                                         *)
(* A call is a thread: a read (status poll, export, chat turn) asks for    *)
(* the session and runs one coroutine on its loop; a write takes the build *)
(* lock first and runs several, the failed ones included; a reset closes the session, wipes the      *)
(* working directory and asks for a session again before its write; the    *)
(* shutdown closes and is done.  The runner above lets one run at a time   *)
(* write; here the service's own lock has to see to that.                  *)
(***************************************************************************)
EXTENDS Naturals, FiniteSets

CONSTANTS
  Readers,   \* calls that read
  Writers,   \* build, resume and delete_documents calls
  Resets,    \* the writes that wipe the working directory first
  Shutdowns, \* close() from the API's lifespan
  Sessions,  \* bound: the sessions around at once (a stopped one is free again)
  None

ASSUME GraphServiceAssumption ==
  /\ Resets \subseteq Writers
  /\ Readers \cap Writers = {} /\ Shutdowns \cap (Readers \cup Writers) = {}
  /\ None \notin Sessions \cup Readers \cup Writers \cup Shutdowns

VARIABLES
  session,    \* self._session
  openLock,   \* who holds self._open_lock across an open
  buildLock,  \* who holds self._build_lock
  life,       \* of each _LightRAGSession: see Lives
  loaded,     \* how often the directory had been wiped when it read its manifest
  wipes,      \* bound by the resets: how often rmtree has run
  shared,     \* whose state the library's process-global dicts hold
  pc,         \* where each call is
  using       \* the session each call works on, or closes

vars == <<session, openLock, buildLock, life, loaded, wipes, shared, pc, using>>

Calls == Readers \cup Writers \cup Shutdowns

\* A closing session is first closed to new coroutines, then drained of the
\* running ones, then its loop is stopped.
Lives == {"unopened", "opening", "open", "finalizing", "closed", "drained", "stopped"}
LoopRuns(s) == life[s] \in {"opening", "open", "finalizing", "closed", "drained"}

\* A session object nothing refers to.
Unused(s) ==
  life[s] \in {"unopened", "stopped"} /\ \A c \in Calls : using[c] # s

WritePhases == {"write_session", "write_opening", "write_call", "write_submit",
                "write_wait"}

Init ==
  /\ session = None /\ openLock = None /\ buildLock = None
  /\ life = [s \in Sessions |-> "unopened"]
  /\ loaded = [s \in Sessions |-> 0]
  /\ wipes = 0
  /\ shared = None
  /\ pc = [c \in Calls |-> "idle"]
  /\ using = [c \in Calls |-> None]

-----------------------------------------------------------------------------
(* Calls begin *)

StartRead(c) ==
  /\ c \in Readers /\ pc[c] = "idle"
  /\ pc' = [pc EXCEPT ![c] = "read_session"]
  /\ UNCHANGED <<session, openLock, buildLock, life, loaded, wipes, shared, using>>

StartReset(c) ==
  /\ c \in Resets /\ pc[c] = "idle"
  /\ pc' = [pc EXCEPT ![c] = "swap"]
  /\ UNCHANGED <<session, openLock, buildLock, life, loaded, wipes, shared, using>>

StartShutdown(c) ==
  /\ c \in Shutdowns /\ pc[c] = "idle"
  /\ pc' = [pc EXCEPT ![c] = "swap"]
  /\ UNCHANGED <<session, openLock, buildLock, life, loaded, wipes, shared, using>>

\* Mutant of StartWrite: a refused write is left in a phase nothing ends.
StartWriteQueued(c) ==
  /\ \/ c \in Writers \ Resets /\ pc[c] = "idle"
     \/ pc[c] = "build"
  /\ IF buildLock = None
       THEN buildLock' = c /\ pc' = [pc EXCEPT ![c] = "write_session"]
       ELSE UNCHANGED buildLock /\ pc' = [pc EXCEPT ![c] = "queued"]
  /\ UNCHANGED <<session, openLock, life, loaded, wipes, shared, using>>

\* _writing(): without blocking; a second write is refused.
StartWrite(c) ==
  /\ \/ c \in Writers \ Resets /\ pc[c] = "idle"
     \/ pc[c] = "build"
  /\ IF buildLock = None
       THEN buildLock' = c /\ pc' = [pc EXCEPT ![c] = "write_session"]
       ELSE UNCHANGED buildLock /\ pc' = [pc EXCEPT ![c] = "done"]
  /\ UNCHANGED <<session, openLock, life, loaded, wipes, shared, using>>

-----------------------------------------------------------------------------
(* session() *)

Wants(c) == pc[c] \in {"read_session", "write_session", "reopen"}

Opening(phase) ==
  CASE phase = "read_session" -> "read_opening"
    [] phase = "write_session" -> "write_opening"
    [] phase = "reopen" -> "reopening"

\* With a session in hand, a call runs its coroutine; a reset needs no more.
Opened(phase) ==
  CASE phase \in {"read_session", "read_opening"} -> "read_call"
    [] phase \in {"write_session", "write_opening"} -> "write_call"
    [] phase \in {"reopen", "reopening"} -> "build"

\* Mutant of Session: reads take the write lock too.
SessionWhenNotBuilding(c) ==
  /\ Wants(c) /\ openLock = None /\ session # None
  /\ buildLock \in {None, c}
  /\ using' = [using EXCEPT ![c] = session]
  /\ pc' = [pc EXCEPT ![c] = Opened(pc[c])]
  /\ UNCHANGED <<session, openLock, buildLock, life, loaded, wipes, shared>>

\* Under the lock, the open session is everybody's.
Session(c) ==
  /\ Wants(c) /\ openLock = None /\ session # None
  /\ using' = [using EXCEPT ![c] = session]
  /\ pc' = [pc EXCEPT ![c] = Opened(pc[c])]
  /\ UNCHANGED <<session, openLock, buildLock, life, loaded, wipes, shared>>

\* Mutant of Open: opens without taking the lock.
OpenUnlocked(c) ==
  /\ Wants(c) /\ session = None
  /\ \E s \in Sessions : Unused(s)
  /\ LET s == CHOOSE u \in Sessions : Unused(u)
     IN  /\ life' = [life EXCEPT ![s] = "opening"]
         /\ loaded' = [loaded EXCEPT ![s] = wipes]
         /\ using' = [using EXCEPT ![c] = s]
  /\ openLock' = c
  /\ pc' = [pc EXCEPT ![c] = Opening(pc[c])]
  /\ UNCHANGED <<session, buildLock, wipes, shared>>

\* ... or there is none, and this caller opens one with the lock held: the
\* directory is made if it is gone, and the manifest in it is read.
Open(c) ==
  /\ Wants(c) /\ openLock = None /\ session = None
  /\ \E s \in Sessions : Unused(s)
  /\ LET s == CHOOSE u \in Sessions : Unused(u)
     IN  /\ life' = [life EXCEPT ![s] = "opening"]
         /\ loaded' = [loaded EXCEPT ![s] = wipes]
         /\ using' = [using EXCEPT ![c] = s]
  /\ openLock' = c
  /\ pc' = [pc EXCEPT ![c] = Opening(pc[c])]
  /\ UNCHANGED <<session, buildLock, wipes, shared>>

\* The storages are initialized: the library attaches to whatever its global
\* dicts hold, and fills them only when they are empty.
Initialized(c) ==
  /\ openLock = c
  /\ LET s == using[c]
     IN  /\ life' = [life EXCEPT ![s] = "open"]
         /\ shared' = IF shared = None THEN s ELSE shared
         /\ session' = s
  /\ openLock' = None
  /\ pc' = [pc EXCEPT ![c] = Opened(pc[c])]
  /\ UNCHANGED <<buildLock, loaded, wipes, using>>

\* A call that ends, with a result or an exception, gives up what it holds.
EndCall(c) ==
  /\ pc' = [pc EXCEPT ![c] = "done"]
  /\ using' = [using EXCEPT ![c] = None]
  /\ buildLock' = IF buildLock = c THEN None ELSE buildLock

\* Mutant of OpenFails: the write lock is given back on success only.
OpenFailsHoldingLock(c) ==
  /\ openLock = c
  /\ life' = [life EXCEPT ![using[c]] = "stopped"]
  /\ shared' = None
  /\ openLock' = None
  /\ pc' = [pc EXCEPT ![c] = "done"]
  /\ using' = [using EXCEPT ![c] = None]
  /\ UNCHANGED <<session, buildLock, loaded, wipes>>

\* GraphUnavailable: the session closes itself, and nothing is cached.
OpenFails(c) ==
  /\ openLock = c
  /\ life' = [life EXCEPT ![using[c]] = "stopped"]
  /\ shared' = None
  /\ openLock' = None
  /\ EndCall(c)
  /\ UNCHANGED <<session, loaded, wipes>>

-----------------------------------------------------------------------------
(* _LightRAGSession.run() *)

\* The check of _closed; a read whose session is closed has failed.  A write's
\* is one more failed document, enqueue or pass: _delete, _enqueue, _process and
\* _purge_dup_stubs swallow it, and the write is still where it was.
Call(c) ==
  /\ \/ /\ pc[c] \in {"read_call", "write_call"}
        /\ life[using[c]] \in {"open", "finalizing"}
        /\ pc' = [pc EXCEPT ![c] = IF @ = "read_call" THEN "read_submit" ELSE "write_submit"]
        /\ UNCHANGED <<buildLock, using>>
     \/ /\ pc[c] = "read_call" /\ life[using[c]] \notin {"open", "finalizing"}
        /\ EndCall(c)
  /\ UNCHANGED <<session, openLock, life, loaded, wipes, shared>>

\* Some time after it, the coroutine's submission, which a closed loop refuses.
Submit(c) ==
  /\ \/ /\ pc[c] \in {"read_submit", "write_submit"} /\ LoopRuns(using[c])
        /\ pc' = [pc EXCEPT ![c] = IF @ = "read_submit" THEN "read_wait" ELSE "write_wait"]
        /\ UNCHANGED <<buildLock, using>>
     \/ /\ pc[c] = "read_submit" /\ ~LoopRuns(using[c])
        /\ EndCall(c)
     \/ /\ pc[c] = "write_submit" /\ ~LoopRuns(using[c])
        /\ pc' = [pc EXCEPT ![c] = "write_call"]
        /\ UNCHANGED <<buildLock, using>>
  /\ UNCHANGED <<session, openLock, life, loaded, wipes, shared>>

\* The loop delivers a result or an error.  A stopped loop never does.
ReadResult(c) ==
  /\ pc[c] = "read_wait" /\ LoopRuns(using[c])
  /\ EndCall(c)
  /\ UNCHANGED <<session, openLock, life, loaded, wipes, shared>>

WriteResult(c) ==
  /\ pc[c] = "write_wait" /\ LoopRuns(using[c])
  /\ pc' = [pc EXCEPT ![c] = "write_call"]
  /\ UNCHANGED <<session, openLock, buildLock, life, loaded, wipes, shared, using>>

\* After the last coroutine the write saves the manifest, and is done.
EndWrite(c) ==
  /\ pc[c] = "write_call"
  /\ EndCall(c)
  /\ UNCHANGED <<session, openLock, life, loaded, wipes, shared>>

-----------------------------------------------------------------------------
(* GraphService.close() and _LightRAGSession.close() *)

\* After a reset's close comes its rmtree; after a shutdown's, nothing.
AfterClose(c) == IF c \in Resets THEN "wipe" ELSE "done"

\* Mutant of Swap: the session is closed but not forgotten.
SwapKeepsSession(c) ==
  /\ pc[c] = "swap" /\ openLock = None
  /\ IF session = None
       THEN pc' = [pc EXCEPT ![c] = AfterClose(c)] /\ UNCHANGED <<life, using>>
       ELSE /\ pc' = [pc EXCEPT ![c] = "close"]
            /\ using' = [using EXCEPT ![c] = session]
            /\ life' = [life EXCEPT ![session] = "finalizing"]
  /\ UNCHANGED <<session, openLock, buildLock, loaded, wipes, shared>>

\* Under the lock: forget the session, so that the next caller opens another.
Swap(c) ==
  /\ pc[c] = "swap" /\ openLock = None
  /\ IF session = None
       THEN pc' = [pc EXCEPT ![c] = AfterClose(c)] /\ UNCHANGED <<life, using>>
       ELSE /\ pc' = [pc EXCEPT ![c] = "close"]
            /\ using' = [using EXCEPT ![c] = session]
            /\ life' = [life EXCEPT ![session] = "finalizing"]
  /\ session' = None
  /\ UNCHANGED <<openLock, buildLock, loaded, wipes, shared>>

\* The storages are finalized, or failed to be, and the session says so.
Finalize(c) ==
  /\ pc[c] = "close" /\ life[using[c]] = "finalizing"
  /\ life' = [life EXCEPT ![using[c]] = "closed"]
  /\ UNCHANGED <<session, openLock, buildLock, loaded, wipes, shared, pc, using>>

\* _drain_loop_tasks: the coroutines on the loop are cancelled, but for those
\* that will not die within the timeout.  A cancelled read has failed; a write
\* takes the cancellation for one more failed call and goes on to the next.
Drain(c) ==
  /\ pc[c] = "close" /\ life[using[c]] = "closed"
  /\ \E cancelled \in SUBSET {d \in Calls : using[d] = using[c]
                                             /\ pc[d] \in {"read_wait", "write_wait"}} :
       LET reads == cancelled \cap Readers
       IN  /\ pc' = [d \in Calls |-> IF d \in reads THEN "done"
                                     ELSE IF d \in cancelled THEN "write_call" ELSE pc[d]]
           /\ using' = [d \in Calls |-> IF d \in reads THEN None ELSE using[d]]
  /\ life' = [life EXCEPT ![using[c]] = "drained"]
  /\ UNCHANGED <<session, openLock, buildLock, loaded, wipes, shared>>

\* The loop is stopped, its thread joined, and the global dicts are reset.
Stop(c) ==
  /\ pc[c] = "close" /\ life[using[c]] = "drained"
  /\ life' = [life EXCEPT ![using[c]] = "stopped"]
  /\ shared' = None
  /\ pc' = [pc EXCEPT ![c] = AfterClose(c)]
  /\ using' = [using EXCEPT ![c] = None]
  /\ UNCHANGED <<session, openLock, buildLock, loaded, wipes>>

\* _reset_workdir's rmtree, between its close() and its session().
Wipe(c) ==
  /\ pc[c] = "wipe"
  /\ wipes' = wipes + 1
  /\ pc' = [pc EXCEPT ![c] = "reopen"]
  /\ UNCHANGED <<session, openLock, buildLock, life, loaded, shared, using>>

-----------------------------------------------------------------------------

\* A call's own thread, but for how long the engine takes over a coroutine ...
Step(c) ==
  \/ StartWrite(c) /\ pc[c] = "build"
  \/ Session(c) \/ Open(c) \/ Initialized(c) \/ OpenFails(c)
  \/ Call(c) \/ Submit(c) \/ EndWrite(c)
  \/ Swap(c) \/ Drain(c) \/ Stop(c) \/ Wipe(c)

\* ... which run() waits for without a timeout.
Engine(c) == ReadResult(c) \/ WriteResult(c) \/ Finalize(c)

Start(c) ==
  \/ StartRead(c) \/ StartReset(c) \/ StartShutdown(c)
  \/ pc[c] = "idle" /\ StartWrite(c)

Next == \E c \in Calls : Start(c) \/ Step(c) \/ Engine(c)

Spec == Init /\ [][Next]_vars

\* Threads are scheduled, an open comes to an end, and a read's coroutine
\* completes as long as its loop runs.  Nothing says that a build's ever does
\* (it may extract for days), nor that of a close.
Fairness == \A c \in Calls : WF_vars(Step(c)) /\ WF_vars(ReadResult(c))
FairSpec == Spec /\ Fairness

-----------------------------------------------------------------------------
(* Properties *)

TypeOK ==
  /\ session \in Sessions \cup {None}
  /\ openLock \in Calls \cup {None}
  /\ buildLock \in Writers \cup {None}
  /\ life \in [Sessions -> Lives]
  /\ loaded \in [Sessions -> Nat]
  /\ wipes \in Nat
  /\ shared \in Sessions \cup {None}
  /\ pc \in [Calls -> {"idle", "read_session", "read_opening", "read_call",
                       "read_submit", "read_wait", "swap", "close", "wipe",
                       "reopen", "reopening", "build", "done"} \cup WritePhases]
  /\ using \in [Calls -> Sessions \cup {None}]

\* No session is lost: one that is open is the service's, or some call is
\* opening or closing it - two first callers cannot open two, and what close()
\* took out of the service it tears down.
NoLeakedSession ==
  \A s \in Sessions :
    /\ life[s] = "opening" => \E c \in Calls : openLock = c /\ using[c] = s
    /\ life[s] = "open" => session = s
    /\ life[s] \in {"finalizing", "closed", "drained"} =>
         \E c \in Calls : pc[c] = "close" /\ using[c] = s

\* The service hands out no session that is being closed.
HandsOutOpen == session # None => life[session] = "open"

\* Builds, resumes and deletes exclude one another (_writing, _WriteLock): the
\* write lock is held by exactly the one of them that is past StartWrite and not
\* over.  It is given back when that call is over, also by a session that would
\* not open; a session that closes under a write ends neither the write nor its
\* hold on the lock.
WriteLock == {c \in Writers : pc[c] \in WritePhases} = {buildLock} \ {None}

\* run() raises "If the session is already closed (its loop is gone, so the call
\* could never complete)": no write waits on a stopped loop, holding the write
\* lock for ever.
WritersAreAnswered ==
  \A c \in Writers : pc[c] = "write_wait" => life[using[c]] # "stopped"

\* "Reads deliberately take neither" lock: a read is answered however long a
\* build goes on, unless its session is closed under it.
ReadsAnswered ==
  \A c \in Readers :
    pc[c] = "read_session" ~>
      pc[c] = "done" \/ (pc[c] = "read_wait" /\ life[using[c]] = "stopped")

\* _reset_workdir drops the working directory "so the build starts clean": the
\* session it then builds on has read its manifest after that wipe, and is not
\* attached to what an earlier session left in the library's global dicts.
ResetStartsClean ==
  \A c \in Resets :
    pc[c] = "build" => loaded[using[c]] = wipes /\ shared = using[c]
=============================================================================
