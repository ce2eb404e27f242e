----------------------------- MODULE SingleFlight -----------------------------
(***************************************************************************)
(* What a single-flight slot promises: one holder at a time, only the      *)
(* holder works, and a job that gave the slot back never takes it again.   *)
(* The run slot of the ingest and graph runners implements it (RunFeed).   *)
(***************************************************************************)
CONSTANTS
  Jobs,   \* the jobs that may want the slot
  None    \* nobody holds it

VARIABLES
  holder,   \* the job the slot belongs to
  working,  \* jobs doing the guarded work
  over      \* jobs that gave the slot back

vars == <<holder, working, over>>

Init == holder = None /\ working = {} /\ over = {}

Claim(j) ==
  /\ holder = None /\ j \notin over
  /\ holder' = j
  /\ UNCHANGED <<working, over>>

Begin(j) ==
  /\ holder = j /\ j \notin working
  /\ working' = working \cup {j}
  /\ UNCHANGED <<holder, over>>

End(j) ==
  /\ j \in working
  /\ working' = working \ {j}
  /\ UNCHANGED <<holder, over>>

Release(j) ==
  /\ holder = j /\ j \notin working
  /\ holder' = None
  /\ over' = over \cup {j}
  /\ UNCHANGED working

Next == \E j \in Jobs : Claim(j) \/ Begin(j) \/ End(j) \/ Release(j)

Spec == Init /\ [][Next]_vars

\* No two jobs ever work at once, and nobody works without the slot.
Exclusive == \A j \in working : holder = j
=============================================================================
