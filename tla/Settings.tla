------------------------------ MODULE Settings ------------------------------
(***************************************************************************)
(* The runtime settings layer (api/runtime_settings.py): overrides live in *)
(* a table, in a process-wide dict and in the process environment, and     *)
(* what the rest of the program reads is a cached Settings object built    *)
(* from the environment.  Requests run in threads of one process: a PATCH  *)
(* merges its changes over the active overrides, swaps the environment     *)
(* name by name under a lock, validates what results, and then writes its  *)
(* rows one by one; every other request just calls get_settings.           *)
(*                                                                         *)
(* The names of the catalog are swapped in any order (the code has one).   *)
(***************************************************************************)
EXTENDS Naturals, FiniteSets

CONSTANTS
  Names,      \* OVERRIDABLE
  Values,     \* env-strings
  Default,    \* the values of the fields when the environment has none
  Base,       \* the environment the process is started with
  Accepted,   \* the settings every validator of config.py lets pass
  Patches,    \* the PATCH bodies: the names they change, Unset to clear
  Requests,   \* the requests of a history
  MaxFaults,  \* writes to the table that fail
  MaxRestarts

Unset == "unset"        \* no such variable, override or row
NotTaken == "not taken" \* no snapshot of the variable
Empty == [n \in {} |-> Unset] \* nothing cached
Nobody == "nobody"

Settings == [Names -> Values]
Overrides == [Names -> Values \cup {Unset}]

ASSUME SettingsAssumption ==
  /\ Unset \notin Values /\ NotTaken \notin Values \cup {Unset}
  /\ Default \in Settings /\ Base \in Overrides /\ Accepted \subseteq Settings
  /\ Names # {} /\ Nobody \notin Requests
  /\ \A patch \in Patches : \* SettingsPatchRequest has min_length=1
       /\ DOMAIN patch # {} /\ DOMAIN patch \subseteq Names
       /\ \A n \in DOMAIN patch : patch[n] \in Values \cup {Unset}
  /\ MaxFaults \in Nat /\ MaxRestarts \in Nat

VARIABLES
  env,       \* os.environ, of the names of the catalog
  baseline,  \* _baseline_env
  active,    \* _active
  cache,     \* the one entry of get_settings' lru_cache
  lock,      \* _lock
  table,     \* app_settings
  request,   \* the requests' threads
  faults, restarts,
  apart      \* history: the table and the process have had a reason to differ

process == <<env, baseline, active, cache, lock>>
vars == <<process, table, request, faults, restarts, apart>>

NoOverride == [n \in Names |-> Unset]
NoBaseline == [n \in Names |-> NotTaken]

\* What Settings() reads from an environment.
Effective(environment) ==
  [n \in Names |-> IF environment[n] = Unset THEN Default[n] ELSE environment[n]]

\* The environment with overrides exported over what it was.
Over(overrides) ==
  [n \in Names |-> IF overrides[n] = Unset THEN Base[n] ELSE overrides[n]]

\* The route's candidate: the patch over the active overrides.
Merge(overrides, patch) ==
  [n \in Names |-> IF n \in DOMAIN patch THEN patch[n] ELSE overrides[n]]

\* load_persisted_overrides: all the rows, or none when they do not validate.
Replayed(rows) == IF Effective(Over(rows)) \in Accepted THEN rows ELSE NoOverride

\* patch: the body (no names for a request that only reads); then: the step a
\* call of get_settings returns to; undo, target: the two override sets of
\* apply_overrides; todo: the names of the running loop; previous: the
\* overrides the route read; built: what get_settings returns.
NewRequest ==
  [step |-> "new", patch |-> Empty, then |-> "", undo |-> NoOverride,
   target |-> NoOverride, previous |-> NoOverride, todo |-> {}, built |-> Default,
   answer |-> 0]

\* create_app has filled the cache before the rows are replayed.
Init ==
  /\ table = NoOverride
  /\ env = Base /\ baseline = NoBaseline /\ active = NoOverride
  /\ cache = Effective(Base) /\ lock = Nobody
  /\ request = [r \in Requests |-> NewRequest]
  /\ faults = 0 /\ restarts = 0 /\ apart = FALSE

At(r, step) == request[r].step = step
Patching(r) == DOMAIN request[r].patch # {} /\ ~At(r, "end")

Goto(r, step) == request' = [request EXCEPT ![r].step = step]
Answer(r, status) == request' = [request EXCEPT ![r].step = "end", ![r].answer = status]

-----------------------------------------------------------------------------
\* GET of anything: the request reads the settings.
Read(r) ==
  /\ At(r, "new")
  /\ request' = [request EXCEPT ![r].step = "look", ![r].then = "served"]
  /\ UNCHANGED <<process, table, faults, restarts, apart>>

\* PATCH /api/settings; it reads the settings for the later comparison.
Patch(r, patch) ==
  /\ At(r, "new")
  /\ request' = [request EXCEPT ![r].step = "look", ![r].then = "merge", ![r].patch = patch]
  /\ apart' = (apart \/ \E other \in Requests : Patching(other))
  /\ UNCHANGED <<process, table, faults, restarts>>

\* get_settings finds an entry.
Hit(r) ==
  /\ At(r, "look") /\ cache # Empty
  /\ request' = [request EXCEPT ![r].step = request[r].then, ![r].built = cache]
  /\ UNCHANGED <<process, table, faults, restarts, apart>>

\* It finds none and starts to build one.
Miss(r) ==
  /\ At(r, "look") /\ cache = Empty
  /\ request' = [request EXCEPT ![r].step = "build", ![r].built = Effective(env)]
  /\ UNCHANGED <<process, table, faults, restarts, apart>>

\* The call stores what it built, unless another call has in the meantime;
\* what it read from the environment may have changed since.
Build(r) ==
  /\ At(r, "build") /\ request[r].built \in Accepted
  /\ cache' = IF cache = Empty THEN request[r].built ELSE cache
  /\ Goto(r, request[r].then)
  /\ UNCHANGED <<env, baseline, active, lock, table, faults, restarts, apart>>

\* A validator raises: nothing is cached, and it is the applying PATCH that
\* rolls back; any other request fails.
Reject(r) ==
  /\ At(r, "build") /\ request[r].built \notin Accepted
  /\ IF request[r].then = "commit"
     THEN request' = [request EXCEPT ![r].step = "swap", ![r].then = "refuse",
                        ![r].target = request[r].undo, ![r].todo = Names]
     ELSE Answer(r, 500)
  /\ UNCHANGED <<process, table, faults, restarts, apart>>

Serve(r) ==
  /\ At(r, "served")
  /\ Answer(r, 200)
  /\ UNCHANGED <<process, table, faults, restarts, apart>>

\* active_overrides(), the copy the patch is merged over.
ReadActive(r) ==
  /\ At(r, "merge") /\ lock = Nobody
  /\ request' = [request EXCEPT ![r].step = "apply", ![r].previous = active,
                   ![r].target = Merge(active, request[r].patch)]
  /\ UNCHANGED <<process, table, faults, restarts, apart>>

\* What the route answers when apply_overrides goes through, and when it
\* raises: the first call is the PATCH's, the second its rollback's.
Applied(r) == IF At(r, "revert") THEN 503 ELSE 200
Refused(r) == IF request[r].answer = 503 THEN 500 ELSE 422

\* apply_overrides takes the lock.
Acquire(r) ==
  /\ (At(r, "apply") \/ At(r, "revert")) /\ lock = Nobody
  /\ lock' = r
  /\ request' = [request EXCEPT ![r].step = "swap", ![r].undo = active, ![r].todo = Names,
                   ![r].answer = Applied(r), ![r].then = "commit"]
  /\ UNCHANGED <<env, baseline, active, cache, table, faults, restarts, apart>>

\* Mutant of Swap: the snapshot is taken on every export, not the first.
SwapAnew(r, n) ==
  /\ At(r, "swap") /\ n \in request[r].todo
  /\ IF request[r].target[n] # Unset
     THEN /\ baseline' = [baseline EXCEPT ![n] = env[n]]
          /\ env' = [env EXCEPT ![n] = request[r].target[n]]
     ELSE /\ env' = IF baseline[n] = NotTaken THEN env ELSE [env EXCEPT ![n] = baseline[n]]
          /\ baseline' = [baseline EXCEPT ![n] = NotTaken]
  /\ request' = [request EXCEPT ![r].todo = @ \ {n}]
  /\ UNCHANGED <<active, cache, lock, table, faults, restarts, apart>>

\* One turn of _swap_env's loop: export, or restore what was there.
Swap(r, n) ==
  /\ At(r, "swap") /\ n \in request[r].todo
  /\ IF request[r].target[n] # Unset
     THEN /\ baseline' = IF baseline[n] = NotTaken THEN [baseline EXCEPT ![n] = env[n]]
                         ELSE baseline
          /\ env' = [env EXCEPT ![n] = request[r].target[n]]
     ELSE /\ env' = IF baseline[n] = NotTaken THEN env ELSE [env EXCEPT ![n] = baseline[n]]
          /\ baseline' = [baseline EXCEPT ![n] = NotTaken]
  /\ request' = [request EXCEPT ![r].todo = @ \ {n}]
  /\ UNCHANGED <<active, cache, lock, table, faults, restarts, apart>>

\* Its end: cache_clear.  The applying call builds the settings next; the
\* one that has rolled back does not.
Clear(r) ==
  /\ At(r, "swap") /\ request[r].todo = {}
  /\ cache' = Empty
  /\ Goto(r, IF request[r].then = "refuse" THEN "refuse" ELSE "look")
  /\ UNCHANGED <<env, baseline, active, lock, table, faults, restarts, apart>>

\* The new overrides are the active ones, and the lock is released.
Commit(r) ==
  /\ At(r, "commit")
  /\ active' = request[r].target /\ lock' = Nobody
  /\ request' = [request EXCEPT
                   ![r].step = IF request[r].answer = 503 THEN "end" ELSE "persist",
                   ![r].todo = DOMAIN request[r].patch]
  /\ UNCHANGED <<env, baseline, cache, table, faults, restarts, apart>>

\* Mutant of Refuse: the exception leaves without the lock's release.
RefuseLocked(r) ==
  /\ At(r, "refuse")
  /\ Answer(r, Refused(r))
  /\ UNCHANGED <<process, table, faults, restarts, apart>>

\* 422 after the rollback; a failing rollback of a failed write is a 500.
Refuse(r) ==
  /\ At(r, "refuse")
  /\ lock' = Nobody
  /\ Answer(r, Refused(r))
  /\ UNCHANGED <<env, baseline, active, cache, table, faults, restarts, apart>>

\* Mutant of Persist: a cleared override keeps its row.
PersistSet(r, n) ==
  /\ At(r, "persist") /\ n \in request[r].todo
  /\ table' = IF request[r].patch[n] = Unset THEN table
              ELSE [table EXCEPT ![n] = request[r].patch[n]]
  /\ request' = [request EXCEPT ![r].todo = @ \ {n}]
  /\ UNCHANGED <<process, faults, restarts, apart>>

\* set_override or delete_override, in a transaction of its own.
Persist(r, n) ==
  /\ At(r, "persist") /\ n \in request[r].todo
  /\ table' = [table EXCEPT ![n] = request[r].patch[n]]
  /\ request' = [request EXCEPT ![r].todo = @ \ {n}]
  /\ UNCHANGED <<process, faults, restarts, apart>>

\* A statement fails, of a row or of the stale flag: the process goes back to
\* the overrides the route had read.  The rows already written stay.
PersistFails(r) ==
  /\ At(r, "persist") /\ faults < MaxFaults
  /\ faults' = faults + 1 /\ apart' = TRUE
  /\ request' = [request EXCEPT ![r].step = "revert", ![r].target = request[r].previous]
  /\ UNCHANGED <<process, table, restarts>>

\* 200, with the stale flags read (and set, see CorpusIngest) on the way.
Reply(r) ==
  /\ At(r, "persist") /\ request[r].todo = {}
  /\ Answer(r, 200)
  /\ UNCHANGED <<process, table, faults, restarts, apart>>

\* The process dies and starts again: the rows are replayed before the first
\* request; a PATCH on its way to the table has been cut short.
Restart ==
  /\ restarts < MaxRestarts /\ restarts' = restarts + 1
  /\ active' = Replayed(table)
  /\ env' = Over(Replayed(table))
  /\ baseline' = [n \in Names |-> IF Replayed(table)[n] = Unset THEN NotTaken ELSE Base[n]]
  /\ cache' = IF Replayed(table) = table THEN Effective(Over(table)) ELSE Empty
  /\ lock' = Nobody
  /\ apart' = (apart \/ Replayed(table) # table \/ \E r \in Requests : Patching(r))
  /\ request' = [r \in Requests |-> IF At(r, "new") THEN request[r]
                                    ELSE [NewRequest EXCEPT !.step = "end"]]
  /\ UNCHANGED <<table, faults>>

Step(r) ==
  \/ Hit(r) \/ Miss(r) \/ Build(r) \/ Reject(r) \/ Serve(r) \/ ReadActive(r) \/ Acquire(r)
  \/ Clear(r) \/ Commit(r) \/ Refuse(r) \/ Reply(r)
  \/ \E n \in Names : Swap(r, n) \/ Persist(r, n)

Next ==
  \/ \E r \in Requests :
       \/ Read(r) \/ Step(r) \/ PersistFails(r)
       \/ \E patch \in Patches : Patch(r, patch)
  \/ Restart

\* A thread runs on; who gets a contended lock is up to the threads.
Spec == Init /\ [][Next]_vars /\ \A r \in Requests : WF_vars(Step(r))

-----------------------------------------------------------------------------
TypeOK ==
  /\ env \in Overrides /\ active \in Overrides /\ table \in Overrides
  /\ baseline \in [Names -> Values \cup {Unset, NotTaken}]
  /\ cache \in Settings \cup {Empty}
  /\ lock \in Requests \cup {Nobody}

\* Whenever no PATCH holds the lock the environment is the one the process
\* was started with under exactly the active overrides, and the snapshots are
\* the ones clearing them needs: neither a refused PATCH nor a rolled back
\* one, nor any interleaving of them, leaves a name half-applied or a cleared
\* override exported (_swap_env, apply_overrides).
EnvironmentIsActive ==
  lock = Nobody =>
    /\ env = Over(active)
    /\ \A n \in Names : baseline[n] = IF active[n] = Unset THEN NotTaken ELSE Base[n]

\* "the process never diverges from the table" (routes/settings.py:116-117),
\* with what it takes: PATCHes one at a time, no failed write, no crash in the
\* middle of one, and no start that drops the rows because they do not
\* validate.  Then whatever was answered is what runs, before and after any
\* restart.
TableIsActive ==
  ~apart /\ (\A r \in Requests : ~Patching(r)) => active = table

\* "could not persist overrides - nothing changed" (routes/settings.py:174):
\* a PATCH that is rolled back leaves the table as it found it.
FailedChangesNothing ==
  [][\A r \in Requests :
       At(r, "persist") /\ request'[r].step = "revert" => table = request[r].previous]_vars

\* "an invalid merge rolls the environment back and raises, so a bad PATCH can
\* never leave the process half-configured" (runtime_settings.py:16-18).
AppliedIsValidated == lock = Nobody => Effective(env) \in Accepted

\* No request waits for the lock for ever.
RequestsEnd == \A r \in Requests : ~At(r, "new") ~> At(r, "end")
=============================================================================
