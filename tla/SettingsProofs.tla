---------------------------- MODULE SettingsProofs ----------------------------
(***************************************************************************)
(* The swap of the environment under the lock, for any catalog, any bodies *)
(* and any number of requests: whoever interleaves with it, the            *)
(* environment ends up under exactly the active overrides, and PATCHes     *)
(* that do not overlap leave process and table alike.                      *)
(***************************************************************************)
EXTENDS Settings, TLAPS

Steps == {"new", "look", "build", "served", "merge", "apply", "swap", "commit", "refuse",
          "persist", "revert", "end"}

Thens == {"", "served", "merge", "commit", "refuse"}
Answers == {0, 200, 422, 500, 503}
RequestType ==
  [step : Steps, patch : Patches \cup {Empty}, then : Thens, undo : Overrides,
   target : Overrides, previous : Overrides, todo : SUBSET Names, built : Settings,
   answer : Answers]

TypeInv == TypeOK /\ request \in [Requests -> RequestType] /\ apart \in BOOLEAN

\* Where a call of get_settings returns to, and that only a PATCH comes to
\* the steps of a PATCH.
Flow(r) ==
  /\ At(r, "new") => request[r].patch = Empty
  /\ request[r].step \in {"look", "build"} =>
       \/ request[r].then = "served"
       \/ request[r].then \in {"merge", "commit"} /\ DOMAIN request[r].patch # {}
  /\ request[r].step \in {"merge", "apply", "swap", "commit", "refuse", "persist", "revert"} =>
       DOMAIN request[r].patch # {}
  /\ At(r, "swap") => request[r].then \in {"commit", "refuse"}
  /\ At(r, "commit") => request[r].then = "commit"
  /\ At(r, "persist") => request[r].todo \subseteq DOMAIN request[r].patch
  /\ At(r, "refuse") => request[r].then = "refuse"
FlowInv == \A r \in Requests : Flow(r)

\* The request is inside apply_overrides.
Applying(r) ==
  \/ request[r].step \in {"swap", "commit", "refuse"}
  \/ request[r].step \in {"look", "build"} /\ request[r].then = "commit"

\* A name is exported, or not, as the overrides ask.
Configured(n, overrides) ==
  /\ env[n] = IF overrides[n] = Unset THEN Base[n] ELSE overrides[n]
  /\ baseline[n] = IF overrides[n] = Unset THEN NotTaken ELSE Base[n]

\* Whatever a name is set to, what it was can be found again.
Restorable(n) == baseline[n] = Base[n] \/ (baseline[n] = NotTaken /\ env[n] = Base[n])

\* In the middle of the loop the names behind it are as the target asks, and
\* the active overrides are what a rollback goes back to.
Swapping(r) ==
  /\ lock = r /\ request[r].undo = active
  /\ \A n \in Names : Restorable(n)
  /\ \A n \in Names \ request[r].todo : Configured(n, request[r].target)
  /\ ~At(r, "swap") => request[r].todo = {}
  /\ request[r].then = "refuse" => request[r].target = active
EnvInv ==
  /\ lock = Nobody => \A n \in Names : Configured(n, active)
  /\ \A r \in Requests : Applying(r) => Swapping(r)

\* How far a PATCH that nothing disturbs is.
Persisting(r) ==
  /\ ~At(r, "persist") => active = table
  /\ ~At(r, "revert")
  /\ At(r, "apply") => request[r].target = Merge(active, request[r].patch)
  /\ Applying(r) =>
       /\ request[r].answer = 200
       /\ request[r].then = "commit" => request[r].target = Merge(active, request[r].patch)
  /\ At(r, "persist") => \A n \in Names :
       active[n] = IF n \in request[r].todo THEN request[r].patch[n] ELSE table[n]
TableInv ==
  ~apart =>
    /\ \A r, q \in Requests : Patching(r) /\ Patching(q) => r = q
    /\ (\A r \in Requests : ~Patching(r)) => active = table
    /\ \A r \in Requests : Patching(r) => Persisting(r)

SettingsInv == TypeInv /\ FlowInv /\ EnvInv /\ TableInv

-----------------------------------------------------------------------------
\* What the operators on overrides return.
LEMMA OverrideTypes ==
  /\ NoOverride \in Overrides /\ NoBaseline \in [Names -> Values \cup {Unset, NotTaken}]
  /\ \A o \in Overrides : Over(o) \in Overrides /\ Effective(o) \in Settings
  /\ \A o \in Overrides : Replayed(o) \in Overrides
  /\ \A o \in Overrides, patch \in Patches : Merge(o, patch) \in Overrides
  /\ DOMAIN Empty = {}
<1> USE SettingsAssumption DEF Overrides, Settings
<1>1. NoOverride \in Overrides /\ NoBaseline \in [Names -> Values \cup {Unset, NotTaken}]
  BY DEF NoOverride, NoBaseline
<1>2. \A o \in Overrides : Over(o) \in Overrides /\ Effective(o) \in Settings
  BY DEF Over, Effective
<1>3. \A o \in Overrides : Replayed(o) \in Overrides
  BY <1>1 DEF Replayed
<1>4. \A o \in Overrides, patch \in Patches : Merge(o, patch) \in Overrides
  BY DEF Merge
<1>5. DOMAIN Empty = {}
  BY DEF Empty
<1> QED BY <1>1, <1>2, <1>3, <1>4, <1>5

\* The labels of the steps, in the form record types need them.
LEMMA Labels ==
  /\ "look" \in Steps /\ "build" \in Steps /\ "apply" \in Steps /\ "swap" \in Steps
  /\ "refuse" \in Steps /\ "persist" \in Steps /\ "revert" \in Steps /\ "end" \in Steps
  /\ {"served", "merge", "commit"} \subseteq Steps
  /\ {"served", "merge", "commit", "refuse"} \subseteq Thens
  /\ {200, 422, 500, 503} \subseteq Answers
  BY DEF Steps, Thens, Answers

\* One request's record changes and the others' do not.
LEMMA Updated ==
  ASSUME TypeInv, NEW r \in Requests, NEW new \in RequestType,
         request' = [request EXCEPT ![r] = new]
  PROVE  /\ request' \in [Requests -> RequestType] /\ request'[r] = new
         /\ \A q \in Requests \ {r} : request'[q] = request[q]
  BY DEF TypeInv

\* At first nothing is overridden.
LEMMA InitSettings == Init => SettingsInv
<1> SUFFICES ASSUME Init PROVE SettingsInv OBVIOUS
<1> USE SettingsAssumption, OverrideTypes DEF Init
<1>1. \A r \in Requests : request[r] = NewRequest /\ At(r, "new") /\ ~Patching(r) /\ ~Applying(r)
  BY DEF NewRequest, At, Patching, Applying
<1>2. NewRequest \in RequestType
  BY DEF NewRequest, RequestType, Steps, Thens, Answers, Settings
<1>3. TypeInv
  BY <1>2 DEF TypeInv, TypeOK, Overrides
<1>4. FlowInv
  BY <1>1 DEF FlowInv, Flow, At, NewRequest
<1>5. EnvInv
  BY <1>1 DEF EnvInv, Configured, NoOverride, NoBaseline
<1>6. TableInv
  BY <1>1 DEF TableInv
<1> QED BY <1>3, <1>4, <1>5, <1>6 DEF SettingsInv

-----------------------------------------------------------------------------
\* One action at a time.

\* A reader begins.
LEMMA ReadStep ==
  ASSUME SettingsInv, NEW r \in Requests, Read(r)
  PROVE  SettingsInv'
<1> USE DEF SettingsInv
<1>1. /\ request[r] \in RequestType /\ Flow(r)
      /\ env \in Overrides /\ active \in Overrides /\ cache \in Settings \cup {Empty}
  BY DEF TypeInv, TypeOK, FlowInv
<1> DEFINE new == [request[r] EXCEPT !.step = "look", !.then = "served"]
<1>2. /\ At(r, "new")
      /\ request' = [request EXCEPT ![r] = new]
      /\ UNCHANGED <<env, baseline, active, cache, lock, table, apart>>
  BY <1>1 DEF Read, process, Goto, Answer
<1>3. /\ "look" \in Steps /\ "served" \in Thens
  BY <1>1, <1>2, Labels, OverrideTypes DEF RequestType
<1>4. new \in RequestType
  BY <1>1, <1>3 DEF RequestType
<1>5. /\ new.step = "look" /\ new.then = "served"
      /\ new.patch = request[r].patch /\ new.undo = request[r].undo
      /\ new.target = request[r].target /\ new.previous = request[r].previous
      /\ new.todo = request[r].todo /\ new.built = request[r].built
      /\ new.answer = request[r].answer
  BY <1>1 DEF RequestType
<1>6. /\ request' \in [Requests -> RequestType] /\ request'[r] = new
      /\ \A q \in Requests \ {r} : request'[q] = request[q]
  BY <1>2, <1>4, Updated
<1> HIDE DEF new
<1>7. TypeInv'
  BY <1>1, <1>2, <1>3, <1>6, OverrideTypes DEF TypeInv, TypeOK
<1>8. FlowInv'
  BY <1>1, <1>2, <1>5, <1>6 DEF FlowInv, Flow, At
<1>9. EnvInv'
  BY <1>1, <1>2, <1>5, <1>6
  DEF EnvInv, Applying, Swapping, Configured, Restorable, Flow, At
<1>10. TableInv'
  BY <1>1, <1>2, <1>5, <1>6 DEF TableInv, Patching, Applying, Persisting, Flow, At
<1> QED BY <1>7, <1>8, <1>9, <1>10

\* A PATCH begins, alone or not.
LEMMA PatchStep ==
  ASSUME SettingsInv, NEW r \in Requests, NEW patch \in Patches, Patch(r, patch)
  PROVE  SettingsInv'
<1> USE DEF SettingsInv
<1>1. /\ request[r] \in RequestType /\ Flow(r)
      /\ env \in Overrides /\ active \in Overrides /\ cache \in Settings \cup {Empty}
  BY DEF TypeInv, TypeOK, FlowInv
<1> DEFINE new == [request[r] EXCEPT !.step = "look", !.then = "merge", !.patch = patch]
<1>2. /\ At(r, "new") /\ apart' = (apart \/ \E other \in Requests : Patching(other))
      /\ request' = [request EXCEPT ![r] = new]
      /\ UNCHANGED <<env, baseline, active, cache, lock, table>>
  BY <1>1 DEF Patch, process, Goto, Answer
<1>3. /\ "look" \in Steps /\ "merge" \in Thens /\ patch \in Patches
  BY <1>1, <1>2, Labels, OverrideTypes DEF RequestType
<1>4. new \in RequestType
  BY <1>1, <1>3 DEF RequestType
<1>5. /\ new.step = "look" /\ new.then = "merge" /\ new.patch = patch
      /\ new.undo = request[r].undo /\ new.target = request[r].target
      /\ new.previous = request[r].previous /\ new.todo = request[r].todo
      /\ new.built = request[r].built /\ new.answer = request[r].answer
  BY <1>1 DEF RequestType
<1>6. /\ request' \in [Requests -> RequestType] /\ request'[r] = new
      /\ \A q \in Requests \ {r} : request'[q] = request[q]
  BY <1>2, <1>4, Updated
<1> HIDE DEF new
<1>7. TypeInv'
  BY <1>1, <1>2, <1>3, <1>6, OverrideTypes DEF TypeInv, TypeOK
<1>8. FlowInv'
  BY <1>1, <1>2, <1>5, <1>6, SettingsAssumption DEF FlowInv, Flow, At
<1>9. EnvInv'
  BY <1>1, <1>2, <1>5, <1>6
  DEF EnvInv, Applying, Swapping, Configured, Restorable, Flow, At
<1>10. TableInv'
  <2> SUFFICES ASSUME ~apart' PROVE TableInv' BY DEF TableInv
  <2>1. ~apart /\ \A q \in Requests : ~Patching(q)
    BY <1>2 DEF TypeInv
  <2>2. active = table
    BY <2>1 DEF TableInv
  <2>3. \A q \in Requests \ {r} : ~Patching(q)'
    BY <2>1, <1>6 DEF Patching, At
  <2>4. Persisting(r)'
    BY <2>2, <1>2, <1>5, <1>6 DEF Persisting, Applying, At
  <2>5. Patching(r)'
    BY <1>5, <1>6, SettingsAssumption DEF Patching, At
  <2> QED BY <2>3, <2>4, <2>5 DEF TableInv
<1> QED BY <1>7, <1>8, <1>9, <1>10

\* The settings are cached.
LEMMA HitStep ==
  ASSUME SettingsInv, NEW r \in Requests, Hit(r)
  PROVE  SettingsInv'
<1> USE DEF SettingsInv
<1>1. /\ request[r] \in RequestType /\ Flow(r)
      /\ env \in Overrides /\ active \in Overrides /\ cache \in Settings \cup {Empty}
  BY DEF TypeInv, TypeOK, FlowInv
<1> DEFINE new == [request[r] EXCEPT !.step = request[r].then, !.built = cache]
<1>2. /\ At(r, "look") /\ cache # Empty
      /\ request' = [request EXCEPT ![r] = new]
      /\ UNCHANGED <<env, baseline, active, cache, lock, table, apart>>
  BY <1>1 DEF Hit, process, Goto, Answer
<1>3. /\ request[r].then \in Steps /\ cache \in Settings
  BY <1>1, <1>2, Labels, OverrideTypes DEF RequestType, Flow, At
<1>4. new \in RequestType
  BY <1>1, <1>3 DEF RequestType
<1>5. /\ new.step = request[r].then /\ new.built = cache
      /\ new.patch = request[r].patch /\ new.then = request[r].then
      /\ new.undo = request[r].undo /\ new.target = request[r].target
      /\ new.previous = request[r].previous /\ new.todo = request[r].todo
      /\ new.answer = request[r].answer
  BY <1>1 DEF RequestType
<1>6. /\ request' \in [Requests -> RequestType] /\ request'[r] = new
      /\ \A q \in Requests \ {r} : request'[q] = request[q]
  BY <1>2, <1>4, Updated
<1> HIDE DEF new
<1>7. TypeInv'
  BY <1>1, <1>2, <1>3, <1>6, OverrideTypes DEF TypeInv, TypeOK
<1>8. FlowInv'
  BY <1>1, <1>2, <1>5, <1>6 DEF FlowInv, Flow, At
<1>9. EnvInv'
  BY <1>1, <1>2, <1>5, <1>6
  DEF EnvInv, Applying, Swapping, Configured, Restorable, Flow, At
<1>10. TableInv'
  BY <1>1, <1>2, <1>5, <1>6 DEF TableInv, Patching, Applying, Persisting, Flow, At
<1> QED BY <1>7, <1>8, <1>9, <1>10

\* They are not.
LEMMA MissStep ==
  ASSUME SettingsInv, NEW r \in Requests, Miss(r)
  PROVE  SettingsInv'
<1> USE DEF SettingsInv
<1>1. /\ request[r] \in RequestType /\ Flow(r)
      /\ env \in Overrides /\ active \in Overrides /\ cache \in Settings \cup {Empty}
  BY DEF TypeInv, TypeOK, FlowInv
<1> DEFINE new == [request[r] EXCEPT !.step = "build", !.built = Effective(env)]
<1>2. /\ At(r, "look")
      /\ request' = [request EXCEPT ![r] = new]
      /\ UNCHANGED <<env, baseline, active, cache, lock, table, apart>>
  BY <1>1 DEF Miss, process, Goto, Answer
<1>3. /\ "build" \in Steps /\ Effective(env) \in Settings
  BY <1>1, <1>2, Labels, OverrideTypes DEF RequestType
<1>4. new \in RequestType
  BY <1>1, <1>3 DEF RequestType
<1>5. /\ new.step = "build" /\ new.built = Effective(env)
      /\ new.patch = request[r].patch /\ new.then = request[r].then
      /\ new.undo = request[r].undo /\ new.target = request[r].target
      /\ new.previous = request[r].previous /\ new.todo = request[r].todo
      /\ new.answer = request[r].answer
  BY <1>1 DEF RequestType
<1>6. /\ request' \in [Requests -> RequestType] /\ request'[r] = new
      /\ \A q \in Requests \ {r} : request'[q] = request[q]
  BY <1>2, <1>4, Updated
<1> HIDE DEF new
<1>7. TypeInv'
  BY <1>1, <1>2, <1>3, <1>6, OverrideTypes DEF TypeInv, TypeOK
<1>8. FlowInv'
  BY <1>1, <1>2, <1>5, <1>6 DEF FlowInv, Flow, At
<1>9. EnvInv'
  BY <1>1, <1>2, <1>5, <1>6
  DEF EnvInv, Applying, Swapping, Configured, Restorable, Flow, At
<1>10. TableInv'
  BY <1>1, <1>2, <1>5, <1>6 DEF TableInv, Patching, Applying, Persisting, Flow, At
<1> QED BY <1>7, <1>8, <1>9, <1>10

\* They are built and cached.
LEMMA BuildStep ==
  ASSUME SettingsInv, NEW r \in Requests, Build(r)
  PROVE  SettingsInv'
<1> USE DEF SettingsInv
<1>1. /\ request[r] \in RequestType /\ Flow(r)
      /\ env \in Overrides /\ active \in Overrides /\ cache \in Settings \cup {Empty}
  BY DEF TypeInv, TypeOK, FlowInv
<1> DEFINE new == [request[r] EXCEPT !.step = request[r].then]
<1>2. /\ At(r, "build") /\ cache' = IF cache = Empty THEN request[r].built ELSE cache
      /\ request' = [request EXCEPT ![r] = new]
      /\ UNCHANGED <<env, baseline, active, lock, table, apart>>
  BY <1>1 DEF Build, process, Goto, Answer
<1>3. /\ request[r].then \in Steps
  BY <1>1, <1>2, Labels, OverrideTypes DEF RequestType, Flow, At
<1>4. new \in RequestType
  BY <1>1, <1>3 DEF RequestType
<1>5. /\ new.step = request[r].then
      /\ new.patch = request[r].patch /\ new.then = request[r].then
      /\ new.undo = request[r].undo /\ new.target = request[r].target
      /\ new.previous = request[r].previous /\ new.todo = request[r].todo
      /\ new.built = request[r].built /\ new.answer = request[r].answer
  BY <1>1 DEF RequestType
<1>6. /\ request' \in [Requests -> RequestType] /\ request'[r] = new
      /\ \A q \in Requests \ {r} : request'[q] = request[q]
  BY <1>2, <1>4, Updated
<1> HIDE DEF new
<1>7. TypeInv'
  BY <1>1, <1>2, <1>3, <1>6, OverrideTypes DEF TypeInv, TypeOK, RequestType
<1>8. FlowInv'
  BY <1>1, <1>2, <1>5, <1>6 DEF FlowInv, Flow, At
<1>9. EnvInv'
  BY <1>1, <1>2, <1>5, <1>6
  DEF EnvInv, Applying, Swapping, Configured, Restorable, Flow, At
<1>10. TableInv'
  BY <1>1, <1>2, <1>5, <1>6 DEF TableInv, Patching, Applying, Persisting, Flow, At
<1> QED BY <1>7, <1>8, <1>9, <1>10

\* A reader ends.
LEMMA ServeStep ==
  ASSUME SettingsInv, NEW r \in Requests, Serve(r)
  PROVE  SettingsInv'
<1> USE DEF SettingsInv
<1>1. /\ request[r] \in RequestType /\ Flow(r)
      /\ env \in Overrides /\ active \in Overrides /\ cache \in Settings \cup {Empty}
  BY DEF TypeInv, TypeOK, FlowInv
<1> DEFINE new == [request[r] EXCEPT !.step = "end", !.answer = 200]
<1>2. /\ At(r, "served")
      /\ request' = [request EXCEPT ![r] = new]
      /\ UNCHANGED <<env, baseline, active, cache, lock, table, apart>>
  BY <1>1 DEF Serve, process, Goto, Answer
<1>3. /\ "end" \in Steps /\ 200 \in Answers
  BY <1>1, <1>2, Labels, OverrideTypes DEF RequestType
<1>4. new \in RequestType
  BY <1>1, <1>3 DEF RequestType
<1>5. /\ new.step = "end" /\ new.answer = 200
      /\ new.patch = request[r].patch /\ new.then = request[r].then
      /\ new.undo = request[r].undo /\ new.target = request[r].target
      /\ new.previous = request[r].previous /\ new.todo = request[r].todo
      /\ new.built = request[r].built
  BY <1>1 DEF RequestType
<1>6. /\ request' \in [Requests -> RequestType] /\ request'[r] = new
      /\ \A q \in Requests \ {r} : request'[q] = request[q]
  BY <1>2, <1>4, Updated
<1> HIDE DEF new
<1>7. TypeInv'
  BY <1>1, <1>2, <1>3, <1>6, OverrideTypes DEF TypeInv, TypeOK
<1>8. FlowInv'
  BY <1>1, <1>2, <1>5, <1>6 DEF FlowInv, Flow, At
<1>9. EnvInv'
  BY <1>1, <1>2, <1>5, <1>6
  DEF EnvInv, Applying, Swapping, Configured, Restorable, Flow, At
<1>10. TableInv'
  BY <1>1, <1>2, <1>5, <1>6 DEF TableInv, Patching, Applying, Persisting, Flow, At
<1> QED BY <1>7, <1>8, <1>9, <1>10

\* The body is merged over the active overrides.
LEMMA ReadActiveStep ==
  ASSUME SettingsInv, NEW r \in Requests, ReadActive(r)
  PROVE  SettingsInv'
<1> USE DEF SettingsInv
<1>1. /\ request[r] \in RequestType /\ Flow(r)
      /\ env \in Overrides /\ active \in Overrides /\ cache \in Settings \cup {Empty}
  BY DEF TypeInv, TypeOK, FlowInv
<1> DEFINE new == [request[r] EXCEPT !.step = "apply", !.previous = active,
                                 !.target = Merge(active, request[r].patch)]
<1>2. /\ At(r, "merge")
      /\ request' = [request EXCEPT ![r] = new]
      /\ UNCHANGED <<env, baseline, active, cache, lock, table, apart>>
  BY <1>1 DEF ReadActive, process, Goto, Answer
<1>3. /\ "apply" \in Steps /\ active \in Overrides
      /\ (Merge(active, request[r].patch)) \in Overrides
  BY <1>1, <1>2, Labels, OverrideTypes DEF RequestType, Flow, At
<1>4. new \in RequestType
  BY <1>1, <1>3 DEF RequestType
<1>5. /\ new.step = "apply" /\ new.previous = active
      /\ new.target = Merge(active, request[r].patch)
      /\ new.patch = request[r].patch /\ new.then = request[r].then
      /\ new.undo = request[r].undo /\ new.todo = request[r].todo
      /\ new.built = request[r].built /\ new.answer = request[r].answer
  BY <1>1 DEF RequestType
<1>6. /\ request' \in [Requests -> RequestType] /\ request'[r] = new
      /\ \A q \in Requests \ {r} : request'[q] = request[q]
  BY <1>2, <1>4, Updated
<1> HIDE DEF new
<1>7. TypeInv'
  BY <1>1, <1>2, <1>3, <1>6, OverrideTypes DEF TypeInv, TypeOK
<1>8. FlowInv'
  BY <1>1, <1>2, <1>5, <1>6 DEF FlowInv, Flow, At
<1>9. EnvInv'
  BY <1>1, <1>2, <1>5, <1>6
  DEF EnvInv, Applying, Swapping, Configured, Restorable, Flow, At
<1>10. TableInv'
  BY <1>1, <1>2, <1>5, <1>6 DEF TableInv, Patching, Applying, Persisting, Flow, At
<1> QED BY <1>7, <1>8, <1>9, <1>10

\* The lock is taken, with no name half-applied.
LEMMA AcquireStep ==
  ASSUME SettingsInv, NEW r \in Requests, Acquire(r)
  PROVE  SettingsInv'
<1> USE DEF SettingsInv
<1>1. /\ request[r] \in RequestType /\ Flow(r)
      /\ env \in Overrides /\ active \in Overrides /\ cache \in Settings \cup {Empty}
  BY DEF TypeInv, TypeOK, FlowInv
<1> DEFINE new == [request[r] EXCEPT !.step = "swap", !.undo = active, !.todo = Names,
                                 !.answer = Applied(r), !.then = "commit"]
<1>2. /\ (At(r, "apply") \/ At(r, "revert")) /\ lock = Nobody /\ lock' = r
      /\ request' = [request EXCEPT ![r] = new]
      /\ UNCHANGED <<env, baseline, active, cache, table, apart>>
  BY <1>1 DEF Acquire, process, Goto, Answer
<1>3. /\ "swap" \in Steps /\ active \in Overrides /\ Names \in SUBSET Names
      /\ Applied(r) \in Answers /\ "commit" \in Thens
  BY <1>1, <1>2, Labels, OverrideTypes DEF RequestType, Applied
<1>4. new \in RequestType
  BY <1>1, <1>3 DEF RequestType
<1>5. /\ new.step = "swap" /\ new.undo = active /\ new.todo = Names /\ new.answer = Applied(r)
      /\ new.then = "commit"
      /\ new.patch = request[r].patch /\ new.target = request[r].target
      /\ new.previous = request[r].previous /\ new.built = request[r].built
  BY <1>1 DEF RequestType
<1>6. /\ request' \in [Requests -> RequestType] /\ request'[r] = new
      /\ \A q \in Requests \ {r} : request'[q] = request[q]
  BY <1>2, <1>4, Updated
<1> HIDE DEF new
<1>7. TypeInv'
  BY <1>1, <1>2, <1>3, <1>6, OverrideTypes DEF TypeInv, TypeOK
<1>8. FlowInv'
  BY <1>1, <1>2, <1>5, <1>6 DEF FlowInv, Flow, At
<1>9. EnvInv'
  <2>1. \A n \in Names : Configured(n, active)
    BY <1>2 DEF EnvInv
  <2>2. \A n \in Names : Restorable(n)
    BY <2>1 DEF Configured, Restorable
  <2>3. \A q \in Requests : ~Applying(q)
    BY <1>2, SettingsAssumption DEF EnvInv, Swapping
  <2>4. \A q \in Requests \ {r} : ~Applying(q)'
    BY <2>3, <1>6 DEF Applying
  <2>5. Swapping(r)'
    BY <2>2, <1>2, <1>5, <1>6 DEF Swapping, Restorable, At
  <2>6. (lock # Nobody)'
    BY <1>2, SettingsAssumption
  <2> QED BY <2>4, <2>5, <2>6 DEF EnvInv
<1>10. TableInv'
  BY <1>1, <1>2, <1>5, <1>6 DEF TableInv, Patching, Applying, Persisting, Flow, At, Applied
<1> QED BY <1>7, <1>8, <1>9, <1>10

\* One name is exported, or restored.
LEMMA SwapStep ==
  ASSUME SettingsInv, NEW r \in Requests, NEW n \in Names, Swap(r, n)
  PROVE  SettingsInv'
<1> USE DEF SettingsInv
<1>1. /\ request[r] \in RequestType /\ Flow(r)
      /\ env \in Overrides /\ active \in Overrides /\ cache \in Settings \cup {Empty}
  BY DEF TypeInv, TypeOK, FlowInv
<1> DEFINE new == [request[r] EXCEPT !.todo = request[r].todo \ {n}]
<1>2. /\ At(r, "swap") /\ n \in request[r].todo
      /\ \/ /\ request[r].target[n] # Unset
            /\ baseline' = IF baseline[n] = NotTaken THEN [baseline EXCEPT ![n] = env[n]]
                           ELSE baseline
            /\ env' = [env EXCEPT ![n] = request[r].target[n]]
         \/ /\ request[r].target[n] = Unset
            /\ env' = IF baseline[n] = NotTaken THEN env ELSE [env EXCEPT ![n] = baseline[n]]
            /\ baseline' = [baseline EXCEPT ![n] = NotTaken]
      /\ request' = [request EXCEPT ![r] = new]
      /\ UNCHANGED <<active, cache, lock, table, apart>>
  BY <1>1 DEF Swap, process, Goto, Answer
<1>3. /\ (request[r].todo \ {n}) \in SUBSET Names
  BY <1>1, <1>2, Labels, OverrideTypes DEF RequestType
<1>4. new \in RequestType
  BY <1>1, <1>3 DEF RequestType
<1>5. /\ new.todo = request[r].todo \ {n}
      /\ new.step = request[r].step /\ new.patch = request[r].patch
      /\ new.then = request[r].then /\ new.undo = request[r].undo
      /\ new.target = request[r].target /\ new.previous = request[r].previous
      /\ new.built = request[r].built /\ new.answer = request[r].answer
  BY <1>1 DEF RequestType
<1>6. /\ request' \in [Requests -> RequestType] /\ request'[r] = new
      /\ \A q \in Requests \ {r} : request'[q] = request[q]
  BY <1>2, <1>4, Updated
<1> HIDE DEF new
<1>7. TypeInv'
  <2>1. request[r].target[n] \in Values \cup {Unset} /\ env[n] \in Values \cup {Unset}
    BY <1>1 DEF RequestType, Overrides
  <2>2. baseline \in [Names -> Values \cup {Unset, NotTaken}]
    BY DEF TypeInv, TypeOK
  <2>3. baseline' \in [Names -> Values \cup {Unset, NotTaken}]
    BY <1>2, <2>1, <2>2
  <2>4. baseline[n] # NotTaken => baseline[n] \in Values \cup {Unset}
    BY <2>2
  <2>5. env' \in Overrides
    BY <1>1, <1>2, <2>1, <2>4 DEF Overrides
  <2> QED BY <1>2, <1>6, <2>3, <2>5 DEF TypeInv, TypeOK
<1>8. FlowInv'
  BY <1>1, <1>2, <1>5, <1>6 DEF FlowInv, Flow, At
<1>9. EnvInv'
  BY <1>1, <1>2, <1>5, <1>6, SettingsAssumption
  DEF EnvInv, Applying, Swapping, Configured, Restorable, Flow, At, RequestType,
      TypeInv, TypeOK, Overrides
<1>10. TableInv'
  BY <1>1, <1>2, <1>5, <1>6 DEF TableInv, Patching, Applying, Persisting, Flow, At
<1> QED BY <1>7, <1>8, <1>9, <1>10

\* The loop is over: every name is as the target asks.
LEMMA ClearStep ==
  ASSUME SettingsInv, NEW r \in Requests, Clear(r)
  PROVE  SettingsInv'
<1> USE DEF SettingsInv
<1>1. /\ request[r] \in RequestType /\ Flow(r)
      /\ env \in Overrides /\ active \in Overrides /\ cache \in Settings \cup {Empty}
  BY DEF TypeInv, TypeOK, FlowInv
<1> DEFINE new == [request[r] EXCEPT !.step = IF request[r].then = "refuse" THEN "refuse"
                                            ELSE "look"]
<1>2. /\ At(r, "swap") /\ request[r].todo = {} /\ cache' = Empty
      /\ request' = [request EXCEPT ![r] = new]
      /\ UNCHANGED <<env, baseline, active, lock, table, apart>>
  BY <1>1 DEF Clear, process, Goto, Answer
<1>3. /\ (IF request[r].then = "refuse" THEN "refuse" ELSE "look") \in Steps
  BY <1>1, <1>2, Labels, OverrideTypes DEF RequestType
<1>4. new \in RequestType
  BY <1>1, <1>3 DEF RequestType
<1>5. /\ new.step = IF request[r].then = "refuse" THEN "refuse" ELSE "look"
      /\ new.patch = request[r].patch /\ new.then = request[r].then
      /\ new.undo = request[r].undo /\ new.target = request[r].target
      /\ new.previous = request[r].previous /\ new.todo = request[r].todo
      /\ new.built = request[r].built /\ new.answer = request[r].answer
  BY <1>1 DEF RequestType
<1>6. /\ request' \in [Requests -> RequestType] /\ request'[r] = new
      /\ \A q \in Requests \ {r} : request'[q] = request[q]
  BY <1>2, <1>4, Updated
<1> HIDE DEF new
<1>7. TypeInv'
  BY <1>1, <1>2, <1>3, <1>6, OverrideTypes DEF TypeInv, TypeOK
<1>8. FlowInv'
  BY <1>1, <1>2, <1>5, <1>6 DEF FlowInv, Flow, At
<1>9. EnvInv'
  BY <1>1, <1>2, <1>5, <1>6
  DEF EnvInv, Applying, Swapping, Configured, Restorable, Flow, At
<1>10. TableInv'
  BY <1>1, <1>2, <1>5, <1>6 DEF TableInv, Patching, Applying, Persisting, Flow, At
<1> QED BY <1>7, <1>8, <1>9, <1>10

\* The target is active, and the environment is under it.
LEMMA CommitStep ==
  ASSUME SettingsInv, NEW r \in Requests, Commit(r)
  PROVE  SettingsInv'
<1> USE DEF SettingsInv
<1>1. /\ request[r] \in RequestType /\ Flow(r)
      /\ env \in Overrides /\ active \in Overrides /\ cache \in Settings \cup {Empty}
  BY DEF TypeInv, TypeOK, FlowInv
<1>2. PICK next \in Steps : next = IF request[r].answer = 503 THEN "end" ELSE "persist"
  BY Labels
<1> DEFINE new == [request[r] EXCEPT !.step = next, !.todo = DOMAIN request[r].patch]
<1>3. /\ At(r, "commit") /\ active' = request[r].target /\ lock' = Nobody
      /\ request' = [request EXCEPT ![r] = new]
      /\ UNCHANGED <<env, baseline, cache, table, apart>>
  BY <1>1, <1>2 DEF Commit, process, Goto, Answer, At
<1>4. /\ next \in Steps /\ (DOMAIN request[r].patch) \in SUBSET Names
  BY <1>1, <1>3, Labels, OverrideTypes, <1>2, SettingsAssumption DEF RequestType
<1>5. new \in RequestType
  BY <1>1, <1>4 DEF RequestType
<1>6. /\ new.step = next /\ new.todo = DOMAIN request[r].patch
      /\ new.patch = request[r].patch /\ new.then = request[r].then
      /\ new.undo = request[r].undo /\ new.target = request[r].target
      /\ new.previous = request[r].previous /\ new.built = request[r].built
      /\ new.answer = request[r].answer
  BY <1>1 DEF RequestType
<1>7. /\ request' \in [Requests -> RequestType] /\ request'[r] = new
      /\ \A q \in Requests \ {r} : request'[q] = request[q]
  BY <1>3, <1>5, Updated
<1> HIDE DEF new
<1>8. TypeInv'
  BY <1>1, <1>3, <1>4, <1>7, OverrideTypes DEF TypeInv, TypeOK, RequestType
<1>9. FlowInv'
  BY <1>1, <1>3, <1>6, <1>7, <1>2 DEF FlowInv, Flow, At
<1>10. EnvInv'
  BY <1>1, <1>3, <1>6, <1>7, <1>2
  DEF EnvInv, Applying, Swapping, Configured, Restorable, Flow, At
<1>11. TableInv'
  <2> SUFFICES ASSUME ~apart PROVE TableInv' BY <1>3 DEF TableInv
  <2>1. Patching(r) /\ \A q \in Requests \ {r} : ~Patching(q)
    BY <1>1, <1>3 DEF TableInv, Patching, Flow, At
  <2>2. /\ active = table /\ request[r].answer = 200
        /\ request[r].target = Merge(active, request[r].patch)
    BY <2>1, <1>1, <1>3 DEF TableInv, Persisting, Applying, Flow, At
  <2>3. \A q \in Requests \ {r} : ~Patching(q)'
    BY <2>1, <1>7 DEF Patching, At
  <2>4. Persisting(r)' /\ Patching(r)'
    <3>1. request'[r].step = "persist"
      BY <2>2, <1>2, <1>6, <1>7
    <3>2. \A n \in Names :
            active'[n] = IF n \in request'[r].todo THEN request'[r].patch[n] ELSE table'[n]
      BY <2>2, <1>3, <1>6, <1>7 DEF Merge
    <3> QED BY <3>1, <3>2, <2>1, <1>6, <1>7 DEF Persisting, Patching, Applying, At
  <2> QED BY <2>3, <2>4 DEF TableInv
<1> QED BY <1>8, <1>9, <1>10, <1>11

\* The rollback has brought the active overrides back.
LEMMA RefuseStep ==
  ASSUME SettingsInv, NEW r \in Requests, Refuse(r)
  PROVE  SettingsInv'
<1> USE DEF SettingsInv
<1>1. /\ request[r] \in RequestType /\ Flow(r)
      /\ env \in Overrides /\ active \in Overrides /\ cache \in Settings \cup {Empty}
  BY DEF TypeInv, TypeOK, FlowInv
<1> DEFINE new == [request[r] EXCEPT !.step = "end", !.answer = Refused(r)]
<1>2. /\ At(r, "refuse") /\ lock' = Nobody
      /\ request' = [request EXCEPT ![r] = new]
      /\ UNCHANGED <<env, baseline, active, cache, table, apart>>
  BY <1>1 DEF Refuse, process, Goto, Answer
<1>3. /\ "end" \in Steps /\ Refused(r) \in Answers
  BY <1>1, <1>2, Labels, OverrideTypes DEF RequestType, Refused
<1>4. new \in RequestType
  BY <1>1, <1>3 DEF RequestType
<1>5. /\ new.step = "end" /\ new.answer = Refused(r)
      /\ new.patch = request[r].patch /\ new.then = request[r].then
      /\ new.undo = request[r].undo /\ new.target = request[r].target
      /\ new.previous = request[r].previous /\ new.todo = request[r].todo
      /\ new.built = request[r].built
  BY <1>1 DEF RequestType
<1>6. /\ request' \in [Requests -> RequestType] /\ request'[r] = new
      /\ \A q \in Requests \ {r} : request'[q] = request[q]
  BY <1>2, <1>4, Updated
<1> HIDE DEF new
<1>7. TypeInv'
  BY <1>1, <1>2, <1>3, <1>6, OverrideTypes DEF TypeInv, TypeOK
<1>8. FlowInv'
  BY <1>1, <1>2, <1>5, <1>6 DEF FlowInv, Flow, At
<1>9. EnvInv'
  BY <1>1, <1>2, <1>5, <1>6
  DEF EnvInv, Applying, Swapping, Configured, Restorable, Flow, At
<1>10. TableInv'
  BY <1>1, <1>2, <1>5, <1>6 DEF TableInv, Patching, Applying, Persisting, Flow, At
<1> QED BY <1>7, <1>8, <1>9, <1>10

\* One row is written.
LEMMA PersistStep ==
  ASSUME SettingsInv, NEW r \in Requests, NEW n \in Names, Persist(r, n)
  PROVE  SettingsInv'
<1> USE DEF SettingsInv
<1>1. /\ request[r] \in RequestType /\ Flow(r)
      /\ env \in Overrides /\ active \in Overrides /\ cache \in Settings \cup {Empty}
  BY DEF TypeInv, TypeOK, FlowInv
<1> DEFINE new == [request[r] EXCEPT !.todo = request[r].todo \ {n}]
<1>2. /\ At(r, "persist") /\ n \in request[r].todo
      /\ table' = [table EXCEPT ![n] = request[r].patch[n]]
      /\ request' = [request EXCEPT ![r] = new]
      /\ UNCHANGED <<env, baseline, active, cache, lock, apart>>
  BY <1>1 DEF Persist, process, Goto, Answer
<1>3. /\ (request[r].todo \ {n}) \in SUBSET Names
  BY <1>1, <1>2, Labels, OverrideTypes DEF RequestType
<1>4. new \in RequestType
  BY <1>1, <1>3 DEF RequestType
<1>5. /\ new.todo = request[r].todo \ {n}
      /\ new.step = request[r].step /\ new.patch = request[r].patch
      /\ new.then = request[r].then /\ new.undo = request[r].undo
      /\ new.target = request[r].target /\ new.previous = request[r].previous
      /\ new.built = request[r].built /\ new.answer = request[r].answer
  BY <1>1 DEF RequestType
<1>6. /\ request' \in [Requests -> RequestType] /\ request'[r] = new
      /\ \A q \in Requests \ {r} : request'[q] = request[q]
  BY <1>2, <1>4, Updated
<1> HIDE DEF new
<1>7. TypeInv'
  BY <1>1, <1>2, <1>3, <1>6, OverrideTypes, SettingsAssumption
  DEF TypeInv, TypeOK, RequestType, Overrides, Flow, At
<1>8. FlowInv'
  BY <1>1, <1>2, <1>5, <1>6 DEF FlowInv, Flow, At
<1>9. EnvInv'
  BY <1>1, <1>2, <1>5, <1>6
  DEF EnvInv, Applying, Swapping, Configured, Restorable, Flow, At
<1>10. TableInv'
  BY <1>1, <1>2, <1>5, <1>6
  DEF TableInv, Patching, Applying, Persisting, Flow, At, TypeInv, TypeOK, Overrides
<1> QED BY <1>7, <1>8, <1>9, <1>10

\* A row is not written, or the flag is not read.
LEMMA FailStep ==
  ASSUME SettingsInv, NEW r \in Requests, PersistFails(r)
  PROVE  SettingsInv'
<1> USE DEF SettingsInv
<1>1. /\ request[r] \in RequestType /\ Flow(r)
      /\ env \in Overrides /\ active \in Overrides /\ cache \in Settings \cup {Empty}
  BY DEF TypeInv, TypeOK, FlowInv
<1> DEFINE new == [request[r] EXCEPT !.step = "revert", !.target = request[r].previous]
<1>2. /\ At(r, "persist") /\ apart' = TRUE
      /\ request' = [request EXCEPT ![r] = new]
      /\ UNCHANGED <<env, baseline, active, cache, lock, table>>
  BY <1>1 DEF PersistFails, process, Goto, Answer
<1>3. /\ "revert" \in Steps /\ request[r].previous \in Overrides
  BY <1>1, <1>2, Labels, OverrideTypes DEF RequestType
<1>4. new \in RequestType
  BY <1>1, <1>3 DEF RequestType
<1>5. /\ new.step = "revert" /\ new.target = request[r].previous
      /\ new.patch = request[r].patch /\ new.then = request[r].then
      /\ new.undo = request[r].undo /\ new.previous = request[r].previous
      /\ new.todo = request[r].todo /\ new.built = request[r].built
      /\ new.answer = request[r].answer
  BY <1>1 DEF RequestType
<1>6. /\ request' \in [Requests -> RequestType] /\ request'[r] = new
      /\ \A q \in Requests \ {r} : request'[q] = request[q]
  BY <1>2, <1>4, Updated
<1> HIDE DEF new
<1>7. TypeInv'
  BY <1>1, <1>2, <1>3, <1>6, OverrideTypes DEF TypeInv, TypeOK
<1>8. FlowInv'
  BY <1>1, <1>2, <1>5, <1>6 DEF FlowInv, Flow, At
<1>9. EnvInv'
  BY <1>1, <1>2, <1>5, <1>6
  DEF EnvInv, Applying, Swapping, Configured, Restorable, Flow, At
<1>10. TableInv'
  BY <1>1, <1>2, <1>5, <1>6 DEF TableInv, Patching, Applying, Persisting, Flow, At
<1> QED BY <1>7, <1>8, <1>9, <1>10

\* Every row is written.
LEMMA ReplyStep ==
  ASSUME SettingsInv, NEW r \in Requests, Reply(r)
  PROVE  SettingsInv'
<1> USE DEF SettingsInv
<1>1. /\ request[r] \in RequestType /\ Flow(r)
      /\ env \in Overrides /\ active \in Overrides /\ cache \in Settings \cup {Empty}
  BY DEF TypeInv, TypeOK, FlowInv
<1> DEFINE new == [request[r] EXCEPT !.step = "end", !.answer = 200]
<1>2. /\ At(r, "persist") /\ request[r].todo = {}
      /\ request' = [request EXCEPT ![r] = new]
      /\ UNCHANGED <<env, baseline, active, cache, lock, table, apart>>
  BY <1>1 DEF Reply, process, Goto, Answer
<1>3. /\ "end" \in Steps /\ 200 \in Answers
  BY <1>1, <1>2, Labels, OverrideTypes DEF RequestType
<1>4. new \in RequestType
  BY <1>1, <1>3 DEF RequestType
<1>5. /\ new.step = "end" /\ new.answer = 200
      /\ new.patch = request[r].patch /\ new.then = request[r].then
      /\ new.undo = request[r].undo /\ new.target = request[r].target
      /\ new.previous = request[r].previous /\ new.todo = request[r].todo
      /\ new.built = request[r].built
  BY <1>1 DEF RequestType
<1>6. /\ request' \in [Requests -> RequestType] /\ request'[r] = new
      /\ \A q \in Requests \ {r} : request'[q] = request[q]
  BY <1>2, <1>4, Updated
<1> HIDE DEF new
<1>7. TypeInv'
  BY <1>1, <1>2, <1>3, <1>6, OverrideTypes DEF TypeInv, TypeOK
<1>8. FlowInv'
  BY <1>1, <1>2, <1>5, <1>6 DEF FlowInv, Flow, At
<1>9. EnvInv'
  BY <1>1, <1>2, <1>5, <1>6
  DEF EnvInv, Applying, Swapping, Configured, Restorable, Flow, At
<1>10. TableInv'
  BY <1>1, <1>2, <1>5, <1>6
  DEF TableInv, Patching, Applying, Persisting, Flow, At, TypeInv, TypeOK, Overrides
<1> QED BY <1>7, <1>8, <1>9, <1>10

\* The candidate does not validate: its PATCH turns round, any other request
\* fails.
LEMMA RejectStep ==
  ASSUME SettingsInv, NEW r \in Requests, Reject(r)
  PROVE  SettingsInv'
<1> USE DEF SettingsInv
<1>1. /\ request[r] \in RequestType /\ Flow(r) /\ At(r, "build")
      /\ UNCHANGED <<env, baseline, active, cache, lock, table, apart>>
  BY DEF TypeInv, FlowInv, Reject, process
<1>2. CASE request[r].then = "commit"
  <2> DEFINE new == [request[r] EXCEPT !.step = "swap", !.then = "refuse",
                       !.target = request[r].undo, !.todo = Names]
  <2>1. request' = [request EXCEPT ![r] = new]
    BY <1>2 DEF Reject
  <2>2. "swap" \in Steps /\ "refuse" \in Thens /\ request[r].undo \in Overrides
    BY <1>1, Labels DEF RequestType
  <2>3. new \in RequestType
    BY <1>1, <2>2 DEF RequestType
  <2>4. /\ new.step = "swap" /\ new.then = "refuse" /\ new.target = request[r].undo
        /\ new.todo = Names /\ new.undo = request[r].undo /\ new.patch = request[r].patch
        /\ new.answer = request[r].answer
    BY <1>1 DEF RequestType
  <2>5. /\ request' \in [Requests -> RequestType] /\ request'[r] = new
        /\ \A q \in Requests \ {r} : request'[q] = request[q]
    BY <2>1, <2>3, Updated
  <2> HIDE DEF new
  <2>6. TypeInv'
    BY <1>1, <2>5 DEF TypeInv, TypeOK
  <2>7. FlowInv'
    BY <1>1, <1>2, <2>4, <2>5 DEF FlowInv, Flow, At
  <2>8. EnvInv'
    BY <1>1, <1>2, <2>4, <2>5
    DEF EnvInv, Applying, Swapping, Configured, Restorable, Flow, At
  <2>9. TableInv'
    BY <1>1, <1>2, <2>4, <2>5 DEF TableInv, Patching, Applying, Persisting, Flow, At
  <2> QED BY <2>6, <2>7, <2>8, <2>9
<1>3. CASE request[r].then # "commit"
  <2>0. PICK status \in Answers : status = 500
    BY Labels
  <2> DEFINE new == [request[r] EXCEPT !.step = "end", !.answer = status]
  <2>1. request' = [request EXCEPT ![r] = new]
    <3>1. Answer(r, status)
      BY <2>0, <1>3 DEF Reject
    <3> QED BY <3>1 DEF Answer
  <2>2. "end" \in Steps
    BY Labels
  <2>3. new \in RequestType
    BY <1>1, <2>2 DEF RequestType
  <2>4. new.step = "end" /\ new.patch = request[r].patch
    BY <1>1 DEF RequestType
  <2>5. /\ request' \in [Requests -> RequestType] /\ request'[r] = new
        /\ \A q \in Requests \ {r} : request'[q] = request[q]
    BY <2>1, <2>3, Updated
  <2> HIDE DEF new
  <2>6. TypeInv'
    BY <1>1, <2>5 DEF TypeInv, TypeOK
  <2>7. FlowInv'
    BY <1>1, <2>4, <2>5 DEF FlowInv, Flow, At
  <2>8. EnvInv'
    BY <1>1, <2>4, <2>5 DEF EnvInv, Applying, Swapping, Configured, Restorable, At
  <2>9. TableInv'
    BY <1>1, <2>4, <2>5 DEF TableInv, Patching, Applying, Persisting, At
  <2> QED BY <2>6, <2>7, <2>8, <2>9
<1> QED BY <1>2, <1>3

\* A new process: the environment is built over the rows that are replayed.
LEMMA RestartStep ==
  ASSUME SettingsInv, Restart
  PROVE  SettingsInv'
<1> USE DEF SettingsInv
<1> DEFINE rows == Replayed(table)
<1>1. /\ active' = rows /\ env' = Over(rows) /\ lock' = Nobody /\ table' = table
      /\ baseline' = [n \in Names |-> IF rows[n] = Unset THEN NotTaken ELSE Base[n]]
      /\ cache' = IF rows = table THEN Effective(Over(table)) ELSE Empty
      /\ apart' = (apart \/ rows # table \/ \E r \in Requests : Patching(r))
  BY DEF Restart
<1>2. table \in Overrides /\ rows \in Overrides /\ Over(rows) \in Overrides
      /\ Effective(Over(table)) \in Settings
  BY OverrideTypes DEF TypeInv, TypeOK
<1>3. \A r \in Requests :
        request'[r] = IF At(r, "new") THEN request[r] ELSE [NewRequest EXCEPT !.step = "end"]
  BY DEF Restart
<1>4. DOMAIN request' = Requests
  BY DEF Restart
<1>5. /\ [NewRequest EXCEPT !.step = "end"] \in RequestType
      /\ [NewRequest EXCEPT !.step = "end"].step = "end"
  BY OverrideTypes, SettingsAssumption
  DEF NewRequest, RequestType, Steps, Thens, Answers
<1>6. request' \in [Requests -> RequestType]
  BY <1>3, <1>4, <1>5 DEF TypeInv, Restart
<1>7. \A r \in Requests : request'[r].step \in {"new", "end"}
  BY <1>3, <1>5 DEF At
<1>8. \A r \in Requests : request'[r].step = "new" => request'[r].patch = Empty
  BY <1>3, <1>5 DEF At, FlowInv, Flow
<1> HIDE DEF rows
<1>9. baseline' \in [Names -> Values \cup {Unset, NotTaken}]
  BY <1>1, SettingsAssumption DEF Overrides
<1>10. TypeInv'
  BY <1>1, <1>2, <1>6, <1>9 DEF TypeInv, TypeOK
<1>11. FlowInv'
  BY <1>7, <1>8 DEF FlowInv, Flow, At
<1>12. EnvInv'
  <2>1. \A n \in Names : Configured(n, active)'
    BY <1>1, <1>2 DEF Configured, Over, Overrides
  <2>2. \A r \in Requests : ~Applying(r)'
    BY <1>7 DEF Applying
  <2> QED BY <2>1, <2>2 DEF EnvInv
<1>13. TableInv'
  <2>1. \A r \in Requests : ~Patching(r)'
    BY <1>7, <1>8, OverrideTypes DEF Patching, At
  <2>2. ~apart' => active' = table'
    BY <1>1
  <2> QED BY <2>1, <2>2 DEF TableInv
<1> QED BY <1>10, <1>11, <1>12, <1>13

\* A step that changes nothing.
LEMMA SettingsStutter ==
  ASSUME SettingsInv, UNCHANGED vars
  PROVE  SettingsInv'
<1>1. UNCHANGED <<env, baseline, active, cache, lock, table, request, apart>>
  BY DEF vars, process
<1> QED
  BY <1>1
  DEF SettingsInv, TypeInv, TypeOK, FlowInv, Flow, EnvInv, Applying, Swapping, Configured,
     Restorable, TableInv, Patching, Persisting, At

-----------------------------------------------------------------------------
\* The invariant holds of every reachable state.
LEMMA SettingsInvariant == Spec => []SettingsInv
<1>1. Init => SettingsInv
  BY InitSettings
<1>2. SettingsInv /\ [Next]_vars => SettingsInv'
  <2> SUFFICES ASSUME SettingsInv, [Next]_vars PROVE SettingsInv' OBVIOUS
  <2>1. CASE UNCHANGED vars
    BY <2>1, SettingsStutter
  <2>2. CASE Restart
    BY <2>2, RestartStep
  <2>3. ASSUME NEW r \in Requests, Step(r) PROVE SettingsInv'
    <3>1. CASE \E n \in Names : Swap(r, n) \/ Persist(r, n)
      BY <3>1, SwapStep, PersistStep
    <3>2. CASE Hit(r) \/ Miss(r) \/ Build(r) \/ Reject(r) \/ Serve(r)
      BY <3>2, HitStep, MissStep, BuildStep, RejectStep, ServeStep
    <3>3. CASE ReadActive(r) \/ Acquire(r) \/ Clear(r) \/ Commit(r) \/ Refuse(r) \/ Reply(r)
      BY <3>3, ReadActiveStep, AcquireStep, ClearStep, CommitStep, RefuseStep, ReplyStep
    <3> QED BY <2>3, <3>1, <3>2, <3>3 DEF Step
  <2>4. ASSUME NEW r \in Requests, Read(r) \/ PersistFails(r) PROVE SettingsInv'
    BY <2>4, ReadStep, FailStep
  <2>5. ASSUME NEW r \in Requests, NEW patch \in Patches, Patch(r, patch) PROVE SettingsInv'
    BY <2>5, PatchStep
  <2> QED BY <2>1, <2>2, <2>3, <2>4, <2>5 DEF Next
<1> QED BY <1>1, <1>2, PTL DEF Spec

\* Every reachable state of the settings layer is well typed: environment,
\* snapshots, overrides and rows only hold what the catalog allows.
THEOREM SettingsTypes == Spec => []TypeOK
<1>1. SettingsInv => TypeOK
  BY DEF SettingsInv, TypeInv
<1> QED BY <1>1, SettingsInvariant, PTL

\* Whenever nobody holds the lock the environment is the process' own under
\* exactly the active overrides, and clearing them can give it back: for any
\* catalog, bodies, number of requests, faults and restarts (_swap_env).
THEOREM EnvironmentFollowsOverrides == Spec => []EnvironmentIsActive
<1>1. SettingsInv => EnvironmentIsActive
  BY DEF SettingsInv, EnvInv, Configured, EnvironmentIsActive, TypeInv, TypeOK, Over, Overrides
<1> QED BY <1>1, SettingsInvariant, PTL

\* PATCHes that do not overlap, fail or die leave the process with the rows
\* of the table (patch_settings, load_persisted_overrides).
THEOREM ProcessFollowsTable == Spec => []TableIsActive
<1>1. SettingsInv => TableIsActive
  BY DEF SettingsInv, TableInv, TableIsActive
<1> QED BY <1>1, SettingsInvariant, PTL
===============================================================================
