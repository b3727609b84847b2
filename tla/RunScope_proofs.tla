-------------------------- MODULE RunScope_proofs --------------------------
(***************************************************************************)
(* Proofs about RunScope, for every value of its constants. What holds of  *)
(* the Host layer by itself is taken from its own proofs, by way of the    *)
(* refinement.                                                             *)
(***************************************************************************)
EXTENDS RunScope, Descent_proofs, FiniteSetTheorems, TLAPS

\* The same instance as Host, with its theorems.
HP == INSTANCE HostSandbox_proofs

LEMMA SameInit == Host!Init => HP!Init
BY DEF Host!Init, HP!Init, Host!Teardowns, HP!Teardowns, Host!Callers, HP!Callers

LEMMA SameCreate == \A r \in Runs : Host!Create(r) => HP!Create(r)
BY DEF Host!Create, HP!Create, Host!CreateBusy, HP!CreateBusy, Host!CreateChecks,
       HP!CreateChecks, Host!InCreate, HP!InCreate, Host!CreateIdFails,
       HP!CreateIdFails, Host!CreateTakesSlot, HP!CreateTakesSlot,
       Host!slots, HP!slots, Host!teardown, HP!teardown, Host!procs, HP!procs

LEMMA SameExec == \A q \in Procs : ExecStep(q) => HP!Exec(q)
BY DEF ExecStep, HP!Exec, Host!ExecChecks, HP!ExecChecks, Host!Usable, HP!Usable,
       Host!ExecSpawned, HP!ExecSpawned, Host!ExecSpawnFails, HP!ExecSpawnFails,
       Host!ExecSettles, HP!ExecSettles, Host!ExecAborts, HP!ExecAborts,
       Host!ExecAborted, HP!ExecAborted,
       Host!slots, HP!slots, Host!teardown, HP!teardown

LEMMA SameDestroy ==
  \A r \in Runs : Host!Destroy(r, "scope") => HP!Destroy(r, "scope")
BY DEF Host!Destroy, HP!Destroy, Host!DestroyStarts, HP!DestroyStarts,
       Host!Quiet, HP!Quiet, Host!DestroyKills, HP!DestroyKills,
       Host!DestroyAwaits, HP!DestroyAwaits, Host!DestroyFinishes,
       HP!DestroyFinishes, Host!slots, HP!slots, Host!procs, HP!procs

LEMMA SameExit == \A q \in Procs : Host!ProcExits(q) => HP!ProcExits(q)
BY DEF Host!ProcExits, HP!ProcExits, Host!slots, HP!slots, Host!teardown,
       HP!teardown

\* Agent calls, interrupts and the death of an operator leave the Host layer
\* alone, its own steps are taken as they are.
LEMMA HostStep == [Next]_vars => [HP!Next]_(HP!vars)
<1> SUFFICES ASSUME [Next]_vars PROVE HP!Next \/ UNCHANGED HP!vars
  OBVIOUS
<1>1. UNCHANGED hostVars => UNCHANGED HP!vars
  BY DEF hostVars, HP!vars, HP!slots, HP!teardown, HP!procs
<1>2. ASSUME NEW k \in Calls,
             \/ CallStarts(k) \/ CreateFails(k) \/ AgentCreated(k)
             \/ CallReturns(k) \/ Disposed(k) \/ AgentRests(k)
      PROVE  UNCHANGED hostVars
  BY <1>2
  DEF CallStarts, CreateFails, AgentCreated, CallReturns, Disposed, AgentRests
<1>3. ASSUME NEW r \in Runs, RunEnds(r) \/ Interrupt(r) PROVE UNCHANGED hostVars
  BY <1>3 DEF RunEnds, Interrupt
<1>4. ASSUME NEW r \in Runs, CreateStep(r) \/ DestroyStep(r) PROVE HP!Next
  BY <1>4, SameCreate, SameDestroy DEF CreateStep, DestroyStep, HP!Next, HP!Callers
<1>5. ASSUME NEW q \in Procs, ExecStep(q) \/ ProcStep(q) PROVE HP!Next
  BY <1>5, SameExec, SameExit DEF ProcStep, HP!Next
<1>6. ASSUME NEW p \in Providers, OperatorDies(p) PROVE UNCHANGED hostVars
  BY <1>6 DEF OperatorDies
<1>7. UNCHANGED vars => UNCHANGED hostVars
  BY DEF vars
<1> QED
  BY <1>1, <1>2, <1>3, <1>4, <1>5, <1>6, <1>7 DEF Next

\* A run and its agents use the Host layer as HostSandbox lets them.
THEOREM ImplementsHost == Spec => HP!Spec
<1>1. Init => HP!Init
  BY SameInit DEF Init
<1> QED
  BY <1>1, HostStep, PTL DEF Spec, HP!Spec

LEMMA HostTyped == Spec => []HP!TypeOK
BY ImplementsHost, HP!TypedAlways, HostAssumption, PTL

LEMMA HostExclusive ==
  ASSUME ~FiberYields
  PROVE  Spec => []HP!OneActivePerProvider
<1>1. HP!Spec => []HP!OneActivePerProvider
  BY HP!SlotExclusive, HostAssumption
<1> QED
  BY <1>1, ImplementsHost, PTL

-----------------------------------------------------------------------------
\* The types of the variables this module adds.
ScopeTyped ==
  /\ fiber \in [Runs -> {"running", "closing", "killed"}]
  /\ call \in [Calls -> {"idle", "creating", "waiting", "disposing", "ended"}]
  /\ agent \in [Calls -> {"none", "creating", "resting", "working", "gone"}]
  /\ undisposed \subseteq Calls

LEMMA ScopeTypedInit == Init => ScopeTyped
BY DEF Init, ScopeTyped

LEMMA ScopeTypedStep == ScopeTyped /\ [Next]_vars => ScopeTyped'
<1> SUFFICES ASSUME ScopeTyped, [Next]_vars PROVE ScopeTyped'
  OBVIOUS
<1> USE DEF ScopeTyped
<1>1. ASSUME NEW k \in Calls,
             \/ CallStarts(k) \/ CreateFails(k) \/ AgentCreated(k)
             \/ Disposed(k) \/ AgentRests(k)
      PROVE  ScopeTyped'
  BY <1>1 DEF CallStarts, CreateFails, AgentCreated, Disposed, AgentRests
<1>2. ASSUME NEW k \in Calls, CallReturns(k) PROVE ScopeTyped'
  BY <1>2 DEF CallReturns
<1>3. ASSUME NEW r \in Runs, RunEnds(r) PROVE ScopeTyped'
  BY <1>3 DEF RunEnds, agents
<1>4. ASSUME NEW r \in Runs, Interrupt(r) PROVE ScopeTyped'
  BY <1>4 DEF Interrupt, Interrupted
<1>5. ASSUME NEW p \in Providers, OperatorDies(p) PROVE ScopeTyped'
  BY <1>5 DEF OperatorDies
<1>6. UNCHANGED scopeVars => ScopeTyped'
  BY DEF scopeVars, agents
<1> QED
  BY <1>1, <1>2, <1>3, <1>4, <1>5, <1>6
  DEF Next, CreateStep, DestroyStep, ExecStep, ProcStep, vars

\* Every reachable state of runs, agents and Host layer is typed.
THEOREM TypedAlways == Spec => []TypeOK
<1>1. HP!TypeOK => Host!TypeOK
  BY DEF Host!TypeOK, HP!TypeOK, Host!Teardowns, HP!Teardowns, Host!Callers,
         HP!Callers
<1>2. HP!TypeOK /\ ScopeTyped => TypeOK
  BY <1>1 DEF TypeOK, ScopeTyped
<1> QED
  BY <1>2, HostTyped, ScopeTypedInit, ScopeTypedStep, PTL DEF Spec
-----------------------------------------------------------------------------
\* A sandbox is destroyed by its scope alone, when neither an exec nor an agent
\* call of the run is left, and nothing of the kind is started after that.
NestedAt(r) ==
  /\ down[<<r, "user">>] = "idle" /\ r \notin raced
  /\ down[<<r, "scope">>] # "idle" =>
       /\ fiber[r] # "running" /\ phase[r] = "open"
       /\ NoCall(r) /\ Host!Quiet(r)

\* A call that is under way belongs to a run that is, and an agent at work to
\* such a call, unless the SDK refused to dispose of it.
CallFits(k) ==
  /\ call[k] \notin {"idle", "ended"} =>
       phase[CallerOf[k]] = "open" /\ fiber[CallerOf[k]] # "killed"
  /\ agent[k] = "working" => k \in undisposed \/ call[k] \in {"waiting", "disposing"}

Nested == (\A r \in Runs : NestedAt(r)) /\ (\A k \in Calls : CallFits(k))

LEMMA NestedInit == Init => Nested
BY DEF Init, Host!Init, Host!Teardowns, Host!Callers, Nested, NestedAt, CallFits

LEMMA NestedStep == TypeOK /\ Nested /\ [Next]_vars => Nested'
<1> SUFFICES ASSUME TypeOK, Nested, [Next]_vars PROVE Nested'
  OBVIOUS
<1> USE CallerAssumption, HostAssumption
<1> USE DEF TypeOK, Host!TypeOK, Nested, NestedAt, CallFits, NoCall, CallsOf
<1>1. ASSUME NEW k \in Calls, CallStarts(k) PROVE Nested'
  BY <1>1 DEF CallStarts, Warm, hostVars, Host!Quiet
<1>2. ASSUME NEW k \in Calls,
             \/ CreateFails(k) \/ AgentCreated(k) \/ CallReturns(k)
             \/ Disposed(k) \/ AgentRests(k)
      PROVE  Nested'
  BY <1>2
  DEF CreateFails, AgentCreated, CallReturns, Disposed, AgentRests, hostVars,
      Host!Quiet
<1>3. ASSUME NEW r \in Runs, RunEnds(r) PROVE Nested'
  BY <1>3 DEF RunEnds, agents, hostVars, Host!Quiet
<1>4. ASSUME NEW r \in Runs, Interrupt(r) PROVE Nested'
  BY <1>4 DEF Interrupt, Interrupted, hostVars, Host!Quiet
<1>5. ASSUME NEW p \in Providers, OperatorDies(p) PROVE Nested'
  BY <1>5 DEF OperatorDies, hostVars, Host!Quiet
<1>6. ASSUME NEW r \in Runs, CreateStep(r) PROVE Nested'
  BY <1>6
  DEF CreateStep, scopeVars, agents, Host!Create, Host!CreateBusy,
      Host!CreateChecks, Host!CreateIdFails, Host!CreateTakesSlot,
      Host!teardown, Host!procs, Host!Quiet
<1>7. ASSUME NEW r \in Runs, DestroyStep(r) PROVE Nested'
  BY <1>7
  DEF DestroyStep, ScopeCloses, scopeVars, agents, Host!Destroy,
      Host!DestroyStarts, Host!DestroyKills, Host!DestroyAwaits,
      Host!DestroyFinishes, Host!slots, Host!procs, Host!Quiet,
      Host!Teardowns, Host!Callers
<1>8. ASSUME NEW q \in Procs, ExecStep(q) PROVE Nested'
  BY <1>8
  DEF ExecStep, scopeVars, agents, Host!ExecChecks, Host!ExecSpawned,
      Host!ExecSpawnFails, Host!ExecSettles, Host!ExecAborts, Host!ExecAborted,
      Host!slots, Host!teardown, Host!Quiet
<1>9. ASSUME NEW q \in Procs, ProcStep(q) PROVE Nested'
  BY <1>9
  DEF ProcStep, scopeVars, agents, Host!ProcExits, Host!slots, Host!teardown,
      Host!Quiet
<1>10. CASE UNCHANGED vars
  BY <1>10 DEF vars, hostVars, scopeVars, agents, Host!Quiet
<1> QED
  BY <1>1, <1>2, <1>3, <1>4, <1>5, <1>6, <1>7, <1>8, <1>9, <1>10 DEF Next

LEMMA NestedAlways == Spec => []Nested
BY TypedAlways, NestedInit, NestedStep, PTL DEF Spec

-----------------------------------------------------------------------------
LEMMA DisposedStep ==
  TypeOK /\ AgentsDisposed /\ [Next]_vars => AgentsDisposed'
<1> SUFFICES ASSUME TypeOK, AgentsDisposed, [Next]_vars PROVE AgentsDisposed'
  OBVIOUS
<1> USE CallerAssumption DEF TypeOK, AgentsDisposed
<1>1. ASSUME NEW k \in Calls,
             \/ CallStarts(k) \/ CreateFails(k) \/ AgentCreated(k)
             \/ CallReturns(k) \/ Disposed(k) \/ AgentRests(k)
      PROVE  AgentsDisposed'
  BY <1>1
  DEF CallStarts, CreateFails, AgentCreated, CallReturns, Disposed, AgentRests
<1>2. ASSUME NEW r \in Runs, RunEnds(r) PROVE AgentsDisposed'
  BY <1>2 DEF RunEnds, agents
<1>3. ASSUME NEW r \in Runs, Interrupt(r) PROVE AgentsDisposed'
  BY <1>3 DEF Interrupt, Interrupted
<1>4. ASSUME NEW p \in Providers, OperatorDies(p) PROVE AgentsDisposed'
  BY <1>4 DEF OperatorDies
<1>5. UNCHANGED scopeVars => AgentsDisposed'
  BY DEF scopeVars, agents
<1> QED
  BY <1>1, <1>2, <1>3, <1>4, <1>5
  DEF Next, CreateStep, DestroyStep, ExecStep, ProcStep, vars

\* No agent outlives its call in a run that was not interrupted.
THEOREM AgentsAlwaysDisposed == Spec => []AgentsDisposed
<1>1. Init => AgentsDisposed
  BY DEF Init, AgentsDisposed
<1> QED
  BY <1>1, DisposedStep, TypedAlways, PTL DEF Spec

-----------------------------------------------------------------------------
\* Of two operators one has nothing under way.
Underway(r) == ~Finished(r)
TakeTurns ==
  \A r, s \in Runs : Underway(r) /\ Underway(s) => ProviderOf[r] = ProviderOf[s]

LEMMA TakeTurnsStep == TypeOK /\ TakeTurns /\ [Next]_vars => TakeTurns'
<1> SUFFICES ASSUME TypeOK, TakeTurns, [Next]_vars PROVE TakeTurns'
  OBVIOUS
<1> USE DEF TypeOK, Host!TypeOK, TakeTurns, Underway, Finished
<1>1. ASSUME NEW r \in Runs, CreateStep(r) PROVE TakeTurns'
  <2>1. \A s \in Runs : s # r => (Underway(s)' <=> Underway(s))
    BY <1>1
    DEF CreateStep, scopeVars, Host!Create, Host!CreateBusy, Host!CreateChecks,
        Host!CreateIdFails, Host!CreateTakesSlot, Host!teardown
  <2>2. \A s \in Runs : ProviderOf[s] # ProviderOf[r] => ~Underway(s)
    BY <1>1 DEF CreateStep, OnlyOperator
  <2> QED
    BY <2>1, <2>2
<1>2. ASSUME NEW r \in Runs, DestroyStep(r) PROVE TakeTurns'
  <2>1. \A s \in Runs : Underway(s)' => Underway(s)
    BY <1>2
    DEF DestroyStep, ScopeCloses, scopeVars, Host!Destroy, Host!DestroyStarts,
        Host!DestroyKills, Host!DestroyAwaits, Host!DestroyFinishes, Host!slots,
        Host!Teardowns, Host!Callers
  <2> QED
    BY <2>1
<1>3. ASSUME UNCHANGED <<phase, down>>,
             \A s \in Runs : fiber[s] = "killed" => fiber'[s] = "killed"
      PROVE  TakeTurns'
  BY <1>3
<1>4. ASSUME NEW k \in Calls,
             \/ CallStarts(k) \/ CreateFails(k) \/ AgentCreated(k)
             \/ CallReturns(k) \/ Disposed(k) \/ AgentRests(k)
      PROVE  TakeTurns'
  BY <1>3, <1>4
  DEF CallStarts, CreateFails, AgentCreated, CallReturns, Disposed, AgentRests,
      hostVars
<1>5. ASSUME NEW r \in Runs, RunEnds(r) \/ Interrupt(r) PROVE TakeTurns'
  BY <1>3, <1>5 DEF RunEnds, Interrupt, Warm, hostVars
<1>6. ASSUME NEW p \in Providers, OperatorDies(p) PROVE TakeTurns'
  BY <1>3, <1>6 DEF OperatorDies, hostVars
<1>7. ASSUME NEW q \in Procs, ExecStep(q) \/ ProcStep(q) PROVE TakeTurns'
  BY <1>3, <1>7
  DEF ExecStep, ProcStep, scopeVars, Host!ExecChecks, Host!ExecSpawned,
      Host!ExecSpawnFails, Host!ExecSettles, Host!ExecAborts, Host!ExecAborted,
      Host!ProcExits, Host!slots, Host!teardown
<1>8. CASE UNCHANGED vars
  BY <1>3, <1>8 DEF vars, hostVars, scopeVars
<1> QED
  BY <1>1, <1>2, <1>4, <1>5, <1>6, <1>7, <1>8 DEF Next

LEMMA TakeTurnsAlways == Spec => []TakeTurns
<1>1. Init => TakeTurns
  BY DEF Init, Host!Init, TakeTurns, Underway, Finished
<1> QED
  BY <1>1, TakeTurnsStep, TypedAlways, PTL DEF Spec

OneHolder == \A r, s \in Runs : HoldsNow(r) /\ HoldsNow(s) => r = s

\* Of the runs that are alive, of one operator or of several, one holds a sandbox:
\* the slot sees to it within an operator, taking turns between them. That is the
\* `one active ADW on the machine' of CONTEXT.md, with what it takes.
THEOREM OneHolderAlways ==
  ASSUME ~FiberYields
  PROVE  Spec => []OneHolder
<1>1. TakeTurns /\ HP!OneActivePerProvider => OneHolder
  BY DEF OneHolder, TakeTurns, Underway, Finished, HoldsNow, Host!Holding,
         Host!Callers, HP!Holding, HP!Callers, HP!OneActivePerProvider
<1> QED
  BY <1>1, HostExclusive, TakeTurnsAlways, PTL

LEMMA OneRunWritesNow ==
  ASSUME Nested, OneHolder
  PROVE  OneRunWrites
<1> SUFFICES ASSUME NEW k \in Calls \ undisposed, NEW r \in Runs,
                    agent[k] = "working", HoldsNow(r), CallerOf[k] # r
             PROVE  FALSE
  BY DEF OneRunWrites
<1> DEFINE s == CallerOf[k]
<1>1. s \in Runs /\ call[k] \in {"waiting", "disposing"}
  BY CallerAssumption DEF Nested, CallFits
<1>2. HoldsNow(s)
  BY <1>1 DEF Nested, CallFits, NestedAt, NoCall, CallsOf, HoldsNow, Host!Holding,
              Host!Callers
<1> QED
  BY <1>1, <1>2 DEF OneHolder

\* While a run holds the sandbox no other run's agent writes, if the scheduler
\* does not switch fibers inside create: for any number of runs and calls.
THEOREM OnlyHolderWrites ==
  ASSUME ~FiberYields
  PROVE  Spec => []OneRunWrites
BY OneHolderAlways, NestedAlways, OneRunWritesNow, PTL

-----------------------------------------------------------------------------
\* A process is that of an exec under way, which belongs to an open sandbox that
\* no destroy has begun on.
LEMMA HostProcs == Spec => [](HP!ProcsFit /\ HP!BusyIsOpen)
<1>1. HP!Spec => [](HP!ProcsFit /\ HP!BusyIsOpen)
  BY HP!ProcsAlways, HP!BusyAlways, HostAssumption, PTL
<1> QED
  BY <1>1, ImplementsHost, PTL

LEMMA OnlyKilledLeaveNow ==
  ASSUME Nested, OneHolder, HP!ProcsFit, HP!BusyIsOpen
  PROVE  OnlyKilledLeave
<1> SUFFICES ASSUME NEW q \in Procs, NEW r \in Runs, alive[q], HoldsNow(r),
                    fiber[OwnerOf[q]] # "killed"
             PROVE  OwnerOf[q] = r
  BY DEF OnlyKilledLeave
<1> DEFINE s == OwnerOf[q]
<1>1. s \in Runs /\ phase[s] = "open"
  BY HostAssumption DEF HP!ProcsFit, HP!ExecFits, HP!BusyIsOpen
<1>2. down[<<s, "scope">>] = "idle" /\ down[<<s, "user">>] = "idle"
  BY <1>1
  DEF Nested, NestedAt, Host!Quiet, HP!ProcsFit, HP!ExecFits
<1>3. HoldsNow(s)
  BY <1>1, <1>2 DEF HoldsNow, Host!Holding, Host!Callers
<1> QED
  BY <1>1, <1>3 DEF OneHolder

\* Only the death of an operator leaves a process to the next run, for any number
\* of runs and execs and whatever ignores SIGTERM, if the scheduler does not
\* switch fibers inside create.
THEOREM OnlyKilledAlwaysLeave ==
  ASSUME ~FiberYields
  PROVE  Spec => []OnlyKilledLeave
BY OneHolderAlways, NestedAlways, HostProcs, OnlyKilledLeaveNow, PTL

-----------------------------------------------------------------------------
\* A closing run has left every wait for an agent; a create that is still in
\* flight is one nobody waits for, or one of a run that goes on. By the time the
\* sandbox is destroyed no handle is registered with it.
Leaving ==
  /\ \A k \in Calls :
       /\ fiber[CallerOf[k]] = "closing" => call[k] \notin {"creating", "waiting"}
       /\ agent[k] = "creating" => call[k] \in {"creating", "ended"}
  /\ \A r \in Runs :
       LET d == <<r, "scope">>
       IN  pending[d] = {} /\ toKill[d] = {} /\ target[d] = NoProc

LEMMA LeavingInit == Init => Leaving
BY DEF Init, Host!Init, Host!Teardowns, Host!Callers, Leaving

LEMMA LeavingStep == TypeOK /\ HP!ProcsFit /\ Leaving /\ [Next]_vars => Leaving'
<1> SUFFICES ASSUME TypeOK, HP!ProcsFit, Leaving, [Next]_vars PROVE Leaving'
  OBVIOUS
<1> USE CallerAssumption, HostAssumption
<1> USE DEF TypeOK, Leaving
<1>1. ASSUME NEW k \in Calls,
             \/ CallStarts(k) \/ CreateFails(k) \/ AgentCreated(k)
             \/ CallReturns(k) \/ Disposed(k) \/ AgentRests(k)
      PROVE  Leaving'
  BY <1>1
  DEF CallStarts, CreateFails, AgentCreated, CallReturns, Disposed, AgentRests,
      Warm, hostVars
<1>2. ASSUME NEW r \in Runs, RunEnds(r) PROVE Leaving'
  BY <1>2 DEF RunEnds, NoCall, CallsOf, agents, hostVars
<1>3. ASSUME NEW r \in Runs, Interrupt(r) PROVE Leaving'
  BY <1>3 DEF Interrupt, Interrupted, hostVars
<1>4. ASSUME NEW p \in Providers, OperatorDies(p) PROVE Leaving'
  BY <1>4 DEF OperatorDies, hostVars
<1>5. ASSUME UNCHANGED scopeVars, UNCHANGED <<pending, toKill, target>>
      PROVE  Leaving'
  BY <1>5 DEF scopeVars, agents
<1>6. ASSUME NEW r \in Runs, CreateStep(r) PROVE Leaving'
  BY <1>5, <1>6
  DEF CreateStep, Host!Create, Host!CreateBusy, Host!CreateChecks,
      Host!CreateIdFails, Host!CreateTakesSlot, Host!teardown
<1>7. ASSUME NEW q \in Procs, ExecStep(q) \/ ProcStep(q) PROVE Leaving'
  BY <1>5, <1>7
  DEF ExecStep, ProcStep, Host!ExecChecks, Host!ExecSpawned,
      Host!ExecSpawnFails, Host!ExecSettles, Host!ExecAborts, Host!ExecAborted,
      Host!ProcExits, Host!teardown
<1>8. ASSUME NEW r \in Runs, DestroyStep(r) PROVE Leaving'
  <2>1. children[r] = {}
    BY <1>8 DEF DestroyStep, ScopeCloses, Host!Quiet, HP!ProcsFit, HP!ExecFits,
                Host!TypeOK
  <2>2. UNCHANGED scopeVars
    BY <1>8 DEF DestroyStep
  <2>3. CASE Host!DestroyStarts(r, "scope")
    BY <2>1, <2>2, <2>3
    DEF Host!DestroyStarts, Host!TypeOK, Host!Teardowns, Host!Callers, scopeVars,
        agents
  <2>4. ~Host!DestroyKills(r, "scope") /\ ~Host!DestroyAwaits(r, "scope")
    BY DEF Host!DestroyKills, Host!DestroyAwaits
  <2>5. CASE Host!DestroyFinishes(r, "scope")
    BY <1>5, <2>2, <2>5 DEF Host!DestroyFinishes
  <2> QED
    BY <1>8, <2>3, <2>4, <2>5 DEF DestroyStep, Host!Destroy
<1>9. CASE UNCHANGED vars
  BY <1>5, <1>9 DEF vars, hostVars
<1> QED
  BY <1>1, <1>2, <1>3, <1>4, <1>6, <1>7, <1>8, <1>9 DEF Next

LEMMA LeavingAlways == Spec => []Leaving
BY LeavingInit, LeavingStep, TypedAlways, HostProcs, PTL DEF Spec

\* A run that is ending waits neither for an agent nor, in destroy, for a process,
\* for any number of runs, calls and execs and whatever ignores SIGTERM.
THEOREM AlwaysEndsUnaided == Spec => []EndsUnaided
<1>1. Leaving => EndsUnaided
  BY DEF Leaving, EndsUnaided, CallsOf
<1> QED
  BY <1>1, LeavingAlways, PTL

-----------------------------------------------------------------------------
\* One element fewer in a finite set.
LEMMA OneFewer ==
  ASSUME NEW S, NEW x \in S, IsFiniteSet(S)
  PROVE  /\ Cardinality(S) \in Nat /\ Cardinality(S \ {x}) \in Nat
         /\ Cardinality(S \ {x}) < Cardinality(S)
<1>1. Cardinality(S) \in Nat /\ Cardinality(S \ {x}) \in Nat
  BY FS_CardinalityType, FS_RemoveElement
<1>2. Cardinality(S \ {x}) = Cardinality(S) - 1
  BY FS_RemoveElement
<1> QED
  BY <1>1, <1>2

\* The five numbers of ToClose, by name.
Disposals(r) == Cardinality({k \in CallsOf(r) : call[k] = "disposing"})
Execs(r, stage) == Cardinality(ExecsAt(r, stage))

Counted ==
  \A r \in Runs :
    /\ Disposals(r) \in Nat /\ DestroyLeft(r) \in Nat
    /\ Execs(r, "spawning") \in Nat /\ Execs(r, "running") \in Nat
    /\ Execs(r, "aborting") \in Nat

LEMMA AllCounted == Counted
<1> SUFFICES ASSUME NEW r \in Runs
             PROVE  /\ Disposals(r) \in Nat /\ DestroyLeft(r) \in Nat
                    /\ Execs(r, "spawning") \in Nat /\ Execs(r, "running") \in Nat
                    /\ Execs(r, "aborting") \in Nat
  BY DEF Counted
<1>1. IsFiniteSet({k \in CallsOf(r) : call[k] = "disposing"})
  BY FiniteAssumption, FS_Subset DEF CallsOf
<1>2. \A stage : IsFiniteSet(ExecsAt(r, stage))
  BY FiniteAssumption, FS_Subset DEF ExecsAt, ExecsOf
<1> QED
  BY <1>1, <1>2, FS_CardinalityType DEF DestroyLeft, Disposals, Execs

\* A step of the scope of r: the first of its numbers that changes goes down.
Closer(r) ==
  \/ Disposals(r)' < Disposals(r)
  \/ /\ UNCHANGED Disposals(r)
     /\ \/ Execs(r, "spawning")' < Execs(r, "spawning")
        \/ /\ UNCHANGED Execs(r, "spawning")
           /\ \/ Execs(r, "running")' < Execs(r, "running")
              \/ /\ UNCHANGED Execs(r, "running")
                 /\ \/ Execs(r, "aborting")' < Execs(r, "aborting")
                    \/ /\ UNCHANGED Execs(r, "aborting")
                       /\ DestroyLeft(r)' < DestroyLeft(r)

LEMMA CloserIsNearer ==
  ASSUME NEW r \in Runs, Closer(r)
  PROVE  Nearer(ToClose(r)', ToClose(r))
<1> DEFINE a == Disposals(r)
           b == Execs(r, "spawning")
           c == Execs(r, "running")
           d == Execs(r, "aborting")
           e == DestroyLeft(r)
<1>1. Counted /\ Counted'
  BY AllCounted, PTL
<1>2. ToClose(r) = <<a, b, c, d, e>> /\ ToClose(r)' = <<a', b', c', d', e'>>
  BY DEF ToClose, Disposals, Execs
<1>3. /\ a \in Int /\ b \in Int /\ c \in Int /\ d \in Int /\ e \in Int
      /\ a' \in Int /\ b' \in Int /\ c' \in Int /\ d' \in Int /\ e' \in Int
  BY <1>1 DEF Counted
<1>4. \/ a' < a
      \/ a' = a /\ b' < b
      \/ a' = a /\ b' = b /\ c' < c
      \/ a' = a /\ b' = b /\ c' = c /\ d' < d
      \/ a' = a /\ b' = b /\ c' = c /\ d' = d /\ e' < e
  BY DEF Closer
<1> HIDE DEF a, b, c, d, e
<1>5. Nearer(<<a', b', c', d', e'>>, <<a, b, c, d, e>>)
  BY <1>3, <1>4, NearerBy
<1> QED
  BY <1>2, <1>5

\* A call of r is over: it was being disposed of.
LEMMA DisposedCloser ==
  ASSUME NEW k \in Calls, TypeOK, Disposed(k)
  PROVE  Closer(CallerOf[k])
<1> DEFINE S == {j \in CallsOf(CallerOf[k]) : call[j] = "disposing"}
<1>1. {j \in CallsOf(CallerOf[k]) : call'[j] = "disposing"} = S \ {k} /\ k \in S
  BY DEF Disposed, TypeOK, CallsOf
<1>2. IsFiniteSet(S)
  BY FiniteAssumption, FS_Subset DEF CallsOf
<1>3. Disposals(CallerOf[k])' = Cardinality(S \ {k})
  BY <1>1 DEF Disposals, CallsOf
<1> QED
  BY <1>1, <1>2, <1>3, OneFewer DEF Closer, Disposals

\* An exec goes from one stage of its abort to a later one, or settles.
LEMMA ExecCloser ==
  ASSUME NEW q \in Procs, TypeOK, ExecStep(q), fiber[OwnerOf[q]] = "closing"
  PROVE  Closer(OwnerOf[q])
<1> DEFINE r == OwnerOf[q]
<1>0. \A p \in Procs : p # q => exec'[p] = exec[p]
  BY DEF ExecStep, Host!ExecChecks, Host!ExecSpawned, Host!ExecSpawnFails,
         Host!ExecSettles, Host!ExecAborts, Host!ExecAborted, TypeOK, Host!TypeOK
<1>1. UNCHANGED Disposals(r)
  BY DEF ExecStep, scopeVars, agents, Disposals, CallsOf
<1>2. ASSUME NEW stage, ExecsAt(r, stage)' = ExecsAt(r, stage) \ {q},
             q \in ExecsAt(r, stage)
      PROVE  Execs(r, stage)' < Execs(r, stage)
  <2>1. IsFiniteSet(ExecsAt(r, stage))
    BY FiniteAssumption, FS_Subset DEF ExecsAt, ExecsOf
  <2>2. Execs(r, stage)' = Cardinality(ExecsAt(r, stage) \ {q})
    BY <1>2 DEF Execs
  <2> QED
    BY <1>2, <2>1, <2>2, OneFewer DEF Execs
<1>3. CASE exec[q] = "spawning" /\ exec'[q] # "spawning"
  <2>1. ExecsAt(r, "spawning")' = ExecsAt(r, "spawning") \ {q}
        /\ q \in ExecsAt(r, "spawning")
    BY <1>0, <1>3 DEF ExecsAt, ExecsOf
  <2> QED
    BY <1>1, <1>2, <2>1 DEF Closer
<1>4. CASE exec[q] = "running" /\ exec'[q] \in {"aborting", "settled"}
  <2>1. /\ ExecsAt(r, "running")' = ExecsAt(r, "running") \ {q}
        /\ ExecsAt(r, "spawning")' = ExecsAt(r, "spawning")
        /\ q \in ExecsAt(r, "running")
    BY <1>0, <1>4 DEF ExecsAt, ExecsOf
  <2> QED
    BY <1>1, <1>2, <2>1 DEF Closer, Execs
<1>5. CASE exec[q] = "aborting" /\ exec'[q] = "settled"
  <2>1. /\ ExecsAt(r, "aborting")' = ExecsAt(r, "aborting") \ {q}
        /\ ExecsAt(r, "spawning")' = ExecsAt(r, "spawning")
        /\ ExecsAt(r, "running")' = ExecsAt(r, "running")
        /\ q \in ExecsAt(r, "aborting")
    BY <1>0, <1>5 DEF ExecsAt, ExecsOf
  <2> QED
    BY <1>1, <1>2, <2>1 DEF Closer, Execs
<1> QED
  BY <1>3, <1>4, <1>5
  DEF ExecStep, Host!ExecChecks, Host!ExecSpawned, Host!ExecSpawnFails,
      Host!ExecSettles, Host!ExecAborts, Host!ExecAborted, TypeOK, Host!TypeOK

\* The destroy of a scope has nothing to kill, so it starts and finishes.
LEMMA DestroyCloser ==
  ASSUME NEW r \in Runs, TypeOK, Leaving, DestroyStep(r)
  PROVE  Closer(r)
<1>1. UNCHANGED Disposals(r)
  BY DEF DestroyStep, scopeVars, agents, Disposals, CallsOf
<1>2. ~Host!DestroyKills(r, "scope") /\ ~Host!DestroyAwaits(r, "scope")
  BY DEF Host!DestroyKills, Host!DestroyAwaits, Leaving
<1>3. UNCHANGED exec /\ DestroyLeft(r)' < DestroyLeft(r)
  BY <1>2
  DEF DestroyStep, Host!Destroy, Host!DestroyStarts, Host!DestroyFinishes,
      Host!procs, DestroyLeft, TypeOK, Host!TypeOK, Host!Teardowns, Host!Callers
<1>4. \A stage : UNCHANGED Execs(r, stage)
  BY <1>3 DEF Execs, ExecsAt, ExecsOf
<1> QED
  BY <1>1, <1>3, <1>4 DEF Closer

\* What other runs do, and what agents and processes do by themselves, leaves the
\* scope of a closing run alone.
LEMMA ClosingStep ==
  ASSUME TypeOK, Leaving, [Next]_vars, NEW r \in Runs,
         fiber[r] = "closing", fiber'[r] = "closing"
  PROVE  UNCHANGED ScopeOf(r) \/ Closer(r)
<1> USE CallerAssumption, HostAssumption DEF TypeOK
<1>1. ASSUME UNCHANGED <<exec, down, target>>,
             \A k \in CallsOf(r) : call'[k] = call[k]
      PROVE  UNCHANGED ScopeOf(r)
  BY <1>1 DEF ScopeOf, CallsOf, ExecsOf
<1>2. ASSUME NEW k \in Calls,
             \/ CallStarts(k) \/ CreateFails(k) \/ AgentCreated(k)
             \/ CallReturns(k) \/ AgentRests(k)
      PROVE  UNCHANGED ScopeOf(r)
  BY <1>1, <1>2
  DEF CallStarts, CreateFails, AgentCreated, CallReturns, AgentRests, Warm,
      hostVars, CallsOf, Leaving
<1>3. ASSUME NEW k \in Calls, Disposed(k)
      PROVE  UNCHANGED ScopeOf(r) \/ Closer(r)
  <2>1. CASE CallerOf[k] = r
    BY <1>3, <2>1, DisposedCloser
  <2>2. CASE CallerOf[k] # r
    BY <1>1, <1>3, <2>2 DEF Disposed, hostVars, CallsOf
  <2> QED
    BY <2>1, <2>2
<1>4. ASSUME NEW s \in Runs, RunEnds(s) \/ Interrupt(s)
      PROVE  UNCHANGED ScopeOf(r)
  BY <1>1, <1>4 DEF RunEnds, Interrupt, Warm, agents, hostVars, CallsOf
<1>5. ASSUME NEW p \in Providers, OperatorDies(p) PROVE UNCHANGED ScopeOf(r)
  BY <1>1, <1>5 DEF OperatorDies, hostVars, CallsOf
<1>6. ASSUME NEW s \in Runs, CreateStep(s) PROVE UNCHANGED ScopeOf(r)
  BY <1>1, <1>6
  DEF CreateStep, scopeVars, agents, Host!Create, Host!CreateBusy,
      Host!CreateChecks, Host!CreateIdFails, Host!CreateTakesSlot,
      Host!teardown, Host!procs
<1>7. ASSUME NEW s \in Runs, DestroyStep(s)
      PROVE  UNCHANGED ScopeOf(r) \/ Closer(r)
  <2>1. CASE s = r
    BY <1>7, <2>1, DestroyCloser
  <2>2. CASE s # r
    BY <1>7, <2>2
    DEF DestroyStep, scopeVars, agents, ScopeOf, CallsOf, ExecsOf, Host!Destroy,
        Host!DestroyStarts, Host!DestroyKills, Host!DestroyAwaits,
        Host!DestroyFinishes, Host!procs, Host!TypeOK, Host!Teardowns, Host!Callers
  <2> QED
    BY <2>1, <2>2
<1>8. ASSUME NEW q \in Procs, ExecStep(q)
      PROVE  UNCHANGED ScopeOf(r) \/ Closer(r)
  <2>1. CASE OwnerOf[q] = r
    BY <1>8, <2>1, ExecCloser
  <2>2. CASE OwnerOf[q] # r
    BY <1>8, <2>2
    DEF ExecStep, scopeVars, agents, ScopeOf, CallsOf, ExecsOf, Host!ExecChecks,
        Host!ExecSpawned, Host!ExecSpawnFails, Host!ExecSettles, Host!ExecAborts,
        Host!ExecAborted, Host!teardown, Host!TypeOK
  <2> QED
    BY <2>1, <2>2
<1>9. ASSUME NEW q \in Procs, ProcStep(q) PROVE UNCHANGED ScopeOf(r)
  BY <1>1, <1>9 DEF ProcStep, scopeVars, agents, Host!ProcExits, Host!teardown
<1>10. CASE UNCHANGED vars
  BY <1>1, <1>10 DEF vars, hostVars, scopeVars, agents
<1> QED
  BY <1>2, <1>3, <1>4, <1>5, <1>6, <1>7, <1>8, <1>9, <1>10 DEF Next

\* Each step of a scope that closes brings it nearer to its end; with
\* NoEndlessDescent it takes finitely many, for any finite sets of calls and execs.
THEOREM ClosingAlwaysGetsNearer == Spec => ClosingGetsNearer
<1>1. TypeOK /\ Leaving /\ [Next]_vars =>
        [\A r \in Runs : fiber[r] = "closing" /\ fiber'[r] = "closing" =>
           UNCHANGED ScopeOf(r) \/ Nearer(ToClose(r)', ToClose(r))]_vars
  BY ClosingStep, CloserIsNearer
<1> QED
  BY <1>1, TypedAlways, LeavingAlways, PTL DEF Spec, ClosingGetsNearer
=============================================================================
