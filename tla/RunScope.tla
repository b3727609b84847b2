----------------------------- MODULE RunScope -----------------------------
(***************************************************************************)
(* The scope of a run: its sandbox (HostSandbox), the agent calls of the   *)
(* Cursor adapter, which live in inner scopes of their own, and what an    *)
(* interrupt of its fiber, or the death of the operator process, leaves.   *)
(*                                                                         *)
(* An agent call is a step of the run's fiber and an exec is another, so   *)
(* a run does one or the other. The SDK's promises go on by themselves: a  *)
(* fiber that is interrupted stops waiting for them at once. What disposal *)
(* does to an agent is the SDK's: it stops it, or rejects, which the       *)
(* adapter swallows. The agents live in the operator process.              *)
(***************************************************************************)
EXTENDS Naturals, FiniteSets, Descent

CONSTANTS
  Runs, NoRun, Providers, ProviderOf, Procs, NoProc, OwnerOf, Stubborn,
  FiberYields,   \* of HostSandbox
  Calls,         \* agent calls: run or resume of a provider
  CallerOf       \* the run that makes the call

\* Those of HostSandbox, for the instance below.
ASSUME HostAssumption ==
  /\ NoRun \notin Runs /\ NoProc \notin Procs /\ Stubborn \subseteq Procs
  /\ ProviderOf \in [Runs -> Providers] /\ OwnerOf \in [Procs -> Runs]
  /\ FiberYields \in BOOLEAN
ASSUME CallerAssumption == CallerOf \in [Calls -> Runs]
ASSUME FiniteAssumption == IsFiniteSet(Calls) /\ IsFiniteSet(Procs)

VARIABLES
  activeId, phase, destroyed, raced, children, down, pending, toKill, target,
  exec, alive, termed,  \* of HostSandbox
  fiber,         \* per run: "running", "closing", "killed" with its process
  call,          \* "idle", "creating", "waiting", "disposing", "ended"
  agent,         \* "none", "creating", "resting", "working", "gone"
  undisposed     \* history: agents whose disposal was rejected

Host == INSTANCE HostSandbox
hostVars == <<activeId, phase, destroyed, raced, down, pending, toKill, target,
              children, exec, alive, termed>>
agents == <<call, agent, undisposed>>
scopeVars == <<fiber, agents>>
vars == <<hostVars, scopeVars>>

TypeOK ==
  /\ Host!TypeOK
  /\ fiber \in [Runs -> {"running", "closing", "killed"}]
  /\ call \in [Calls -> {"idle", "creating", "waiting", "disposing", "ended"}]
  /\ agent \in [Calls -> {"none", "creating", "resting", "working", "gone"}]
  /\ undisposed \subseteq Calls

Init ==
  /\ Host!Init
  /\ fiber = [r \in Runs |-> "running"]
  /\ call = [k \in Calls |-> "idle"]
  /\ agent = [k \in Calls |-> "none"]
  /\ undisposed = {}

CallsOf(r) == {k \in Calls : CallerOf[k] = r}
NoCall(r) == \A k \in CallsOf(r) : call[k] \in {"idle", "ended"}
Warm(r) == fiber[r] = "running" /\ phase[r] = "open" /\ ~destroyed[r]

-----------------------------------------------------------------------------
\* An agent call: create or resume, send, wait, dispose.

CallStarts(k) ==
  /\ call[k] = "idle" /\ Warm(CallerOf[k])
  /\ NoCall(CallerOf[k]) /\ Host!Quiet(CallerOf[k])
  /\ call' = [call EXCEPT ![k] = "creating"]
  /\ agent' = [agent EXCEPT ![k] = "creating"]
  /\ UNCHANGED <<hostVars, fiber, undisposed>>

CreateFails(k) ==
  /\ agent[k] = "creating"
  /\ agent' = [agent EXCEPT ![k] = "none"]
  /\ call' = [call EXCEPT ![k] = "ended"]
  /\ UNCHANGED <<hostVars, fiber, undisposed>>

\* The promise of the create is answered. If the call still waits for it, its
\* finalizer is added and the prompt is sent; otherwise nobody hears of the
\* agent.
AgentCreated(k) ==
  /\ agent[k] = "creating"
  /\ IF call[k] = "creating"
       THEN /\ call' = [call EXCEPT ![k] = "waiting"]
            /\ agent' = [agent EXCEPT ![k] = "working"]
       ELSE agent' = [agent EXCEPT ![k] = "resting"] /\ UNCHANGED call
  /\ UNCHANGED <<hostVars, fiber, undisposed>>

\* Mutant of CallReturns: nothing disposes of the agent of a finished call.
CallReturnsKeeping(k) ==
  /\ call[k] = "waiting"
  /\ call' = [call EXCEPT ![k] = "ended"]
  /\ agent' = [agent EXCEPT ![k] = "resting"]
  /\ UNCHANGED <<hostVars, fiber, undisposed>>

\* wait returns or fails, the latter perhaps with the agent at work.
CallReturns(k) ==
  /\ call[k] = "waiting"
  /\ call' = [call EXCEPT ![k] = "disposing"]
  /\ \E left \in {"resting", "working"} : agent' = [agent EXCEPT ![k] = left]
  /\ UNCHANGED <<hostVars, fiber, undisposed>>

\* Mutant of Disposed: the disposal is started and not awaited.
DisposedLater(k) ==
  /\ call[k] = "disposing"
  /\ call' = [call EXCEPT ![k] = "ended"]
  /\ UNCHANGED <<hostVars, fiber, agent, undisposed>>

Disposed(k) ==
  /\ call[k] = "disposing"
  /\ call' = [call EXCEPT ![k] = "ended"]
  /\ \/ agent' = [agent EXCEPT ![k] = "gone"] /\ UNCHANGED undisposed
     \/ undisposed' = undisposed \union {k} /\ UNCHANGED agent
  /\ UNCHANGED <<hostVars, fiber>>

\* An agent nobody waits for comes to the end of its work.
AgentRests(k) ==
  /\ agent[k] = "working" /\ call[k] # "waiting"
  /\ agent' = [agent EXCEPT ![k] = "resting"]
  /\ UNCHANGED <<hostVars, fiber, call, undisposed>>

-----------------------------------------------------------------------------
\* The fiber of a run.

RunEnds(r) ==
  /\ Warm(r) /\ NoCall(r) /\ Host!Quiet(r)
  /\ fiber' = [fiber EXCEPT ![r] = "closing"]
  /\ UNCHANGED <<hostVars, agents>>

\* Mutant of Interrupted: the wait for the agent cannot be interrupted.
InterruptWaits(k) == call[k]

\* Mutant of Interrupted: the agent's state is taken for the call's.
InterruptMixesUp(k) == agent[k]

\* The step an interrupt finds a call in: a create is left to itself, a wait
\* is left for the disposal, a disposal is a finalizer and goes on.
Interrupted(k) ==
  CASE call[k] = "creating" -> "ended"
    [] call[k] = "waiting" -> "disposing"
    [] OTHER -> call[k]

Interrupt(r) ==
  /\ Warm(r)
  /\ fiber' = [fiber EXCEPT ![r] = "closing"]
  /\ call' = [k \in Calls |-> IF CallerOf[k] = r THEN Interrupted(k)
                                                 ELSE call[k]]
  /\ UNCHANGED <<hostVars, agent, undisposed>>

\* A signal ends the operator process: no finalizer runs. Its agents end with
\* it, its child processes, in groups of their own, do not.
OperatorDies(p) ==
  /\ \E r \in Runs : ProviderOf[r] = p /\ phase[r] # "idle"
                       /\ fiber[r] # "killed"
  /\ fiber' = [r \in Runs |-> IF ProviderOf[r] = p THEN "killed" ELSE fiber[r]]
  /\ agent' = [k \in Calls |-> IF ProviderOf[CallerOf[k]] = p THEN "gone"
                                                             ELSE agent[k]]
  /\ call' = [k \in Calls |-> IF ProviderOf[CallerOf[k]] = p THEN "ended"
                                                            ELSE call[k]]
  /\ UNCHANGED <<hostVars, undisposed>>

-----------------------------------------------------------------------------
\* The steps of HostSandbox, when the fiber takes them.

Finished(r) == \/ phase[r] \in {"idle", "refused"} \/ fiber[r] = "killed"
               \/ down[<<r, "scope">>] = "done"
\* One operator at a time on the machine, as the runbook asks.
OnlyOperator(r) ==
  \A s \in Runs : ProviderOf[s] # ProviderOf[r] => Finished(s)

CreateStep(r) ==
  /\ fiber[r] = "running" /\ OnlyOperator(r)
  /\ Host!Create(r) /\ UNCHANGED scopeVars

\* Mutant of ExecStep: a gate is started after the interrupt.
ExecStepAnytime(q) ==
  LET r == OwnerOf[q] IN
  /\ fiber[r] # "killed"
  /\ \/ Host!ExecChecks(q) /\ NoCall(r)
     \/ Host!ExecSpawned(q) \/ Host!ExecSpawnFails(q)
     \/ Host!ExecSettles(q) \/ Host!ExecAborts(q) \/ Host!ExecAborted(q)
  /\ UNCHANGED scopeVars

ExecStep(q) ==
  LET r == OwnerOf[q] IN
  /\ \/ Host!ExecChecks(q) /\ fiber[r] = "running" /\ NoCall(r)
     \/ /\ fiber[r] # "killed"
        /\ \/ Host!ExecSpawned(q) \/ Host!ExecSpawnFails(q)
           \/ Host!ExecSettles(q) \/ Host!ExecAborts(q) \/ Host!ExecAborted(q)
  /\ UNCHANGED scopeVars

\* Mutant of ScopeCloses: the sandbox does not wait for the inner scopes.
ScopeClosesAnyhow(r) == fiber[r] = "closing"

\* Finalizers run last-added first, and a finalizer waits for the steps it
\* interrupts: the sandbox is destroyed last.
ScopeCloses(r) == fiber[r] = "closing" /\ NoCall(r) /\ Host!Quiet(r)

DestroyStep(r) ==
  /\ ScopeCloses(r) /\ Host!Destroy(r, "scope") /\ UNCHANGED scopeVars

ProcStep(q) == Host!ProcExits(q) /\ UNCHANGED scopeVars

Next ==
  \/ \E k \in Calls : \/ CallStarts(k) \/ CreateFails(k) \/ AgentCreated(k)
                      \/ CallReturns(k) \/ Disposed(k) \/ AgentRests(k)
  \/ \E r \in Runs : \/ RunEnds(r) \/ Interrupt(r)
                     \/ CreateStep(r) \/ DestroyStep(r)
  \/ \E q \in Procs : ExecStep(q) \/ ProcStep(q)
  \/ \E p \in Providers : OperatorDies(p)

\* A closing fiber goes on: a disposal is answered, an exec in progress is
\* aborted or settles, signalled processes exit. No agent need ever answer.
Fairness ==
  /\ \A k \in Calls : WF_vars(Disposed(k))
  /\ \A q \in Procs :
       /\ WF_vars(fiber[OwnerOf[q]] = "closing" /\ ExecStep(q))
       /\ WF_vars(Host!ProcObeysTerm(q) /\ UNCHANGED scopeVars)
  /\ \A r \in Runs : WF_vars(DestroyStep(r))

Spec == Init /\ [][Next]_vars
FairSpec == Spec /\ Fairness

-----------------------------------------------------------------------------
(***************************************************************************)
(* Properties.                                                             *)
(***************************************************************************)

\* The run of a live operator holds its sandbox.
HoldsNow(r) == Host!Holding(r) /\ fiber[r] # "killed"

\* While a run holds the sandbox no agent of another run writes the worktree,
\* however that run was interrupted, unless the SDK refused to dispose of it
\* (disposeAgent in cursor-agent-provider.ts inside the scope of create in
\* sandbox-provider.ts).
OneRunWrites ==
  \A k \in Calls \ undisposed, r \in Runs :
    agent[k] = "working" /\ HoldsNow(r) => CallerOf[k] = r

\* When a run that was not interrupted has ended, none of its agents is left,
\* unless the SDK refused: run and resume dispose of every agent they were
\* given, whether its call succeeds or fails.
AgentsDisposed ==
  \A k \in Calls \ undisposed :
    call[k] = "ended" /\ fiber[CallerOf[k]] = "running"
      => agent[k] \in {"none", "gone"}

\* No process of another run is there while a run holds the sandbox: destroy,
\* with its child kill, always runs, and the slot cannot leak on abort
\* (sandbox-provider.ts).
NoProcessOfOtherRun ==
  \A q \in Procs, r \in Runs : alive[q] /\ HoldsNow(r) => OwnerOf[q] = r

\* A process of another run beside the holder of the sandbox is one that a killed
\* operator left: no way a run can end or be interrupted leaves one, for the next
\* run of the same operator or of another (the exec and agent scopes inside the
\* scope of create in sandbox-provider.ts).
OnlyKilledLeave ==
  \A q \in Procs, r \in Runs :
    alive[q] /\ HoldsNow(r) /\ OwnerOf[q] # r => fiber[OwnerOf[q]] = "killed"

\* A run that is ending waits for no answer of an agent, and its destroy has no
\* process to wait for, so not even one that ignores SIGTERM can hold the kill
\* loop up: what is left to wait for is a disposal and the exit of an exec that
\* the run itself has aborted (acquireRelease in cursor-agent-provider.ts and
\* sandbox-provider.ts).
EndsUnaided ==
  \A r \in Runs : fiber[r] = "closing" =>
    /\ \A k \in CallsOf(r) : call[k] \notin {"creating", "waiting"}
    /\ pending[<<r, "scope">>] = {}

\* How far a closing run is from the end of its scope: calls to dispose of, execs
\* in each stage, the destroy.
ExecsOf(r) == {q \in Procs : OwnerOf[q] = r}
ExecsAt(r, stage) == {q \in ExecsOf(r) : exec[q] = stage}
DestroyLeft(r) == CASE down[<<r, "scope">>] = "idle" -> 2
                    [] down[<<r, "scope">>] = "killing" -> 1
                    [] OTHER -> 0

ToClose(r) ==
  <<Cardinality({k \in CallsOf(r) : call[k] = "disposing"}),
    Cardinality(ExecsAt(r, "spawning")), Cardinality(ExecsAt(r, "running")),
    Cardinality(ExecsAt(r, "aborting")), DestroyLeft(r)>>

ScopeOf(r) == <<[k \in CallsOf(r) |-> call[k]], [q \in ExecsOf(r) |-> exec[q]],
                down[<<r, "scope">>], target[<<r, "scope">>]>>

\* A scope that closes is not kept busy: nothing is started in it any more, and
\* each of its steps brings it nearer to its end, however the agents answer and
\* whenever the processes exit (the finalizers of a run, last-added first).
ClosingGetsNearer ==
  [][\A r \in Runs : fiber[r] = "closing" /\ fiber'[r] = "closing" =>
       UNCHANGED ScopeOf(r) \/ Nearer(ToClose(r)', ToClose(r))]_vars

\* A run that ends or is interrupted gives its slot back, whatever its agents
\* do: no interrupt waits for an agent's answer.
RunGivesBack ==
  \A r \in Runs :
    fiber[r] = "closing" ~> activeId[ProviderOf[r]] # r \/ fiber[r] = "killed"
=============================================================================
