---------------------------- MODULE HostSandbox ----------------------------
(***************************************************************************)
(* SandboxProvider.Host: the Host slot (`activeId'), create, exec and      *)
(* destroy of warm sandboxes, and the child processes they run.            *)
(*                                                                         *)
(* Each run creates at most one sandbox, so a run also names its sandbox   *)
(* id. A provider is one instance of the Host layer; `activeId' is a       *)
(* variable of that instance, not of the machine. Destroy may be running   *)
(* twice for one sandbox: called by its user, and as the finalizer of the  *)
(* scope that created it.                                                  *)
(*                                                                         *)
(* Child processes are external: handle.kill of the Effect child process   *)
(* module signals the process group and then waits for the exit, with no   *)
(* bound of its own. Signals are taken to be deliverable.                  *)
(***************************************************************************)
EXTENDS Naturals, FiniteSets

CONSTANTS
  Runs,              \* callers of create; a run stands for its sandbox
  NoRun,
  Providers,         \* instances of the Host layer on one machine
  ProviderOf,        \* the instance a run uses
  Procs,             \* exec calls, each with the process it spawns
  NoProc,
  OwnerOf,           \* the run whose sandbox an exec call uses
  Stubborn,          \* processes that ignore SIGTERM
  FiberYields        \* the scheduler may switch fibers inside create

ASSUME RunsAssumption == NoRun \notin Runs /\ NoProc \notin Procs
ASSUME ProviderAssumption == ProviderOf \in [Runs -> Providers]
ASSUME OwnerAssumption == OwnerOf \in [Procs -> Runs]
ASSUME StubbornAssumption == Stubborn \subseteq Procs
ASSUME YieldsAssumption == FiberYields \in BOOLEAN

Callers == {"user", "scope"}
Teardowns == Runs \X Callers

VARIABLES
  activeId,     \* [Providers -> Runs \union {NoRun}]
  phase,        \* creation: "idle", "checked", "open", "refused"
  destroyed,    \* the sandbox refuses new execs
  raced,        \* history: a destroy began while one of its execs was running
  children,     \* handles registered with the sandbox
  down,         \* per destroy call: "idle", "killing", "done"
  pending,      \* its snapshot of children
  toKill,       \* the part of the snapshot not yet killed
  target,       \* the handle whose exit it awaits
  exec,         \* per exec call: "idle" .. "settled"
  alive,        \* the process exists
  termed        \* SIGTERM was sent to it

slots == <<activeId, phase>>
teardown == <<destroyed, raced, down, pending, toKill, target>>
procs == <<children, exec, alive, termed>>
vars == <<slots, teardown, procs>>

TypeOK ==
  /\ activeId \in [Providers -> Runs \union {NoRun}]
  /\ phase \in [Runs -> {"idle", "checked", "open", "refused"}]
  /\ destroyed \in [Runs -> BOOLEAN]
  /\ raced \in SUBSET Runs
  /\ children \in [Runs -> SUBSET Procs]
  /\ down \in [Teardowns -> {"idle", "killing", "done"}]
  /\ pending \in [Teardowns -> SUBSET Procs]
  /\ toKill \in [Teardowns -> SUBSET Procs]
  /\ target \in [Teardowns -> Procs \union {NoProc}]
  /\ exec \in [Procs -> {"idle", "spawning", "running", "aborting", "settled"}]
  /\ alive \in [Procs -> BOOLEAN]
  /\ termed \in [Procs -> BOOLEAN]

Init ==
  /\ activeId = [p \in Providers |-> NoRun]
  /\ phase = [r \in Runs |-> "idle"]
  /\ destroyed = [r \in Runs |-> FALSE]
  /\ raced = {}
  /\ children = [r \in Runs |-> {}]
  /\ down = [d \in Teardowns |-> "idle"]
  /\ pending = [d \in Teardowns |-> {}]
  /\ toKill = [d \in Teardowns |-> {}]
  /\ target = [d \in Teardowns |-> NoProc]
  /\ exec = [q \in Procs |-> "idle"]
  /\ alive = [q \in Procs |-> FALSE]
  /\ termed = [q \in Procs |-> FALSE]

-----------------------------------------------------------------------------
\* create: check the slot, allocate an id, take the slot.

InCreate(p) == {r \in Runs : ProviderOf[r] = p /\ phase[r] = "checked"}

CreateBusy(r) ==
  /\ phase[r] = "idle" /\ activeId[ProviderOf[r]] # NoRun
  /\ phase' = [phase EXCEPT ![r] = "refused"]
  /\ UNCHANGED <<activeId, teardown, procs>>

\* The check. Allocating the id is one more step of the fiber, and another
\* fiber can run create meanwhile only if the scheduler switches there.
CreateChecks(r) ==
  /\ phase[r] = "idle" /\ activeId[ProviderOf[r]] = NoRun
  /\ FiberYields \/ InCreate(ProviderOf[r]) = {}
  /\ phase' = [phase EXCEPT ![r] = "checked"]
  /\ UNCHANGED <<activeId, teardown, procs>>

\* No id could be allocated: SandboxCreateError, and the slot stays free.
CreateIdFails(r) ==
  /\ phase[r] = "checked"
  /\ phase' = [phase EXCEPT ![r] = "refused"]
  /\ UNCHANGED <<activeId, teardown, procs>>

CreateTakesSlot(r) ==
  /\ phase[r] = "checked"
  /\ phase' = [phase EXCEPT ![r] = "open"]
  /\ activeId' = [activeId EXCEPT ![ProviderOf[r]] = r]
  /\ UNCHANGED <<teardown, procs>>

-----------------------------------------------------------------------------
\* exec: check, spawn, register, wait for the exit, unregister.

Usable(r) == ~destroyed[r] /\ activeId[ProviderOf[r]] = r

ExecChecks(q) ==
  /\ phase[OwnerOf[q]] = "open" /\ exec[q] = "idle"
  /\ exec' = [exec EXCEPT ![q] =
                IF Usable(OwnerOf[q]) THEN "spawning" ELSE "settled"]
  /\ UNCHANGED <<slots, teardown, children, alive, termed>>

\* The spawn callback: the process runs and its handle is registered.
ExecSpawned(q) ==
  /\ exec[q] = "spawning"
  /\ exec' = [exec EXCEPT ![q] = "running"]
  /\ alive' = [alive EXCEPT ![q] = TRUE]
  /\ children' = [children EXCEPT ![OwnerOf[q]] = @ \union {q}]
  /\ UNCHANGED <<slots, teardown, termed>>

\* Mutant of ExecSpawnFails: the missing handle is registered all the same.
ExecRegistersNothing(q) ==
  /\ exec[q] = "spawning"
  /\ exec' = [exec EXCEPT ![q] = "settled"]
  /\ children' = [children EXCEPT ![OwnerOf[q]] = @ \union {NoProc}]
  /\ UNCHANGED <<slots, teardown, alive, termed>>

ExecSpawnFails(q) ==
  /\ exec[q] = "spawning"
  /\ exec' = [exec EXCEPT ![q] = "settled"]
  /\ UNCHANGED <<slots, teardown, children, alive, termed>>

ExecSettles(q) ==
  /\ exec[q] = "running" /\ ~alive[q]
  /\ exec' = [exec EXCEPT ![q] = "settled"]
  /\ children' = [children EXCEPT ![OwnerOf[q]] = @ \ {q}]
  /\ UNCHANGED <<slots, teardown, alive, termed>>

\* The exec fiber is interrupted: finalizers run last-added first, so the
\* handle is unregistered before the process is signalled and awaited.
ExecAborts(q) ==
  /\ exec[q] = "running" /\ alive[q]
  /\ exec' = [exec EXCEPT ![q] = "aborting"]
  /\ children' = [children EXCEPT ![OwnerOf[q]] = @ \ {q}]
  /\ termed' = [termed EXCEPT ![q] = TRUE]
  /\ UNCHANGED <<slots, teardown, alive>>

\* Mutant of ExecAborted: the aborted process is signalled, not awaited.
ExecAbortedEarly(q) ==
  /\ exec[q] = "aborting"
  /\ exec' = [exec EXCEPT ![q] = "settled"]
  /\ UNCHANGED <<slots, teardown, children, alive, termed>>

ExecAborted(q) ==
  /\ exec[q] = "aborting" /\ ~alive[q]
  /\ exec' = [exec EXCEPT ![q] = "settled"]
  /\ UNCHANGED <<slots, teardown, children, alive, termed>>

-----------------------------------------------------------------------------
\* destroy, as called by c on the sandbox of r.

Quiet(r) == \A q \in Procs : OwnerOf[q] = r => exec[q] \in {"idle", "settled"}

DestroyStarts(r, c) ==
  /\ phase[r] = "open" /\ down[<<r, c>>] = "idle"
  /\ raced' = IF Quiet(r) THEN raced ELSE raced \union {r}
  /\ destroyed' = [destroyed EXCEPT ![r] = TRUE]
  /\ down' = [down EXCEPT ![<<r, c>>] = "killing"]
  /\ pending' = [pending EXCEPT ![<<r, c>>] = children[r]]
  /\ toKill' = [toKill EXCEPT ![<<r, c>>] = children[r]]
  /\ UNCHANGED <<slots, target, procs>>

\* One handle after the other: SIGTERM, then wait for that exit.
DestroyKills(r, c) ==
  /\ down[<<r, c>>] = "killing" /\ target[<<r, c>>] = NoProc
  /\ \E q \in toKill[<<r, c>>] :
       /\ target' = [target EXCEPT ![<<r, c>>] = q]
       /\ toKill' = [toKill EXCEPT ![<<r, c>>] = @ \ {q}]
       /\ termed' = [termed EXCEPT ![q] = TRUE]
  /\ UNCHANGED <<slots, destroyed, raced, down, pending, children, exec, alive>>

\* Mutant of DestroyAwaits: the exit of the process is not awaited.
DestroyHurries(r, c) ==
  /\ target[<<r, c>>] # NoProc
  /\ target' = [target EXCEPT ![<<r, c>>] = NoProc]
  /\ UNCHANGED <<slots, destroyed, raced, down, pending, toKill, procs>>

DestroyAwaits(r, c) ==
  /\ target[<<r, c>>] # NoProc /\ ~alive[target[<<r, c>>]]
  /\ target' = [target EXCEPT ![<<r, c>>] = NoProc]
  /\ UNCHANGED <<slots, destroyed, raced, down, pending, toKill, procs>>

\* Mutant of DestroyFinishes: the slot is freed whoever holds it.
DestroyFreesAny(r, c) ==
  /\ down[<<r, c>>] = "killing"
  /\ target[<<r, c>>] = NoProc /\ toKill[<<r, c>>] = {}
  /\ down' = [down EXCEPT ![<<r, c>>] = "done"]
  /\ children' = [children EXCEPT ![r] = {}]
  /\ activeId' = [activeId EXCEPT ![ProviderOf[r]] = NoRun]
  /\ UNCHANGED <<phase, destroyed, raced, pending, toKill, target, exec, alive,
                 termed>>

\* Mutant of DestroyFinishes: the slot is freed in the body, not in `ensuring',
\* so an interrupted destroy keeps it.
DestroyFreesLast(r, c) ==
  /\ down[<<r, c>>] = "killing"
  /\ target[<<r, c>>] = NoProc /\ toKill[<<r, c>>] = {}
  /\ down' = [down EXCEPT ![<<r, c>>] = "done"]
  /\ \/ /\ children' = [children EXCEPT ![r] = {}]
        /\ activeId' = [activeId EXCEPT ![ProviderOf[r]] =
                          IF @ = r THEN NoRun ELSE @]
     \/ UNCHANGED <<children, activeId>>
  /\ UNCHANGED <<phase, destroyed, raced, pending, toKill, target, exec, alive,
                 termed>>

\* Nothing left to kill. The bounded wait with its SIGKILL escalation finds
\* every handle of the snapshot already exited; then the registry is cleared
\* (not if the caller is interrupted in that wait) and the slot is given back
\* if it is still this sandbox's.
DestroyFinishes(r, c) ==
  /\ down[<<r, c>>] = "killing"
  /\ target[<<r, c>>] = NoProc /\ toKill[<<r, c>>] = {}
  /\ down' = [down EXCEPT ![<<r, c>>] = "done"]
  /\ \E left \in {{}, children[r]} : children' = [children EXCEPT ![r] = left]
  /\ activeId' = [activeId EXCEPT ![ProviderOf[r]] =
                    IF @ = r THEN NoRun ELSE @]
  /\ UNCHANGED <<phase, destroyed, raced, pending, toKill, target, exec, alive,
                 termed>>

-----------------------------------------------------------------------------
\* Processes.

ProcExits(q) ==
  /\ alive[q]
  /\ alive' = [alive EXCEPT ![q] = FALSE]
  /\ UNCHANGED <<slots, teardown, children, exec, termed>>

ProcObeysTerm(q) == termed[q] /\ q \notin Stubborn /\ ProcExits(q)

-----------------------------------------------------------------------------

Create(r) ==
  \/ CreateBusy(r) \/ CreateChecks(r) \/ CreateIdFails(r) \/ CreateTakesSlot(r)
Exec(q) ==
  \/ ExecChecks(q) \/ ExecSpawned(q) \/ ExecSpawnFails(q)
  \/ ExecSettles(q) \/ ExecAborts(q) \/ ExecAborted(q)
Destroy(r, c) ==
  \/ DestroyStarts(r, c) \/ DestroyKills(r, c)
  \/ DestroyAwaits(r, c) \/ DestroyFinishes(r, c)

Next ==
  \/ \E r \in Runs : Create(r)
  \/ \E q \in Procs : Exec(q) \/ ProcExits(q)
  \/ \E r \in Runs, c \in Callers : Destroy(r, c)

\* Fibers that can go on do, and a signalled process exits unless it ignores
\* the signal. No process need exit by itself, no destroy need be called.
Fairness ==
  /\ \A r \in Runs : WF_vars(CreateIdFails(r) \/ CreateTakesSlot(r))
  /\ \A q \in Procs :
       /\ WF_vars(ExecSpawned(q) \/ ExecSpawnFails(q))
       /\ WF_vars(ExecSettles(q)) /\ WF_vars(ExecAborted(q))
       /\ WF_vars(ProcObeysTerm(q))
  /\ \A r \in Runs, c \in Callers :
       WF_vars(\/ DestroyKills(r, c) \/ DestroyAwaits(r, c)
               \/ DestroyFinishes(r, c))

Spec == Init /\ [][Next]_vars
FairSpec == Spec /\ Fairness

-----------------------------------------------------------------------------
(***************************************************************************)
(* Properties.                                                             *)
(***************************************************************************)

\* The sandbox exists and none of its destroy calls has come to its end.
Holding(r) == phase[r] = "open" /\ \A c \in Callers : down[<<r, c>>] # "done"

\* One active Host sandbox at a time (sandbox-provider.ts), for the runs of one
\* provider: in particular a second, late destroy of an old sandbox does not
\* give away the slot a newer one holds.
OneActivePerProvider ==
  \A r, s \in Runs :
    r # s /\ ProviderOf[r] = ProviderOf[s] => ~(Holding(r) /\ Holding(s))

\* A destroy that has ended has seen every process it found registered exit,
\* so it gives the slot back only after them (destroy in sandbox-provider.ts).
DestroyOutlivesChildren ==
  \A d \in Teardowns : down[d] = "done" => \A q \in pending[d] : ~alive[q]

\* q runs beside the sandbox of r that holds the slot, and is not its process.
Beside(q, r) ==
  /\ alive[q] /\ Holding(r)
  /\ ProviderOf[OwnerOf[q]] = ProviderOf[r] /\ OwnerOf[q] # r

\* No process of an earlier sandbox of the provider runs beside the sandbox
\* that holds the slot now: destroy waits for in-flight execs before a new
\* create can succeed (host-sandbox.spec.ts).
NoProcessFromBefore == \A q \in Procs, r \in Runs : ~Beside(q, r)

\* The same for the sandboxes whose destroys found no exec in progress, as when
\* a scope ends by itself: an aborted exec is over only with its process, so
\* there is none left, not even one that ignores SIGTERM.
QuietLeavesNothing ==
  \A q \in Procs, r \in Runs : OwnerOf[q] \notin raced => ~Beside(q, r)

\* The slot of a sandbox whose destroy has begun is given back in the end: the
\* Host slot cannot leak on abort (sandbox-provider.ts).
SlotReleased ==
  \A r \in Runs, c \in Callers :
    down[<<r, c>>] = "killing" ~> activeId[ProviderOf[r]] # r

\* Seen from its callers the layer is a lock per provider: a create that passed
\* its check finds the slot still free, and it is the end of the first destroy of
\* its holder that frees it, never a late destroy of an older sandbox (create and
\* releaseSlot in sandbox-provider.ts).
Slot == INSTANCE HostSlot WITH
  holder <- activeId,
  answered <- {r \in Runs : phase[r] \in {"open", "refused"}},
  over <- {r \in Runs : \E c \in Callers : down[<<r, c>>] = "done"}

KeepsLock == Slot!Spec
=============================================================================
