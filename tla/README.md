# Formal model of the lazy software factory

TLA+ modules, TLC configurations and TLAPS proofs about the code under
`src/packages/`: the Minimal ADW (an agent-driven workflow that takes a ticket
to a pull request), the contract of attempt budgets and routing that ADR-0009
and ADR-0011 state, the Host sandbox and the scope a run lives in, several runs
of several tickets against one worktree and one forge, and the operator session
around a run.

## Inventory

| Part | Code | State it keeps | What is hard about it | What makes it correct |
|---|---|---|---|---|
| Minimal ADW | `adw/src/run-minimal-adw.ts` | Build session, Build attempts, seam confirmations, Review attempts, the passing review | nested resume loops with separate budgets; agents edit the worktree during a call; every call may fail; interrupt at any await | hard gate before Review and Ship; budgets; routing by the current verdict; the run ends |
| Build/Test loop | `adw/src/build-test-loop.ts` | session and both Build counters, passed in and out | charge after the call, cap before it | a red Test costs an attempt, a seam confirmation and a Review fail do not |
| SeamConfirm agent | `adw/src/seam-confirm-agent.ts` | none | git probes may fail | at most one confirmation a run, only on an empty pending delta |
| Test agent | `adw/src/test-agent.ts` | none | gates run side by side, joined | green only if every gate exited zero |
| Review attempt, verdict tools | `adw/src/review-attempt.ts`, `review-verdict-tools.ts` | one stash per attempt, wire-miss resumes | the tools are callbacks of the SDK, decode is awaited: a call may settle after its session was left | the verdict harvested is of this session |
| Ship agent | `adw/src/ship-agent.ts` | none | four effects in a row, each may fail after the earlier ones took place | Ship never rewinds a run; status tells what happened |
| Git host | `git-host/src/github-gh.ts`, `run-process.ts` | branch, remote, pull request (outside) | replies may be lost | only vetted content reaches it |
| Workspace provision | `adw/src/workspace-provision.ts` | worktree, branch, installs | partial failure, reruns | a run starts on a ready worktree |
| Host sandbox | `runtime/src/sandbox-provider.ts` | slot `activeId`; per sandbox `destroyed`, `children` | check-then-set, exec/destroy races, destroy called twice, children that do not die | one sandbox at a time; slot given back; no process left behind |
| Captured process | `runtime/src/run-captured-process.ts` | process handle | finalizer order on abort | a handle is registered while its process runs |
| Cursor agent provider | `runtime/src/cursor-agent-provider.ts` | SDK agent per call | no timeout; the SDK run is not cancelled with the fiber | every agent is disposed |
| Operator, CLI | `adw/src/host-operator.ts`, `host-operator-cli.ts` | options, environment | precedence of sources | exit code follows the status |
| Ticket intake | `adw/src/github-ticket-intake.ts` | none | an issue read once | only a ready ticket starts a run |
| Gate resolution | `adw/src/package-json-test-commands.ts` | none | alternatives of script names | no gate missed |

How they interact: the operator provides the layers and calls `runMinimalAdw`,
one fiber. That fiber calls the sandbox provider (`create`, and through the
sandbox `exec`), the provisioner, the two agent providers (`run`, `resume`), and
the Git host. The agents share the worktree of the sandbox with the gates and
with Ship. The Review agent calls back into the verdict tools, which write the
stash the orchestration reads. Closing the scope of the run calls `destroy`.
Concurrency is real in six places: the gates, the verdict tool callbacks, the
fibers that use one sandbox provider, the SDK's promises, which go on after the
fiber that awaits them is interrupted, the operating system's processes, and the
people who use the same pull requests.

`PROJECT.json` lists the hazards of this code line by line, with the properties
that cover each, or a note why none does.

## Plan

Done: `AdwContract` and `MinimalAdw` with the refinement between them;
`HostSandbox` and the lock it implements, `HostSlot`; `TicketForge`, runs against
worktree and forge; `RunScope`, which composes `HostSandbox` with the agent calls
of a run and the death of an operator; `HostOperator`, the session around a run;
proofs about all of them.

Left, in this order:

1. The descendants of child processes, which `handle.kill` reaches only through
   the process group.
2. Composing `MinimalAdw` with `RunScope`, so that each step of the run is a step
   of its scope. Today `RunScope` knows a run only as agent calls and execs.

## Modules

### AdwContract

What a run promises about attempts and outcomes, without agents or forge:
`turn` says who is to act, four counters say what has been spent. A Build
attempt is spent only on a first call or after a red Test (`SpendBuild`), a
Review fail gives Build a free turn if another Review is left (`Reject`), a
wire miss costs neither budget, and after `Accept` the run cannot fail.

### MinimalAdw

One run. `pc` is where the orchestration fiber awaits, `call` why the agent call
in flight was made:

| `pc` | Code |
|---|---|
| `create`, `provision`, `preflight` | `run-minimal-adw.ts` 94-163 |
| `building` | `buildAgent.run` / `resume`, for `call` = `create`, `seam`, `red` (red Test), `report` (Review fail) |
| `seam`, `testing` | `build-test-loop.ts` 89-111 |
| `reviewing`, `harvest` | `review-attempt.ts` 134-167, for `call` = `create` or `wire` |
| `shipInput`, `commit`, `push`, `openPr`, `viewPr` | `run-minimal-adw.ts` 285-317, `ship-agent.ts`, `github-gh.ts` |
| `closing`, `done` | the result is decided, the scope closes |

Data is abstracted to what the properties tell apart. The worktree is its
content (`tree`), and `BaseTree` the content of the merge base, so an empty
pending delta is `tree = BaseTree`. A gate is its state and the content it
judged (`gate`, `gateTree`). A verdict carries the session whose tool submitted
it and the content at that moment; those two fields are history, no guard reads
them. `buildCalls` is history too. `head`, `remote`, `prOpen` are the content of
the ticket branch's tip, the pushed branch, and whether the pull request exists.
Build may commit during its calls (`BuildCommits`). A commit, a push or a create of
Ship that reports failure, or is interrupted, may have had its effect.

Code whose steps cannot be told apart by any other actor is one action:
`Preflight` includes the first Build call, `TestGreen` the opening of the Review
session, `HarvestFail` the Build resume. Everything another actor can come
between is a step of its own: edits and commits during a call (`BuildEdits`,
`BuildCommits`, `GateEdits`, `ReviewEdits`), each gate's exit, each tool call and its later settling, each
forge command, the interrupt.

Properties: `GreenBeforeReview` (hard gate), `ShipsVettedTree` (what is pushed
is what was judged), `RoutedByOwnSession` (no stale verdict decides),
`StatusMatchesVerdict`, `BuildCallsBounded`, `ForgeOnlyAfterPass` (action
property: the forge changes only under a pass, the ticket branch too but for what
Build commits itself), `RunEnds` (liveness), `GetsNearer` (action property: the distance to
the end, `Distance`, falls with every step of the fiber), `KeepsContract`
(refinement, under the mapping `Turn`).

### HostSlot

What callers of the Host layer see of it: a lock per provider. A run's create is
answered once, by `Acquire` if the slot is free or by `Refuse`; `Release` is the
end of the first destroy of the sandbox that has the slot. Execs, processes, the
two halves of create and the course of a destroy are not there. `HostSandbox`
instantiates it as `Slot`: `holder` is `activeId`, `answered` are the runs whose
create has ended, `over` those of which a destroy has.

### HostSandbox

The Host layer with any number of callers. A run creates at most one sandbox, so
it also names the sandbox. `CreateChecks` and `CreateTakesSlot` are the two
halves of `create` around the `yield*` that allocates the id; the constant
`FiberYields` says whether another fiber may run between them. An exec goes
through `ExecChecks`, `ExecSpawned` (the `onSpawn` callback) and `ExecSettles`
(the finalizer), or through `ExecAborts` and `ExecAborted` when its fiber is
interrupted. A destroy is called by the user of the sandbox or by the scope that
created it, possibly both at once; it takes a snapshot of the registered
children, signals and awaits them one after the other, and gives the slot back.
`raced` is history: the sandboxes a destroy of which began while one of their
execs was in flight. Processes are external: they exit when they like, and those
outside `Stubborn` exit eventually after SIGTERM. That `handle.kill` waits for
the exit without a bound is how the Effect child process module behaves; the
model is of its use in `destroy`.

Properties: `OneActivePerProvider`, `DestroyOutlivesChildren`,
`QuietLeavesNothing`, `SlotReleased`, and `NoProcessFromBefore`, which a test
states and the code does not keep. `KeepsLock` is the refinement of `HostSlot`: a
create that passed its check still finds the slot free, and a late second destroy,
or one whose caller is interrupted, gives back exactly what it holds.

### RunScope

`HostSandbox` (`INSTANCE`, same variables) with what a run does in it. An agent
call is `run` or `resume` of the Cursor adapter: a promise of `Agent.create`, a
finalizer that disposes of the agent, `send` and `wait`. `call` is where the
fiber is in it, `agent` is what the SDK's side is doing, and the two come apart:
an interrupt leaves a create to itself (`Interrupted`), leaves a wait for the
disposal, and does not stop a disposal. `ScopeCloses` is the order of finalizers:
the sandbox is destroyed after the inner scopes are closed. `OperatorDies` is a
signal: no finalizer runs, agents end with their process, gates do not. Disposal
may be rejected by the SDK (`undisposed`), which the adapter swallows. The code
has nothing against two operators on a machine; that there is one at a time
(`OnlyOperator`) is what the runbook asks of its reader.

Properties: `OneRunWrites`, `AgentsDisposed`, `RunGivesBack` (liveness),
 `EndsUnaided` (a run that ends waits for no answer of an agent, and its
destroy for no process), `ClosingGetsNearer` (action property: each step of a
closing scope lowers `ToClose`), `NoProcessOfOtherRun`, which a killed operator
breaks, and `OnlyKilledLeave`: nothing else does.

### Descent

The order in which `Distance` of a run and `ToClose` of a scope fall: five numbers,
the most significant first. It models no code; `MinimalAdw` and `RunScope` share it.

### TicketForge

Runs of tickets, one after the other, against a worktree and a forge that outlive
them. A branch is the set of changes its history holds, so a push is a fast
forward when the remote set is contained in the local one. The steps are the
commands: `git rev-parse`, clone, `checkout -B`, the lockfile test and the locked
install of `workspace-provision.ts`; edits and commits of Build; status/add/commit,
push, `gh pr create` and `gh pr view` of `github-gh.ts`. Each may be refused for
the reason the command has, and with `Faults` also fail by itself. A run may be
aborted anywhere. `CutShort` says what the command under way has then done: nothing,
all of its work, or a part where a part is possible (a clone, the files of a
checkout, an install).

`Clones` are the states git leaves a clone in, as seen with git 2.39 on clones that
were stopped by SIGTERM, SIGINT and SIGKILL, by a full disk and by a failing filter:
nothing; a `.git` without a commit; the commits but no files; some files, and then no
index or a locked one, since git writes the index in one step after the last file.
Every one but the first passes for a worktree with `git rev-parse --git-dir`, and a
part of the files may well pass the tests for a lockfile, skills and `package.json`
(`HasFiles`). But over files that no index knows `git checkout -B` refuses, with an
index that is locked too, and where there are no files it writes them all
(`MakeBranch`). So the run fails in provision, again and again until the operator
cleans up, and does not start an agent on half a clone. It is git's refusal together
with `requireZero` that does it, not a test of the program's own; the mutant
`CheckoutAnyway` drops the latter and has agents start there.

Between runs the operator may clean the worktree; engineers merge, close and push to
pull requests at any time. An agent may check out another branch (`BuildStrays`),
since nothing stops it.

Properties: `RemoteOnlyGrows`, `ShippedIsVetted`, `SetupBeforeBuild`,
`FirstRunShips`, `OwnWorkOnly`, and `ReadyMeansNotInPr`, which ADR-0011 says and
a rerun breaks. `ShippedIsVetted` goes both ways: all that Review passed is on the
branch of a shipped run, and, while no agent leaves its branch, no change of any
run is on the forge that no Review passed. A run whose own agent left its branch is
exempt: of what it ships nothing is promised. `FirstRunShips` is about the first run of
a ticket, `OwnWorkOnly` about runs started from a clean main; a rerun and a start
elsewhere do break what they say.

### HostOperator

One session: the wrapper's `--cwd`, the flags, the shell, the `.env` of the tree
aimed at, the intake of an issue, what of the run depends on those, and the exit
code (128 stands for death by a signal without the bin, which makes 1 of it). `Aim`
settles the directory before `Argument` reads the `.env` in it. A value may be absent (`None`) or given as the empty string (`Empty`), which the
code treats differently at each place. `Gates` picks the first script of each
category, once, and Build may edit `package.json` afterwards. A pull request is
its repository and the issue its body closes.

Properties: `WorksWhereAsked`, `BareIssueIsItsOwn` (given by number, or by URL in the
tree's own repository), `KeepsItsChecks`, `ExitTellsOutcome`, and
`PrClosesItsTicket`, which the URL of an issue elsewhere breaks.

## Runs

| Run | Checks | Bounds and what it shows |
|---|---|---|
| `adw_safety` | `TypeOK` and five invariants | two contents, two gates (with symmetry), caps 2/2/1, one tool call in flight, only Build writes. 612,860 states. The invariants hold through every failure and interrupt. |
| `adw_contract` | `KeepsContract`, `ForgeOnlyAfterPass`, `RunEnds`, `GetsNearer` | every writer allowed, one gate, caps 2/2/1. 2.7 million states, two minutes. Budgets, routing and termination do not depend on who writes. |
| `host_slot` | `TypeOK`, `OneActivePerProvider`, `DestroyOutlivesChildren`, `QuietLeavesNothing`, `KeepsLock` | three runs, two execs, two callers of destroy per sandbox. 556,016 states. |
| `host_release` | `SlotReleased` | two runs, fibers switch inside create, all processes obey SIGTERM. |
| `host_stubborn` | `SlotReleased`, violated | one process that ignores SIGTERM. |
| `host_spawning` | `NoProcessFromBefore`, violated | a destroy between an exec's check and its registration. |
| `scope_close` | `TypeOK`, `OneRunWrites`, `AgentsDisposed`, `RunGivesBack`, `OnlyKilledLeave`, `EndsUnaided`, `ClosingGetsNearer` | two runs of one operator, two agent calls and an exec of the first, one of each of the second, and a third run, of another operator, that only holds its sandbox; interrupts anywhere, deaths, agents that never answer. 328,208 states. |
| `scope_killed` | `NoProcessOfOtherRun`, violated | the operator is killed and started again. |
| `forge_reruns` | `TypeOK` and five properties | two runs of one ticket and one of another, faults, one straying agent, engineers at work, commands cut short, half clones. 6.1 million states, two minutes. |
| `forge_rerun` | `ReadyMeansNotInPr`, violated | two runs of one ticket, no faults at all. |
| `operator_session` | `TypeOK` and four invariants | 14,592 initial states: every way to give the arguments, two directories, an issue of the same number in two repositories; two edits of `package.json`. 374,160 states. |
| `operator_url` | `PrClosesItsTicket`, violated | an issue URL of another repository than the tree's. |

Why the bounds are enough. *MinimalAdw*: two contents distinguish changed from
unchanged, and nothing compares more than two. Two Build and two Review attempts
give every path of the loops: a red then a resume, a fail then a resume, a last
attempt of each, and a Review after a rejected one, which is when a stale stash
or a stale gate could matter; wire-miss resumes reach their cap with and without
a verdict. One tool call in flight is enough for it to outlive its session.
*HostSandbox*: three runs are the fewest in which a late second destroy of the
first sandbox could free the slot of the second for the third. *RunScope*: the
second run is the one that could meet what the first left behind; the first has
two agent calls so that one can be left over while the next goes on; the third,
of another operator, is what a killed one's processes live on beside.
*TicketForge*: a rerun needs two runs of one ticket, a leak between tickets needs
a run of another; `MaxEdits` and `MaxStrays` are one because every property
speaks of a single change or a single stray agent. *HostOperator*: an argument is
given, empty or absent in each source; two directories and repositories are
enough for one to be mistaken for the other, and two edits take a check away and
put another script in its place. The bounds of the environment are `MaxToolCalls`,
`MaxEdits` and `MaxStrays`; the other counters are bounded by the caps of the code
itself. The proofs below hold for all values of them.

Deadlock is checked in the runs of `MinimalAdw` and `HostOperator` (an ended run
stutters). It is not in the others: when no run is left the system has nothing
more to do.

Next to each definition that a check mutates stands its mutant, named for a
plausible slip of the code (a stash shared by the whole run, a resume that is
not charged, a slot freed by any destroy, a forced push, gates resolved again
after Build); each property is violated by its mutant. Mutants take no part in
any specification.

### Fairness

`MinimalAdw` assumes weak fairness of `Orchestrate` only: the fiber is scheduled
and each call it awaits returns or fails in the end. The code sets no timeout of
its own on agents, gates or forge commands, so an unanswered call is outside
what it promises, and is listed as a hazard. Agents need not edit, tools need
not be called, nobody need interrupt. `HostSandbox` assumes that a fiber that
can go on does and that a signalled process exits unless it is in `Stubborn`;
it does not assume that a process exits by itself or that destroy is called.
`RunScope` assumes only what closing a scope needs: a disposal is answered
(accepted or rejected), an exec of a closing fiber is aborted or settles, a
signalled process exits, a destroy goes on. Agents need never answer: that is
what `RunGivesBack` is about. `TicketForge` and `HostOperator` state no liveness
and no fairness: nothing in the code repeats a run that failed.

## Proofs

`MinimalAdw_proofs`, `HostSandbox_proofs`, `RunScope_proofs`,
`TicketForge_proofs`, `HostOperator_proofs` and `Descent_proofs`, checked by TLAPS
for every value of the constants that the named assumptions allow.

*Types and caps.* `TypeOK` of `MinimalAdw` is not inductive: that a counter stays
under its cap when a call returns follows from the guard tested before the call
was made. `Typed` adds `CallFits` (which calls may be in flight where) and
`BudgetLeft` (what each budget still holds while they are). `TypedStep` has one
case per action.

*Routing.* `Routing` adds that a stash holds only verdicts of its own session,
and that a passing verdict is held only from the harvest that starts Ship on.
`RoutedCorrectly` and `StatusCorrect` follow, and `ForgeDiscipline`: Ship's steps are
taken only while the passing verdict of the current Review is held, and Build's commits
leave the forge alone.

*What ships.* `Vetted` adds that gates and verdicts of the current session
judged the present content (`JudgedNow`, `VerdictsNow`), with no tool call in
flight for a session that is not open yet, and how far Ship has come
(`ShipProgress`). `HardGate` and `ShipsWhatWasVetted` assume `Editors =
{"build"}`: only the Build agent writes the worktree. The assumption is needed:
the gates and the Review agent have write access too, and only a prompt keeps
Review from using it.

*Budget.* `CallsPaid` accounts for every Build call: by a Build attempt, charged
or in flight, by the seam confirmation, or by a Review that has sent the change
back. `BuildCallsCapped` follows.

*Refinement.* `ContractKept`: `Spec => Contract!Spec`, one case per action
against the turn of each `pc` (`TurnsFit`); the steps of agents, gates and tools
leave the contract's variables alone.

*Termination.* A run can go back four ways: a Review fail, a red Test, a seam
confirmation, a wire miss. `Distance` puts the Review attempts left before the
leg of the attempt, the budgets of that leg, the step within it and the gates
that have not exited; `AlwaysGetsNearer` shows that each step of the fiber
lowers the first of these it changes, from `Typed`, which says what every budget
still holds while a call is in flight. `NoEndlessDescent` shows that this order
has no infinite descent (by the library's theorem on lexicographic products), so
a run takes finitely many steps, for every value of the caps. `RunEnds` adds
only that its fiber is scheduled and can always take its next step, which speaks
of fairness and ENABLED and stays with TLC. `GatesAssumption` asks for finitely
many gates; there are at most four, one for each category.

*Host slot.* `SlotNamesHolder` says that the slot names its holder, is free
while a create is past its check, and that only one create is. It is preserved
only if fibers do not switch inside create (`~FiberYields`), which is the
assumption of `SlotExclusive` and of `NoLeftovers`. `LockKept`, the refinement of
`HostSlot`, adds that only created sandboxes are destroyed (`DestroysOpen`) and
that one whose destroy has ended is without the slot (`OverIsFree`); then each end
of a destroy is a `Release` or a stutter.

*Processes.* `ProcsFit` ties each process to its exec, its registration and the
destroy calls that found it; `DestroyWaits` follows without any assumption.
`NoLeftovers` adds what holds of sandboxes whose destroys found no exec in
flight; run `host_spawning` shows that this restriction is needed.
`DestroyAlwaysGetsNearer`: each step of a destroy lowers the kills, waits and the
release it has left, whatever races it; its hypothesis is that there are finitely
many processes. What it waits for has been sent SIGTERM (`AwaitedIsSignalled`). So
`SlotReleased` adds to the proofs only that fibers are scheduled and that a
signalled process exits; `host_stubborn` shows the loss of the slot without the
latter. Both are stated in the proof module and not as a property of a run.

*Scopes.* `ImplementsHost`: `RunScope`'s `Spec` implies that of `HostSandbox`, so
its theorems carry over and are cited, not proved again. `Nested` says that a
destroy comes from the scope only, after every exec and agent call of the run,
and that an agent at work belongs to a call under way.
`OneHolderAlways` combines `SlotExclusive` for the runs of one operator with
`TakeTurns` for those of two: of all live runs one holds a sandbox. `TakeTurns`
rests on `OnlyOperator`, which is the runbook's rule and not the code's; without it
two operators hold two slots. `OnlyHolderWrites` and `OnlyKilledAlwaysLeave` follow
with `Nested` and the invariants of `HostSandbox`. The latter needs no restriction to
quiet destroys, unlike `NoLeftovers`: a scope destroys its sandbox when no exec of
the run is in flight any more. What it leaves out is exactly what `scope_killed`
shows. `Leaving` says that a closing run has left every wait for an agent and that its
destroy takes an empty snapshot:
`AlwaysEndsUnaided`. So the kill loop of destroy has nothing to do for a scope; the
loss of the slot that `host_stubborn` shows needs a user's destroy that races an
exec, while in a run a child that ignores SIGTERM holds up the abort of its own
exec. `ClosingAlwaysGetsNearer` counts, for finitely many calls and execs
(`FiniteAssumption`), what such a scope has left.

*Runs against the forge.* `Course` says that one run is in progress at a time,
that it is on its ticket's branch from the checkout on, that past its checkout the
clone is whole or has none of its files, whatever state a run found it in, and that
agents find the install done: `AgentsFindSetup`. What a command cut short can leave is
taken apart once (`CutShortTyped`, `CutShortForge`, `StopsFacts`). `Carried` says how far the change that Review
passed has come at each stage of Ship. `OnlyPassed` is its converse: what is there
to commit and to push has been passed, a run has passed nothing before its Review,
and so a later Review takes no verdict back; a push adds only passed changes, also
where its reply is lost. Both give `ShippedWhatWasVetted`. `Apart` says that
main holds only what was merged, pending edits are the run's own, and each branch
holds beyond main only what was written for its ticket: `OnlyOwnWork`. A run whose
agent left its branch is out of account in `Course` and `Carried`, `OnlyPassed` and
`Apart` ask that no agent did, and `Apart` that runs start from a clean main; the
properties say so themselves. `FirstFindsNothing` says what the first run of a ticket meets as long as it has
not pushed: no remote branch, no pull request. So no push of it is refused, its
pull request opens, and the one way left to end without is a change that main
has already (`FirstRunAlwaysShips`). A rerun finds both, as `forge_rerun` shows.

*Sessions.* `InputsFit` and `ArgsFit` keep the sources apart; `Progress` says what
has been decided at each stage and gives `ExitAlwaysTells`; `GatesKept` and
`OwnIssue` give `ChecksAlwaysKept` and `BareIssueAlwaysOwn`; the issue has to be of
the tree's repository, as `operator_url` shows. `EveryCategoryGated` is about the
operator `Gates`: no category that has a script goes without a gate, for any
categories (`CategoriesAssumption`: each is a sequence of names) and any scripts.
With `ChecksAlwaysKept` it gives `NoCategoryLost`. The inputs are arbitrary:
`InputsAssumption` only says what kind of value each argument is.

Only model-checked: the liveness properties `RunEnds`, `SlotReleased` and
`RunGivesBack`, which are out of the prover's reach.

## Where code and documents disagree

Five runs end in a violation; `PROJECT.json` quotes the lines.

- `host_stubborn`: a child that ignores SIGTERM keeps destroy and the slot for
  ever; the bounded wait with its SIGKILL comes after an unbounded one.
- `host_spawning`: a destroy can miss an exec that is just spawning.
- `scope_killed`: a signal ends the operator without its finalizers, and its gate
  processes go on beside the next run.
- `forge_rerun`: a rerun of a ticket whose pull request is open lands its change
  there and reports `ready_for_pr`, every time.
- `operator_url`: given an issue URL of another repository, the pull request
  closes the issue of that number in its own.

Seen while reading, without a run:

- `gh issue view` of the intake does not get the merged environment
  (`github-ticket-intake.ts:101`), so a `GH_TOKEN` that is only in the `.env` of
  the tree, where `docs/host-self-build.md:13` and `docs/extractability.md:40`
  put it, is not seen there.
- The slot is one per layer instance, not one per machine as `CONTEXT.md:112`
  has it.
- `docs/host-self-build.md:15` asks for an open issue; intake tests the label, not
  the state.
- `host-operator.ts:247` says that flags win over the environment, but an
  `ADW_ISSUE` in it makes `--ticket` with `--prompt` an error; and a ticket and
  its prompt may come from different sources.
- The closing keyword of `shipPrBody` is looked for without a word boundary before
  it, so a body that says `unresolved #7` gets no `Closes #7`.

No property covers these hazards, and `PROJECT.json` says why: a write between the
verdict and `git add -A` (nothing compares the two contents); a start from a branch or
edits that another ticket left (the runbook's precondition); what a run ships whose own
agent left its branch; an operator process beside another; and two creates at once where
fibers switch inside create.

The second create that `FiberYields` stands for needs two fibers using one
provider and a switch at that very point, which the scheduler makes only when the
operation budget of a fiber is used up; the CLI itself starts one run per process.

## Not modelled

Prompts, skills, progress events, redaction, captured output, help texts and the
wording of details: no property depends on them. The package manager that runs a
script, model ids and API keys are data of the same kind. Skill pack lookup is
one failure of `Preflight`.

Agents that amend or rebase commits: branches are sets of changes, so history is
only ever added to. Descendants of child processes that leave their process group.
Network partitions other than a command that fails before or after its effect.

The Docker sandbox, the Feature ADW and the control plane are described in the
documents and not implemented at this commit. By far most lines of the repository
are the vendored Effect sources and agent skills: they are third-party code or
prose, and are modelled only where `packages/` relies on them, as external
definitions. The share of the repository's lines these modules translate is small
for that reason; of the code under `packages/` nearly every state change has its
action.
