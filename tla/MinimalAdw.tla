----------------------------- MODULE MinimalAdw -----------------------------
(***************************************************************************)
(* One run of the Minimal ADW: runMinimalAdw and the four loops it owns    *)
(* (Build/SeamConfirm/Test, Review/wire miss, Review/Build, Ship).         *)
(*                                                                         *)
(* The orchestration is one fiber, so `pc' is where that fiber awaits.     *)
(* What makes it hard is around the fiber: agents edit the worktree while  *)
(* a call is in flight, the gates of the Test agent run side by side,      *)
(* verdict tools are executed by callbacks whose decode is awaited, every  *)
(* external call may fail, and the operator may interrupt the run.         *)
(*                                                                         *)
(* The worktree is abstracted to its content, a member of Trees; BaseTree  *)
(* is the content of the merge base, so `empty pending delta' is           *)
(* tree = BaseTree.                                                        *)
(***************************************************************************)
EXTENDS Naturals, FiniteSets, Descent

CONSTANTS
  Trees,             \* contents the worktree may have
  BaseTree,          \* the content at the merge base with main
  NoTree,            \* no content: the ticket branch is not on the remote
  Gates,             \* check gates resolved from package.json
  BuildAttemptCap,   \* AdwBuildAttemptCap.maxAttempts
  ReviewAttemptCap,  \* AdwReviewAttemptCap.maxAttempts
  WireMissCap,       \* AdwSchemaResumeCap.maxAttempts
  Editors,           \* who writes the worktree: "build", "gate", "review"
  EarlierRun,        \* an earlier run of the ticket may have reached the forge
  MaxToolCalls       \* bound: verdict tool calls in flight at once

ASSUME TreesAssumption == BaseTree \in Trees /\ NoTree \notin Trees
ASSUME GatesAssumption == Gates # {} /\ IsFiniteSet(Gates)
ASSUME CapsAssumption ==
  /\ BuildAttemptCap \in Nat \ {0}
  /\ ReviewAttemptCap \in Nat \ {0}
  /\ WireMissCap \in Nat
ASSUME EditorsAssumption == Editors \subseteq {"build", "gate", "review"}
ASSUME EarlierRunAssumption == EarlierRun \in BOOLEAN
ASSUME ToolCallsAssumption == MaxToolCalls \in Nat

SeamConfirmCap == 1

VARIABLES
  pc,                \* where the orchestration fiber awaits
  call,              \* why the agent call in flight was made
  tree,              \* content of the worktree
  marker,            \* the last Build output contains a seam word
  gate, gateTree,    \* state of each gate; content it last judged
  stash,             \* one verdict stash per Review attempt (tool closure)
  toolCalls,         \* verdict tool executions whose decode is pending
  verdict,           \* the verdict last harvested by the orchestration
  buildAttempts, seamConfirmCount, reviewAttempts, wireMissResumes,
  buildCalls,        \* history: Build agent calls made (create and resume)
  head,              \* content of the tip of the ticket branch
  remote, prOpen,    \* the forge: content of the pushed branch, PR exists
  sandbox,           \* life of the warm sandbox
  status             \* AdwStatus of the run

control == <<pc, call, status, sandbox>>
counters == <<buildAttempts, seamConfirmCount, reviewAttempts,
              wireMissResumes, buildCalls>>
worktree == <<tree, marker>>
gates == <<gate, gateTree>>
review == <<stash, toolCalls, verdict>>
forge == <<head, remote, prOpen>>
vars == <<control, counters, worktree, gates, review, forge>>

-----------------------------------------------------------------------------
\* Verdicts. A stashed verdict remembers the session whose tool submitted it
\* and the content of the worktree at that moment.

Sessions == 1 .. ReviewAttemptCap
Verdicts == [v : {"pass", "fail"}, session : Sessions, of : Trees]
NoVerdict == [v |-> "none", session |-> 0, of |-> NoTree]
ToolCalls == [v : {"pass", "fail", "bad"}, session : Sessions, of : Trees]

\* The Review session that is running: its attempt is charged only once
\* reviewAgent.run has returned.
Session == IF call = "create" THEN reviewAttempts + 1 ELSE reviewAttempts

ShipSteps == {"shipInput", "commit", "push", "openPr", "viewPr"}
Ended == pc \in {"closing", "done"}

TypeOK ==
  /\ pc \in {"create", "provision", "preflight", "building", "seam",
             "testing", "reviewing", "harvest", "closing", "done"}
            \union ShipSteps
  /\ call \in {"none", "create", "seam", "red", "report", "wire"}
  /\ status \in {"running", "failed", "ready_for_pr", "shipped",
                 "interrupted"}
  /\ sandbox \in {"none", "active", "destroyed"}
  /\ tree \in Trees
  /\ marker \in BOOLEAN
  /\ gate \in [Gates -> {"idle", "running", "ok", "red", "error"}]
  /\ gateTree \in [Gates -> Trees]
  /\ stash \in [Sessions -> Verdicts \union {NoVerdict}]
  /\ toolCalls \subseteq ToolCalls
  /\ verdict \in Verdicts \union {NoVerdict}
  /\ buildAttempts \in 0 .. BuildAttemptCap
  /\ seamConfirmCount \in 0 .. SeamConfirmCap
  /\ reviewAttempts \in 0 .. ReviewAttemptCap
  /\ wireMissResumes \in 0 .. WireMissCap
  /\ buildCalls \in Nat
  /\ head \in Trees
  /\ remote \in Trees \union {NoTree}
  /\ prOpen \in BOOLEAN

\* A run starts on any worktree and HEAD (warm sandbox) and on whatever an
\* earlier run of the same ticket left on the forge.
Init ==
  /\ pc = "create" /\ call = "none"
  /\ status = "running" /\ sandbox = "none"
  /\ tree \in Trees /\ marker = FALSE
  /\ gate = [g \in Gates |-> "idle"]
  /\ gateTree = [g \in Gates |-> BaseTree]
  /\ stash = [s \in Sessions |-> NoVerdict]
  /\ toolCalls = {} /\ verdict = NoVerdict
  /\ buildAttempts = 0 /\ seamConfirmCount = 0
  /\ reviewAttempts = 0 /\ wireMissResumes = 0
  /\ buildCalls = 0
  /\ head \in Trees
  /\ remote \in Trees \union {NoTree}
  /\ prOpen \in BOOLEAN
  /\ prOpen => remote # NoTree
  /\ ~EarlierRun => remote = NoTree

-----------------------------------------------------------------------------
\* Ways the fiber moves on.

Goto(step) == pc' = step /\ UNCHANGED <<call, status, sandbox>>

\* A result is decided; the scope of the run closes before it is returned.
End(result) ==
  /\ pc' = "closing"
  /\ status' = result
  /\ UNCHANGED <<call, sandbox>>

CallBuild(reason) ==
  /\ pc' = "building"
  /\ call' = reason
  /\ buildCalls' = buildCalls + 1
  /\ UNCHANGED <<status, sandbox>>

CallReview(reason) ==
  /\ pc' = "reviewing"
  /\ call' = reason
  /\ UNCHANGED <<status, sandbox>>

-----------------------------------------------------------------------------
\* Setup: sandbox, workspace provision, preflight checks.

CreateSandbox ==
  /\ pc = "create"
  /\ \/ pc' = "provision" /\ sandbox' = "active" /\ UNCHANGED <<call, status>>
     \/ End("failed")                                \* busy, or no sandbox id
  /\ UNCHANGED <<counters, worktree, gates, review, forge>>

\* git worktree, ticket branch, locked install; none of it edits the content
\* the gates judge (checkout -B keeps the worktree).
Provision ==
  /\ pc = "provision"
  /\ \/ Goto("preflight")
     \/ End("failed")
  /\ UNCHANGED <<counters, worktree, gates, review, forge>>

\* Skill packs exist and package.json has at least one check script; the
\* first Build call follows in the same step.
Preflight ==
  /\ pc = "preflight"
  /\ \/ CallBuild("create")
     \/ End("failed") /\ UNCHANGED buildCalls
  /\ UNCHANGED <<buildAttempts, seamConfirmCount, reviewAttempts,
                 wireMissResumes, worktree, gates, review, forge>>

-----------------------------------------------------------------------------
\* Build agent. Edits happen while the call is in flight.

BuildEdits ==
  /\ pc = "building" /\ "build" \in Editors
  /\ tree' \in Trees \ {tree}
  /\ UNCHANGED <<control, counters, marker, gates, review, forge>>

\* Build may commit, all of its edits or a part of them. It does not push.
BuildCommits ==
  /\ pc = "building"
  /\ head' \in Trees \ {head}
  /\ UNCHANGED <<control, counters, worktree, gates, review, remote, prOpen>>

\* Mutant of BuildReturns: resumes after a red Test are not charged.
BuildReturnsUncharged ==
  /\ pc = "building"
  /\ Goto("seam")
  /\ marker' \in BOOLEAN
  /\ buildAttempts' = IF call = "create" THEN 1 ELSE buildAttempts
  /\ UNCHANGED <<tree, seamConfirmCount, reviewAttempts, wireMissResumes,
                 buildCalls, gates, review, forge>>

\* Mutant of BuildReturns: the resume after a Review fail is charged too.
BuildReturnsChargesReport ==
  /\ pc = "building"
  /\ Goto("seam")
  /\ marker' \in BOOLEAN
  /\ buildAttempts' = IF call = "seam" THEN buildAttempts ELSE buildAttempts + 1
  /\ UNCHANGED <<tree, seamConfirmCount, reviewAttempts, wireMissResumes,
                 buildCalls, gates, review, forge>>

\* The first call and a red-Test resume are charged as Build attempts, and
\* only once they have returned.
BuildReturns ==
  /\ pc = "building"
  /\ Goto("seam")
  /\ marker' \in BOOLEAN
  /\ buildAttempts' =
       IF call \in {"create", "red"} THEN buildAttempts + 1 ELSE buildAttempts
  /\ UNCHANGED <<tree, seamConfirmCount, reviewAttempts, wireMissResumes,
                 buildCalls, gates, review, forge>>

-----------------------------------------------------------------------------
\* SeamConfirm agent.

\* Mutant of MayConfirm: the cap is not looked at.
MayConfirmAgain == marker /\ tree = BaseTree

MayConfirm == seamConfirmCount < SeamConfirmCap /\ marker /\ tree = BaseTree

SeamConfirms ==
  /\ pc = "seam" /\ MayConfirm
  /\ seamConfirmCount' = seamConfirmCount + 1
  /\ CallBuild("seam")
  /\ UNCHANGED <<buildAttempts, reviewAttempts, wireMissResumes, worktree,
                 gates, review, forge>>

\* Mutant of SeamSkips: only the gates that were not green run again.
SeamSkipsKeepingGreen ==
  /\ pc = "seam"
  /\ Goto("testing")
  /\ gate' = [g \in Gates |-> IF gate[g] = "ok" THEN "ok" ELSE "running"]
  /\ UNCHANGED <<counters, worktree, gateTree, review, forge>>

\* No confirm, or a git probe failed (delta unknown): the gates start, all of
\* them at once. A probe may fail in any state, so skipping needs no guard.
SeamSkips ==
  /\ pc = "seam"
  /\ Goto("testing")
  /\ gate' = [g \in Gates |-> "running"]
  /\ UNCHANGED <<counters, worktree, gateTree, review, forge>>

-----------------------------------------------------------------------------
\* Test agent: parallel gates, joined before anything is decided.

GateEdits ==
  /\ pc = "testing" /\ "gate" \in Editors
  /\ \E g \in Gates : gate[g] = "running"
  /\ tree' \in Trees \ {tree}
  /\ UNCHANGED <<control, counters, marker, gates, review, forge>>

\* Gate g exits: zero, nonzero, or no exit code (spawn failure, killed).
GateExits(g) ==
  /\ pc = "testing" /\ gate[g] = "running"
  /\ \E r \in {"ok", "red", "error"} : gate' = [gate EXCEPT ![g] = r]
  /\ gateTree' = [gateTree EXCEPT ![g] = tree]
  /\ UNCHANGED <<control, counters, worktree, review, forge>>

Joined == \A g \in Gates : gate[g] # "running"
ExecFailed == \E g \in Gates : gate[g] = "error"
Red == ~ExecFailed /\ \E g \in Gates : gate[g] = "red"
Green == \A g \in Gates : gate[g] = "ok"

TestExecFail ==
  /\ pc = "testing" /\ Joined /\ ExecFailed
  /\ End("failed")
  /\ UNCHANGED <<counters, worktree, gates, review, forge>>

TestRed ==
  /\ pc = "testing" /\ Joined /\ Red
  /\ \/ /\ buildAttempts >= BuildAttemptCap
        /\ End("failed") /\ UNCHANGED buildCalls
     \/ /\ buildAttempts < BuildAttemptCap
        /\ CallBuild("red")
  /\ UNCHANGED <<buildAttempts, seamConfirmCount, reviewAttempts,
                 wireMissResumes, worktree, gates, review, forge>>

\* Mutant of TestGreen: one verdict stash for the whole run.
TestGreenOneStash ==
  /\ pc = "testing" /\ Joined /\ Green
  /\ CallReview("create")
  /\ stash' = [stash EXCEPT ![reviewAttempts + 1] =
                 IF reviewAttempts = 0 THEN NoVerdict ELSE stash[reviewAttempts]]
  /\ wireMissResumes' = 0
  /\ UNCHANGED <<buildAttempts, seamConfirmCount, reviewAttempts, buildCalls,
                 worktree, gates, toolCalls, verdict, forge>>

\* Green opens a new Review session: a fresh stash, bound to its own tools.
TestGreen ==
  /\ pc = "testing" /\ Joined /\ Green
  /\ CallReview("create")
  /\ stash' = [stash EXCEPT ![reviewAttempts + 1] = NoVerdict]
  /\ wireMissResumes' = 0
  /\ UNCHANGED <<buildAttempts, seamConfirmCount, reviewAttempts, buildCalls,
                 worktree, gates, toolCalls, verdict, forge>>

-----------------------------------------------------------------------------
\* Review agent and its verdict tools.

ReviewEdits ==
  /\ pc = "reviewing" /\ "review" \in Editors
  /\ tree' \in Trees \ {tree}
  /\ UNCHANGED <<control, counters, marker, gates, review, forge>>

\* The session calls submit_review_pass or submit_review_fail.
ToolCalled ==
  /\ pc = "reviewing" /\ Cardinality(toolCalls) < MaxToolCalls
  /\ \E v \in {"pass", "fail", "bad"} :
       toolCalls' = toolCalls \union
                      {[v |-> v, session |-> Session, of |-> tree]}
  /\ UNCHANGED <<control, counters, worktree, gates, stash, verdict, forge>>

\* The awaited decode of a tool call ends, at any later moment: a decodable
\* verdict overwrites the stash of its own session, a bad one is an error
\* returned to the agent.
ToolSettles(c) ==
  /\ toolCalls' = toolCalls \ {c}
  /\ stash' = IF c.v = "bad" THEN stash
              ELSE [stash EXCEPT ![c.session] = c]
  /\ UNCHANGED <<control, counters, worktree, gates, verdict, forge>>

\* Mutant of ReviewReturns: a wire resume is not counted.
ReviewReturnsUncounted ==
  /\ pc = "reviewing"
  /\ Goto("harvest")
  /\ reviewAttempts' =
       IF call = "create" THEN reviewAttempts + 1 ELSE reviewAttempts
  /\ UNCHANGED <<buildAttempts, seamConfirmCount, wireMissResumes, buildCalls,
                 worktree, gates, review, forge>>

\* run or resume has returned; the attempt or the wire resume is charged.
ReviewReturns ==
  /\ pc = "reviewing"
  /\ Goto("harvest")
  /\ reviewAttempts' =
       IF call = "create" THEN reviewAttempts + 1 ELSE reviewAttempts
  /\ wireMissResumes' =
       IF call = "wire" THEN wireMissResumes + 1 ELSE wireMissResumes
  /\ UNCHANGED <<buildAttempts, seamConfirmCount, buildCalls, worktree, gates,
                 review, forge>>

Harvested == stash[reviewAttempts]

\* Mutant of HarvestWireMiss: out of resumes, silence counts as a pass.
HarvestSilenceAsPass ==
  /\ pc = "harvest" /\ Harvested.v = "none"
  /\ \/ wireMissResumes >= WireMissCap /\ Goto("shipInput")
     \/ wireMissResumes < WireMissCap /\ CallReview("wire")
  /\ UNCHANGED <<counters, worktree, gates, review, forge>>

HarvestWireMiss ==
  /\ pc = "harvest" /\ Harvested.v = "none"
  /\ \/ wireMissResumes >= WireMissCap /\ End("failed")
     \/ wireMissResumes < WireMissCap /\ CallReview("wire")
  /\ UNCHANGED <<counters, worktree, gates, review, forge>>

HarvestFail ==
  /\ pc = "harvest" /\ Harvested.v = "fail"
  /\ verdict' = Harvested
  /\ \/ /\ reviewAttempts >= ReviewAttemptCap
        /\ End("failed") /\ UNCHANGED buildCalls
     \/ /\ reviewAttempts < ReviewAttemptCap
        /\ CallBuild("report")
  /\ UNCHANGED <<buildAttempts, seamConfirmCount, reviewAttempts,
                 wireMissResumes, worktree, gates, stash, toolCalls, forge>>

HarvestPass ==
  /\ pc = "harvest" /\ Harvested.v = "pass"
  /\ verdict' = Harvested
  /\ Goto("shipInput")
  /\ UNCHANGED <<counters, worktree, gates, stash, toolCalls, forge>>

\* run or resume fails with AgentError: caught once, at the top of the run.
AgentFails ==
  /\ pc \in {"building", "reviewing"}
  /\ End("failed")
  /\ UNCHANGED <<counters, worktree, gates, review, forge>>

-----------------------------------------------------------------------------
\* Ship agent: commit if dirty, push, open PR; any failure is ready_for_pr.

ShipInputDecodes ==
  /\ pc = "shipInput"
  /\ Goto("commit") \/ End("ready_for_pr")
  /\ UNCHANGED <<counters, worktree, gates, review, forge>>

\* Mutant of ShipCommits: what Build left uncommitted is not flushed.
ShipCommitsNothing ==
  /\ pc = "commit"
  /\ Goto("push") \/ End("ready_for_pr")
  /\ UNCHANGED <<counters, worktree, gates, review, forge>>

\* Of a command that reports failure the effect may be there all the same: of
\* this commit, of the push and of the pull request below.
ShipCommits ==
  /\ pc = "commit"
  /\ \/ Goto("push") /\ head' = tree
     \/ End("ready_for_pr") /\ head' \in {head, tree}
  /\ UNCHANGED <<counters, worktree, gates, review, remote, prOpen>>

\* Mutant of ShipPushes: a failed push fails the run.
ShipPushesOrFails ==
  /\ pc = "push"
  /\ \/ Goto("openPr") /\ remote' = head
     \/ End("failed") /\ remote' \in {remote, head}
  /\ UNCHANGED <<counters, worktree, gates, review, head, prOpen>>

ShipPushes ==
  /\ pc = "push"
  /\ \/ Goto("openPr") /\ remote' = head
     \/ End("ready_for_pr") /\ remote' \in {remote, head}
  /\ UNCHANGED <<counters, worktree, gates, review, head, prOpen>>

\* gh pr create: refused when the branch already has an open PR.
ShipCreatesPr ==
  /\ pc = "openPr"
  /\ \/ ~prOpen /\ Goto("viewPr") /\ prOpen' = TRUE
     \/ End("ready_for_pr") /\ prOpen' \in {prOpen, TRUE}
  /\ UNCHANGED <<counters, worktree, gates, review, head, remote>>

\* gh pr view must report a non-empty URL.
ShipViewsPr ==
  /\ pc = "viewPr"
  /\ End("shipped") \/ End("ready_for_pr")
  /\ UNCHANGED <<counters, worktree, gates, review, forge>>

-----------------------------------------------------------------------------
\* Interrupt and scope close.

\* The operator interrupts the fiber at an await; a command of Ship that it
\* kills may already have had its effect.
Interrupt ==
  /\ ~Ended
  /\ End("interrupted")
  /\ head' \in IF pc = "commit" THEN {head, tree} ELSE {head}
  /\ remote' \in IF pc = "push" THEN {remote, head} ELSE {remote}
  /\ prOpen' \in IF pc = "openPr" THEN {prOpen, TRUE} ELSE {prOpen}
  /\ UNCHANGED <<counters, worktree, gates, review>>

CloseScope ==
  /\ pc = "closing"
  /\ pc' = "done"
  /\ sandbox' = IF sandbox = "active" THEN "destroyed" ELSE sandbox
  /\ UNCHANGED <<call, status, counters, worktree, gates, review, forge>>

-----------------------------------------------------------------------------

Setup == CreateSandbox \/ Provision \/ Preflight
BuildTest ==
  \/ BuildReturns \/ SeamConfirms \/ SeamSkips
  \/ \E g \in Gates : GateExits(g)
  \/ TestExecFail \/ TestRed \/ TestGreen
Review ==
  \/ ReviewReturns \/ HarvestWireMiss \/ HarvestFail \/ HarvestPass
Ship ==
  \/ ShipInputDecodes \/ ShipCommits \/ ShipPushes
  \/ ShipCreatesPr \/ ShipViewsPr

\* What the fiber does by itself, the return of its external calls included.
Orchestrate == Setup \/ BuildTest \/ Review \/ AgentFails \/ Ship \/ CloseScope

\* What happens around it and need not happen.
Environment ==
  \/ BuildEdits \/ BuildCommits \/ GateEdits \/ ReviewEdits
  \/ ToolCalled \/ \E c \in toolCalls : ToolSettles(c)
  \/ Interrupt

Finished == pc = "done" /\ UNCHANGED vars

Next == Orchestrate \/ Environment \/ Finished

\* Every external call returns or fails in the end (the code sets no timeout
\* of its own), and the fiber is scheduled.
Fairness == WF_vars(Orchestrate)

Spec == Init /\ [][Next]_vars
FairSpec == Spec /\ Fairness

-----------------------------------------------------------------------------
(***************************************************************************)
(* Properties.                                                             *)
(***************************************************************************)

AllGreenOn(t) == \A g \in Gates : gate[g] = "ok" /\ gateTree[g] = t

\* Hard gate: from the start of a Review to the end of Ship, every gate has
\* exited zero on exactly the content now in the worktree. A Review fail sends
\* the change back through Build, so the gates must run again before the next
\* Review (build-test-loop.ts, run-minimal-adw.ts).
GreenBeforeReview ==
  pc \in {"reviewing", "harvest"} \union ShipSteps => AllGreenOn(tree)

\* What a shipped run pushed is the content its passing Review judged and all
\* its gates were green on, and the pull request is open (Ship flushes the
\* whole worktree with git add -A long after the gates ran).
ShipsVettedTree ==
  status = "shipped" =>
    /\ verdict.v = "pass"
    /\ remote = verdict.of
    /\ AllGreenOn(remote)
    /\ prOpen

\* The verdict that routes the run was submitted by the Review session opened
\* for the current attempt: neither a late tool call of an earlier session nor
\* an old stash decides (createReviewVerdictToolStash per runReviewAttempt).
RoutedByOwnSession ==
  /\ pc \in ShipSteps => verdict.v = "pass"
  /\ pc = "building" /\ call = "report" => verdict.v = "fail"
  /\ pc \in ShipSteps \/ (pc = "building" /\ call = "report")
       => verdict.session = reviewAttempts

\* A run fails only while no Review has passed; once one has, every outcome
\* except an interrupt is ready_for_pr or shipped, and only then (ADR-0011:
\* Ship never rewinds the run).
StatusMatchesVerdict ==
  /\ status = "failed" => verdict.v # "pass"
  /\ status \in {"ready_for_pr", "shipped"} => verdict.v = "pass"

\* However the two loops interleave, the Build agent is called at most once
\* per Build attempt, per seam confirmation and per Review that may send the
\* change back: the last Review may not.
BuildCallsBounded ==
  buildCalls <= BuildAttemptCap + SeamConfirmCap + (ReviewAttemptCap - 1)

\* Ship's effects need a pass: the forge changes only under a passing verdict of
\* the current Review attempt, and so does the ticket branch, except that Build
\* may commit during its own calls (ADR-0011). Nothing is committed by the
\* orchestration, pushed or opened by any other path, failure and interrupt
\* included, and Build's commits do not reach the forge by themselves.
ForgeOnlyAfterPass ==
  [][\/ verdict.v = "pass" /\ verdict.session = reviewAttempts
     \/ pc = "building" /\ UNCHANGED <<remote, prOpen>>]_forge

\* Every run comes to its end and has given its sandbox back, whatever the
\* agents, the gates and the forge answer, if each call is answered.
RunEnds == <>[](pc = "done" /\ sandbox # "active")

\* How far a run is from its end, most significant first: Review attempts left,
\* the leg of the attempt it is on, what the budgets of that leg still allow, the
\* step within it, the gates that have not exited.
Leg ==
  CASE pc \in {"create", "provision", "preflight"} -> 6
    [] pc = "harvest" \/ (pc = "reviewing" /\ call = "wire") -> 5
    [] pc \in {"building", "seam", "testing"} -> 4
    [] pc = "reviewing" /\ call # "wire" -> 3
    [] pc \in ShipSteps -> 2
    [] pc = "closing" -> 1
    [] OTHER -> 0

BudgetOfLeg ==
  CASE Leg = 5 -> WireMissCap - wireMissResumes
    [] Leg = 4 -> (BuildAttemptCap - buildAttempts)
                    + (SeamConfirmCap - seamConfirmCount)
    [] OTHER -> 0

StepOfLeg ==
  CASE pc = "shipInput" -> 4
    [] pc = "commit" \/ (pc = "building" /\ call # "red") -> 3
    [] pc \in {"create", "seam", "push"} -> 2
    [] pc \in {"provision", "testing", "harvest", "openPr"} -> 1
    [] OTHER -> 0

GatesLeft ==
  IF pc = "testing" THEN Cardinality({g \in Gates : gate[g] = "running"}) ELSE 0

Distance ==
  <<ReviewAttemptCap - reviewAttempts, Leg, BudgetOfLeg, StepOfLeg, GatesLeft>>

\* No sequence of answers sends a run round its loops for ever: every step of its
\* fiber, and an interrupt, brings it nearer to its end, although a Review fail,
\* a red Test, a wire miss and a seam confirmation each take it back to a call it
\* has made before (the nested loops of runMinimalAdw and runBuildTestLoop).
GetsNearer == [][Nearer(Distance', Distance)]_<<pc, gate>>

\* The run implements the attempt budget and routing contract of ADR-0009.
Turn ==
  CASE pc \in {"create", "provision", "preflight"} -> "setup"
    [] pc \in {"building", "seam", "testing"} -> "build"
    [] pc = "reviewing" /\ call = "create" -> "entering"
    [] pc = "harvest" \/ (pc = "reviewing" /\ call # "create") -> "judging"
    [] pc \in ShipSteps -> "ship"
    [] OTHER -> "over"

Contract == INSTANCE AdwContract WITH
  turn <- Turn, builds <- buildAttempts, confirms <- seamConfirmCount,
  reviews <- reviewAttempts, misses <- wireMissResumes, outcome <- status,
  ConfirmCap <- SeamConfirmCap

KeepsContract == Contract!Spec
=============================================================================
