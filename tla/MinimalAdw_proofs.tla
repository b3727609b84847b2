------------------------- MODULE MinimalAdw_proofs -------------------------
(***************************************************************************)
(* Proofs about MinimalAdw, for every value of its constants.              *)
(***************************************************************************)
EXTENDS MinimalAdw, Descent_proofs, FiniteSetTheorems, TLAPS

\* Which calls can be in flight where the fiber awaits an agent, and what the
\* budgets still hold at that moment: each charge is made when the call
\* returns, under the guard that was tested before it was made.
CallFits ==
  /\ pc = "building" => call \in {"create", "seam", "red", "report"}
  /\ pc = "reviewing" => call \in {"create", "wire"}

Setting == pc \in {"create", "provision", "preflight"}
Building == pc \in {"building", "seam", "testing"}

BudgetLeft ==
  /\ Setting => buildAttempts = 0 /\ buildCalls = 0 /\ seamConfirmCount = 0
  /\ Setting => reviewAttempts = 0
  /\ pc = "building" /\ call = "create" => buildAttempts = 0
  /\ pc = "building" /\ call = "red" => buildAttempts < BuildAttemptCap
  /\ Building => reviewAttempts < ReviewAttemptCap
  /\ pc = "reviewing" /\ call = "create" => reviewAttempts < ReviewAttemptCap
  /\ pc = "reviewing" /\ call = "wire" =>
       wireMissResumes < WireMissCap /\ reviewAttempts > 0
  /\ pc = "harvest" => reviewAttempts > 0
  /\ pc \in {"seam", "testing", "reviewing", "harvest"} => buildAttempts > 0
  /\ pc = "building" /\ call # "create" => buildAttempts > 0

Typed == TypeOK /\ CallFits /\ BudgetLeft

LEMMA TypedInit == Init => Typed
<1> SUFFICES ASSUME Init PROVE Typed
  OBVIOUS
<1>1. gate \in [Gates -> {"idle", "running", "ok", "red", "error"}]
      /\ gateTree \in [Gates -> Trees]
      /\ stash \in [Sessions -> Verdicts \union {NoVerdict}]
  BY TreesAssumption DEF Init
<1>2. verdict \in Verdicts \union {NoVerdict} /\ toolCalls \subseteq ToolCalls
  BY DEF Init
<1>3. marker \in BOOLEAN /\ prOpen \in BOOLEAN
  BY DEF Init
<1>5. /\ buildAttempts \in 0 .. BuildAttemptCap
      /\ seamConfirmCount \in 0 .. SeamConfirmCap
      /\ reviewAttempts \in 0 .. ReviewAttemptCap
      /\ wireMissResumes \in 0 .. WireMissCap
      /\ buildCalls \in Nat
  BY CapsAssumption DEF Init, SeamConfirmCap
<1>6. TypeOK
  BY <1>1, <1>2, <1>3, <1>5 DEF Init, TypeOK
<1>4. CallFits /\ BudgetLeft
  BY CapsAssumption DEF Init, CallFits, BudgetLeft, Setting, Building
<1> QED
  BY <1>4, <1>6 DEF Typed

LEMMA TypedStep == Typed /\ [Next]_vars => Typed'
<1> SUFFICES ASSUME Typed, [Next]_vars PROVE Typed'
  OBVIOUS
<1> USE TreesAssumption, GatesAssumption, CapsAssumption
    DEF Typed, CallFits, BudgetLeft, Setting, Building
<1>1. CASE CreateSandbox
  BY <1>1 DEF TypeOK, CreateSandbox, End, ShipSteps, counters, worktree,
              gates, review, forge
<1>2. CASE Provision
  BY <1>2 DEF TypeOK, Provision, Goto, End, ShipSteps, counters, worktree,
              gates, review, forge
<1>3. CASE Preflight
  BY <1>3 DEF TypeOK, Preflight, CallBuild, End, ShipSteps, worktree,
              gates, review, forge
<1>4. CASE BuildReturns
  BY <1>4 DEF TypeOK, BuildReturns, Goto, ShipSteps, gates, review, forge
<1>5. CASE SeamConfirms
  BY <1>5 DEF TypeOK, SeamConfirms, MayConfirm, SeamConfirmCap, CallBuild,
              ShipSteps, worktree, gates, review, forge
<1>6. CASE SeamSkips
  BY <1>6 DEF TypeOK, SeamSkips, Goto, ShipSteps, counters, worktree, review,
              forge
<1>7. ASSUME NEW g \in Gates, GateExits(g) PROVE Typed'
  BY <1>7 DEF TypeOK, GateExits, ShipSteps, control, counters, worktree,
              review, forge
<1>8. CASE TestExecFail
  BY <1>8 DEF TypeOK, TestExecFail, End, ShipSteps, counters, worktree, gates,
              review, forge
<1>9. CASE TestRed
  BY <1>9 DEF TypeOK, TestRed, End, CallBuild, ShipSteps, worktree, gates,
              review, forge
<1>10. CASE TestGreen
  BY <1>10 DEF TypeOK, TestGreen, CallReview, ShipSteps, Sessions, Verdicts,
               NoVerdict, worktree, gates, forge
<1>11. CASE ReviewReturns
  BY <1>11 DEF TypeOK, ReviewReturns, Goto, ShipSteps, worktree, gates, review,
               forge
<1>12. CASE HarvestWireMiss
  BY <1>12 DEF TypeOK, HarvestWireMiss, End, CallReview, ShipSteps, counters,
               worktree, gates, review, forge
<1>13. CASE HarvestFail
  BY <1>13 DEF TypeOK, HarvestFail, Harvested, Sessions, End, CallBuild,
               ShipSteps, worktree, gates, forge
<1>14. CASE HarvestPass
  BY <1>14 DEF TypeOK, HarvestPass, Harvested, Sessions, Goto, ShipSteps,
               counters, worktree, gates, forge
<1>15. CASE AgentFails
  BY <1>15 DEF TypeOK, AgentFails, End, ShipSteps, counters, worktree, gates,
               review, forge
<1>16. CASE ShipInputDecodes
  BY <1>16 DEF TypeOK, ShipInputDecodes, Goto, End, ShipSteps, counters,
               worktree, gates, review, forge
<1>17. CASE ShipCommits
  BY <1>17 DEF TypeOK, ShipCommits, Goto, End, ShipSteps, counters, worktree,
               gates, review
<1>18. CASE ShipPushes
  BY <1>18 DEF TypeOK, ShipPushes, Goto, End, ShipSteps, counters, worktree,
               gates, review
<1>19. CASE ShipCreatesPr
  <2>1. prOpen' \in BOOLEAN
    BY <1>19, Zenon DEF TypeOK, ShipCreatesPr
  <2>2. (Goto("viewPr") \/ End("ready_for_pr"))
        /\ UNCHANGED <<counters, worktree, gates, review, head, remote>>
    BY <1>19, Zenon DEF ShipCreatesPr
  <2> QED
    BY <1>19, <2>1, <2>2 DEF TypeOK, Goto, End, ShipSteps, counters, worktree,
                             gates, review
<1>20. CASE ShipViewsPr
  BY <1>20 DEF TypeOK, ShipViewsPr, End, ShipSteps, counters, worktree, gates,
               review, forge
<1>21. CASE CloseScope
  BY <1>21 DEF TypeOK, CloseScope, ShipSteps, counters, worktree, gates,
               review, forge
<1>22. CASE BuildEdits \/ BuildCommits \/ GateEdits \/ ReviewEdits
  BY <1>22 DEF TypeOK, BuildEdits, BuildCommits, GateEdits, ReviewEdits,
               ShipSteps, control, counters, worktree, gates, review, forge
<1>23. CASE ToolCalled
  BY <1>23 DEF TypeOK, ToolCalled, Session, Sessions, ToolCalls, ShipSteps,
               control, counters, worktree, gates, forge
<1>24. ASSUME NEW c \in toolCalls, ToolSettles(c) PROVE Typed'
  BY <1>24 DEF TypeOK, ToolSettles, ToolCalls, Verdicts, Sessions, ShipSteps,
               control, counters, worktree, gates, forge
<1>25. CASE Interrupt
  BY <1>25 DEF TypeOK, Interrupt, Ended, End, ShipSteps, counters, worktree,
               gates, review
<1>26. CASE UNCHANGED vars
  BY <1>26 DEF TypeOK, vars, control, counters, worktree, gates, review, forge
<1> QED
  BY <1>1, <1>2, <1>3, <1>4, <1>5, <1>6, <1>7, <1>8, <1>9, <1>10, <1>11,
     <1>12, <1>13, <1>14, <1>15, <1>16, <1>17, <1>18, <1>19, <1>20, <1>21,
     <1>22, <1>23, <1>24, <1>25, <1>26
  DEF Next, Orchestrate, Setup, BuildTest, Review, Ship, Environment, Finished

LEMMA TypedAlways == Spec => []Typed
BY TypedInit, TypedStep, PTL DEF Spec

\* Every value a run can reach has its type; the ranges of the four counters
\* are the attempt caps of ADR-0009, which no interleaving of the two loops
\* oversteps.
THEOREM TypeCorrect == Spec => []TypeOK
<1>1. Typed => TypeOK
  BY DEF Typed
<1> QED
  BY <1>1, TypedAlways, PTL

-----------------------------------------------------------------------------
\* Routing. A stash only ever holds verdicts of its own session, and a
\* passing verdict is held only from the harvest that starts Ship on.
Routing ==
  /\ \A s \in Sessions : stash[s].v # "none" => stash[s].session = s
  /\ pc \in ShipSteps \/ Ended \/ verdict.v # "pass"
  /\ status = "running" \/ Ended
  /\ RoutedByOwnSession
  /\ StatusMatchesVerdict

LEMMA RoutingInit == Init => Routing
BY DEF Init, Routing, RoutedByOwnSession, StatusMatchesVerdict, NoVerdict,
       ShipSteps

LEMMA RoutingStep == Typed /\ Routing /\ [Next]_vars => Routing'
<1> SUFFICES ASSUME Typed, Routing, [Next]_vars PROVE Routing'
  OBVIOUS
<1> USE DEF Routing, RoutedByOwnSession, StatusMatchesVerdict, ShipSteps, Ended
<1>1. CASE CreateSandbox \/ Provision \/ Preflight
  BY <1>1 DEF CreateSandbox, Provision, Preflight, Goto, End, CallBuild,
              counters, review
<1>2. CASE BuildReturns \/ SeamConfirms \/ SeamSkips
  BY <1>2 DEF BuildReturns, SeamConfirms, SeamSkips, Goto, CallBuild, counters,
              review
<1>3. ASSUME NEW g \in Gates, GateExits(g) PROVE Routing'
  BY <1>3 DEF GateExits, control, counters, review
<1>4. CASE TestExecFail \/ TestRed
  BY <1>4 DEF TestExecFail, TestRed, End, CallBuild, counters, review
<1>5. CASE TestGreen
  <2>1. \A s \in Sessions : stash'[s].v # "none" => stash'[s].session = s
    BY <1>5 DEF TestGreen, NoVerdict, Typed, TypeOK
  <2> QED
    BY <1>5, <2>1 DEF TestGreen, CallReview
<1>6. CASE ReviewReturns \/ HarvestWireMiss
  BY <1>6 DEF ReviewReturns, HarvestWireMiss, Goto, End, CallReview, counters,
              review
<1>7. CASE HarvestFail \/ HarvestPass
  <2>1. reviewAttempts \in Sessions
    BY <1>7, CapsAssumption
    DEF HarvestFail, HarvestPass, Typed, TypeOK, BudgetLeft, Sessions
  <2>2. Harvested.session = reviewAttempts
    BY <1>7, <2>1 DEF HarvestFail, HarvestPass, Harvested
  <2> QED
    BY <1>7, <2>2 DEF HarvestFail, HarvestPass, Goto, End, CallBuild, counters
<1>8. CASE AgentFails
  BY <1>8 DEF AgentFails, End, counters, review
<1>9. CASE Ship
  BY <1>9 DEF Ship, ShipInputDecodes, ShipCommits, ShipPushes, ShipCreatesPr,
              ShipViewsPr, Goto, End, counters, review
<1>10. CASE BuildEdits \/ BuildCommits \/ GateEdits \/ ReviewEdits
  BY <1>10 DEF BuildEdits, BuildCommits, GateEdits, ReviewEdits, control, counters,
               review
<1>11. CASE ToolCalled
  BY <1>11 DEF ToolCalled, control, counters
<1>12. ASSUME NEW c \in toolCalls, ToolSettles(c) PROVE Routing'
  <2>1. c \in ToolCalls
    BY DEF Typed, TypeOK
  <2>2. \A s \in Sessions : stash'[s].v # "none" => stash'[s].session = s
    BY <1>12, <2>1 DEF ToolSettles, ToolCalls, Typed, TypeOK
  <2> QED
    BY <1>12, <2>2 DEF ToolSettles, control, counters
<1>13. CASE Interrupt \/ CloseScope
  BY <1>13 DEF Interrupt, CloseScope, End, counters, review
<1>14. CASE UNCHANGED vars
  BY <1>14 DEF vars, control, counters, review
<1> QED
  BY <1>1, <1>2, <1>3, <1>4, <1>5, <1>6, <1>7, <1>8, <1>9, <1>10, <1>11,
     <1>12, <1>13, <1>14
  DEF Next, Orchestrate, Setup, BuildTest, Review, Environment, Finished

LEMMA RoutingAlways == Spec => []Routing
BY TypedAlways, RoutingInit, RoutingStep, PTL DEF Spec

\* However late a verdict tool settles, the verdict that sends a run to Build
\* or to Ship is of the Review session of the current attempt.
THEOREM RoutedCorrectly == Spec => []RoutedByOwnSession
<1>1. Routing => RoutedByOwnSession
  BY DEF Routing
<1> QED
  BY <1>1, RoutingAlways, PTL

\* No run fails once a Review has passed, and none is ready_for_pr or shipped
\* without a passing Review.
THEOREM StatusCorrect == Spec => []StatusMatchesVerdict
<1>1. Routing => StatusMatchesVerdict
  BY DEF Routing
<1> QED
  BY <1>1, RoutingAlways, PTL

-----------------------------------------------------------------------------
\* What Ship lands, when only the Build agent writes the worktree.

Reviewing == pc \in {"reviewing", "harvest"}

\* The session whose stash the run will read next.
Current == IF pc = "reviewing" THEN Session ELSE reviewAttempts

\* A gate that has exited judged what is in the worktree now, and all of them
\* did and were green from the start of a Review on.
JudgedNow ==
  /\ pc = "testing" => \A g \in Gates :
       gate[g] \in {"ok", "red", "error"} => gateTree[g] = tree
  /\ GreenBeforeReview

\* So did the verdict tools of the current session, whenever they settle; a
\* session that is not open yet has no tool call in flight.
VerdictsNow ==
  /\ ~Ended => \A c \in toolCalls : c.session <= Current
  /\ Reviewing => \A c \in toolCalls : c.session = Current => c.of = tree
  /\ Reviewing /\ stash[Current].v # "none" => stash[Current].of = tree
  /\ pc \in ShipSteps => verdict.of = tree

\* How far Ship has come.
ShipProgress ==
  /\ pc \in {"push", "openPr", "viewPr"} => head = tree
  /\ pc \in {"openPr", "viewPr"} => remote = tree
  /\ pc = "viewPr" => prOpen

Vetted == JudgedNow /\ VerdictsNow /\ ShipProgress /\ ShipsVettedTree

LEMMA VettedInit == Init => Vetted
BY DEF Init, Vetted, JudgedNow, GreenBeforeReview, VerdictsNow, Reviewing,
       ShipProgress, ShipsVettedTree, ShipSteps

LEMMA VettedStep ==
  ASSUME Editors = {"build"}
  PROVE  Typed /\ Routing /\ Vetted /\ [Next]_vars => Vetted'
<1> SUFFICES ASSUME Typed, Routing, Vetted, [Next]_vars PROVE Vetted'
  OBVIOUS
<1> USE DEF Vetted, JudgedNow, GreenBeforeReview, AllGreenOn, VerdictsNow,
            Reviewing, ShipProgress, ShipsVettedTree, ShipSteps, Ended,
            Current, Session
<1>0. Ended \/ status = "running"
  BY DEF Routing
<1>1. CASE CreateSandbox \/ Provision \/ Preflight
  BY <1>0, <1>1 DEF CreateSandbox, Provision, Preflight, Goto, End, CallBuild,
              counters, worktree, gates, review, forge
<1>2. CASE BuildReturns \/ SeamConfirms
  BY <1>0, <1>2 DEF BuildReturns, SeamConfirms, Goto, CallBuild, worktree,
                    gates, review, forge
<1>3. CASE SeamSkips
  BY <1>0, <1>3 DEF SeamSkips, Goto, counters, worktree, review, forge
<1>4. ASSUME NEW g \in Gates, GateExits(g) PROVE Vetted'
  BY <1>0, <1>4 DEF GateExits, control, counters, worktree, review, forge,
                    Typed, TypeOK
<1>5. CASE TestExecFail \/ TestRed
  BY <1>0, <1>5 DEF TestExecFail, TestRed, End, CallBuild, counters, worktree,
              gates, review, forge
<1>6. CASE TestGreen
  <2>1. JudgedNow'
    BY <1>6 DEF TestGreen, CallReview, Green, worktree, gates
  <2>2. \A c \in toolCalls' : c.session <= reviewAttempts
    BY <1>6 DEF TestGreen
  <2>3. Current' = reviewAttempts + 1
    BY <1>6 DEF TestGreen, CallReview
  <2>4. reviewAttempts \in Nat /\ reviewAttempts + 1 \in Sessions
    BY <1>6, CapsAssumption
    DEF TestGreen, Typed, TypeOK, BudgetLeft, Building, Sessions
  <2>5. \A c \in toolCalls' : c.session \in Nat
    BY <1>6 DEF TestGreen, Typed, TypeOK, ToolCalls, Sessions
  <2>6. stash'[reviewAttempts + 1].v = "none"
    BY <1>6, <2>4 DEF TestGreen, Typed, TypeOK, NoVerdict
  <2>7. VerdictsNow'
    <3>1. \A c \in toolCalls' : c.session <= Current' /\ c.session # Current'
      BY <2>2, <2>3, <2>4, <2>5
    <3> QED
      BY <1>6, <2>3, <2>6, <3>1 DEF TestGreen, CallReview
  <2> QED
    BY <1>0, <1>6, <2>1, <2>7 DEF TestGreen, CallReview, forge
<1>7. CASE ReviewReturns \/ HarvestWireMiss
  BY <1>0, <1>7
  DEF ReviewReturns, HarvestWireMiss, Goto, End, CallReview, counters,
      worktree, gates, review, forge, Typed, CallFits
<1>8. CASE HarvestFail \/ HarvestPass
  BY <1>0, <1>8
  DEF HarvestFail, HarvestPass, Harvested, Goto, End, CallBuild, counters,
      worktree, gates, forge
<1>9. CASE AgentFails
  BY <1>0, <1>9 DEF AgentFails, End, counters, worktree, gates, review, forge
<1>10. CASE Ship
  <2>1. verdict.v = "pass"
    BY <1>10 DEF Ship, ShipInputDecodes, ShipCommits, ShipPushes,
                ShipCreatesPr, ShipViewsPr, Routing, RoutedByOwnSession
  <2>2. CASE ShipInputDecodes \/ ShipCommits \/ ShipPushes
    BY <1>0, <2>2 DEF ShipInputDecodes, ShipCommits, ShipPushes, Goto, End,
                      counters, worktree, gates, review, forge
  <2>3. CASE ShipCreatesPr
    <3>1. (pc' = "viewPr" /\ status' = status /\ prOpen')
          \/ (pc' = "closing" /\ status' = "ready_for_pr")
      BY <2>3, Zenon DEF ShipCreatesPr, Goto, End
    <3>2. pc = "openPr"
          /\ UNCHANGED <<call, counters, worktree, gates, review, head, remote>>
      BY <2>3, Zenon DEF ShipCreatesPr, Goto, End
    <3> QED
      BY <1>0, <3>1, <3>2 DEF counters, worktree, gates, review
  <2>4. CASE ShipViewsPr
    BY <1>0, <2>1, <2>4 DEF ShipViewsPr, End, counters, worktree, gates, review,
                            forge
  <2> QED
    BY <1>10, <2>2, <2>3, <2>4 DEF Ship
<1>11. CASE BuildEdits \/ BuildCommits
  BY <1>0, <1>11 DEF BuildEdits, BuildCommits, control, counters, worktree, gates,
                     review, forge
<1>12. CASE GateEdits \/ ReviewEdits
  BY <1>12 DEF GateEdits, ReviewEdits
<1>13. CASE ToolCalled
  <2>1. Session \in Nat
    BY DEF Typed, TypeOK
  <2> QED
    BY <1>0, <1>13, <2>1 DEF ToolCalled, control, counters, worktree, gates,
                             forge
<1>14. ASSUME NEW c \in toolCalls, ToolSettles(c) PROVE Vetted'
  <2>1. c \in ToolCalls
    BY DEF Typed, TypeOK
  <2> QED
    BY <1>0, <1>14, <2>1 DEF ToolSettles, ToolCalls, control, counters,
                             worktree, gates, forge, Typed, TypeOK
<1>15. CASE Interrupt \/ CloseScope
  BY <1>0, <1>15 DEF Interrupt, CloseScope, End, counters, worktree, gates,
                     review, forge
<1>16. CASE UNCHANGED vars
  BY <1>16 DEF vars, control, counters, worktree, gates, review, forge
<1> QED
  BY <1>1, <1>2, <1>3, <1>4, <1>5, <1>6, <1>7, <1>8, <1>9, <1>10, <1>11,
     <1>12, <1>13, <1>14, <1>15, <1>16
  DEF Next, Orchestrate, Setup, BuildTest, Review, Environment, Finished

LEMMA VettedAlways ==
  ASSUME Editors = {"build"}
  PROVE  Spec => []Vetted
BY VettedInit, VettedStep, TypedAlways, RoutingAlways, PTL DEF Spec

\* The hard gate, for any number of gates and attempts: as long as only the
\* Build agent writes the worktree, every gate is green on its content all
\* through Review and Ship.
THEOREM HardGate ==
  ASSUME Editors = {"build"}
  PROVE  Spec => []GreenBeforeReview
<1>1. Vetted => GreenBeforeReview
  BY DEF Vetted, JudgedNow
<1> QED
  BY <1>1, VettedAlways, PTL

\* Under the same assumption a shipped run pushed exactly the content that its
\* gates and its passing Review judged.
THEOREM ShipsWhatWasVetted ==
  ASSUME Editors = {"build"}
  PROVE  Spec => []ShipsVettedTree
<1>1. Vetted => ShipsVettedTree
  BY DEF Vetted
<1> QED
  BY <1>1, VettedAlways, PTL

\* Nothing but Ship under a pass of the current attempt changes the forge, and
\* nothing else but Build's own commits the ticket branch, for every value of the
\* caps and whoever writes the worktree.
THEOREM ForgeDiscipline == Spec => ForgeOnlyAfterPass
<1> DEFINE Passed == verdict.v = "pass" /\ verdict.session = reviewAttempts
           ByBuild == pc = "building" /\ UNCHANGED <<remote, prOpen>>
<1>1. Typed /\ Routing /\ [Next]_vars => [Passed \/ ByBuild]_forge
  <2> SUFFICES ASSUME Typed, Routing, Next, forge' # forge
               PROVE  pc \in ShipSteps \/ ByBuild
    BY DEF Routing, RoutedByOwnSession, vars
  <2>1. CASE Setup \/ BuildTest \/ AgentFails \/ CloseScope
    BY <2>1 DEF Setup, CreateSandbox, Provision, Preflight, BuildTest,
                BuildReturns, SeamConfirms, SeamSkips, GateExits, TestExecFail,
                TestRed, TestGreen, AgentFails, CloseScope
  <2>2. CASE Review
    BY <2>2 DEF Review, ReviewReturns, HarvestWireMiss, HarvestFail, HarvestPass
  <2>3. CASE Ship
    BY <2>3 DEF Ship, ShipInputDecodes, ShipCommits, ShipPushes, ShipCreatesPr,
                ShipViewsPr, ShipSteps
  <2>4. CASE Environment
    <3>1. CASE Interrupt
      BY <3>1 DEF Interrupt, forge, ShipSteps
    <3>2. CASE BuildCommits
      BY <3>2 DEF BuildCommits
    <3> QED
      BY <2>4, <3>1, <3>2 DEF Environment, BuildEdits, GateEdits, ReviewEdits,
                              ToolCalled, ToolSettles
  <2>5. CASE Finished
    BY <2>5 DEF Finished, vars
  <2> QED
    BY <2>1, <2>2, <2>3, <2>4, <2>5 DEF Next, Orchestrate
<1> QED
  BY <1>1, TypedAlways, RoutingAlways, PTL DEF Spec, ForgeOnlyAfterPass

-----------------------------------------------------------------------------
\* The Build budget. Every call of the Build agent is paid for: by a Build
\* attempt (charged when the call returns), by the seam confirmation, or by a
\* Review that sent the change back. The Review being judged has sent nothing
\* back yet.

InFlight == IF pc = "building" /\ call \in {"create", "red"} THEN 1 ELSE 0
Judging == pc = "harvest" \/ (pc = "reviewing" /\ call = "wire")
Rejections == IF Judging THEN reviewAttempts - 1 ELSE reviewAttempts

CallsPaid ==
  /\ Building \/ Reviewing =>
       buildCalls <= buildAttempts + InFlight + seamConfirmCount + Rejections
  /\ BuildCallsBounded

LEMMA BudgetMeetsBound ==
  Typed /\ (Building \/ Reviewing)
  /\ buildCalls <= buildAttempts + InFlight + seamConfirmCount + Rejections
  => BuildCallsBounded
BY CapsAssumption
DEF Typed, TypeOK, CallFits, BudgetLeft, Building, Reviewing, InFlight, Judging,
    Rejections, BuildCallsBounded, SeamConfirmCap

LEMMA CallsPaidInit == Init => CallsPaid
BY CapsAssumption
DEF Init, CallsPaid, Building, Reviewing, BuildCallsBounded, SeamConfirmCap

LEMMA CallsPaidStep == Typed /\ CallsPaid /\ [Next]_vars => CallsPaid'
<1> SUFFICES ASSUME Typed, CallsPaid, [Next]_vars PROVE CallsPaid'
  OBVIOUS
<1>1. Typed'
  BY TypedStep
<1>2. /\ buildCalls \in Nat /\ buildAttempts \in Nat
      /\ seamConfirmCount \in Nat /\ reviewAttempts \in Nat
  BY CapsAssumption DEF Typed, TypeOK, SeamConfirmCap
<1>3. (Building \/ Reviewing)' =>
        (buildCalls <= buildAttempts + InFlight + seamConfirmCount + Rejections)'
  <2> USE DEF CallsPaid, Building, Reviewing, InFlight, Judging, Rejections
  <2>1. CASE Setup
    BY <1>2, <2>1 DEF Setup, CreateSandbox, Provision, Preflight, Goto, End,
                CallBuild, counters, Typed, BudgetLeft, Setting
  <2>2. CASE BuildReturns \/ SeamConfirms \/ SeamSkips
    BY <1>2, <2>2 DEF BuildReturns, SeamConfirms, SeamSkips, Goto, CallBuild,
                      counters
  <2>3. ASSUME NEW g \in Gates, GateExits(g)
        PROVE  (buildCalls <=
                  buildAttempts + InFlight + seamConfirmCount + Rejections)'
    BY <1>2, <2>3 DEF GateExits, control, counters
  <2>4. CASE TestExecFail \/ TestRed \/ TestGreen
    BY <1>2, <2>4 DEF TestExecFail, TestRed, TestGreen, End, CallBuild,
                      CallReview, counters
  <2>5. CASE Review
    BY <1>2, <2>5 DEF Review, ReviewReturns, HarvestWireMiss, HarvestFail,
                HarvestPass, Goto, End, CallBuild, CallReview, counters,
                ShipSteps, Typed, CallFits
  <2>6. CASE AgentFails \/ CloseScope \/ Ship
    BY <2>6 DEF AgentFails, CloseScope, Ship, ShipInputDecodes, ShipCommits,
                ShipPushes, ShipCreatesPr, ShipViewsPr, Goto, End
  <2>7. CASE Environment
    BY <1>2, <2>7 DEF Environment, BuildEdits, BuildCommits, GateEdits,
                      ReviewEdits, ToolCalled, ToolSettles, Interrupt, End,
                      control, counters
  <2>8. CASE UNCHANGED vars
    BY <2>8 DEF vars, control, counters
  <2> QED
    BY <2>1, <2>2, <2>3, <2>4, <2>5, <2>6, <2>7, <2>8
    DEF Next, Orchestrate, BuildTest, Finished
<1>4. CASE (Building \/ Reviewing)'
  BY <1>1, <1>3, <1>4, BudgetMeetsBound, PTL DEF CallsPaid
<1>5. CASE ~(Building \/ Reviewing)'
  <2>1. buildCalls' = buildCalls
    BY <1>5
    DEF Next, Orchestrate, Setup, CreateSandbox, Provision, Preflight,
        BuildTest, BuildReturns, SeamConfirms, SeamSkips, GateExits,
        TestExecFail, TestRed, TestGreen, Review, ReviewReturns,
        HarvestWireMiss, HarvestFail, HarvestPass, AgentFails, Ship,
        ShipInputDecodes, ShipCommits, ShipPushes, ShipCreatesPr, ShipViewsPr,
        CloseScope, Environment, BuildEdits, BuildCommits, GateEdits,
        ReviewEdits, ToolCalled, ToolSettles, Interrupt, Finished, CallBuild, Building, counters, vars
  <2> QED
    BY <1>5, <2>1 DEF CallsPaid, BuildCallsBounded
<1> QED
  BY <1>4, <1>5

\* However the Build/Test and Review loops interleave, one run calls the Build
\* agent at most once per Build attempt, seam confirmation and Review but the
\* last.
THEOREM BuildCallsCapped == Spec => []BuildCallsBounded
<1>1. CallsPaid => BuildCallsBounded
  BY DEF CallsPaid
<1> QED
  BY <1>1, TypedAlways, CallsPaidInit, CallsPaidStep, PTL DEF Spec

-----------------------------------------------------------------------------
\* The run implements the contract: every step spends one of its budgets, moves
\* its turn on, ends it, or leaves it alone.

\* A step that leaves alone all that the contract sees.
Silent == UNCHANGED <<pc, call, status, counters>>

LEMMA SilentStutters == Silent => UNCHANGED Contract!vars
BY DEF Silent, counters, Contract!vars, Contract!spent, Turn, ShipSteps

\* Whose turn it is, by where the fiber awaits.
TurnFits ==
  /\ Setting => Turn = "setup"
  /\ Building => Turn = "build"
  /\ pc = "reviewing" /\ call = "create" => Turn = "entering"
  /\ Judging => Turn = "judging"
  /\ pc \in ShipSteps => Turn = "ship"
  /\ Ended => Turn = "over"

LEMMA TurnsFit == CallFits => TurnFits
BY DEF TurnFits, Turn, Setting, Building, Judging, ShipSteps, Ended, CallFits

LEMMA ContractStep ==
  Typed /\ Routing /\ [Next]_vars => [Contract!Next]_(Contract!vars)
<1> SUFFICES ASSUME Typed, Routing, [Next]_vars
             PROVE  Contract!Next \/ UNCHANGED Contract!vars
  OBVIOUS
<1>0. TurnFits /\ TurnFits'
  BY TurnsFit, TypedStep, PTL DEF Typed
<1> USE <1>0 DEF TurnFits, Setting, Building, Judging, ShipSteps, Ended,
                 Contract!vars, Contract!spent
<1>1. CASE Preflight
  BY <1>1 DEF Preflight, CallBuild, End, Contract!Next, Contract!StartBuild,
              Contract!Turn, Contract!Fail, Contract!Over
<1>2. CASE CreateSandbox \/ Provision
  BY <1>2 DEF CreateSandbox, Provision, Goto, End, counters, Contract!Next,
              Contract!Fail, Contract!Over
<1>3. CASE BuildReturns
  <2>1. CASE call \in {"create", "red"}
    BY <1>3, <2>1, CapsAssumption
    DEF BuildReturns, Goto, Typed, BudgetLeft, Contract!Next,
        Contract!SpendBuild, Contract!Turn
  <2>2. CASE call \notin {"create", "red"}
    BY <1>3, <2>2 DEF BuildReturns, Goto
  <2> QED
    BY <2>1, <2>2
<1>4. CASE SeamConfirms
  BY <1>4 DEF SeamConfirms, MayConfirm, CallBuild, Contract!Next,
              Contract!SpendConfirm, Contract!Turn
<1>5. CASE SeamSkips
  BY <1>5 DEF SeamSkips, Goto, counters
<1>6. CASE TestExecFail \/ TestRed
  BY <1>6 DEF TestExecFail, TestRed, End, CallBuild, counters, Contract!Next,
              Contract!Fail, Contract!Over
<1>7. CASE TestGreen
  BY <1>7 DEF TestGreen, CallReview, Typed, BudgetLeft, Contract!Next,
              Contract!EnterReview, Contract!Turn
<1>8. CASE ReviewReturns
  <2>1. CASE call = "create"
    BY <1>8, <2>1 DEF ReviewReturns, Goto, Typed, BudgetLeft, Contract!Next,
                      Contract!SpendReview, Contract!Turn
  <2>2. CASE call = "wire"
    BY <1>8, <2>2 DEF ReviewReturns, Goto, Typed, BudgetLeft, Contract!Next,
                      Contract!SpendWireMiss, Contract!Turn
  <2> QED
    BY <1>8, <2>1, <2>2 DEF ReviewReturns, Typed, CallFits
<1>9. CASE HarvestWireMiss
  BY <1>9 DEF HarvestWireMiss, End, CallReview, counters, Contract!Next,
              Contract!Fail, Contract!Over
<1>10. CASE HarvestFail
  BY <1>10 DEF HarvestFail, End, CallBuild, Contract!Next, Contract!Reject,
               Contract!Turn, Contract!Fail, Contract!Over
<1>11. CASE HarvestPass
  BY <1>11 DEF HarvestPass, Goto, counters, Contract!Next, Contract!Accept,
               Contract!Turn
<1>12. CASE AgentFails
  BY <1>12 DEF AgentFails, End, counters, Typed, CallFits, Contract!Next,
               Contract!Fail, Contract!Over
<1>13. CASE Ship
  BY <1>13 DEF Ship, ShipInputDecodes, ShipCommits, ShipPushes, ShipCreatesPr,
               ShipViewsPr, Goto, End, counters, Contract!Next,
               Contract!FinishShip, Contract!Over
<1>14. CASE Interrupt
  BY <1>14 DEF Interrupt, End, counters, Typed, TypeOK, CallFits,
               Contract!Next, Contract!Interrupt, Contract!Over
<1>15. CASE CloseScope
  BY <1>15 DEF CloseScope, counters
<1>16. CASE Silent
  BY <1>16, SilentStutters
<1>17. (\E g \in Gates : GateExits(g)) \/ BuildEdits \/ BuildCommits
       \/ GateEdits \/ ReviewEdits \/ ToolCalled \/ (\E c \in toolCalls : ToolSettles(c))
       \/ Finished \/ UNCHANGED vars => Silent
  BY DEF GateExits, BuildEdits, BuildCommits, GateEdits, ReviewEdits, ToolCalled,
         ToolSettles, Finished, vars, control, Silent, counters
<1> QED
  BY <1>1, <1>2, <1>3, <1>4, <1>5, <1>6, <1>7, <1>8, <1>9, <1>10, <1>11,
     <1>12, <1>13, <1>14, <1>15, <1>16, <1>17
  DEF Next, Orchestrate, Setup, BuildTest, Review, Environment

\* The run of MinimalAdw implements the attempt budget and routing contract of
\* ADR-0009 and ADR-0011, for every value of the caps.
THEOREM ContractKept == Spec => KeepsContract
<1>1. Init => Contract!Init
  <2> SUFFICES ASSUME Init PROVE Contract!Init
    OBVIOUS
  <2>1. Turn = "setup"
    BY TypedInit, TurnsFit DEF Typed, TurnFits, Init, Setting
  <2> QED
    BY <2>1 DEF Init, Contract!Init
<1> QED
  BY <1>1, ContractStep, TypedAlways, RoutingAlways, PTL
  DEF Spec, KeepsContract, Contract!Spec
-----------------------------------------------------------------------------
\* Termination. `Nearer' is a well-founded order of the distances, and every
\* step of the fiber descends in it.

LEMMA GatesLeftTyped == TypeOK => GatesLeft \in Nat
<1> DEFINE G == {g \in Gates : gate[g] = "running"}
<1>1. Cardinality(G) \in Nat
  BY GatesAssumption, FS_Subset, FS_CardinalityType
<1> QED
  BY <1>1 DEF GatesLeft

\* The distance is measured in natural numbers.
LEMMA DistanceTyped ==
  Typed => /\ ReviewAttemptCap - reviewAttempts \in Nat
           /\ Leg \in Nat /\ BudgetOfLeg \in Nat /\ StepOfLeg \in Nat
           /\ GatesLeft \in Nat
<1> SUFFICES ASSUME Typed
             PROVE  /\ ReviewAttemptCap - reviewAttempts \in Nat
                    /\ Leg \in Nat /\ BudgetOfLeg \in Nat /\ StepOfLeg \in Nat
                    /\ GatesLeft \in Nat
  OBVIOUS
<1> USE CapsAssumption DEF Typed, TypeOK, SeamConfirmCap
<1>1. ReviewAttemptCap - reviewAttempts \in Nat
  OBVIOUS
<1>2. Leg \in Nat /\ StepOfLeg \in Nat
  BY DEF Leg, StepOfLeg
<1>3. BudgetOfLeg \in Nat
  BY DEF BudgetOfLeg
<1> QED
  BY <1>1, <1>2, <1>3, GatesLeftTyped

\* One of the five goes down, and those before it stay.
Forward ==
  \/ reviewAttempts' > reviewAttempts
  \/ /\ UNCHANGED reviewAttempts
     /\ \/ Leg' < Leg
        \/ /\ UNCHANGED Leg
           /\ \/ BudgetOfLeg' < BudgetOfLeg
              \/ /\ UNCHANGED BudgetOfLeg
                 /\ \/ StepOfLeg' < StepOfLeg
                    \/ UNCHANGED StepOfLeg /\ GatesLeft' < GatesLeft

LEMMA Descends ==
  ASSUME Typed, Typed', Forward
  PROVE  Nearer(Distance', Distance)
<1>1. Typed' => /\ (ReviewAttemptCap - reviewAttempts \in Nat)'
                /\ (Leg \in Nat)' /\ (BudgetOfLeg \in Nat)' /\ (StepOfLeg \in Nat)'
                /\ (GatesLeft \in Nat)'
  BY DistanceTyped, PTL
<1>2. reviewAttempts \in Int /\ reviewAttempts' \in Int /\ ReviewAttemptCap \in Int
  BY CapsAssumption DEF Typed, TypeOK
<1>3. reviewAttempts' > reviewAttempts =>
        ReviewAttemptCap - reviewAttempts' < ReviewAttemptCap - reviewAttempts
  <2>1. \A c, x, y \in Int : y > x => c - y < c - x
    OBVIOUS
  <2> QED
    BY <1>2, <2>1
<1>4. Distance' = <<ReviewAttemptCap - reviewAttempts', Leg', BudgetOfLeg',
                    StepOfLeg', GatesLeft'>>
  BY DEF Distance
<1>5. \A n \in Nat : n \in Int
  OBVIOUS
<1>6. CASE reviewAttempts' > reviewAttempts
  BY <1>1, <1>3, <1>4, <1>5, <1>6, DistanceTyped, NearerBy DEF Distance
<1>7. CASE UNCHANGED reviewAttempts
  BY <1>1, <1>3, <1>4, <1>5, <1>7, DistanceTyped, NearerBy DEF Distance, Forward
<1> QED
  BY <1>6, <1>7 DEF Forward

\* A gate that exits is one fewer that runs.
LEMMA GateExitsNearer ==
  ASSUME Typed, NEW g \in Gates, GateExits(g)
  PROVE  GatesLeft' < GatesLeft
<1> DEFINE G == {h \in Gates : gate[h] = "running"}
           H == {h \in Gates : gate'[h] = "running"}
<1>1. H = G \ {g} /\ g \in G
  BY DEF GateExits, Typed, TypeOK
<1>2. IsFiniteSet(G)
  BY GatesAssumption, FS_Subset
<1>3. Cardinality(H) = Cardinality(G) - 1 /\ Cardinality(G) \in Nat
  BY <1>1, <1>2, FS_RemoveElement, FS_CardinalityType
<1>4. GatesLeft = Cardinality(G) /\ GatesLeft' = Cardinality(H)
  BY DEF GateExits, control, GatesLeft
<1> QED
  BY <1>3, <1>4

LEMMA ForwardStep ==
  ASSUME Typed, Next, ~UNCHANGED <<pc, gate>>
  PROVE  Forward
<1> USE CapsAssumption
<1> USE DEF Forward, Leg, StepOfLeg, ShipSteps
<1>1. CASE CreateSandbox \/ Provision
  BY <1>1 DEF CreateSandbox, Provision, Goto, End, counters, BudgetOfLeg
<1>2. CASE Preflight
  BY <1>2 DEF Preflight, CallBuild, End
<1>3. CASE BuildReturns
  BY <1>3
  DEF BuildReturns, Goto, BudgetOfLeg, Typed, TypeOK, CallFits, SeamConfirmCap
<1>4. CASE SeamConfirms
  BY <1>4
  DEF SeamConfirms, CallBuild, MayConfirm, BudgetOfLeg, SeamConfirmCap, Typed,
      TypeOK
<1>5. CASE SeamSkips
  BY <1>5 DEF SeamSkips, Goto, counters, BudgetOfLeg
<1>6. ASSUME NEW g \in Gates, GateExits(g) PROVE Forward
  BY <1>6, GateExitsNearer DEF GateExits, control, counters, BudgetOfLeg
<1>7. CASE TestExecFail
  BY <1>7 DEF TestExecFail, End, counters
<1>8. CASE TestRed
  BY <1>8 DEF TestRed, CallBuild, End, BudgetOfLeg
<1>9. CASE TestGreen
  BY <1>9 DEF TestGreen, CallReview
<1>10. CASE ReviewReturns
  BY <1>10
  DEF ReviewReturns, Goto, BudgetOfLeg, Typed, TypeOK, CallFits
<1>11. CASE HarvestWireMiss
  BY <1>11 DEF HarvestWireMiss, CallReview, End, counters, BudgetOfLeg
<1>12. CASE HarvestFail
  BY <1>12 DEF HarvestFail, CallBuild, End
<1>13. CASE HarvestPass
  BY <1>13 DEF HarvestPass, Goto, counters
<1>14. CASE AgentFails
  BY <1>14 DEF AgentFails, End, counters
<1>15. CASE Ship
  <2>1. CASE ShipCreatesPr
    <3>1. /\ pc = "openPr" /\ pc' \in {"viewPr", "closing"}
          /\ UNCHANGED <<call, counters>>
      BY <2>1, Zenon DEF ShipCreatesPr, Goto, End
    <3> QED
      BY <3>1 DEF counters, BudgetOfLeg
  <2> QED
    BY <1>15, <2>1
    DEF Ship, ShipInputDecodes, ShipCommits, ShipPushes, ShipViewsPr, Goto, End,
        counters, BudgetOfLeg
<1>16. CASE Interrupt
  BY <1>16 DEF Interrupt, End, Ended, counters, Typed, TypeOK
<1>17. CASE CloseScope
  BY <1>17 DEF CloseScope, counters
<1>18. \/ BuildEdits \/ BuildCommits \/ GateEdits \/ ReviewEdits \/ ToolCalled
       \/ \E c \in toolCalls : ToolSettles(c)
       \/ Finished
       => UNCHANGED <<pc, gate>>
  BY DEF BuildEdits, BuildCommits, GateEdits, ReviewEdits, ToolCalled, ToolSettles,
         Finished, vars, control, gates
<1> QED
  BY <1>1, <1>2, <1>3, <1>4, <1>5, <1>6, <1>7, <1>8, <1>9, <1>10, <1>11, <1>12,
     <1>13, <1>14, <1>15, <1>16, <1>17, <1>18
  DEF Next, Orchestrate, Setup, BuildTest, Review, Environment

\* Whatever agents, gates and tools answer and in whatever order, each step of a
\* run descends; with NoEndlessDescent, its loops end for all caps and gates.
THEOREM AlwaysGetsNearer == Spec => GetsNearer
<1>1. Typed /\ Typed' /\ [Next]_vars => [Nearer(Distance', Distance)]_<<pc, gate>>
  <2> SUFFICES ASSUME Typed, Typed', [Next]_vars, ~UNCHANGED <<pc, gate>>
               PROVE  Nearer(Distance', Distance)
    OBVIOUS
  <2>1. Next
    BY DEF vars, control, gates
  <2> QED
    BY <2>1, ForwardStep, Descends
<1> QED
  BY <1>1, TypedAlways, PTL DEF Spec, GetsNearer
=============================================================================
