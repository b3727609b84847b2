---------------------------- MODULE AdwContract ----------------------------
(***************************************************************************)
(* What a Minimal ADW run promises about attempts and routing (ADR-0009,   *)
(* ADR-0011), without agents, worktree, gates or forge: whose turn it is,  *)
(* which budget each turn spends, and which outcomes each turn may have.   *)
(*                                                                         *)
(* Build and Review have separate budgets; a Review fail and a seam        *)
(* confirmation give Build a turn that costs no Build attempt; a wire miss *)
(* costs neither; a run that has passed Review cannot fail.                *)
(***************************************************************************)
EXTENDS Naturals

CONSTANTS BuildAttemptCap, ReviewAttemptCap, WireMissCap, ConfirmCap

VARIABLES
  turn,      \* "setup", "build", "entering", "judging", "ship" or "over"
  builds, confirms, reviews, misses,   \* what has been spent
  outcome

spent == <<builds, confirms, reviews, misses>>
vars == <<turn, spent, outcome>>

Init ==
  /\ turn = "setup" /\ outcome = "running"
  /\ builds = 0 /\ confirms = 0 /\ reviews = 0 /\ misses = 0

Turn(from, to) == turn = from /\ turn' = to /\ UNCHANGED outcome

StartBuild == Turn("setup", "build") /\ UNCHANGED spent

\* Only the first call and the resumes after a red Test spend a Build attempt.
SpendBuild ==
  /\ Turn("build", "build")
  /\ builds < BuildAttemptCap /\ builds' = builds + 1
  /\ UNCHANGED <<confirms, reviews, misses>>

SpendConfirm ==
  /\ Turn("build", "build")
  /\ confirms < ConfirmCap /\ confirms' = confirms + 1
  /\ UNCHANGED <<builds, reviews, misses>>

\* A green Test opens a Review session, with a wire-miss budget of its own.
EnterReview ==
  /\ Turn("build", "entering")
  /\ builds > 0
  /\ misses' = 0
  /\ UNCHANGED <<builds, confirms, reviews>>

SpendReview ==
  /\ Turn("entering", "judging")
  /\ reviews < ReviewAttemptCap /\ reviews' = reviews + 1
  /\ UNCHANGED <<builds, confirms, misses>>

SpendWireMiss ==
  /\ Turn("judging", "judging")
  /\ misses < WireMissCap /\ misses' = misses + 1
  /\ UNCHANGED <<builds, confirms, reviews>>

\* A fail goes back to Build for free, but only if another Review is left.
Reject ==
  /\ Turn("judging", "build")
  /\ reviews < ReviewAttemptCap
  /\ UNCHANGED spent

Accept == Turn("judging", "ship") /\ UNCHANGED spent

Over(result) == turn' = "over" /\ outcome' = result /\ UNCHANGED spent

Fail == turn \in {"setup", "build", "entering", "judging"} /\ Over("failed")

FinishShip ==
  turn = "ship" /\ \E result \in {"ready_for_pr", "shipped"} : Over(result)

Interrupt == turn # "over" /\ Over("interrupted")

Next ==
  \/ StartBuild \/ SpendBuild \/ SpendConfirm
  \/ EnterReview \/ SpendReview \/ SpendWireMiss
  \/ Reject \/ Accept
  \/ Fail \/ FinishShip \/ Interrupt

Spec == Init /\ [][Next]_vars
=============================================================================
