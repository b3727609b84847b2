\* Only the Build agent writes the worktree; an earlier run may have shipped.
SPECIFICATION Spec
CONSTANTS
  NoTree = NoTree
  BaseTree = base
  Trees = {base, fix}
  Gates = {lint, unit}
  BuildAttemptCap = 2
  ReviewAttemptCap = 2
  WireMissCap = 1
  Editors = {"build"}
  EarlierRun = TRUE
  MaxToolCalls = 1
SYMMETRY GateSymmetry
INVARIANTS
  TypeOK
  GreenBeforeReview
  ShipsVettedTree
  RoutedByOwnSession
  StatusMatchesVerdict
  BuildCallsBounded
