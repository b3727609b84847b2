\* The ADR-0009 contract, the forge discipline and termination, whoever writes.
SPECIFICATION FairSpec
CONSTANTS
  NoTree = NoTree
  BaseTree = base
  Trees = {base, fix}
  Gates = {unit}
  BuildAttemptCap = 2
  ReviewAttemptCap = 2
  WireMissCap = 1
  Editors = {"build", "gate", "review"}
  EarlierRun = TRUE
  MaxToolCalls = 1
PROPERTIES
  KeepsContract
  ForgeOnlyAfterPass
  GetsNearer
  RunEnds
