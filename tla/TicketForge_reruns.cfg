CONSTANTS
  t1 = t1
  t2 = t2
  r1 = r1
  r2 = r2
  r3 = r3
  Tickets = {t1, t2}
  Main = main
  NoTicket = none
  Runs = {r1, r2, r3}
  TicketOf <- Assignment
  MaxEdits = 1
  MaxStrays = 1
  HasRepoUrl = TRUE
  HasLockfile = TRUE
  Faults = TRUE
SPECIFICATION Spec
CHECK_DEADLOCK FALSE
INVARIANTS TypeOK ShippedIsVetted SetupBeforeBuild FirstRunShips OwnWorkOnly
PROPERTY RemoteOnlyGrows
SYMMETRY Reruns
