CONSTANTS
  t1 = t1
  t2 = t2
  r1 = r1
  r2 = r2
  r3 = r3
  Tickets = {t1, t2}
  Main = main
  NoTicket = none
  Runs = {r1, r2}
  TicketOf <- Assignment
  MaxEdits = 1
  MaxStrays = 0
  HasRepoUrl = TRUE
  HasLockfile = TRUE
  Faults = FALSE
SPECIFICATION Spec
CHECK_DEADLOCK FALSE
INVARIANT ReadyMeansNotInPr
