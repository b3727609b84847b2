\* Two runs of one operator, one after the other, and one of another operator;
\* every process obeys SIGTERM.
SPECIFICATION FairSpec
CONSTANTS
  run1 = run1
  run2 = run2
  run3 = run3
  proc1 = proc1
  proc2 = proc2
  call1 = call1
  call2 = call2
  call3 = call3
  host1 = host1
  host2 = host2
  NoRun = NoRun
  NoProc = NoProc
  OwnerOf <- Owners
  CallerOf <- Callers
  Runs = {run1, run2, run3}
  Procs = {proc1, proc2}
  Calls = {call1, call2, call3}
  Providers = {host1, host2}
  ProviderOf <- Successors
  Stubborn = {}
  FiberYields = FALSE
INVARIANTS
  TypeOK
  OneRunWrites
  AgentsDisposed
  OnlyKilledLeave
  EndsUnaided
PROPERTIES
  RunGivesBack
  ClosingGetsNearer
CHECK_DEADLOCK FALSE
