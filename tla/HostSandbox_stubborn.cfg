\* A process that ignores SIGTERM.
SPECIFICATION FairSpec
CONSTANTS
  run1 = run1
  run2 = run2
  run3 = run3
  proc1 = proc1
  proc2 = proc2
  proc3 = proc3
  host1 = host1
  NoRun = NoRun
  NoProc = NoProc
  OwnerOf <- Owners
  Runs = {run1}
  Procs = {proc1}
  Providers = {host1}
  ProviderOf <- OneProvider
  Stubborn = {proc1}
  FiberYields = FALSE
PROPERTIES
  SlotReleased
CHECK_DEADLOCK FALSE
