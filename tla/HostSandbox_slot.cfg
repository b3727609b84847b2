\* One provider, destroy racing execs and a second destroy.
SPECIFICATION Spec
CONSTANTS
  run1 = run1
  run2 = run2
  run3 = run3
  proc1 = proc1
  proc2 = proc2
  proc3 = proc3
  host1 = host1
  NoRun = NoRun
  NoProc = NoProc
  OwnerOf <- Owners
  Runs = {run1, run2, run3}
  Procs = {proc1, proc3}
  Providers = {host1}
  ProviderOf <- OneProvider
  Stubborn = {}
  FiberYields = FALSE
INVARIANTS
  TypeOK
  OneActivePerProvider
  DestroyOutlivesChildren
  QuietLeavesNothing
PROPERTIES
  KeepsLock
CHECK_DEADLOCK FALSE
