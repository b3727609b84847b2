\* Destroy while an exec has passed its check and has not spawned yet.
SPECIFICATION Spec
CONSTANTS
  run1 = run1
  run2 = run2
  run3 = run3
  proc1 = proc1
  proc2 = proc2
  proc3 = proc3
  host1 = host1
  NoRun = NoRun
  NoProc = NoProc
  OwnerOf <- Owners
  Runs = {run1, run2}
  Procs = {proc1}
  Providers = {host1}
  ProviderOf <- OneProvider
  Stubborn = {}
  FiberYields = FALSE
INVARIANTS
  NoProcessFromBefore
CHECK_DEADLOCK FALSE
