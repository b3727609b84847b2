\* The second run is of an operator started after the first was killed.
SPECIFICATION Spec
CONSTANTS
  run1 = run1
  run2 = run2
  run3 = run3
  proc1 = proc1
  proc2 = proc2
  call1 = call1
  call2 = call2
  call3 = call3
  host1 = host1
  host2 = host2
  NoRun = NoRun
  NoProc = NoProc
  OwnerOf <- Owners
  CallerOf <- Callers
  Runs = {run1, run2}
  Procs = {proc1, proc2}
  Calls = {call1, call2, call3}
  Providers = {host1, host2}
  ProviderOf <- TwoOperators
  Stubborn = {}
  FiberYields = FALSE
INVARIANTS
  NoProcessOfOtherRun
CHECK_DEADLOCK FALSE
