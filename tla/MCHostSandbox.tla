--------------------------- MODULE MCHostSandbox ---------------------------
(***************************************************************************)
(* Small instances of HostSandbox for TLC: three runs so that a slot can   *)
(* be given back, taken again and wrongly freed; two of them run processes.*)
(***************************************************************************)
EXTENDS HostSandbox, TLC

CONSTANTS run1, run2, run3, proc1, proc2, proc3, host1

OneProvider == [r \in Runs |-> host1]
Owners == [q \in Procs |-> IF q = proc3 THEN run2 ELSE run1]
=============================================================================
