---------------------------- MODULE MCRunScope ----------------------------
(***************************************************************************)
(* Small instances of RunScope: two runs, so that one can meet what the    *)
(* other left, each with an exec; the first with two agent calls. A third  *)
(* run, of another operator, does nothing but hold its sandbox.            *)
(***************************************************************************)
EXTENDS RunScope, TLC

CONSTANTS run1, run2, run3, proc1, proc2, call1, call2, call3, host1, host2

Successors == [r \in Runs |-> IF r = run3 THEN host2 ELSE host1]
TwoOperators == [r \in Runs |-> IF r = run1 THEN host1 ELSE host2]
Owners == [q \in Procs |-> IF q = proc1 THEN run1 ELSE run2]
Callers == [k \in Calls |-> IF k = call3 THEN run2 ELSE run1]
=============================================================================
