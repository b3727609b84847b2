------------------------------ MODULE Descent ------------------------------
(***************************************************************************)
(* The order in which runs and their scopes come nearer to their end: five *)
(* numbers, the most significant first. It is the arithmetic of the        *)
(* termination properties of MinimalAdw and RunScope, not code.            *)
(***************************************************************************)
EXTENDS Naturals

\* The first number that differs is smaller.
Nearer(m, n) ==
  \E i \in 1..5 : m[i] < n[i] /\ \A j \in 1..(i - 1) : m[j] = n[j]
=============================================================================
