---------------------------- MODULE MCMinimalAdw ----------------------------
(***************************************************************************)
(* Small instances of MinimalAdw for TLC.                                  *)
(***************************************************************************)
EXTENDS MinimalAdw, TLC

\* Gates are interchangeable: every guard quantifies over all of them.
GateSymmetry == Permutations(Gates)
=============================================================================
