--------------------------- MODULE MCTicketForge ---------------------------
(***************************************************************************)
(* Small instances of TicketForge: two runs of one ticket, so that a rerun *)
(* meets what the first left, and one of another.                          *)
(***************************************************************************)
EXTENDS TicketForge, TLC

CONSTANTS t1, t2, r1, r2, r3

Assignment == [r \in Runs |-> IF r = r3 THEN t2 ELSE t1]
\* r1 and r2 are runs of the same ticket.
Reruns == Permutations({r1, r2})
=============================================================================
