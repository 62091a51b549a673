------------------------------- MODULE MCCron -------------------------------
(* Two runs that follow each other in one process, and one in another. *)
EXTENDS Cron, TLC

CONSTANTS p1, p2, u1, u2, u3

RunsOf == [u \in Users |-> IF u = u3 THEN p2 ELSE p1]

\* The runs of the first process are interchangeable.
Mates12 == Permutations({u1, u2})
=============================================================================
