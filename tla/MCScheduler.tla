---------------------------- MODULE MCScheduler ----------------------------
(* Lock keys for the instances of GovernanceScheduler that TLC checks. *)
EXTENDS GovernanceScheduler, TLC

CONSTANTS k1, k2

\* Every row has a lock key of its own ...
DistinctKeys == [r \in Rows |-> IF r = 1 THEN k1 ELSE k2]

\* ... or all collide.
CollidingKeys == [r \in Rows |-> k1]

\* Callers are interchangeable.
Symmetry == Permutations(Runners)
=============================================================================
