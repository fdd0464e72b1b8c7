---------------------------- MODULE MCEnrollment ----------------------------
(* An instance of Enrollment for TLC: all packages belong to one organization. *)
EXTENDS Enrollment, TLC

CONSTANTS o1, o2

OneOrg == [p \in Packages |-> o1]
=============================================================================
