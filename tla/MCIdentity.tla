----------------------------- MODULE MCIdentity -----------------------------
(* An instance of OwnershipRules for TLC. *)
EXTENDS OwnershipRules, TLC
=============================================================================
