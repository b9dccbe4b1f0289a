----------------------------- MODULE MCGovernance -----------------------------
(* Instances of Governance for TLC. *)
EXTENDS GovernanceInv
=============================================================================
