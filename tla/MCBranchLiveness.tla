-------------------------- MODULE MCBranchLiveness --------------------------
(***************************************************************************)
(* The instances of MCBranch for the liveness properties.                  *)
(***************************************************************************)
EXTENDS BranchLiveness, MCBranch
=============================================================================
