----------------------------- MODULE MCCascade -----------------------------
(* A Repository, a Branch and its two Workflows. *)
EXTENDS Cascade, TLC

CONSTANTS b1, w1, w2

MCBranchOf == (w1 :> b1) @@ (w2 :> b1)
=============================================================================
