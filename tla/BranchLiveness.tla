--------------------------- MODULE BranchLiveness ---------------------------
(***************************************************************************)
(* What BranchController must eventually do once calls stop failing and    *)
(* the ref stops moving ("calm").                                          *)
(***************************************************************************)
EXTENDS BranchController

CONSTANT MaxFanOut  \* the most targets that one fan-out can have

VARIABLE calm

Undisturbed ==
  (Reconcile \/ Informers \/ WorkflowsEnd) /\ UNCHANGED calm

(* MaxWorkflows leaves Workflows for the time after the last failure. *)
Spare == created + 2 * MaxFanOut <= MaxWorkflows

Disturbed ==
  /\ ~calm /\ UNCHANGED calm
  /\ \/ WorkflowsAgain
     \/ Spare /\ (Failure \/ MoveSHA \/ UpdateBranchResource)
     \/ PruneBranch \/ RepositoryGone

CalmDown == ~calm /\ calm' = TRUE /\ UNCHANGED vars

LiveInit == Init /\ calm = FALSE
LiveNext == Undisturbed \/ Disturbed \/ CalmDown

live == <<vars, calm>>

(* A queued Branch is reconciled, and a reconcile goes on; informers        *)
(* deliver; a Workflow reaches a terminal phase, and one that is deleted    *)
(* loses its finalizer (WorkflowLiveness: VerdictReported, DeletionEnds).   *)
Fairness ==
  /\ WF_live(Reconcile /\ UNCHANGED calm)
  /\ WF_live(CacheBranch /\ UNCHANGED calm)
  /\ WF_live(CacheWorkflows /\ UNCHANGED calm)
  /\ WF_live((\E w \in workflows : WorkflowCompletes(w)) /\ UNCHANGED calm)
  /\ WF_live((\E w \in workflows : WorkflowGone(w)) /\ UNCHANGED calm)

LiveSpec == LiveInit /\ [][LiveNext]_live /\ Fairness

(* In the end a Branch is gone for good, or it stays with its last SHA      *)
(* dealt with and is not the Branch of a default-branch commit: that one    *)
(* goes whether it had Workflows, no target, no changed file or no matching *)
(* template (branch-controller.md: "ephemeral and removed after no work or  *)
(* terminal completion").  A deletion ends, although the Workflows below    *)
(* have finalizers of their own (lines 77-101).                             *)
BranchSettles ==
  calm ~> [](br.present => ~isDefault /\ ~br.deleting /\ br.last = br.sha)
=============================================================================
