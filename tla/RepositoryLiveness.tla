------------------------- MODULE RepositoryLiveness -------------------------
(***************************************************************************)
(* What RepositoryController must eventually do once it is left alone.     *)
(* Pushes, the operator, the webhook and failing calls may come in any     *)
(* number until "calm" is set; from then on only the controller, its       *)
(* informers and the BranchReconciler move.                                *)
(***************************************************************************)
EXTENDS RepositoryController

VARIABLE calm

Undisturbed ==
  /\ \/ Reconcile \/ Informers
     \/ (\E c \in Commits : BranchEnds(c))
  /\ UNCHANGED calm

Disturbed ==
  /\ ~calm /\ UNCHANGED calm
  /\ \/ Failure \/ GitHubStep \/ OperatorStep
     \/ RequestRepositorySync

CalmDown == ~calm /\ calm' = TRUE /\ UNCHANGED vars

LiveInit == Init /\ calm = FALSE
LiveNext == Undisturbed \/ Disturbed \/ CalmDown

live == <<vars, calm>>

(* A reconcile that has begun goes on, and another one follows: every       *)
(* return asks for a requeue (an error, 5 s, 30 min) or has just written    *)
(* the Repository, whose watch event enqueues it.  Informers catch up.  The *)
(* BranchReconciler finalizes a Branch that is being deleted.               *)
Fairness ==
  /\ WF_live(Reconcile /\ UNCHANGED calm)
  /\ WF_live(CacheSync /\ UNCHANGED calm)
  /\ \A c \in Commits :
       /\ WF_live(SeeBranch(c) /\ UNCHANGED calm)
       /\ WF_live(c \in dying /\ BranchEnds(c) /\ UNCHANGED calm)

LiveSpec == LiveInit /\ [][LiveNext]_live /\ Fairness

(* Left alone, the controller brings the cursor to the default-branch head, *)
(* page by page, and answers every reset request ("Next reconcile will      *)
(* process remaining commits incrementally", repository_controller.go 220). *)
CaughtUp ==
  obj.present /\ ~obj.deleting /\ head # NoSHA =>
    obj.cursor = head /\ obj.reset # "true"

CatchesUp == calm ~> [](CaughtUp)

(* A deleted Repository is finalized once its Branches are gone (lines     *)
(* 607-629), whatever reconcile the deletion caught under way.             *)
FinalizesDeletion == obj.deleting /\ calm ~> ~obj.present
=============================================================================
