-------------------------- MODULE WorkflowLiveness --------------------------
(***************************************************************************)
(* What WorkflowController must eventually do once calls stop failing.     *)
(* Failures, deletions and changes of the template may come in any number  *)
(* until "calm" is set; from then on only the controller, its informers    *)
(* and the pods of the Job move.                                           *)
(***************************************************************************)
EXTENDS WorkflowController

VARIABLE calm

Undisturbed == (Reconcile \/ Pods \/ Informers) /\ UNCHANGED calm

(* MaxRuns leaves one CheckRun for the time after the last failure. *)
Spare == \E r \in Runs : runs[r] = "none"

Disturbed ==
  /\ ~calm /\ UNCHANGED calm
  /\ \/ Fault /\ Spare
     \/ JobRefused \/ FailRunLost \/ FailStatusLost
     \/ DeleteWorkflow \/ BranchGone \/ TemplateChanges
     \/ JobDeleted \/ ForeignJob

CalmDown == ~calm /\ calm' = TRUE /\ UNCHANGED vars

LiveInit == Init /\ calm = FALSE
LiveNext == Undisturbed \/ Disturbed \/ CalmDown

live == <<vars, calm>>

(* A queued Workflow is reconciled, and a reconcile goes on: the work queue  *)
(* of controller-runtime drops no key.  Informers deliver.  A pod of the    *)
(* Job starts, and ends.                                                   *)
Fairness ==
  /\ WF_live(Reconcile /\ UNCHANGED calm)
  /\ WF_live(CacheWorkflow /\ UNCHANGED calm)
  /\ WF_live(CacheJob /\ UNCHANGED calm)
  /\ WF_live(PodStarts /\ UNCHANGED calm)
  /\ WF_live((PodSucceeds \/ PodFails) /\ UNCHANGED calm)

LiveSpec == LiveInit /\ [][LiveNext]_live /\ Fairness

(* The verdict of a Job reaches the phase and the CheckRun, for good        *)
(* (lines 183-196), although nothing but events wakes the controller        *)
(* (workflow-controller.md: "No fixed periodic requeue in normal path").    *)
VerdictShown ==
  job.own /\ job.finished # "no" /\ wf.present /\ ~wf.deleting /\ branch =>
    /\ wf.phase = JobPhase(job) /\ runs[wf.run] = RunStatus(JobPhase(job))

VerdictReported == calm ~> [](VerdictShown)

(* A Workflow whose template was there all along, and whose name no other   *)
(* Job took, gets its Job -- again when the Job expired -- or is marked     *)
(* Failed because the Job was refused (lines 262-338).                      *)
Served ==
  job.exists \/ wf.phase = "Failed" \/ ~wf.present \/ wf.deleting \/ ~branch

JobStarts ==
  [](template /\ (job.exists => job.own)) => (calm ~> Served)

(* A deleted Workflow is finalized (lines 136-149).                         *)
DeletionEnds == wf.deleting /\ calm ~> ~wf.present
=============================================================================
