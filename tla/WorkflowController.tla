------------------------- MODULE WorkflowController -------------------------
(***************************************************************************)
(* WorkflowReconciler.Reconcile (internal/controller/                      *)
(* workflow_controller.go) for one Workflow: its finalizer, its GitHub     *)
(* CheckRun, its Job, the report of the Job's state, and the cancellation  *)
(* when it is deleted.  One action per call that reads or writes outside   *)
(* the process.  The work queue is modelled too: this controller has no    *)
(* periodic requeue, so that a lost wake-up would lose a verdict.          *)
(***************************************************************************)
EXTENDS Naturals

CONSTANTS
  MaxRuns,      \* bound: CheckRuns that get created
  Refusals,     \* how the API server may refuse the Job
  Retries,      \* does the template let a Job survive a failed pod?
  Completions,  \* ... or need more than one pod to succeed?
  Foreign,      \* may somebody else's Job take the name?
  Expiry,       \* may a Job be deleted (by hand, or ttlSecondsAfterFinished)?
  Lag           \* may the informers lag behind the API server?

ASSUME ConstantsAssumption ==
  /\ MaxRuns \in Nat
  /\ Refusals \subseteq {"transient", "invalid"}
  /\ Retries \in BOOLEAN /\ Completions \in BOOLEAN /\ Foreign \in BOOLEAN
  /\ Expiry \in BOOLEAN /\ Lag \in BOOLEAN

NoRun == 0
Runs == 1 .. MaxRuns
RunIDs == 0 .. MaxRuns

Phases == {"Pending", "Running", "Succeeded", "Failed", "Cancelled"}

(* Mutant of RunStatus: a cancellation without its conclusion. *)
RunStatusOpen(phase) ==
  CASE phase = "Pending" -> "queued"
    [] phase = "Running" -> "in_progress"
    [] phase = "Succeeded" -> "success"
    [] phase = "Failed" -> "failure"
    [] phase = "Cancelled" -> "completed"

(* checkRunStatus: a completed CheckRun is named by its conclusion. *)
RunStatus(phase) ==
  CASE phase = "Pending" -> "queued"
    [] phase = "Running" -> "in_progress"
    [] phase = "Succeeded" -> "success"
    [] phase = "Failed" -> "failure"
    [] phase = "Cancelled" -> "cancelled"

Concluded == {"success", "failure", "cancelled"}
RunStatuses == {"none", "queued", "in_progress"} \cup Concluded

Workflow == [present : BOOLEAN, deleting : BOOLEAN, finalizer : BOOLEAN,
             run : RunIDs, named : BOOLEAN, phase : {""} \cup Phases]

NoWorkflow == [present |-> FALSE, deleting |-> FALSE, finalizer |-> FALSE,
               run |-> NoRun, named |-> FALSE, phase |-> ""]

(* A Job, with its pod counters as far as the controller reads them.  *)
Job == [exists : BOOLEAN, own : BOOLEAN, active : BOOLEAN,
        succeeded : BOOLEAN, failed : BOOLEAN,
        finished : {"no", "complete", "failed"}]

NoJob == [exists |-> FALSE, own |-> FALSE, active |-> FALSE,
          succeeded |-> FALSE, failed |-> FALSE, finished |-> "no"]

VARIABLES
  (* API server *)
  wf,         \* the Workflow
  job,        \* the Job of its name
  (* GitHub *)
  runs,       \* the CheckRuns created for it
  (* the controller manager *)
  cachedWf,   \* the Workflow as the cache holds it
  freshWf,    \* cachedWf carries the current resourceVersion
  cachedJob,  \* the Job as the cache holds it
  branch,     \* the cache holds its Branch
  template,   \* the cache holds its WorkflowTemplate
  queued,     \* the Workflow is in the work queue
  (* the reconcile in progress *)
  pc,         \* its next call, "idle" between two reconciles
  copy,       \* the Workflow it read
  held,       \* copy carries the current resourceVersion
  id,         \* the CheckRun it works with
  phase,      \* the phase it is about to report
  refusal,    \* how its Job was refused
  (* history *)
  completed   \* a Job of this Workflow reached its Complete condition

locals == <<copy, held, id, phase, refusal>>
vars == <<wf, job, runs, cachedWf, freshWf, cachedJob, branch, template,
          queued, pc, copy, held, id, phase, refusal, completed>>

Steps == {"idle", "lookup", "cancel", "unfinalize", "finalizer", "orphan",
          "getjob", "template", "createrun", "persistrun", "persistname",
          "createjob", "refetch", "failrun", "failstatus", "report",
          "writephase", "error"}

(* Mutant of JobPhase: a Job without an active pod has succeeded. *)
JobPhaseByActivity(j) ==
  CASE j.active -> "Running"
    [] ~j.active /\ j.failed -> "Failed"
    [] OTHER -> "Succeeded"

(* determineWorkflowPhase *)
JobPhase(j) ==
  CASE j.succeeded -> "Succeeded"
    [] ~j.succeeded /\ j.failed -> "Failed"
    [] ~j.succeeded /\ ~j.failed /\ j.active -> "Running"
    [] OTHER -> "Pending"
-----------------------------------------------------------------------------
(* A stored Workflow moves the resourceVersion, and the informer enqueues  *)
(* it; a change of an owned Job enqueues its Workflow.                     *)
Store(o) ==
  /\ wf' = o
  /\ IF Lag THEN freshWf' = FALSE /\ UNCHANGED <<cachedWf, queued>>
            ELSE cachedWf' = o /\ queued' = TRUE /\ UNCHANGED freshWf

StoreJob(j) ==
  /\ job' = j
  /\ IF Lag THEN UNCHANGED <<cachedJob, queued>>
            ELSE /\ cachedJob' = j
                 /\ queued' = (queued \/ job.own \/ j.own)

Goto(step) == pc' = step

Return ==
  /\ Goto("idle") /\ copy' = NoWorkflow /\ held' = FALSE
  /\ id' = NoRun /\ phase' = "" /\ refusal' = "none"

unlessStored == <<wf, cachedWf, freshWf>>
world == <<wf, job, cachedWf, freshWf, cachedJob, branch, template, completed>>
-----------------------------------------------------------------------------
(* Reconcile *)

(* Mutant of Begin: a deleted Workflow is finalized once its Job is gone. *)
BeginJobFirst ==
  /\ pc = "idle" /\ queued /\ cachedWf.present
  /\ cachedWf.deleting => cachedWf.finalizer
  /\ queued' = FALSE
  /\ copy' = cachedWf /\ held' = freshWf /\ id' = cachedWf.run
  /\ Goto(CASE cachedWf.deleting /\ branch
              /\ ~(cachedJob.succeeded \/ cachedJob.failed) -> "lookup"
            [] cachedWf.deleting /\ ~branch -> "unfinalize"
            [] ~cachedWf.deleting /\ ~cachedWf.finalizer -> "finalizer"
            [] ~cachedWf.deleting /\ cachedWf.finalizer /\ ~branch -> "orphan"
            [] OTHER -> "getjob")
  /\ UNCHANGED <<world, runs, phase, refusal>>

(* r.Get of the Workflow and of its Branch; a missing Branch only matters  *)
(* to the two steps that need a GitHub client.                             *)
Begin ==
  /\ pc = "idle" /\ queued /\ cachedWf.present
  /\ cachedWf.deleting => cachedWf.finalizer
  /\ queued' = FALSE
  /\ copy' = cachedWf /\ held' = freshWf /\ id' = cachedWf.run
  /\ Goto(CASE cachedWf.deleting /\ branch -> "lookup"
            [] cachedWf.deleting /\ ~branch -> "unfinalize"
            [] ~cachedWf.deleting /\ ~cachedWf.finalizer -> "finalizer"
            [] ~cachedWf.deleting /\ cachedWf.finalizer /\ ~branch -> "orphan"
            [] OTHER -> "getjob")
  /\ UNCHANGED <<world, runs, phase, refusal>>

(* Nothing to do for a Workflow that is gone. *)
Ignore ==
  /\ pc = "idle" /\ queued
  /\ ~cachedWf.present \/ (cachedWf.deleting /\ ~cachedWf.finalizer)
  /\ queued' = FALSE
  /\ UNCHANGED <<world, runs, pc, locals>>

(* Mutant of LookUpJob: only a Job with an active pod is cancelled. *)
LookUpActiveJob ==
  /\ pc = "lookup"
  /\ Goto(IF id = NoRun \/ ~cachedJob.active THEN "unfinalize" ELSE "cancel")
  /\ UNCHANGED <<world, runs, queued, locals>>

(* handleWorkflowDeletion: nothing to cancel without a CheckRun, and none  *)
(* to cancel when a pod of the Job ended or the Job is not found.          *)
LookUpJob ==
  /\ pc = "lookup"
  /\ Goto(IF \/ id = NoRun \/ ~cachedJob.exists
             \/ cachedJob.succeeded \/ cachedJob.failed
          THEN "unfinalize" ELSE "cancel")
  /\ UNCHANGED <<world, runs, queued, locals>>

CancelRun ==
  /\ pc = "cancel"
  /\ runs' = [runs EXCEPT ![id] = RunStatus("Cancelled")]
  /\ Goto("unfinalize")
  /\ UNCHANGED <<world, queued, locals>>

RemoveFinalizer ==
  /\ pc = "unfinalize" /\ held
  /\ Store([copy EXCEPT !.finalizer = FALSE, !.present = FALSE])
  /\ Return
  /\ UNCHANGED <<job, runs, cachedJob, branch, template, completed>>

AddFinalizer ==
  /\ pc = "finalizer" /\ held
  /\ Store([copy EXCEPT !.finalizer = TRUE])
  /\ Return
  /\ UNCHANGED <<job, runs, cachedJob, branch, template, completed>>

(* r.Delete of a Workflow whose Branch is missing; errors are dropped. *)
DeleteOrphan ==
  /\ pc = "orphan"
  /\ \/ wf.present /\ Store([wf EXCEPT !.deleting = TRUE])
     \/ UNCHANGED <<unlessStored, queued>>
  /\ Return
  /\ UNCHANGED <<job, runs, cachedJob, branch, template, completed>>

(* Mutant of GetJob: the phase is stored first, and then reported. *)
GetJobPhaseFirst ==
  /\ pc = "getjob"
  /\ IF cachedJob.exists
     THEN /\ phase' = JobPhase(cachedJob)
          /\ Goto(IF copy.phase # JobPhase(cachedJob) THEN "writephase" ELSE "report")
     ELSE Goto("template") /\ UNCHANGED phase
  /\ UNCHANGED <<world, runs, queued, copy, held, id, refusal>>

(* An existing Job is reported, whoever controls it; *)
GetJob ==
  /\ pc = "getjob"
  /\ IF cachedJob.exists
     THEN phase' = JobPhase(cachedJob) /\ Goto("report")
     ELSE Goto("template") /\ UNCHANGED phase
  /\ UNCHANGED <<world, runs, queued, copy, held, id, refusal>>

(* Mutant of GetTemplate: a CheckRun without a name is taken for none. *)
GetTemplateByName ==
  /\ pc = "template"
  /\ IF template
     THEN /\ Goto(IF ~copy.named THEN "createrun" ELSE "createjob")
          /\ UNCHANGED locals
     ELSE Return
  /\ UNCHANGED <<world, runs, queued>>

(* without a template nothing happens, and nothing is requeued. *)
GetTemplate ==
  /\ pc = "template"
  /\ IF template
     THEN /\ Goto(CASE id = NoRun -> "createrun"
                    [] id # NoRun /\ ~copy.named -> "persistname"
                    [] OTHER -> "createjob")
          /\ UNCHANGED locals
     ELSE Return
  /\ UNCHANGED <<world, runs, queued>>

(* Mutant of CreateCheckRun: its ID is left for a later status write. *)
CreateCheckRunUnsaved ==
  /\ pc = "createrun"
  /\ \E r \in Runs :
       /\ runs[r] = "none" /\ \A s \in Runs : s < r => runs[s] # "none"
       /\ runs' = [runs EXCEPT ![r] = "queued"] /\ id' = r
  /\ Goto("createjob")
  /\ UNCHANGED <<world, queued, copy, held, phase, refusal>>

CreateCheckRun ==
  /\ pc = "createrun"
  /\ \E r \in Runs :
       /\ runs[r] = "none" /\ \A s \in Runs : s < r => runs[s] # "none"
       /\ runs' = [runs EXCEPT ![r] = "queued"] /\ id' = r
  /\ Goto("persistrun")
  /\ UNCHANGED <<world, queued, copy, held, phase, refusal>>

(* updateWorkflowStatusWithRetry: a cached read and a status write, again  *)
(* while they conflict.  The Workflow is there: its finalizer is still set. *)
PersistRun ==
  /\ pc = "persistrun" /\ freshWf
  /\ Store([cachedWf EXCEPT !.run = id, !.named = TRUE])
  /\ Goto("createjob") /\ held' = FALSE
  /\ UNCHANGED <<job, runs, cachedJob, branch, template, copy, id, phase,
                 refusal, completed>>

PersistName ==
  /\ pc = "persistname" /\ freshWf
  /\ Store([cachedWf EXCEPT !.named = TRUE])
  /\ Goto("createjob") /\ held' = FALSE
  /\ UNCHANGED <<job, runs, cachedJob, branch, template, copy, id, phase,
                 refusal, completed>>

NewJob == [NoJob EXCEPT !.exists = TRUE, !.own = TRUE]

(* The created Job has no status yet. *)
CreateJob ==
  /\ pc = "createjob" /\ ~job.exists
  /\ StoreJob(NewJob)
  /\ phase' = JobPhase(NewJob) /\ Goto("report")
  /\ UNCHANGED <<unlessStored, runs, branch, template, copy, held, id,
                 refusal, completed>>

JobAlreadyExists ==
  /\ pc = "createjob" /\ job.exists
  /\ Goto("refetch")
  /\ UNCHANGED <<world, runs, queued, locals>>

(* ... read it from the cache: absent there it is requeued, and a Job of   *)
(* another controller is an error.                                         *)
RefetchJob ==
  /\ pc = "refetch"
  /\ IF cachedJob.exists /\ cachedJob.own
     THEN phase' = JobPhase(cachedJob) /\ Goto("report")
     ELSE Goto("error") /\ UNCHANGED phase
  /\ UNCHANGED <<world, runs, queued, copy, held, id, refusal>>

JobRefused ==
  /\ pc = "createjob"
  /\ refusal' \in Refusals
  /\ Goto("failrun")
  /\ UNCHANGED <<world, runs, queued, copy, held, id, phase>>

(* The CheckRun and the phase are marked failed, each as far as it goes: a *)
(* failure of either is logged.                                            *)
FailRun ==
  /\ pc = "failrun"
  /\ runs' = [runs EXCEPT ![id] = RunStatus("Failed")]
  /\ Goto("failstatus")
  /\ UNCHANGED <<world, queued, locals>>

FailRunLost ==
  /\ pc = "failrun" /\ Goto("failstatus")
  /\ UNCHANGED <<world, runs, queued, locals>>

GiveUp == IF refusal = "invalid" THEN Return
          ELSE Goto("error") /\ held' = FALSE /\ UNCHANGED <<copy, id, phase, refusal>>

FailStatus ==
  /\ pc = "failstatus" /\ freshWf
  /\ Store([cachedWf EXCEPT !.phase = "Failed"])
  /\ GiveUp
  /\ UNCHANGED <<job, runs, cachedJob, branch, template, completed>>

(* Nothing is stored for a Workflow that conflicts, or when not even the   *)
(* second of the LastTransitionTime changed.                               *)
FailStatusMoot ==
  /\ pc = "failstatus"
  /\ ~freshWf \/ cachedWf.phase = "Failed"
  /\ GiveUp
  /\ UNCHANGED <<world, runs, queued>>

FailStatusLost ==
  /\ pc = "failstatus" /\ GiveUp
  /\ UNCHANGED <<world, runs, queued>>

(* UpdateCheckRun; GitHub knows no CheckRun 0 (Fault). *)
Report ==
  /\ pc = "report" /\ id # NoRun
  /\ runs' = [runs EXCEPT ![id] = RunStatus(phase)]
  /\ IF copy.phase # phase THEN Goto("writephase") /\ UNCHANGED locals
                           ELSE Return
  /\ UNCHANGED <<world, queued>>

WritePhase ==
  /\ pc = "writephase" /\ freshWf
  /\ Store([cachedWf EXCEPT !.phase = phase])
  /\ Return
  /\ UNCHANGED <<job, runs, cachedJob, branch, template, completed>>

(* A write with an old resourceVersion, or a status write that conflicts   *)
(* until its retries are used up, returns an error.                        *)
Conflict ==
  /\ \/ pc \in {"unfinalize", "finalizer"} /\ ~held
     \/ pc \in {"persistrun", "persistname", "writephase"} /\ ~freshWf
     \/ pc = "report" /\ id = NoRun
  /\ Goto("error")
  /\ UNCHANGED <<world, runs, queued, locals>>

(* Any call fails, or the process stops and starts again. *)
Fault ==
  /\ pc \notin {"idle", "error"}
  /\ Goto("error")
  /\ UNCHANGED <<world, runs, queued, locals>>

(* Mutant of ReturnError: the error is logged and nil returned. *)
SwallowError ==
  /\ pc = "error" /\ Return
  /\ UNCHANGED <<world, runs, queued>>

(* A reconcile that returns an error, or Requeue, is queued again. *)
ReturnError ==
  /\ pc = "error"
  /\ queued' = TRUE
  /\ Return
  /\ UNCHANGED <<world, runs>>
-----------------------------------------------------------------------------
reconcile == <<pc, copy, id, phase, refusal>>

(* BranchReconciler, the garbage collector or an operator deletes it. *)
DeleteWorkflow ==
  /\ wf.present /\ ~wf.deleting
  /\ Store([wf EXCEPT !.deleting = TRUE, !.present = wf.finalizer])
  /\ held' = FALSE
  /\ UNCHANGED <<job, runs, cachedJob, branch, template, reconcile, completed>>

BranchGone ==
  /\ branch /\ branch' = FALSE
  /\ UNCHANGED <<wf, job, runs, cachedWf, freshWf, cachedJob, template, queued,
                 reconcile, held, completed>>

(* The WorkflowTemplate is deleted, or created again: nobody watches it. *)
TemplateChanges ==
  /\ template' = ~template
  /\ UNCHANGED <<wf, job, runs, cachedWf, freshWf, cachedJob, branch, queued,
                 reconcile, held, completed>>

(* The Job controller: pods start, succeed and fail. *)
MoveJob(j) ==
  /\ job.exists /\ job.finished = "no"
  /\ StoreJob(j)
  /\ completed' = (completed \/ (j.own /\ j.finished = "complete"))
  /\ UNCHANGED <<unlessStored, runs, branch, template, reconcile, held>>

PodStarts == ~job.active /\ MoveJob([job EXCEPT !.active = TRUE])

PodSucceeds ==
  /\ job.active
  /\ \/ MoveJob([job EXCEPT !.active = FALSE, !.succeeded = TRUE,
                            !.finished = "complete"])
     \/ Completions /\ ~job.succeeded
        /\ MoveJob([job EXCEPT !.succeeded = TRUE])

PodFails ==
  /\ job.active
  /\ \/ MoveJob([job EXCEPT !.active = FALSE, !.failed = TRUE,
                            !.finished = "failed"])
     \/ Retries /\ ~job.failed
        /\ \E a \in BOOLEAN : MoveJob([job EXCEPT !.active = a, !.failed = TRUE])

(* A Job expires, is deleted by hand, or is collected with its Workflow. *)
JobDeleted ==
  /\ job.exists
  /\ Expiry \/ (job.own /\ ~wf.present)
  /\ StoreJob(NoJob)
  /\ UNCHANGED <<unlessStored, runs, branch, template, reconcile, held,
                 completed>>

ForeignJob ==
  /\ Foreign /\ ~job.exists
  /\ StoreJob([NewJob EXCEPT !.own = FALSE])
  /\ UNCHANGED <<unlessStored, runs, branch, template, reconcile, held,
                 completed>>

(* The informers catch up. *)
CacheWorkflow ==
  /\ ~freshWf
  /\ cachedWf' = wf /\ freshWf' = TRUE /\ queued' = TRUE
  /\ UNCHANGED <<wf, job, runs, cachedJob, branch, template, reconcile, held,
                 completed>>

(* Mutant of CacheJob: the controller does not watch the Jobs it owns. *)
CacheJobUnwatched ==
  /\ cachedJob # job
  /\ cachedJob' = job
  /\ UNCHANGED <<wf, job, runs, cachedWf, freshWf, branch, template, queued,
                 reconcile, held, completed>>

CacheJob ==
  /\ cachedJob # job
  /\ cachedJob' = job
  /\ queued' = (queued \/ job.own \/ cachedJob.own)
  /\ UNCHANGED <<wf, job, runs, cachedWf, freshWf, branch, template, reconcile,
                 held, completed>>
-----------------------------------------------------------------------------
(* A Workflow that BranchReconciler has just created, or one an older      *)
(* release left with a CheckRun and no name for it.                        *)
Created == [NoWorkflow EXCEPT !.present = TRUE]
Legacy == [Created EXCEPT !.finalizer = TRUE, !.run = 1]

Init ==
  /\ wf \in {Created} \cup (IF MaxRuns > 0 THEN {Legacy} ELSE {})
  /\ runs = [r \in Runs |-> IF r = wf.run THEN "queued" ELSE "none"]
  /\ job = NoJob
  /\ cachedWf = wf /\ freshWf = TRUE /\ cachedJob = job
  /\ branch = TRUE /\ template \in BOOLEAN /\ queued = TRUE
  /\ pc = "idle" /\ copy = NoWorkflow /\ held = FALSE
  /\ id = NoRun /\ phase = "" /\ refusal = "none"
  /\ completed = FALSE

Reconcile ==
  \/ Begin \/ Ignore
  \/ LookUpJob \/ CancelRun \/ RemoveFinalizer \/ AddFinalizer \/ DeleteOrphan
  \/ GetJob \/ GetTemplate \/ CreateCheckRun \/ PersistRun \/ PersistName
  \/ CreateJob \/ JobAlreadyExists \/ RefetchJob
  \/ FailRun \/ FailStatus \/ FailStatusMoot \/ Report \/ WritePhase \/ Conflict \/ ReturnError

Pods == PodStarts \/ PodSucceeds \/ PodFails

Informers == CacheWorkflow \/ CacheJob

Next ==
  \/ Reconcile \/ JobRefused \/ FailRunLost \/ FailStatusLost \/ Fault
  \/ DeleteWorkflow \/ BranchGone \/ TemplateChanges
  \/ Pods \/ JobDeleted \/ ForeignJob
  \/ Informers

Spec == Init /\ [][Next]_vars
-----------------------------------------------------------------------------
(* Every variable has its type. *)
TypeOK ==
  /\ wf \in Workflow /\ cachedWf \in Workflow /\ copy \in Workflow
  /\ job \in Job /\ cachedJob \in Job
  /\ runs \in [Runs -> RunStatuses]
  /\ freshWf \in BOOLEAN /\ branch \in BOOLEAN /\ template \in BOOLEAN
  /\ queued \in BOOLEAN /\ pc \in Steps /\ held \in BOOLEAN
  /\ id \in RunIDs /\ phase \in {""} \cup Phases
  /\ refusal \in {"none", "transient", "invalid"} /\ completed \in BOOLEAN

(* No Job runs for a Workflow that has not stored a CheckRun to report it   *)
(* to, whatever failed or restarted between the calls (lines 203-270).     *)
RunBeforeJob == job.own /\ wf.present => wf.run # NoRun

(* A stored CheckRun is never replaced by another one                       *)
(* (workflow-controller.md: "reconcile reuses that CheckRun instead of      *)
(* creating a new one").                                                    *)
RunNeverReplaced == [][wf.run # NoRun => wf'.run = wf.run]_vars

(* GitHub hears of a phase before the cluster does: the phase that is       *)
(* stored is what its CheckRun shows by then, whatever fails or restarts    *)
(* between the two calls, so that a BranchReconciler which takes a          *)
(* completed Workflow away leaves a verdict behind (lines 183-196,          *)
(* 342-353).  Of a refused Job either write may fail (lines 304-318).       *)
GitHubHearsFirst ==
  [][wf'.phase # wf.phase /\ pc # "failstatus" =>
       runs[wf.run] = RunStatus(wf'.phase)]_vars

(* Success is claimed only for a Job that completed: neither the CheckRun  *)
(* nor the phase says so otherwise (determineWorkflowPhase, lines 550-563; *)
(* workflow-controller.md: "keeps Workflow.status.phase aligned with Job   *)
(* state").                                                                *)
SuccessIsEarned ==
  wf.phase = "Succeeded" \/ (\E r \in Runs : runs[r] = "success") => completed

(* No wake-up is lost: when the queue is empty and the caches are current,  *)
(* phase and CheckRun show the Job as it is.                                *)
Quiet == pc = "idle" /\ ~queued /\ freshWf /\ cachedJob = job

NothingUnreported ==
  Quiet /\ wf.present /\ ~wf.deleting /\ branch /\ job.own =>
    /\ wf.phase = JobPhase(job)
    /\ runs[wf.run] = RunStatus(JobPhase(job))

(* A verdict stands: a cancelled CheckRun stays cancelled, whatever         *)
(* reconcile was under way when the Workflow was deleted, and a success is  *)
(* not withdrawn while the Job it is about is the one the cache holds       *)
(* (lines 183-196, 360-396; a Job that is gone is run again, lines          *)
(* 262-270, and reported anew).                                             *)
VerdictStands ==
  [][\A r \in Runs :
       \/ runs[r] = "cancelled"
       \/ runs[r] = "success" /\ cachedJob.own /\ ~Expiry
       => runs'[r] = runs[r]]_vars

(* A Workflow with a Job of which no pod has ended leaves only after its    *)
(* CheckRun was cancelled (overview.md: "Finalizer cancels CheckRun on      *)
(* deletion if Job not finished").                                         *)
CancelledBeforeGone ==
  [][wf.present /\ ~wf'.present /\ branch
     /\ job.own /\ ~job.succeeded /\ ~job.failed /\ wf.run # NoRun =>
       runs[wf.run] = "cancelled"]_vars
=============================================================================
