----------------------- MODULE WorkflowControllerProofs -----------------------
(***************************************************************************)
(* Proofs about WorkflowController, for any number of CheckRuns and, where *)
(* a theorem does not say otherwise, with informers that lag, Jobs of      *)
(* other controllers, retries, several completions and expiry.             *)
(***************************************************************************)
EXTENDS WorkflowController, TLAPS

(* A phase that is about to be reported is that of a Job. *)
PhaseInv == pc \in {"report", "writephase"} => phase \in Phases \ {"Cancelled"}

(* What a reconcile carries is the stored Workflow while it is current. *)
CurrentInv ==
  /\ freshWf => cachedWf = wf
  /\ held => copy = wf
  /\ ~Lag => freshWf /\ cachedJob = job

(* The steps between the lookup of the Job and its creation. *)
Creating == {"template", "createrun", "persistrun", "persistname", "createjob",
             "refetch", "failrun", "failstatus"}

(* A stored CheckRun stays stored, and comes before the Job. *)
RunInv ==
  /\ wf.run = NoRun => cachedWf.run = NoRun /\ copy.run = NoRun
  /\ pc \in {"lookup", "cancel", "getjob", "template"} => id = copy.run
  /\ pc = "persistrun" => id # NoRun
  /\ pc \in {"persistname", "createjob", "refetch", "failrun", "failstatus"} =>
       wf.run # NoRun
  /\ job.own => wf.run # NoRun

(* What a Job that is not there lacks. *)
JobInv ==
  /\ job.succeeded \/ job.own => job.exists
  /\ cachedJob.succeeded \/ cachedJob.own => cachedJob.exists

(* A Workflow keeps its finalizer until the controller has seen it deleted, *)
(* and a reconcile that is not about a deletion finds it there.             *)
PresenceInv ==
  /\ wf.finalizer => wf.present
  /\ wf.present /\ ~wf.finalizer => wf.run = NoRun
  /\ cachedWf.deleting \/ copy.deleting => wf.deleting
  /\ cachedWf.finalizer /\ ~cachedWf.deleting => wf.present /\ wf.finalizer
  /\ pc \in {"lookup", "cancel"} => cachedWf.deleting
  /\ pc = "unfinalize" => cachedWf.deleting
  /\ pc = "finalizer" => copy.present
  /\ pc = "orphan" => ~branch
  /\ pc \in Creating \cup {"getjob", "report", "writephase"} =>
       wf.present /\ wf.finalizer

(* What is cancelled is on its way out. *)
CancelInv ==
  (\E r \in Runs : runs[r] = "cancelled") =>
    cachedWf.deleting /\ pc \in {"idle", "lookup", "cancel", "unfinalize", "error"}

(* A success is about the Job that the cache holds, which stays there until *)
(* the Workflow has gone, or about the Job of somebody else, which stays.   *)
Shown == \E r \in Runs : runs[r] = "success"
Claimed == Shown \/ phase = "Succeeded"

VerdictInv ==
  /\ cachedJob.exists /\ ~cachedJob.own => job.exists /\ ~job.own
  /\ Claimed \/ cachedJob.succeeded =>
       /\ wf.present => job.exists
       /\ job.own => job.succeeded
       /\ cachedJob.own => cachedJob.succeeded
  /\ Claimed /\ wf.present => cachedJob.exists
  /\ pc \in Creating => ~Shown
  /\ pc = "cancel" /\ Shown => cachedJob.exists /\ ~cachedJob.own
  /\ pc = "report" /\ Shown =>
       phase = "Succeeded" \/ (cachedJob.exists /\ ~cachedJob.own)

(* Without other controllers' Jobs and Jobs of several pods, the first      *)
(* succeeded pod completes the Job.                                         *)
SuccessInv ==
  /\ job.exists => job.own
  /\ \/ job.succeeded \/ cachedJob.succeeded \/ Claimed
     \/ wf.phase = "Succeeded" \/ cachedWf.phase = "Succeeded"
     => completed

(* Unless an event is still to come, an idle controller has reported.       *)
Late == queued \/ ~freshWf

Reported ==
  /\ wf.phase = JobPhase(cachedJob)
  /\ runs[wf.run] = RunStatus(JobPhase(cachedJob))

ReportInv ==
  branch /\ wf.present /\ ~wf.deleting =>
    /\ pc = "idle" /\ cachedJob.own => Late \/ Reported
    /\ pc \in Creating /\ cachedJob.own => queued
    /\ pc \in {"getjob", "template", "createjob", "refetch", "report"} =>
         Late \/ (copy.phase = wf.phase /\ id = wf.run)
    /\ pc = "report" /\ cachedJob.own => queued \/ phase = JobPhase(cachedJob)
    /\ pc \notin {"lookup", "cancel", "unfinalize"}

(* Without lag there is one CheckRun, and it is the one to cancel. *)
KeepInv ==
  /\ pc \in {"createrun", "persistrun"} => wf.run = NoRun
  /\ pc \in {"lookup", "cancel", "getjob", "template"} => id = wf.run
  /\ pc = "unfinalize" /\ branch /\ wf.run # NoRun =>
       runs[wf.run] = "cancelled" \/ ~job.own \/ job.succeeded \/ job.failed

(* Without lag what is reported goes to the stored CheckRun, and a phase    *)
(* about to be stored has been reported.                                    *)
HeardInv ==
  /\ pc \in {"persistname", "createjob", "refetch", "failrun", "failstatus",
             "report", "writephase"} => id = wf.run
  /\ pc = "writephase" => runs[id] = RunStatus(phase)
-----------------------------------------------------------------------------
(* The phase of a Job, and what a CheckRun shows for it. *)
LEMMA JobPhaseType ==
  \A j \in Job : /\ JobPhase(j) \in Phases \ {"Cancelled"}
                 /\ JobPhase(j) = "Succeeded" <=> j.succeeded
  BY DEF Job, JobPhase, Phases

(* ... and a success or a cancellation is shown for nothing else. *)
LEMMA RunStatusType ==
  \A p \in Phases : /\ RunStatus(p) \in RunStatuses
                    /\ RunStatus(p) = "success" <=> p = "Succeeded"
                    /\ RunStatus(p) = "cancelled" <=> p = "Cancelled"
  BY DEF Phases, RunStatus, RunStatuses, Concluded

(* 0, for no CheckRun, and the CheckRuns. *)
LEMMA RunIDsType ==
  /\ NoRun \in RunIDs /\ Runs \subseteq RunIDs /\ RunIDs \subseteq Nat
  /\ RunIDs \ {NoRun} = Runs /\ "queued" \in RunStatuses
  BY ConstantsAssumption DEF NoRun, RunIDs, Runs, RunStatuses

(* The variables keep their types. *)
LEMMA TypeStep ==
  ASSUME TypeOK, PhaseInv, [Next]_vars PROVE TypeOK' /\ PhaseInv'
<1> USE DEF TypeOK, PhaseInv, Goto
<1>p. \A step \in {"idle", "lookup", "cancel", "unfinalize", "finalizer", "orphan",
          "getjob", "template", "createrun", "persistrun", "persistname", "createjob",
          "refetch", "failrun", "failstatus", "report", "writephase", "error"} :
        step \in Steps
  BY DEF Steps
<1>b. /\ NoWorkflow \in Workflow /\ NoJob \in Job /\ NewJob \in Job
      /\ [NewJob EXCEPT !.own = FALSE] \in Job
  <2>1. NoWorkflow \in Workflow
    BY RunIDsType DEF NoWorkflow, Workflow
  <2>2. NoJob \in Job /\ NewJob \in Job
    BY DEF NoJob, NewJob, Job
  <2>3. [NewJob EXCEPT !.own = FALSE] \in Job
    BY <2>2 DEF Job
  <2> QED BY <2>1, <2>2, <2>3
<1>s. ASSUME NEW o \in Workflow, Store(o)
      PROVE  wf' \in Workflow /\ cachedWf' \in Workflow /\ freshWf' \in BOOLEAN
             /\ queued' \in BOOLEAN
  BY <1>s DEF Store
<1>j. ASSUME NEW j \in Job, StoreJob(j)
      PROVE  job' \in Job /\ cachedJob' \in Job /\ queued' \in BOOLEAN
  BY <1>j DEF StoreJob, Job
<1>r. ASSUME Return
      PROVE  /\ pc' = "idle" /\ pc' \in Steps /\ copy' \in Workflow
             /\ held' \in BOOLEAN /\ id' \in RunIDs
             /\ phase' \in {""} \cup Phases /\ refusal' \in {"none", "transient", "invalid"}
  BY <1>r, RunIDsType, <1>b, <1>p DEF Return
<1>u. ASSUME NEW p \in Phases, NEW i, runs' = [runs EXCEPT ![i] = RunStatus(p)]
      PROVE  runs' \in [Runs -> RunStatuses]
  BY <1>u, RunStatusType
<1>w. ASSUME NEW o \in Workflow
      PROVE  /\ [o EXCEPT !.finalizer = FALSE, !.present = FALSE] \in Workflow
             /\ [o EXCEPT !.finalizer = TRUE] \in Workflow
             /\ [o EXCEPT !.deleting = TRUE] \in Workflow
             /\ [o EXCEPT !.deleting = TRUE, !.present = o.finalizer] \in Workflow
             /\ [o EXCEPT !.run = id, !.named = TRUE] \in Workflow
             /\ [o EXCEPT !.named = TRUE] \in Workflow
             /\ [o EXCEPT !.phase = "Failed"] \in Workflow
             /\ phase \in Phases => [o EXCEPT !.phase = phase] \in Workflow
  BY DEF Workflow, Phases
<1>1. CASE Begin
  <2>1. cachedWf.run \in RunIDs
    BY DEF Workflow
  <2> QED BY <1>1, <1>p, <2>1 DEF Begin, world
<1>2. CASE Ignore
  BY <1>2, <1>p DEF Ignore, world, locals
<1>3. CASE LookUpJob
  BY <1>3, <1>p DEF LookUpJob, world, locals
<1>4. CASE CancelRun
  BY <1>4, <1>p, <1>u DEF CancelRun, world, locals, Phases
<1>5. CASE RemoveFinalizer
  BY <1>5, <1>p, <1>s, <1>r, <1>w DEF RemoveFinalizer
<1>6. CASE AddFinalizer
  BY <1>6, <1>p, <1>s, <1>r, <1>w DEF AddFinalizer
<1>7. CASE DeleteOrphan
  BY <1>7, <1>p, <1>s, <1>r, <1>w DEF DeleteOrphan, unlessStored
<1>8. CASE GetJob
  BY <1>8, <1>p, JobPhaseType DEF GetJob, world
<1>9. CASE GetTemplate
  <2>1. CASE template
    BY <1>9, <1>p, <2>1 DEF GetTemplate, world, locals
  <2>2. CASE ~template
    BY <1>9, <1>p, <2>2, <1>r DEF GetTemplate, world
  <2> QED BY <2>1, <2>2
<1>10. CASE CreateCheckRun
  <2>1. PICK r \in Runs : runs' = [runs EXCEPT ![r] = "queued"] /\ id' = r
    BY <1>10 DEF CreateCheckRun
  <2> QED BY <1>10, <1>p, <2>1, RunIDsType DEF CreateCheckRun, world
<1>11. CASE PersistRun
  BY <1>11, <1>p, <1>s, <1>w DEF PersistRun
<1>12. CASE PersistName
  BY <1>12, <1>p, <1>s, <1>w DEF PersistName
<1>13. CASE CreateJob
  BY <1>13, <1>p, <1>j, <1>b, JobPhaseType DEF CreateJob, unlessStored
<1>14. CASE JobAlreadyExists
  BY <1>14, <1>p DEF JobAlreadyExists, world, locals
<1>15. CASE RefetchJob
  BY <1>15, <1>p, JobPhaseType DEF RefetchJob, world
<1>16. CASE JobRefused
  BY <1>16, <1>p, ConstantsAssumption DEF JobRefused, world
<1>17. CASE FailRun
  BY <1>17, <1>p, <1>u DEF FailRun, world, locals, Phases
<1>18. CASE FailRunLost
  BY <1>18, <1>p DEF FailRunLost, world, locals
<1>g. ASSUME GiveUp
      PROVE  /\ pc' \in {"idle", "error"} /\ pc' \in Steps /\ copy' \in Workflow
             /\ held' \in BOOLEAN
             /\ id' \in RunIDs /\ phase' \in {""} \cup Phases
             /\ refusal' \in {"none", "transient", "invalid"}
  BY <1>g, <1>r, <1>p DEF GiveUp
<1>19. CASE FailStatus
  BY <1>19, <1>p, <1>s, <1>w, <1>g DEF FailStatus
<1>20. CASE FailStatusMoot \/ FailStatusLost
  BY <1>20, <1>p, <1>g DEF FailStatusMoot, FailStatusLost, world
<1>21. CASE Report
  <2>1. runs' \in [Runs -> RunStatuses]
    BY <1>21, <1>u DEF Report
  <2>2. CASE copy.phase # phase
    BY <1>21, <1>p, <2>1, <2>2 DEF Report, world, locals
  <2>3. CASE copy.phase = phase
    BY <1>21, <1>p, <2>1, <2>3, <1>r DEF Report, world
  <2> QED BY <2>2, <2>3
<1>22. CASE WritePhase
  BY <1>22, <1>p, <1>s, <1>r, <1>w DEF WritePhase
<1>23. CASE Conflict \/ Fault
  BY <1>23, <1>p DEF Conflict, Fault, world, locals
<1>24. CASE ReturnError
  BY <1>24, <1>p, <1>r DEF ReturnError, world
<1>25. CASE DeleteWorkflow
  BY <1>25, <1>p, <1>s, <1>w DEF DeleteWorkflow, reconcile
<1>26. CASE BranchGone \/ TemplateChanges
  BY <1>26, <1>p DEF BranchGone, TemplateChanges, reconcile
<1>m. ASSUME NEW j \in Job, MoveJob(j) PROVE TypeOK' /\ PhaseInv'
  BY <1>m, <1>j DEF MoveJob, unlessStored, reconcile
<1>27. CASE PodStarts
  <2>1. [job EXCEPT !.active = TRUE] \in Job
    BY DEF Job
  <2> QED BY <1>27, <2>1, <1>m DEF PodStarts
<1>28. CASE PodSucceeds
  <2>1. /\ [job EXCEPT !.active = FALSE, !.succeeded = TRUE, !.finished = "complete"] \in Job
        /\ [job EXCEPT !.succeeded = TRUE] \in Job
    BY DEF Job
  <2> QED BY <1>28, <2>1, <1>m DEF PodSucceeds
<1>29. CASE PodFails
  <2>1. /\ [job EXCEPT !.active = FALSE, !.failed = TRUE, !.finished = "failed"] \in Job
        /\ \A a \in BOOLEAN : [job EXCEPT !.active = a, !.failed = TRUE] \in Job
    BY DEF Job
  <2> QED BY <1>29, <2>1, <1>m DEF PodFails
<1>30. CASE JobDeleted \/ ForeignJob
  BY <1>30, <1>p, <1>j, <1>b DEF JobDeleted, ForeignJob, unlessStored, reconcile
<1>31. CASE CacheWorkflow
  BY <1>31, <1>p DEF CacheWorkflow, reconcile
<1>32. CASE CacheJob
  <2>1. (queued \/ job.own \/ cachedJob.own) \in BOOLEAN
    OBVIOUS
  <2> QED BY <1>32, <1>p, <2>1 DEF CacheJob, reconcile
<1>33. CASE UNCHANGED vars
  BY <1>33, <1>p DEF vars
<1> QED
  BY <1>1, <1>2, <1>3, <1>4, <1>5, <1>6, <1>7, <1>8, <1>9, <1>10, <1>11, <1>12, <1>13,
     <1>14, <1>15, <1>16, <1>17, <1>18, <1>19, <1>20, <1>21, <1>22, <1>23, <1>24, <1>25,
     <1>26, <1>27, <1>28, <1>29, <1>30, <1>31, <1>32, <1>33
     DEF Next, Reconcile, Pods, Informers
-----------------------------------------------------------------------------
(* Which steps write the Workflow, and how it changes. *)
WorkflowStep ==
  \/ RemoveFinalizer \/ AddFinalizer \/ DeleteOrphan \/ PersistRun \/ PersistName
  \/ FailStatus \/ WritePhase \/ DeleteWorkflow \/ CacheWorkflow

(* The others leave the Workflow alone, and what the cache knows of it. *)
LEMMA OtherWorkflowStep ==
  ASSUME [Next]_vars, ~WorkflowStep
  PROVE  UNCHANGED <<wf, cachedWf, freshWf>> /\ (held' => held \/ Begin)
<1> USE DEF WorkflowStep
<1>r. ASSUME Return PROVE ~held'
  BY <1>r DEF Return
<1>g. ASSUME GiveUp PROVE ~held'
  BY <1>g, <1>r DEF GiveUp
<1>1. CASE Begin \/ Ignore \/ LookUpJob \/ CancelRun \/ GetJob \/ CreateCheckRun
           \/ JobAlreadyExists \/ RefetchJob \/ FailRun \/ Conflict \/ JobRefused
           \/ FailRunLost \/ Fault
  BY <1>1 DEF Begin, Ignore, LookUpJob, CancelRun, GetJob, CreateCheckRun, JobAlreadyExists,
     RefetchJob, FailRun, Conflict, JobRefused, FailRunLost, Fault, world, locals
<1>2. CASE GetTemplate \/ FailStatusMoot \/ FailStatusLost \/ Report \/ ReturnError
  BY <1>2, <1>r, <1>g DEF GetTemplate, FailStatusMoot, FailStatusLost, Report, ReturnError,
     world, locals
<1>3. CASE CreateJob
  BY <1>3 DEF CreateJob, unlessStored
<1>4. CASE BranchGone \/ TemplateChanges \/ JobDeleted \/ ForeignJob \/ CacheJob
  BY <1>4 DEF BranchGone, TemplateChanges, JobDeleted, ForeignJob, CacheJob, unlessStored
<1>5. CASE Pods
  <2>1. \E j : MoveJob(j)
    BY <1>5 DEF Pods, PodStarts, PodSucceeds, PodFails
  <2> QED BY <2>1 DEF MoveJob, unlessStored
<1>6. CASE UNCHANGED vars
  BY <1>6 DEF vars
<1> QED BY <1>1, <1>2, <1>3, <1>4, <1>5, <1>6 DEF Next, Reconcile, Informers

(* Which steps change the Job or the cached one. *)
JobStep == CreateJob \/ Pods \/ JobDeleted \/ ForeignJob \/ CacheJob

(* The others leave the Job alone. *)
LEMMA OtherJobStep ==
  ASSUME [Next]_vars, ~JobStep PROVE UNCHANGED <<job, cachedJob>>
<1> USE DEF JobStep
<1>1. CASE Reconcile
  BY <1>1 DEF Reconcile, Begin, Ignore, LookUpJob, CancelRun, RemoveFinalizer, AddFinalizer,
     DeleteOrphan, GetJob, GetTemplate, CreateCheckRun, PersistRun, PersistName,
     JobAlreadyExists, RefetchJob, FailRun, FailStatus, FailStatusMoot, Report, WritePhase,
     Conflict, ReturnError, world
<1>2. CASE ~Reconcile
  BY <1>2 DEF Next, JobRefused, FailRunLost, FailStatusLost, Fault, DeleteWorkflow,
     BranchGone, TemplateChanges, Informers, CacheWorkflow, world, vars
<1> QED BY <1>1, <1>2

(* Which steps write a CheckRun. *)
RunStep == CancelRun \/ CreateCheckRun \/ FailRun \/ Report

(* The others leave the CheckRuns alone. *)
LEMMA OtherRunStep ==
  ASSUME [Next]_vars, ~RunStep PROVE UNCHANGED runs
<1> USE DEF RunStep
<1>1. CASE Reconcile
  BY <1>1 DEF Reconcile, Begin, Ignore, LookUpJob, RemoveFinalizer, AddFinalizer,
     DeleteOrphan, GetJob, GetTemplate, PersistRun, PersistName, CreateJob,
     JobAlreadyExists, RefetchJob, FailStatus, FailStatusMoot, WritePhase, Conflict,
     ReturnError
<1>2. CASE Pods
  <2>1. \E j : MoveJob(j)
    BY <1>2 DEF Pods, PodStarts, PodSucceeds, PodFails
  <2> QED BY <2>1 DEF MoveJob
<1>3. CASE ~Reconcile /\ ~Pods
  BY <1>3 DEF Next, JobRefused, FailRunLost, FailStatusLost, Fault, DeleteWorkflow,
     BranchGone, TemplateChanges, JobDeleted, ForeignJob, Informers, CacheWorkflow,
     CacheJob, vars
<1> QED BY <1>1, <1>2, <1>3

(* A step of the reconcile ends it, goes on with it, or is somebody else's. *)
Ends == pc' \in {"idle", "error"}

GoesOn ==
  \/ LookUpJob \/ CancelRun \/ GetJob \/ GetTemplate \/ CreateCheckRun \/ PersistRun
  \/ PersistName \/ CreateJob \/ JobAlreadyExists \/ RefetchJob \/ JobRefused
  \/ FailRun \/ FailRunLost \/ Report

(* Every step is of one of these kinds. *)
LEMMA ReconcileStep ==
  ASSUME [Next]_vars PROVE Ends \/ Begin \/ GoesOn \/ UNCHANGED reconcile
<1> USE DEF Ends, GoesOn, Goto
<1>r. ASSUME Return PROVE Ends
  BY <1>r DEF Return
<1>g. ASSUME GiveUp PROVE Ends
  BY <1>g, <1>r DEF GiveUp
<1>1. CASE Ignore \/ RemoveFinalizer \/ AddFinalizer \/ DeleteOrphan \/ FailStatus
           \/ FailStatusMoot \/ FailStatusLost \/ WritePhase \/ Conflict \/ Fault
           \/ ReturnError
  BY <1>1, <1>r, <1>g DEF Ignore, RemoveFinalizer, AddFinalizer, DeleteOrphan, FailStatus,
     FailStatusMoot, FailStatusLost, WritePhase, Conflict, Fault, ReturnError
<1>2. CASE Pods
  <2>1. \E j : MoveJob(j)
    BY <1>2 DEF Pods, PodStarts, PodSucceeds, PodFails
  <2> QED BY <2>1 DEF MoveJob
<1>3. CASE DeleteWorkflow \/ BranchGone \/ TemplateChanges \/ JobDeleted \/ ForeignJob
           \/ CacheWorkflow \/ CacheJob
  BY <1>3 DEF DeleteWorkflow, BranchGone, TemplateChanges, JobDeleted, ForeignJob,
     CacheWorkflow, CacheJob
<1>4. CASE UNCHANGED vars
  BY <1>4 DEF vars, reconcile
<1> QED BY <1>1, <1>2, <1>3, <1>4 DEF Next, Reconcile, Informers

(* The copy is one of the cache, or none. *)
LEMMA CopyStep ==
  ASSUME [Next]_vars
  PROVE  UNCHANGED copy \/ Begin \/ (copy' = NoWorkflow /\ ~held' /\ Ends)
<1> USE DEF Ends, Goto
<1>r. ASSUME Return PROVE copy' = NoWorkflow /\ ~held' /\ Ends
  BY <1>r DEF Return
<1>g. ASSUME GiveUp PROVE UNCHANGED copy \/ (copy' = NoWorkflow /\ ~held' /\ Ends)
  BY <1>g, <1>r DEF GiveUp
<1>1. CASE RemoveFinalizer \/ AddFinalizer \/ DeleteOrphan \/ FailStatus
           \/ FailStatusMoot \/ FailStatusLost \/ WritePhase \/ ReturnError
  BY <1>1, <1>r, <1>g DEF RemoveFinalizer, AddFinalizer, DeleteOrphan, FailStatus,
     FailStatusMoot, FailStatusLost, WritePhase, ReturnError
<1>2. CASE GetTemplate \/ Report
  BY <1>2, <1>r DEF GetTemplate, Report, locals
<1>3. CASE Ignore \/ LookUpJob \/ CancelRun \/ GetJob \/ CreateCheckRun \/ PersistRun
           \/ PersistName \/ CreateJob \/ JobAlreadyExists \/ RefetchJob \/ JobRefused
           \/ FailRun \/ FailRunLost \/ Conflict \/ Fault
  BY <1>3 DEF Ignore, LookUpJob, CancelRun, GetJob, CreateCheckRun, PersistRun, PersistName,
     CreateJob, JobAlreadyExists, RefetchJob, JobRefused, FailRun, FailRunLost, Conflict,
     Fault, locals
<1>4. CASE UNCHANGED reconcile
  BY <1>4 DEF reconcile
<1>5. CASE DeleteWorkflow \/ BranchGone \/ TemplateChanges \/ JobDeleted \/ ForeignJob
           \/ CacheWorkflow \/ CacheJob
  BY <1>4, <1>5 DEF DeleteWorkflow, BranchGone, TemplateChanges, JobDeleted, ForeignJob,
     CacheWorkflow, CacheJob
<1>6. CASE Pods
  <2>1. \E j : MoveJob(j)
    BY <1>6 DEF Pods, PodStarts, PodSucceeds, PodFails
  <2> QED BY <1>4, <2>1 DEF MoveJob
<1>7. CASE UNCHANGED vars
  BY <1>7 DEF vars
<1> QED
  BY <1>1, <1>2, <1>3, <1>5, <1>6, <1>7 DEF Next, Reconcile, Informers

(* Whatever is held or fresh stays current. *)
LEMMA CurrentStep ==
  ASSUME CurrentInv, [Next]_vars PROVE CurrentInv'
<1> USE DEF CurrentInv
<1>r. ASSUME Return PROVE ~held'
  BY <1>r DEF Return
<1>g. ASSUME GiveUp PROVE ~held'
  BY <1>g, <1>r DEF GiveUp
<1>1. (freshWf' => cachedWf' = wf') /\ (held' => copy' = wf') /\ (~Lag => freshWf')
  <2>s. ASSUME NEW o, Store(o) PROVE (freshWf' => cachedWf' = wf') /\ (~Lag => freshWf')
    BY <2>s DEF Store
  <2>1. CASE ~WorkflowStep
    <3>1. CASE Begin
      BY <3>1 DEF Begin, world
    <3>2. CASE ~Begin
      <4>1. held' => copy' = copy
        BY <3>2, <2>1, CopyStep
      <4> QED BY <2>1, <3>2, <4>1, OtherWorkflowStep
    <3> QED BY <3>1, <3>2
  <2>2. CASE RemoveFinalizer \/ AddFinalizer \/ WritePhase
    BY <2>2, <2>s, <1>r DEF RemoveFinalizer, AddFinalizer, WritePhase
  <2>3. CASE DeleteOrphan
    BY <2>3, <2>s, <1>r DEF DeleteOrphan, unlessStored
  <2>4. CASE PersistRun \/ PersistName \/ DeleteWorkflow
    BY <2>4, <2>s DEF PersistRun, PersistName, DeleteWorkflow
  <2>5. CASE FailStatus
    BY <2>5, <2>s, <1>g DEF FailStatus
  <2>6. CASE CacheWorkflow
    BY <2>6 DEF CacheWorkflow, reconcile
  <2> QED BY <2>1, <2>2, <2>3, <2>4, <2>5, <2>6 DEF WorkflowStep
<1>2. ~Lag => cachedJob' = job'
  <2>j. ASSUME NEW j, StoreJob(j), ~Lag PROVE cachedJob' = job'
    BY <2>j DEF StoreJob
  <2>1. CASE ~JobStep
    BY <2>1, OtherJobStep
  <2>2. CASE Pods
    <3>1. \E j : MoveJob(j)
      BY <2>2 DEF Pods, PodStarts, PodSucceeds, PodFails
    <3> QED BY <3>1, <2>j DEF MoveJob
  <2>3. CASE CreateJob \/ JobDeleted \/ ForeignJob
    BY <2>3, <2>j DEF CreateJob, JobDeleted, ForeignJob
  <2>4. CASE CacheJob
    BY <2>4 DEF CacheJob
  <2> QED BY <2>1, <2>2, <2>3, <2>4 DEF JobStep
<1> QED BY <1>1, <1>2

(* A write goes to the API server, and to the cache or not; it changes what *)
(* it is about and nothing else.                                            *)
LEMMA Written ==
  ASSUME TypeOK, CurrentInv, [Next]_vars, WorkflowStep
  PROVE  \/ UNCHANGED <<wf, cachedWf>>
         \/ wf' = wf /\ cachedWf' = wf /\ CacheWorkflow
         \/ /\ cachedWf' = cachedWf \/ cachedWf' = wf'
            /\ \/ /\ wf'.run = wf.run /\ RemoveFinalizer
                  /\ ~wf'.finalizer /\ ~wf'.present /\ wf'.deleting = copy.deleting
                  /\ wf = copy /\ wf'.phase = wf.phase
               \/ /\ wf'.run = wf.run /\ AddFinalizer
                  /\ wf'.finalizer /\ wf'.present = wf.present /\ wf'.deleting = wf.deleting
                  /\ wf = copy /\ wf'.phase = wf.phase
               \/ /\ wf'.run = wf.run /\ (DeleteOrphan \/ DeleteWorkflow) /\ wf.present
                  /\ wf'.finalizer = wf.finalizer /\ wf'.deleting
                  /\ wf'.present \/ ~wf.finalizer
                  /\ wf'.phase = wf.phase
               \/ /\ wf'.run = id /\ PersistRun
                  /\ wf'.finalizer = wf.finalizer /\ wf'.present = wf.present
                  /\ wf'.deleting = wf.deleting /\ wf'.phase = wf.phase
               \/ /\ wf'.run = wf.run /\ (PersistName \/ FailStatus \/ WritePhase)
                  /\ wf'.finalizer = wf.finalizer /\ wf'.present = wf.present
                  /\ wf'.deleting = wf.deleting
                  /\ \/ PersistName /\ wf'.phase = wf.phase
                     \/ FailStatus /\ wf'.phase = "Failed"
                     \/ WritePhase /\ wf'.phase = phase
<1>t. wf \in Workflow /\ copy \in Workflow /\ cachedWf \in Workflow
  BY DEF TypeOK
<1>s. ASSUME NEW o, Store(o) PROVE wf' = o /\ (cachedWf' = cachedWf \/ cachedWf' = wf')
  BY <1>s DEF Store
<1>c. /\ held => copy = wf
      /\ freshWf => cachedWf = wf
  BY DEF CurrentInv
<1>1. CASE RemoveFinalizer
  <2>1. wf' = [copy EXCEPT !.finalizer = FALSE, !.present = FALSE] /\ copy = wf
    BY <1>1, <1>s, <1>c DEF RemoveFinalizer
  <2>2. /\ wf'.run = wf.run /\ ~wf'.finalizer /\ ~wf'.present
        /\ wf'.deleting = copy.deleting /\ wf'.phase = wf.phase
    BY <2>1, <1>t DEF Workflow
  <2> QED BY <1>1, <1>s, <2>1, <2>2 DEF RemoveFinalizer
<1>2. CASE AddFinalizer
  <2>1. wf' = [copy EXCEPT !.finalizer = TRUE] /\ copy = wf
    BY <1>2, <1>s, <1>c DEF AddFinalizer
  <2>2. /\ wf'.run = wf.run /\ wf'.finalizer /\ wf'.present = wf.present
        /\ wf'.deleting = wf.deleting /\ wf'.phase = wf.phase
    BY <2>1, <1>t DEF Workflow
  <2> QED BY <1>2, <1>s, <2>1, <2>2 DEF AddFinalizer
<1>3. CASE DeleteOrphan
  <2>1. CASE UNCHANGED unlessStored
    BY <2>1 DEF unlessStored
  <2>2. CASE wf.present /\ Store([wf EXCEPT !.deleting = TRUE])
    <3>1. wf' = [wf EXCEPT !.deleting = TRUE]
      BY <2>2, <1>s
    <3>2. /\ wf'.run = wf.run /\ wf'.finalizer = wf.finalizer /\ wf'.present = wf.present
          /\ wf'.deleting /\ wf'.phase = wf.phase
      BY <3>1, <1>t DEF Workflow
    <3> QED BY <1>3, <2>2, <1>s, <3>2
  <2> QED BY <1>3, <2>1, <2>2 DEF DeleteOrphan
<1>4. CASE DeleteWorkflow
  <2>1. wf' = [wf EXCEPT !.deleting = TRUE, !.present = wf.finalizer] /\ wf.present
    BY <1>4, <1>s DEF DeleteWorkflow
  <2>2. /\ wf'.run = wf.run /\ wf'.finalizer = wf.finalizer /\ wf'.present = wf.finalizer
        /\ wf'.deleting /\ wf'.phase = wf.phase
    BY <2>1, <1>t DEF Workflow
  <2> QED BY <1>4, <1>s, <2>1, <2>2 DEF DeleteWorkflow
<1>5. CASE PersistRun
  <2>1. wf' = [cachedWf EXCEPT !.run = id, !.named = TRUE] /\ cachedWf = wf
    BY <1>5, <1>s, <1>c DEF PersistRun
  <2>2. /\ wf'.run = id /\ wf'.finalizer = wf.finalizer /\ wf'.present = wf.present
        /\ wf'.deleting = wf.deleting /\ wf'.phase = wf.phase
    BY <2>1, <1>t DEF Workflow
  <2> QED BY <1>5, <1>s, <2>1, <2>2 DEF PersistRun
<1>6. CASE PersistName
  <2>1. wf' = [cachedWf EXCEPT !.named = TRUE] /\ cachedWf = wf
    BY <1>6, <1>s, <1>c DEF PersistName
  <2>2. /\ wf'.run = wf.run /\ wf'.finalizer = wf.finalizer /\ wf'.present = wf.present
        /\ wf'.deleting = wf.deleting /\ wf'.phase = wf.phase
    BY <2>1, <1>t DEF Workflow
  <2> QED BY <1>6, <1>s, <2>1, <2>2 DEF PersistName
<1>p. ASSUME NEW q, Store([cachedWf EXCEPT !.phase = q]), freshWf
      PROVE  /\ wf'.run = wf.run /\ wf'.finalizer = wf.finalizer /\ wf'.present = wf.present
             /\ wf'.deleting = wf.deleting /\ wf'.phase = q
  <2>1. wf' = [cachedWf EXCEPT !.phase = q] /\ cachedWf = wf
    BY <1>p, <1>s, <1>c
  <2> QED BY <2>1, <1>t DEF Workflow
<1>7. CASE FailStatus
  <2>1. Store([cachedWf EXCEPT !.phase = "Failed"]) /\ freshWf
    BY <1>7 DEF FailStatus
  <2> QED BY <1>7, <1>s, <1>p, <2>1
<1>8. CASE WritePhase
  <2>1. Store([cachedWf EXCEPT !.phase = phase]) /\ freshWf
    BY <1>8 DEF WritePhase
  <2> QED BY <1>8, <1>s, <1>p, <2>1
<1>9. CASE CacheWorkflow
  BY <1>9 DEF CacheWorkflow
<1> QED BY <1>1, <1>2, <1>3, <1>4, <1>5, <1>6, <1>7, <1>8, <1>9 DEF WorkflowStep

(* A stored CheckRun stays stored. *)
LEMMA RunStays ==
  ASSUME TypeOK, CurrentInv, RunInv, [Next]_vars
  PROVE  /\ wf'.run # NoRun \/ wf.run = NoRun
         /\ wf'.run = NoRun => cachedWf'.run = NoRun /\ copy'.run = NoRun
<1> USE DEF RunInv
<1>1. CASE WorkflowStep
  <2>1. PersistRun => id # NoRun
    BY DEF PersistRun
  <2>2. wf'.run # NoRun \/ wf.run = NoRun
    BY <1>1, <2>1, Written
  <2>3. wf'.run = NoRun => cachedWf'.run = NoRun
    BY <1>1, <2>2, Written
  <2>4. NoWorkflow.run = NoRun
    BY DEF NoWorkflow
  <2>5. wf'.run = NoRun => copy'.run = NoRun
    BY <2>2, <2>4, CopyStep DEF Begin
  <2> QED BY <2>2, <2>3, <2>5
<1>2. CASE ~WorkflowStep
  <2>1. UNCHANGED <<wf, cachedWf>>
    BY <1>2, OtherWorkflowStep
  <2>2. NoWorkflow.run = NoRun
    BY DEF NoWorkflow
  <2> QED BY <2>1, <2>2, CopyStep DEF Begin
<1> QED BY <1>1, <1>2

(* A pod of a Job starts, succeeds or fails. *)
LEMMA PodStep ==
  ASSUME job \in Job, Pods
  PROVE  \E j \in Job :
           /\ MoveJob(j) /\ j.exists = job.exists /\ j.own = job.own
           /\ job.succeeded => j.succeeded
           /\ job.failed => j.failed
           /\ j.succeeded => job.succeeded \/ Completions \/ j.finished = "complete"
<1>t. job \in [exists : BOOLEAN, own : BOOLEAN, active : BOOLEAN, succeeded : BOOLEAN,
              failed : BOOLEAN, finished : {"no", "complete", "failed"}]
  BY DEF Job
<1>1. CASE PodStarts
  <2> DEFINE j == [job EXCEPT !.active = TRUE]
  <2>1. j \in Job /\ j.exists = job.exists /\ j.own = job.own
        /\ j.succeeded = job.succeeded /\ j.failed = job.failed
    BY <1>t DEF Job
  <2>2. MoveJob(j)
    BY <1>1 DEF PodStarts
  <2> HIDE DEF j
  <2> QED BY <2>1, <2>2
<1>2. CASE PodSucceeds
  <2> DEFINE j == [job EXCEPT !.active = FALSE, !.succeeded = TRUE, !.finished = "complete"]
             k == [job EXCEPT !.succeeded = TRUE]
  <2>1. /\ j \in Job /\ j.exists = job.exists /\ j.own = job.own
        /\ j.succeeded /\ j.failed = job.failed /\ j.finished = "complete"
    BY <1>t DEF Job
  <2>2. /\ k \in Job /\ k.exists = job.exists /\ k.own = job.own
        /\ k.succeeded /\ k.failed = job.failed
    BY <1>t DEF Job
  <2>3. MoveJob(j) \/ (Completions /\ MoveJob(k))
    BY <1>2 DEF PodSucceeds
  <2> HIDE DEF j, k
  <2> QED BY <2>1, <2>2, <2>3
<1>3. CASE PodFails
  <2> DEFINE j == [job EXCEPT !.active = FALSE, !.failed = TRUE, !.finished = "failed"]
             k(a) == [job EXCEPT !.active = a, !.failed = TRUE]
  <2>1. /\ j \in Job /\ j.exists = job.exists /\ j.own = job.own
        /\ j.succeeded = job.succeeded /\ j.failed
    BY <1>t DEF Job
  <2>2. \A a \in BOOLEAN : /\ k(a) \in Job /\ k(a).exists = job.exists
                           /\ k(a).own = job.own /\ k(a).succeeded = job.succeeded
                           /\ k(a).failed
    BY <1>t DEF Job
  <2>3. MoveJob(j) \/ \E a \in BOOLEAN : MoveJob(k(a))
    BY <1>3 DEF PodFails
  <2> HIDE DEF j, k
  <2> QED BY <2>1, <2>2, <2>3
<1> QED BY <1>1, <1>2, <1>3 DEF Pods

(* The CheckRun comes before the Job. *)
LEMMA RunStored ==
  ASSUME TypeOK, CurrentInv, RunInv, [Next]_vars PROVE RunInv'
<1>1. /\ wf'.run # NoRun \/ wf.run = NoRun
      /\ wf'.run = NoRun => cachedWf'.run = NoRun /\ copy'.run = NoRun
  BY RunStays
<1>2. job'.own => wf'.run # NoRun
  <2> SUFFICES ASSUME job'.own, wf.run = NoRun PROVE FALSE
    BY <1>1
  <2> USE DEF RunInv
  <2>1. CASE CreateJob
    BY <2>1 DEF CreateJob
  <2>2. CASE Pods
    <3>1. job \in Job
      BY DEF TypeOK
    <3>2. PICK j : MoveJob(j) /\ j.own = job.own
      BY <2>2, <3>1, PodStep
    <3> QED BY <3>2 DEF MoveJob, StoreJob
  <2>3. CASE JobDeleted
    BY <2>3 DEF JobDeleted, StoreJob, NoJob
  <2>4. CASE ForeignJob
    BY <2>4 DEF ForeignJob, StoreJob, NewJob, NoJob
  <2>5. CASE CacheJob
    BY <2>5 DEF CacheJob
  <2>6. CASE ~JobStep
    BY <2>6, OtherJobStep
  <2> QED BY <2>1, <2>2, <2>3, <2>4, <2>5, <2>6 DEF JobStep
<1>3. /\ pc' \in {"lookup", "cancel", "getjob", "template"} => id' = copy'.run
      /\ pc' = "persistrun" => id' # NoRun
      /\ pc' \in {"persistname", "createjob", "refetch", "failrun", "failstatus"} =>
           wf.run # NoRun \/ PersistRun
  <2> USE DEF RunInv, Goto
  <2>1. CASE Ends
    BY <2>1 DEF Ends
  <2>2. CASE Begin
    BY <2>2 DEF Begin
  <2>3. CASE UNCHANGED reconcile
    BY <2>3 DEF reconcile
  <2>4. CASE LookUpJob \/ CancelRun \/ GetJob \/ JobAlreadyExists \/ RefetchJob \/ FailRun
             \/ FailRunLost
    BY <2>4 DEF LookUpJob, CancelRun, GetJob, JobAlreadyExists, RefetchJob, FailRun,
       FailRunLost, locals
  <2>5. CASE GetTemplate
    BY <2>5 DEF GetTemplate, Return, locals
  <2>6. CASE CreateCheckRun
    BY <2>6, RunIDsType DEF CreateCheckRun
  <2>7. CASE PersistRun \/ PersistName \/ CreateJob
    BY <2>7 DEF PersistRun, PersistName, CreateJob
  <2>8. CASE JobRefused
    BY <2>8 DEF JobRefused
  <2>9. CASE Report
    BY <2>9 DEF Report, Return, locals
  <2> QED BY <2>1, <2>2, <2>3, <2>4, <2>5, <2>6, <2>7, <2>8, <2>9, ReconcileStep DEF GoesOn
<1>4. PersistRun => wf'.run # NoRun
  <2> SUFFICES ASSUME PersistRun PROVE wf'.run # NoRun
    OBVIOUS
  <2>1. wf' = [cachedWf EXCEPT !.run = id, !.named = TRUE] /\ id # NoRun
    BY DEF PersistRun, Store, RunInv
  <2>2. cachedWf \in Workflow
    BY DEF TypeOK
  <2> QED BY <2>1, <2>2 DEF Workflow
<1> QED BY <1>1, <1>2, <1>3, <1>4 DEF RunInv

(* Where the next call of a reconcile comes from. *)
Serving == Creating \cup {"getjob", "report", "writephase"}

(* Only Begin leads into the steps of a kind. *)
LEMMA PcStep ==
  ASSUME [Next]_vars
  PROVE  /\ pc' \in Serving => pc \in Serving \/ (Begin /\ pc' = "getjob")
         /\ pc' \in {"lookup", "cancel", "unfinalize"} =>
              pc \in {"lookup", "cancel", "unfinalize"} \/ Begin
         /\ pc' \in {"finalizer", "orphan"} => UNCHANGED <<pc, copy>> \/ Begin
<1> USE DEF Serving, Creating, Goto
<1>1. CASE Ends
  BY <1>1 DEF Ends
<1>2. CASE Begin
  BY <1>2 DEF Begin
<1>3. CASE UNCHANGED reconcile
  BY <1>3 DEF reconcile
<1>4. CASE LookUpJob \/ CancelRun \/ GetJob \/ JobAlreadyExists \/ RefetchJob \/ FailRun
           \/ FailRunLost \/ CreateCheckRun \/ PersistRun \/ PersistName \/ CreateJob
           \/ JobRefused
  BY <1>4 DEF LookUpJob, CancelRun, GetJob, JobAlreadyExists, RefetchJob, FailRun,
     FailRunLost, CreateCheckRun, PersistRun, PersistName, CreateJob, JobRefused
<1>5. CASE GetTemplate
  BY <1>5 DEF GetTemplate, Return
<1>6. CASE Report
  BY <1>6 DEF Report, Return
<1> QED BY <1>1, <1>2, <1>3, <1>4, <1>5, <1>6, ReconcileStep DEF GoesOn

(* A Branch that is gone from the cache stays gone. *)
LEMMA BranchStep ==
  ASSUME [Next]_vars PROVE branch' => branch
<1>1. CASE Reconcile
  BY <1>1 DEF Reconcile, Begin, Ignore, LookUpJob, CancelRun, RemoveFinalizer, AddFinalizer,
     DeleteOrphan, GetJob, GetTemplate, CreateCheckRun, PersistRun, PersistName, CreateJob,
     JobAlreadyExists, RefetchJob, FailRun, FailStatus, FailStatusMoot, Report, WritePhase,
     Conflict, ReturnError, world
<1>2. CASE Pods
  <2>1. \E j : MoveJob(j)
    BY <1>2 DEF Pods, PodStarts, PodSucceeds, PodFails
  <2> QED BY <2>1 DEF MoveJob
<1>3. CASE ~Reconcile /\ ~Pods
  BY <1>3 DEF Next, JobRefused, FailRunLost, FailStatusLost, Fault, DeleteWorkflow,
     BranchGone, TemplateChanges, JobDeleted, ForeignJob, Informers, CacheWorkflow,
     CacheJob, world, vars
<1> QED BY <1>1, <1>2, <1>3

(* The Workflow is there as long as a reconcile serves it. *)
LEMMA PresenceStep ==
  ASSUME TypeOK, CurrentInv, PresenceInv, [Next]_vars PROVE PresenceInv'
<1>i. /\ wf.finalizer => wf.present
      /\ wf.present /\ ~wf.finalizer => wf.run = NoRun
      /\ cachedWf.deleting \/ copy.deleting => wf.deleting
      /\ cachedWf.finalizer /\ ~cachedWf.deleting => wf.present /\ wf.finalizer
      /\ pc \in {"lookup", "cancel", "unfinalize"} => cachedWf.deleting
      /\ pc = "finalizer" => copy.present
      /\ pc \in Serving => wf.present /\ wf.finalizer
  BY DEF PresenceInv, Serving
<1>1. /\ wf'.finalizer => wf'.present
      /\ wf'.present /\ ~wf'.finalizer => wf'.run = NoRun
      /\ wf.deleting => wf'.deleting
      /\ wf.finalizer => wf'.finalizer \/ RemoveFinalizer
  <2>1. CASE WorkflowStep
    <3>1. AddFinalizer => pc = "finalizer"
      BY DEF AddFinalizer
    <3>2. PersistRun => pc \in Serving
      BY DEF PersistRun, Serving, Creating
    <3> QED BY <2>1, <3>1, <3>2, <1>i, Written
  <2>2. CASE ~WorkflowStep
    BY <2>2, <1>i, OtherWorkflowStep
  <2> QED BY <2>1, <2>2
<1>2. /\ cachedWf.deleting => cachedWf'.deleting
      /\ cachedWf'.deleting => wf'.deleting
      /\ cachedWf'.finalizer /\ ~cachedWf'.deleting => wf'.present /\ wf'.finalizer
  <2>1. CASE WorkflowStep
    <3>1. RemoveFinalizer => cachedWf.deleting
      BY <1>i DEF RemoveFinalizer
    <3> QED BY <2>1, <3>1, <1>1, <1>i, Written
  <2>2. CASE ~WorkflowStep
    BY <2>2, <1>i, OtherWorkflowStep
  <2> QED BY <2>1, <2>2
<1>3. copy'.deleting => wf'.deleting
  <2>1. ~NoWorkflow.deleting
    BY DEF NoWorkflow
  <2>2. Begin => copy' = cachedWf
    BY DEF Begin
  <2> QED BY <2>1, <2>2, <1>1, <1>i, CopyStep
<1>4. pc' \in {"lookup", "cancel", "unfinalize"} => cachedWf'.deleting
  <2>1. Begin /\ pc' \in {"lookup", "cancel", "unfinalize"} => cachedWf.deleting
    BY DEF Begin, Goto
  <2> QED BY <2>1, <1>2, <1>i, PcStep
<1>5. pc' = "finalizer" => copy'.present
  <2>1. Begin => copy'.present
    BY DEF Begin
  <2> QED BY <2>1, <1>i, PcStep
<1>6. pc' = "orphan" => ~branch'
  <2>1. Begin /\ pc' = "orphan" => ~branch
    BY DEF Begin, Goto
  <2> QED BY <2>1, PcStep, BranchStep DEF PresenceInv
<1>7. pc' \in Serving => wf'.present /\ wf'.finalizer
  <2>1. ASSUME Begin, pc' = "getjob" PROVE wf.present /\ wf.finalizer
    <3>1. cachedWf.finalizer /\ ~cachedWf.deleting
      BY <2>1 DEF Begin, Goto
    <3> QED BY <3>1, <1>i
  <2>2. RemoveFinalizer => pc' \notin Serving
    BY DEF RemoveFinalizer, Return, Goto, Serving, Creating
  <2> QED BY <2>1, <2>2, <1>1, <1>i, PcStep
<1> QED BY <1>1, <1>2, <1>3, <1>4, <1>5, <1>6, <1>7 DEF PresenceInv, Serving

(* A cancelled CheckRun belongs to a Workflow that the cache knows to be    *)
(* deleted, and no reconcile serves such a one.                             *)
LEMMA CancelStep ==
  ASSUME TypeOK, PhaseInv, CurrentInv, RunInv, PresenceInv, CancelInv, [Next]_vars
  PROVE  CancelInv'
<1> DEFINE Cancelled == \E r \in Runs : runs[r] = "cancelled"
           Deleting == {"lookup", "cancel", "unfinalize"}
<1>i. /\ pc \in Deleting => cachedWf.deleting
      /\ Cancelled => cachedWf.deleting /\ pc \in Deleting \cup {"idle", "error"}
  BY DEF PresenceInv, CancelInv
<1>1. cachedWf.deleting => cachedWf'.deleting
  <2>1. cachedWf.deleting => wf.deleting
    BY DEF PresenceInv
  <2>2. CASE WorkflowStep
    <3>1. RemoveFinalizer => copy.deleting = wf.deleting
      BY DEF RemoveFinalizer, CurrentInv
    <3> QED BY <2>1, <2>2, <3>1, Written
  <2>3. CASE ~WorkflowStep
    BY <2>3, OtherWorkflowStep
  <2> QED BY <2>2, <2>3
<1>2. Cancelled' => Cancelled \/ (CancelRun /\ pc = "cancel")
  <2>1. CASE ~RunStep
    BY <2>1, OtherRunStep
  <2>2. CASE CancelRun
    BY <2>2 DEF CancelRun
  <2>t. runs \in [Runs -> RunStatuses] /\ "Failed" \in Phases
    BY DEF TypeOK, Phases
  <2>3. CASE CreateCheckRun
    BY <2>3, <2>t DEF CreateCheckRun
  <2>4. CASE FailRun
    <3>1. RunStatus("Failed") # "cancelled"
      BY DEF RunStatus
    <3> QED BY <2>4, <2>t, <3>1 DEF FailRun
  <2>5. CASE Report
    <3>1. phase \in Phases /\ phase # "Cancelled"
      BY <2>5 DEF Report, PhaseInv
    <3>2. RunStatus(phase) # "cancelled"
      BY <3>1, RunStatusType
    <3> QED BY <2>5, <2>t, <3>2 DEF Report
  <2> QED BY <2>1, <2>2, <2>3, <2>4, <2>5 DEF RunStep
<1>3. ASSUME Cancelled \/ pc = "cancel" PROVE pc' \in Deleting \cup {"idle", "error"}
  <2>1. cachedWf.deleting /\ pc \in Deleting \cup {"idle", "error"}
    BY <1>3, <1>i
  <2>2. CASE Begin
    BY <2>1, <2>2 DEF Begin, Goto
  <2>3. CASE UNCHANGED reconcile
    BY <2>1, <2>3 DEF reconcile
  <2>4. CASE LookUpJob \/ CancelRun
    BY <2>4 DEF LookUpJob, CancelRun, Goto
  <2>5. CASE GoesOn /\ ~LookUpJob /\ ~CancelRun
    BY <2>1, <2>5 DEF GoesOn, GetJob, GetTemplate, CreateCheckRun, PersistRun, PersistName,
       CreateJob, JobAlreadyExists, RefetchJob, JobRefused, FailRun, FailRunLost, Report
  <2> QED BY <2>2, <2>3, <2>4, <2>5, ReconcileStep DEF Ends
<1> QED BY <1>1, <1>2, <1>3, <1>i DEF CancelInv

(* What happens to the Job, and to the cached one. *)
LEMMA JobMoves ==
  ASSUME TypeOK, [Next]_vars
  PROVE  \/ UNCHANGED <<job, cachedJob>>
         \/ CacheJob /\ job' = job /\ cachedJob' = job
         \/ /\ cachedJob' = cachedJob \/ cachedJob' = job'
            /\ \/ /\ CreateJob /\ ~job.exists
                  /\ job'.exists /\ job'.own /\ ~job'.succeeded /\ ~job'.failed
               \/ /\ Pods /\ job.exists /\ job'.exists /\ job'.own = job.own
                  /\ job.succeeded => job'.succeeded
                  /\ job.failed => job'.failed
                  /\ job'.succeeded => \/ job.succeeded \/ Completions
                                       \/ job'.finished = "complete"
                  /\ completed' <=> completed \/ (job'.own /\ job'.finished = "complete")
               \/ /\ JobDeleted /\ job.exists /\ (Expiry \/ (job.own /\ ~wf.present))
                  /\ ~job'.exists /\ ~job'.own /\ ~job'.succeeded /\ ~job'.failed
               \/ /\ ForeignJob /\ Foreign /\ ~job.exists
                  /\ job'.exists /\ ~job'.own /\ ~job'.succeeded /\ ~job'.failed
<1>j. ASSUME NEW j, StoreJob(j) PROVE job' = j /\ (cachedJob' = cachedJob \/ cachedJob' = job')
  BY <1>j DEF StoreJob
<1>n. /\ NewJob.exists /\ NewJob.own /\ ~NewJob.succeeded /\ ~NewJob.failed
      /\ ~NoJob.exists /\ ~NoJob.own /\ ~NoJob.succeeded /\ ~NoJob.failed
  BY DEF NewJob, NoJob
<1>1. CASE ~JobStep
  BY <1>1, OtherJobStep
<1>2. CASE CreateJob
  BY <1>2, <1>j, <1>n DEF CreateJob
<1>3. CASE Pods
  <2>1. job \in Job
    BY DEF TypeOK
  <2>2. PICK j \in Job :
          /\ MoveJob(j) /\ j.exists = job.exists /\ j.own = job.own
          /\ job.succeeded => j.succeeded
          /\ job.failed => j.failed
          /\ j.succeeded => job.succeeded \/ Completions \/ j.finished = "complete"
    BY <1>3, <2>1, PodStep
  <2>3. job' = j /\ (cachedJob' = cachedJob \/ cachedJob' = job') /\ job.exists
    BY <1>j, <2>2 DEF MoveJob
  <2>4. completed' <=> (completed \/ (j.own /\ j.finished = "complete"))
    BY <2>2 DEF MoveJob
  <2> QED BY <1>3, <2>2, <2>3, <2>4
<1>4. CASE JobDeleted
  BY <1>4, <1>j, <1>n DEF JobDeleted
<1>5. CASE ForeignJob
  <2>1. job' = [NewJob EXCEPT !.own = FALSE] /\ (cachedJob' = cachedJob \/ cachedJob' = job')
    BY <1>5, <1>j DEF ForeignJob
  <2>2. job'.exists /\ ~job'.own /\ ~job'.succeeded /\ ~job'.failed
    BY <2>1 DEF NewJob, NoJob
  <2> QED BY <1>5, <2>1, <2>2 DEF ForeignJob
<1>6. CASE CacheJob
  BY <1>6 DEF CacheJob
<1> QED BY <1>1, <1>2, <1>3, <1>4, <1>5, <1>6 DEF JobStep

(* A success is claimed for a Job with a succeeded pod, and shown after it  *)
(* was claimed.                                                             *)
LEMMA ClaimStep ==
  ASSUME TypeOK, PhaseInv, [Next]_vars
  PROVE  /\ Shown' => Shown \/ (Report /\ phase = "Succeeded")
         /\ phase' = "Succeeded" =>
              phase = "Succeeded" \/ ((GetJob \/ RefetchJob) /\ cachedJob.succeeded)
         /\ phase' = phase \/ phase' = "" \/ GetJob \/ RefetchJob \/ CreateJob
<1>t. runs \in [Runs -> RunStatuses] /\ cachedJob \in Job
  BY DEF TypeOK
<1>1. Shown' => Shown \/ (Report /\ phase = "Succeeded")
  <2>1. CASE ~RunStep
    BY <2>1, OtherRunStep DEF Shown
  <2>2. CASE CancelRun
    <3>1. RunStatus("Cancelled") # "success"
      BY DEF RunStatus
    <3> QED BY <2>2, <1>t, <3>1 DEF CancelRun, Shown
  <2>3. CASE CreateCheckRun
    BY <2>3, <1>t DEF CreateCheckRun, Shown
  <2>4. CASE FailRun
    <3>1. RunStatus("Failed") # "success"
      BY DEF RunStatus
    <3> QED BY <2>4, <1>t, <3>1 DEF FailRun, Shown
  <2>5. CASE Report /\ phase # "Succeeded"
    <3>1. runs' = [runs EXCEPT ![id] = RunStatus(phase)] /\ phase \in Phases \cup {""}
      BY <2>5 DEF Report, TypeOK
    <3>2. CASE phase \in Phases
      <4>1. RunStatus(phase) # "success"
        BY <2>5, <3>2, RunStatusType
      <4> QED BY <3>1, <4>1, <1>t DEF Shown
    <3> QED BY <3>1, <3>2, <2>5 DEF Report, PhaseInv
  <2> QED BY <2>1, <2>2, <2>3, <2>4, <2>5 DEF RunStep
<1>2. \/ phase' = phase \/ phase' = ""
      \/ GetJob /\ (phase' = phase \/ phase' = JobPhase(cachedJob))
      \/ RefetchJob /\ (phase' = phase \/ phase' = JobPhase(cachedJob))
      \/ CreateJob /\ phase' = JobPhase(NewJob)
  <2>r. ASSUME Return PROVE phase' = ""
    BY <2>r DEF Return
  <2>g. ASSUME GiveUp PROVE phase' = phase \/ phase' = ""
    BY <2>g, <2>r DEF GiveUp
  <2>1. CASE GetJob \/ RefetchJob \/ CreateJob
    BY <2>1 DEF GetJob, RefetchJob, CreateJob
  <2>2. CASE RemoveFinalizer \/ AddFinalizer \/ DeleteOrphan \/ FailStatus
             \/ FailStatusMoot \/ FailStatusLost \/ WritePhase \/ ReturnError
    BY <2>2, <2>r, <2>g DEF RemoveFinalizer, AddFinalizer, DeleteOrphan, FailStatus,
       FailStatusMoot, FailStatusLost, WritePhase, ReturnError
  <2>3. CASE GetTemplate \/ Report
    BY <2>3, <2>r DEF GetTemplate, Report, locals
  <2>4. CASE Begin \/ Ignore \/ LookUpJob \/ CancelRun \/ CreateCheckRun \/ PersistRun
             \/ PersistName \/ JobAlreadyExists \/ JobRefused
             \/ FailRun \/ FailRunLost \/ Conflict \/ Fault
    BY <2>4 DEF Begin, Ignore, LookUpJob, CancelRun, CreateCheckRun, PersistRun, PersistName,
       JobAlreadyExists, JobRefused, FailRun, FailRunLost, Conflict, Fault, locals
  <2>5. CASE UNCHANGED reconcile
    BY <2>5 DEF reconcile
  <2>6. CASE DeleteWorkflow \/ BranchGone \/ TemplateChanges \/ JobDeleted \/ ForeignJob
             \/ CacheWorkflow \/ CacheJob
    BY <2>5, <2>6 DEF DeleteWorkflow, BranchGone, TemplateChanges, JobDeleted, ForeignJob,
       CacheWorkflow, CacheJob
  <2>7. CASE Pods
    <3>1. \E j : MoveJob(j)
      BY <2>7 DEF Pods, PodStarts, PodSucceeds, PodFails
    <3> QED BY <2>5, <3>1 DEF MoveJob
  <2>8. CASE UNCHANGED vars
    BY <2>8 DEF vars
  <2> QED
    BY <2>1, <2>2, <2>3, <2>4, <2>6, <2>7, <2>8 DEF Next, Reconcile, Informers
<1>3. JobPhase(NewJob) # "Succeeded" /\ (JobPhase(cachedJob) = "Succeeded" => cachedJob.succeeded)
  <2>1. JobPhase(NewJob) = "Pending"
    BY DEF JobPhase, NewJob, NoJob
  <2> QED BY <2>1, <1>t, JobPhaseType
<1> QED BY <1>1, <1>2, <1>3

(* A success is earned by a completed Job. *)
LEMMA SuccessStep ==
  ASSUME ~Completions, ~Foreign, TypeOK, PhaseInv, CurrentInv, RunInv, SuccessInv,
         [Next]_vars
  PROVE  SuccessInv'
<1>i. /\ job.exists => job.own
      /\ job.succeeded \/ cachedJob.succeeded \/ Shown \/ phase = "Succeeded" => completed
      /\ wf.phase = "Succeeded" \/ cachedWf.phase = "Succeeded" => completed
  BY DEF SuccessInv, Claimed
<1>1. completed => completed'
  <2>1. CASE Pods
    <3>1. \E j : MoveJob(j)
      BY <2>1 DEF Pods, PodStarts, PodSucceeds, PodFails
    <3> QED BY <3>1 DEF MoveJob
  <2>2. CASE ~Pods
    BY <2>2 DEF Next, Reconcile, Begin, Ignore, LookUpJob, CancelRun, RemoveFinalizer,
       AddFinalizer, DeleteOrphan, GetJob, GetTemplate, CreateCheckRun, PersistRun,
       PersistName, CreateJob, JobAlreadyExists, RefetchJob, FailRun, FailStatus,
       FailStatusMoot, Report, WritePhase, Conflict, ReturnError, JobRefused, FailRunLost,
       FailStatusLost, Fault, DeleteWorkflow, BranchGone, TemplateChanges, JobDeleted,
       ForeignJob, Informers, CacheWorkflow, CacheJob, world, vars
  <2> QED BY <2>1, <2>2
<1>2. /\ job'.exists => job'.own
      /\ job'.succeeded \/ cachedJob'.succeeded => completed'
  BY <1>1, <1>i, JobMoves
<1>3. Shown' \/ phase' = "Succeeded" => completed'
  BY <1>1, <1>i, ClaimStep
<1>4. wf'.phase = "Succeeded" \/ cachedWf'.phase = "Succeeded" => completed'
  <2>1. CASE WorkflowStep
    BY <2>1, <1>1, <1>i, Written
  <2>2. CASE ~WorkflowStep
    BY <2>2, <1>1, <1>i, OtherWorkflowStep
  <2> QED BY <2>1, <2>2
<1> QED BY <1>2, <1>3, <1>4 DEF SuccessInv, Claimed

(* A Job that is owned, or has a succeeded pod, exists. *)
LEMMA JobInvStep ==
  ASSUME TypeOK, JobInv, [Next]_vars PROVE JobInv'
  BY JobMoves DEF JobInv

(* A Workflow that is gone stays gone, and a deleted one deleted. *)
LEMMA GoneStep ==
  ASSUME TypeOK, CurrentInv, [Next]_vars
  PROVE  /\ wf'.present => wf.present
         /\ wf.deleting => wf'.deleting
<1>1. CASE WorkflowStep
  <2>1. RemoveFinalizer => copy.deleting = wf.deleting
    BY DEF RemoveFinalizer, CurrentInv
  <2> QED BY <1>1, <2>1, Written
<1>2. CASE ~WorkflowStep
  BY <1>2, OtherWorkflowStep
<1> QED BY <1>1, <1>2

(* The Job of somebody else stays where it is. *)
Taken == cachedJob.exists /\ ~cachedJob.own

(* ... as long as Jobs do not expire. *)
LEMMA TakenStep ==
  ASSUME ~Expiry, TypeOK, Taken, job.exists /\ ~job.own, [Next]_vars
  PROVE  Taken'
  BY JobMoves DEF Taken

(* A success shown is about the Job that the cache holds. *)
LEMMA VerdictStep ==
  ASSUME ~Expiry, TypeOK, PhaseInv, CurrentInv, JobInv, PresenceInv, VerdictInv,
         [Next]_vars
  PROVE  VerdictInv'
<1>i. /\ Taken => job.exists /\ ~job.own
      /\ Claimed \/ cachedJob.succeeded =>
           /\ wf.present => job.exists
           /\ job.own => job.succeeded
           /\ cachedJob.own => cachedJob.succeeded
      /\ Claimed /\ wf.present => cachedJob.exists
      /\ pc \in Creating => ~Shown
      /\ pc = "cancel" /\ Shown => Taken
      /\ pc = "report" /\ Shown => phase = "Succeeded" \/ Taken
  BY DEF VerdictInv, Taken
<1>j. /\ job.succeeded \/ job.own => job.exists
      /\ cachedJob.succeeded \/ cachedJob.own => cachedJob.exists
  BY DEF JobInv
<1>w. wf'.present => wf.present
  BY GoneStep
<1>p. pc \in Creating \cup {"getjob"} => wf.present
  BY DEF PresenceInv
<1>s. /\ Shown' => Shown \/ (Report /\ phase = "Succeeded")
      /\ Claimed' => Claimed \/ cachedJob.succeeded
  BY ClaimStep DEF Claimed
<1>t. Taken => Taken'
  BY <1>i, TakenStep
<1>1. Taken' => job'.exists /\ ~job'.own
  BY <1>i, JobMoves DEF Taken
<1>c. CreateJob => ~(Claimed \/ cachedJob.succeeded)
  BY <1>i, <1>p DEF CreateJob, Creating
<1>2. ASSUME Claimed' \/ cachedJob'.succeeded
      PROVE  /\ wf'.present => job'.exists
             /\ job'.own => job'.succeeded
             /\ cachedJob'.own => cachedJob'.succeeded
  <2>1. CASE Claimed \/ cachedJob.succeeded
    BY <2>1, <1>c, <1>i, <1>w, JobMoves
  <2>2. CASE ~(Claimed \/ cachedJob.succeeded)
    <3>1. cachedJob'.succeeded /\ ~cachedJob.succeeded
      BY <1>2, <2>2, <1>s
    <3> QED BY <3>1, <1>j, JobMoves
  <2> QED BY <2>1, <2>2
<1>3. Claimed' /\ wf'.present => cachedJob'.exists
  <2> SUFFICES ASSUME Claimed', wf'.present PROVE cachedJob'.exists
    OBVIOUS
  <2>1. Claimed \/ cachedJob.succeeded
    BY <1>s
  <2>2. job.exists /\ cachedJob.exists
    BY <2>1, <1>i, <1>j, <1>w
  <2>3. ~JobDeleted
    BY <1>w DEF JobDeleted, unlessStored
  <2> QED BY <2>2, <2>3, JobMoves
<1>4. pc' \in Creating => ~Shown'
  <2> SUFFICES ASSUME pc' \in Creating PROVE ~Shown'
    OBVIOUS
  <2>1. ~Report
    BY DEF Report, Return, Goto, Creating
  <2>2. pc \in Creating \/ (GetJob /\ ~cachedJob.exists)
    <3>1. CASE pc \in Creating
      BY <3>1
    <3>2. CASE pc \notin Creating
      BY <3>2, ReconcileStep, <2>1 DEF Ends, GoesOn, Begin, LookUpJob, CancelRun, GetJob,
         GetTemplate, CreateCheckRun, PersistRun, PersistName, CreateJob, JobAlreadyExists,
         RefetchJob, JobRefused, FailRun, FailRunLost, reconcile, Goto, Creating
    <3> QED BY <3>1, <3>2
  <2>3. GetJob /\ ~cachedJob.exists => ~Shown
    BY <1>i, <1>p DEF GetJob, Claimed
  <2> QED BY <2>1, <2>2, <2>3, <1>i, <1>s
<1>5. pc' = "cancel" /\ Shown' => Taken'
  <2> SUFFICES ASSUME pc' = "cancel", Shown' PROVE Taken'
    OBVIOUS
  <2>1. ~Report
    BY DEF Report, Return, Goto
  <2>2. Shown
    BY <2>1, <1>s
  <2>3. CASE pc = "cancel"
    BY <2>2, <2>3, <1>i, <1>t
  <2>4. CASE pc # "cancel"
    <3>1. LookUpJob
      BY <2>4, ReconcileStep, <2>1 DEF Ends, GoesOn, Begin, CancelRun, GetJob,
         GetTemplate, Return, CreateCheckRun, PersistRun, PersistName, CreateJob,
         JobAlreadyExists, RefetchJob, JobRefused, FailRun, FailRunLost, reconcile, Goto
    <3>2. cachedJob.exists /\ ~cachedJob.succeeded
      BY <3>1 DEF LookUpJob, Goto
    <3> QED BY <2>2, <3>2, <1>i, <1>t DEF Claimed, Taken
  <2> QED BY <2>3, <2>4
<1>6. pc' = "report" /\ Shown' => phase' = "Succeeded" \/ Taken'
  <2> SUFFICES ASSUME pc' = "report", Shown' PROVE phase' = "Succeeded" \/ Taken'
    OBVIOUS
  <2>1. ~Report
    BY DEF Report, Return, Goto
  <2>2. Shown
    BY <2>1, <1>s
  <2>3. pc \notin Creating
    BY <2>2, <1>i
  <2>4. CASE UNCHANGED reconcile
    BY <2>2, <2>4, <1>i, <1>t DEF reconcile
  <2>5. CASE GetJob
    <3>1. cachedJob.exists /\ phase' = JobPhase(cachedJob) /\ cachedJob \in Job
      BY <2>5 DEF GetJob, Goto, TypeOK
    <3>2. Taken \/ cachedJob.succeeded
      BY <3>1, <2>2, <1>i DEF Claimed, Taken
    <3> QED BY <3>1, <3>2, <1>t, JobPhaseType
  <2>6. CASE ~UNCHANGED reconcile /\ ~GetJob
    BY <2>3, <2>6, ReconcileStep, <2>1 DEF Ends, GoesOn, Begin, LookUpJob, CancelRun,
       GetTemplate, Return, CreateCheckRun, PersistRun, PersistName, CreateJob,
       JobAlreadyExists, RefetchJob, JobRefused, FailRun, FailRunLost, Goto, Creating
  <2> QED BY <2>4, <2>5, <2>6
<1> QED BY <1>1, <1>2, <1>3, <1>4, <1>5, <1>6 DEF VerdictInv, Taken

(* The CheckRun to be cancelled is the stored one. *)
LEMMA KeepStep ==
  ASSUME ~Lag, TypeOK, CurrentInv, RunInv, JobInv, PresenceInv, KeepInv, [Next]_vars
  PROVE  KeepInv'
<1>c. cachedWf = wf /\ cachedJob = job
  BY DEF CurrentInv
<1>w. wf'.run = wf.run \/ PersistRun
  <2>1. CASE WorkflowStep
    BY <2>1, Written
  <2>2. CASE ~WorkflowStep
    BY <2>2, OtherWorkflowStep
  <2> QED BY <2>1, <2>2
<1>1. /\ pc' \in {"createrun", "persistrun"} => wf'.run = NoRun
      /\ pc' \in {"lookup", "cancel", "getjob", "template"} => id' = wf'.run
  <2> USE DEF KeepInv, Goto
  <2>1. CASE Ends
    BY <2>1 DEF Ends
  <2>2. CASE Begin
    BY <2>2, <1>c DEF Begin, world
  <2>3. CASE UNCHANGED reconcile
    BY <2>3, <1>w DEF reconcile, PersistRun
  <2>4. CASE LookUpJob \/ CancelRun \/ GetJob \/ JobAlreadyExists \/ RefetchJob \/ FailRun
             \/ FailRunLost
    BY <2>4 DEF LookUpJob, CancelRun, GetJob, JobAlreadyExists, RefetchJob, FailRun,
       FailRunLost, locals, world
  <2>5. CASE GetTemplate
    BY <2>5 DEF GetTemplate, Return, locals, world
  <2>6. CASE CreateCheckRun \/ JobRefused
    BY <2>6 DEF CreateCheckRun, JobRefused, world
  <2>7. CASE PersistRun \/ PersistName \/ CreateJob
    BY <2>7 DEF PersistRun, PersistName, CreateJob
  <2>8. CASE Report
    BY <2>8 DEF Report, Return
  <2> QED BY <2>1, <2>2, <2>3, <2>4, <2>5, <2>6, <2>7, <2>8, ReconcileStep DEF GoesOn
<1>2. ASSUME pc' = "unfinalize", branch', wf'.run # NoRun
      PROVE  runs'[wf'.run] = "cancelled" \/ ~job'.own \/ job'.succeeded \/ job'.failed
  <2>1. branch /\ wf'.run = wf.run
    BY <1>2, <1>w, BranchStep DEF PersistRun, Goto
  <2>2. CASE pc = "unfinalize"
    <3>1. runs[wf.run] = "cancelled" \/ ~job.own \/ job.succeeded \/ job.failed
      BY <1>2, <2>1, <2>2 DEF KeepInv
    <3>2. UNCHANGED runs
      BY <2>2, OtherRunStep DEF RunStep, CancelRun, CreateCheckRun, FailRun, Report
    <3>3. ~CreateJob
      BY <2>2 DEF CreateJob
    <3> QED BY <3>1, <3>2, <3>3, <2>1, JobMoves
  <2>3. CASE LookUpJob
    <3>1. id = wf.run /\ UNCHANGED <<job, runs>>
      BY <2>3 DEF LookUpJob, KeepInv, world
    <3>2. \/ id = NoRun \/ ~cachedJob.exists
          \/ cachedJob.succeeded \/ cachedJob.failed
      BY <2>3, <1>2 DEF LookUpJob, Goto
    <3> QED BY <3>1, <3>2, <1>c, <1>2, <2>1 DEF JobInv
  <2>4. CASE CancelRun
    <3>1. id = wf.run /\ runs' = [runs EXCEPT ![id] = RunStatus("Cancelled")]
      BY <2>4 DEF CancelRun, KeepInv
    <3>2. id \in Runs /\ RunStatus("Cancelled") = "cancelled"
      BY <3>1, <1>2, <2>1, RunIDsType DEF TypeOK, RunStatus
    <3>3. runs \in [Runs -> RunStatuses]
      BY DEF TypeOK
    <3> QED BY <3>1, <3>2, <3>3, <2>1
  <2>5. CASE pc # "unfinalize" /\ ~LookUpJob /\ ~CancelRun
    <3>1. ~Begin
      BY <1>2, <2>1 DEF Begin, Goto
    <3> QED BY <1>2, <2>5, <3>1, ReconcileStep DEF Ends, GoesOn, GetJob, GetTemplate, Return,
         CreateCheckRun, PersistRun, PersistName, CreateJob, JobAlreadyExists, RefetchJob,
         JobRefused, FailRun, FailRunLost, Report, reconcile, Goto
  <2> QED BY <2>2, <2>3, <2>4, <2>5
<1> QED BY <1>1, <1>2 DEF KeepInv

(* From the creation of a CheckRun to the phase the reconcile keeps to it. *)
LEMMA HeardStep ==
  ASSUME ~Lag, TypeOK, CurrentInv, KeepInv, HeardInv, [Next]_vars
  PROVE  HeardInv'
<1>w. wf'.run = wf.run \/ (PersistRun /\ wf'.run = id)
  <2>1. CASE WorkflowStep
    BY <2>1, Written
  <2>2. CASE ~WorkflowStep
    BY <2>2, OtherWorkflowStep
  <2> QED BY <2>1, <2>2
<1>1. CASE Ends
  BY <1>1 DEF Ends, HeardInv
<1>2. CASE Begin
  BY <1>2 DEF Begin, HeardInv, Goto
<1>3. CASE UNCHANGED reconcile
  <2>1. ~PersistRun
    BY <1>3 DEF PersistRun, Goto, reconcile
  <2>2. pc = "writephase" => UNCHANGED runs
    BY OtherRunStep DEF RunStep, CancelRun, CreateCheckRun, FailRun, Report
  <2> QED BY <1>3, <1>w, <2>1, <2>2 DEF HeardInv, reconcile
<1>4. CASE LookUpJob \/ CancelRun \/ CreateCheckRun
  BY <1>4 DEF LookUpJob, CancelRun, CreateCheckRun, Goto, HeardInv
<1>5. CASE PersistRun
  <2>1. wf'.run = id
    BY <1>5 DEF PersistRun, Store, TypeOK, Workflow
  <2> QED BY <1>5, <2>1 DEF PersistRun, Goto, HeardInv
<1>6. CASE GetJob \/ GetTemplate
  <2>1. (id = wf.run /\ UNCHANGED id) \/ Ends
    BY <1>6 DEF GetJob, GetTemplate, Return, locals, KeepInv, Ends, Goto
  <2>2. UNCHANGED wf
    BY <1>6 DEF GetJob, GetTemplate, world
  <2>3. pc' # "writephase"
    BY <1>6 DEF GetJob, GetTemplate, Return, Goto
  <2> QED BY <2>1, <2>2, <2>3, <1>1 DEF HeardInv
<1>7. CASE PersistName \/ CreateJob \/ JobAlreadyExists \/ RefetchJob \/ JobRefused
           \/ FailRun \/ FailRunLost
  <2>1. ~PersistRun /\ UNCHANGED id /\ pc' # "writephase"
    BY <1>7 DEF PersistRun, PersistName, CreateJob, JobAlreadyExists, RefetchJob, JobRefused,
       FailRun, FailRunLost, locals, Goto
  <2>2. id = wf.run
    BY <1>7 DEF PersistName, CreateJob, JobAlreadyExists, RefetchJob, JobRefused, FailRun,
       FailRunLost, HeardInv
  <2> QED BY <1>w, <2>1, <2>2 DEF HeardInv
<1>8. CASE Report
  <2>1. CASE copy.phase = phase
    BY <1>8, <2>1, <1>1 DEF Report, Return, Ends, Goto
  <2>2. CASE copy.phase # phase
    <3>1. id = wf.run /\ id \in Runs
      BY <1>8, RunIDsType DEF Report, HeardInv, TypeOK
    <3>2. runs'[id] = RunStatus(phase)
      BY <1>8, <3>1 DEF Report, TypeOK
    <3>3. UNCHANGED <<wf, id, phase>>
      BY <1>8, <2>2 DEF Report, locals, world
    <3> QED BY <3>1, <3>2, <3>3 DEF HeardInv
  <2> QED BY <2>1, <2>2
<1> QED BY <1>1, <1>2, <1>3, <1>4, <1>5, <1>6, <1>7, <1>8, ReconcileStep DEF GoesOn

(* What is stored, and an owned Job that appears in the cache, is an event, *)
(* and only the beginning of a reconcile consumes events.                   *)
LEMMA EventStep ==
  ASSUME CurrentInv, [Next]_vars
  PROVE  /\ queued /\ ~Begin /\ ~Ignore => queued'
         /\ Late /\ ~Begin /\ ~Ignore => Late'
         /\ wf' # wf => Late'
         /\ cachedJob' # cachedJob /\ cachedJob'.own => queued'
<1>c. ~Lag => freshWf
  BY DEF CurrentInv
<1>s. ASSUME NEW o, Store(o) PROVE Late' /\ (queued => queued')
  BY <1>s DEF Store, Late
<1>j. ASSUME NEW j, StoreJob(j)
      PROVE  /\ queued => queued'
             /\ cachedJob' # cachedJob /\ cachedJob'.own => queued'
  BY <1>j DEF StoreJob
<1>1. /\ queued /\ ~Begin /\ ~Ignore => queued'
      /\ cachedJob' # cachedJob /\ cachedJob'.own => queued'
  <2>1. CASE RemoveFinalizer \/ AddFinalizer \/ PersistRun \/ PersistName \/ FailStatus
             \/ WritePhase \/ DeleteWorkflow
    <3>1. UNCHANGED cachedJob
      BY <2>1 DEF RemoveFinalizer, AddFinalizer, PersistRun, PersistName, FailStatus,
         WritePhase, DeleteWorkflow
    <3> QED BY <2>1, <3>1, <1>s DEF RemoveFinalizer, AddFinalizer, PersistRun, PersistName,
         FailStatus, WritePhase, DeleteWorkflow
  <2>2. CASE DeleteOrphan
    BY <2>2, <1>s DEF DeleteOrphan
  <2>3. CASE CreateJob \/ JobDeleted \/ ForeignJob
    BY <2>3, <1>j DEF CreateJob, JobDeleted, ForeignJob
  <2>4. CASE Pods
    <3>1. \E j : MoveJob(j)
      BY <2>4 DEF Pods, PodStarts, PodSucceeds, PodFails
    <3> QED BY <3>1, <1>j DEF MoveJob
  <2>5. CASE Begin \/ Ignore \/ LookUpJob \/ CancelRun \/ GetJob \/ GetTemplate
             \/ CreateCheckRun \/ JobAlreadyExists \/ RefetchJob \/ FailRun
             \/ FailStatusMoot \/ Report \/ Conflict \/ ReturnError \/ JobRefused
             \/ FailRunLost \/ FailStatusLost \/ Fault
    BY <2>5 DEF Begin, Ignore, LookUpJob, CancelRun, GetJob, GetTemplate, CreateCheckRun,
       JobAlreadyExists, RefetchJob, FailRun, FailStatusMoot, Report, Conflict, ReturnError,
       JobRefused, FailRunLost, FailStatusLost, Fault, world
  <2>6. CASE BranchGone \/ TemplateChanges \/ CacheWorkflow
    BY <2>6 DEF BranchGone, TemplateChanges, CacheWorkflow
  <2>7. CASE CacheJob
    <3>1. cachedJob' = job /\ (queued' <=> queued \/ job.own \/ cachedJob.own)
      BY <2>7 DEF CacheJob
    <3> QED BY <3>1
  <2>8. CASE UNCHANGED vars
    BY <2>8 DEF vars
  <2> QED
    BY <2>1, <2>2, <2>3, <2>4, <2>5, <2>6, <2>7, <2>8 DEF Next, Reconcile, Informers
<1>2. wf' # wf => Late'
  <2> SUFFICES ASSUME wf' # wf PROVE Late'
    OBVIOUS
  <2>1. WorkflowStep /\ ~CacheWorkflow
    BY OtherWorkflowStep DEF CacheWorkflow
  <2> QED BY <2>1, <1>s DEF WorkflowStep, RemoveFinalizer, AddFinalizer, DeleteOrphan,
         PersistRun, PersistName, FailStatus, WritePhase, DeleteWorkflow, unlessStored
<1>3. ~freshWf => Late'
  <2>1. CASE CacheWorkflow
    BY <2>1 DEF CacheWorkflow, Late
  <2>2. CASE WorkflowStep /\ ~CacheWorkflow
    BY <2>2, <1>s DEF WorkflowStep, RemoveFinalizer, AddFinalizer, DeleteOrphan,
       PersistRun, PersistName, FailStatus, WritePhase, DeleteWorkflow, unlessStored, Late
  <2>3. CASE ~WorkflowStep
    BY <2>3, OtherWorkflowStep DEF Late
  <2> QED BY <2>1, <2>2, <2>3
<1> QED BY <1>1, <1>2, <1>3 DEF Late

(* While its Branch is there and nobody deletes it, a Workflow is served:   *)
(* the reconcile under way reports the Job, or another one is to come.      *)
LEMMA ReportStep ==
  ASSUME TypeOK, PhaseInv, CurrentInv, JobInv, PresenceInv, ReportInv, [Next]_vars
  PROVE  ReportInv'
<1> DEFINE Read == {"getjob", "template", "createjob", "refetch", "report"}
<1> SUFFICES ASSUME branch', wf'.present, ~wf'.deleting
             PROVE  /\ pc' = "idle" /\ cachedJob'.own => Late' \/ Reported'
                    /\ pc' \in Creating /\ cachedJob'.own => queued'
                    /\ pc' \in Read => Late' \/ (copy'.phase = wf'.phase /\ id' = wf'.run)
                    /\ pc' = "report" /\ cachedJob'.own =>
                         queued' \/ phase' = JobPhase(cachedJob')
                    /\ pc' \notin {"lookup", "cancel", "unfinalize"}
  BY DEF ReportInv
<1>o. branch /\ wf.present /\ ~wf.deleting
  BY BranchStep, GoneStep
<1>i. /\ pc = "idle" /\ cachedJob.own => Late \/ Reported
      /\ pc \in Creating /\ cachedJob.own => queued
      /\ pc \in Read => Late \/ (copy.phase = wf.phase /\ id = wf.run)
      /\ pc = "report" /\ cachedJob.own => queued \/ phase = JobPhase(cachedJob)
      /\ pc \notin {"lookup", "cancel", "unfinalize"}
  BY <1>o DEF ReportInv
<1>e. /\ queued /\ ~Begin /\ ~Ignore => queued'
      /\ Late /\ ~Begin /\ ~Ignore => Late'
      /\ wf' # wf => Late'
      /\ cachedJob' # cachedJob /\ cachedJob'.own => queued'
  BY EventStep
<1>n. pc # "idle" => ~Begin /\ ~Ignore
  BY DEF Begin, Ignore
<1>f. freshWf => cachedWf = wf
  BY DEF CurrentInv
<1>1. ASSUME pc' = "idle", cachedJob'.own PROVE Late' \/ Reported'
  <2> SUFFICES ASSUME wf' = wf, cachedJob' = cachedJob PROVE Late' \/ Reported'
    BY <1>1, <1>e DEF Late
  <2>s. ASSUME NEW o, Store(o) PROVE Late'
    BY <2>s DEF Store, Late, CurrentInv
  <2>1. CASE pc = "idle"
    <3>1. CASE Ignore
      <4>1. ~freshWf /\ UNCHANGED freshWf
        BY <3>1, <1>o, <1>f DEF Ignore, world
      <4> QED BY <4>1 DEF Late
    <3>2. CASE ~Ignore
      <4>1. ~Begin
        BY <1>1 DEF Begin, Goto
      <4>2. UNCHANGED runs
        BY <2>1, OtherRunStep DEF RunStep, CancelRun, CreateCheckRun, FailRun, Report
      <4> QED BY <1>1, <2>1, <3>2, <4>1, <4>2, <1>i, <1>e DEF Reported
    <3> QED BY <3>1, <3>2
  <2>2. CASE RemoveFinalizer \/ AddFinalizer \/ WritePhase
    BY <2>2, <2>s DEF RemoveFinalizer, AddFinalizer, WritePhase
  <2>3. CASE DeleteOrphan
    BY <2>3, <1>o DEF DeleteOrphan, PresenceInv
  <2>4. CASE GetTemplate \/ FailStatus \/ FailStatusMoot \/ FailStatusLost
    <3>1. pc \in Creating
      BY <2>4 DEF GetTemplate, FailStatus, FailStatusMoot, FailStatusLost, Creating
    <3> QED BY <1>1, <3>1, <1>i, <1>e, <1>n DEF Creating, Late
  <2>5. CASE ReturnError
    BY <2>5 DEF ReturnError, Late
  <2>6. CASE Report
    <3>1. pc = "report" /\ id # NoRun /\ runs' = [runs EXCEPT ![id] = RunStatus(phase)]
      BY <2>6 DEF Report
    <3>2. copy.phase = phase
      BY <2>6, <1>1 DEF Report, Goto
    <3>3. CASE Late
      BY <3>1, <3>3, <1>e, <1>n
    <3>4. CASE ~Late
      <4>1. wf.phase = phase /\ id = wf.run /\ phase = JobPhase(cachedJob)
        BY <3>1, <3>2, <3>4, <1>1, <1>i DEF Late
      <4>2. id \in Runs /\ runs \in [Runs -> RunStatuses]
        BY <3>1, RunIDsType DEF TypeOK
      <4> QED BY <3>1, <4>1, <4>2 DEF Reported
    <3> QED BY <3>3, <3>4
  <2>7. CASE pc # "idle" /\ UNCHANGED reconcile
    BY <2>7, <1>1 DEF reconcile
  <2>8. CASE Conflict \/ Fault \/ Begin
    BY <2>8, <1>1 DEF Conflict, Fault, Begin, Goto
  <2>9. CASE LookUpJob \/ CancelRun \/ GetJob \/ CreateCheckRun \/ PersistRun
             \/ PersistName \/ CreateJob \/ JobAlreadyExists \/ RefetchJob \/ JobRefused
             \/ FailRun \/ FailRunLost
    BY <2>9, <1>1 DEF LookUpJob, CancelRun, GetJob, CreateCheckRun, PersistRun,
       PersistName, CreateJob, JobAlreadyExists, RefetchJob, JobRefused, FailRun,
       FailRunLost, Goto
  <2>10. CASE pc # "idle" /\ (DeleteWorkflow \/ BranchGone \/ TemplateChanges \/ Pods
              \/ JobDeleted \/ ForeignJob \/ CacheWorkflow \/ CacheJob)
    <3>1. CASE Pods
      <4>1. \E j : MoveJob(j)
        BY <3>1 DEF Pods, PodStarts, PodSucceeds, PodFails
      <4> QED BY <4>1, <2>7, <2>10 DEF MoveJob
    <3> QED BY <3>1, <2>7, <2>10 DEF DeleteWorkflow, BranchGone, TemplateChanges, JobDeleted,
         ForeignJob, CacheWorkflow, CacheJob
  <2>11. CASE UNCHANGED vars
    BY <2>1, <2>7, <2>11 DEF vars, reconcile
  <2>12. CASE Ignore
    BY <2>1, <2>12 DEF Ignore
  <2> QED
    BY <2>1, <2>2, <2>3, <2>4, <2>5, <2>6, <2>8, <2>9, <2>10, <2>11, <2>12
       DEF Next, Reconcile, Informers
<1>2. ASSUME pc' \in Creating, cachedJob'.own PROVE queued'
  <2> SUFFICES ASSUME cachedJob' = cachedJob PROVE queued'
    BY <1>2, <1>e
  <2>1. ~Report
    BY <1>2 DEF Report, Return, Goto, Creating
  <2>2. ~(GetJob /\ ~cachedJob.exists)
    BY <1>2 DEF JobInv
  <2>3. pc \in Creating
    <3> SUFFICES ASSUME pc \notin Creating PROVE FALSE
      OBVIOUS
    <3> QED BY <1>2, <2>1, <2>2, ReconcileStep DEF Ends, GoesOn, Begin, LookUpJob, CancelRun,
         GetJob, GetTemplate, CreateCheckRun, PersistRun, PersistName, CreateJob,
         JobAlreadyExists, RefetchJob, JobRefused, FailRun, FailRunLost, reconcile, Goto,
         Creating
  <2> QED BY <1>2, <2>3, <1>i, <1>e, <1>n DEF Creating
<1>3. ASSUME pc' \in Read PROVE Late' \/ (copy'.phase = wf'.phase /\ id' = wf'.run)
  <2> SUFFICES ASSUME wf' = wf PROVE Late' \/ (copy'.phase = wf.phase /\ id' = wf.run)
    BY <1>e
  <2>1. CASE Begin
    <3>1. copy' = cachedWf /\ id' = cachedWf.run /\ UNCHANGED freshWf
      BY <2>1 DEF Begin, world
    <3> QED BY <3>1, <1>f DEF Late
  <2>2. CASE PersistRun \/ PersistName
    BY <2>2 DEF PersistRun, PersistName, Store, Late, CurrentInv
  <2>3. CASE ~Begin /\ ~PersistRun /\ ~PersistName
    <3>1. pc \in Read /\ UNCHANGED <<copy, id>>
      BY <1>3, <2>3, ReconcileStep DEF Ends, GoesOn, LookUpJob, CancelRun, GetJob,
         GetTemplate, Return, CreateCheckRun, CreateJob, JobAlreadyExists, RefetchJob,
         JobRefused, FailRun, FailRunLost, Report, reconcile, locals, Goto
    <3> QED BY <3>1, <1>i, <1>e, <1>n
  <2> QED BY <2>1, <2>2, <2>3
<1>4. ASSUME pc' = "report", cachedJob'.own
      PROVE  queued' \/ phase' = JobPhase(cachedJob')
  <2> SUFFICES ASSUME cachedJob' = cachedJob PROVE queued' \/ phase' = JobPhase(cachedJob)
    BY <1>4, <1>e
  <2>1. CASE UNCHANGED reconcile
    BY <1>4, <2>1, <1>i, <1>e, <1>n DEF reconcile
  <2>2. CASE GetJob \/ RefetchJob
    BY <1>4, <2>2 DEF GetJob, RefetchJob, Goto
  <2>3. CASE CreateJob
    <3>1. pc = "createjob" /\ pc \in Creating
      BY <2>3 DEF CreateJob, Creating
    <3> QED BY <1>4, <3>1, <1>i, <1>e, <1>n
  <2>4. CASE ~UNCHANGED reconcile /\ ~GetJob /\ ~RefetchJob /\ ~CreateJob
    BY <1>4, <2>4, ReconcileStep DEF Ends, GoesOn, Begin, LookUpJob, CancelRun, GetTemplate,
       Return, CreateCheckRun, PersistRun, PersistName, JobAlreadyExists, JobRefused, FailRun,
       FailRunLost, Report, Goto
  <2> QED BY <2>1, <2>2, <2>3, <2>4
<1>5. pc' \notin {"lookup", "cancel", "unfinalize"}
  <2>1. ~cachedWf.deleting
    BY <1>o DEF PresenceInv
  <2>2. Begin => pc' \notin {"lookup", "cancel", "unfinalize"}
    BY <2>1 DEF Begin, Goto
  <2> QED BY <2>2, <1>i, PcStep
<1> QED BY <1>1, <1>2, <1>3, <1>4, <1>5
-----------------------------------------------------------------------------
(* What holds whatever others may do, and what more while the informers do  *)
(* not lag, Jobs do not expire, and one succeeded pod completes a Job.      *)
IInv ==
  /\ TypeOK /\ PhaseInv /\ CurrentInv /\ RunInv /\ JobInv /\ PresenceInv
  /\ CancelInv /\ ReportInv
  /\ ~Lag => KeepInv /\ HeardInv
  /\ ~Expiry => VerdictInv
  /\ ~Completions /\ ~Foreign => SuccessInv

(* A new Workflow, or one of an older release, satisfies all of it. *)
LEMMA InitInv ==
  ASSUME Init PROVE IInv
<1>n. /\ NoWorkflow \in Workflow /\ NoJob \in Job
      /\ ~NoWorkflow.deleting /\ ~NoWorkflow.finalizer /\ ~NoWorkflow.present
      /\ NoWorkflow.run = NoRun /\ NoWorkflow.phase = ""
      /\ ~NoJob.exists /\ ~NoJob.own /\ ~NoJob.succeeded
  BY RunIDsType DEF NoWorkflow, NoJob, Workflow, Job
<1>w. /\ wf \in Workflow /\ wf.present /\ ~wf.deleting /\ wf.phase = ""
      /\ ~wf.finalizer => wf.run = NoRun
  <2>c. /\ Created \in Workflow /\ Created.present /\ ~Created.deleting
        /\ ~Created.finalizer /\ Created.run = NoRun /\ Created.phase = ""
    BY <1>n DEF Created, Workflow
  <2>1. CASE wf = Created
    BY <2>c, <2>1
  <2>2. CASE wf = Legacy /\ MaxRuns > 0
    <3>1. 1 \in RunIDs
      BY <2>2, ConstantsAssumption DEF RunIDs
    <3>2. /\ Legacy \in Workflow /\ Legacy.present /\ ~Legacy.deleting
          /\ Legacy.finalizer /\ Legacy.phase = ""
      BY <2>c, <3>1 DEF Legacy, Workflow
    <3> QED BY <2>2, <3>2
  <2> QED BY <2>1, <2>2 DEF Init
<1>i. /\ cachedWf = wf /\ freshWf /\ cachedJob = job /\ job = NoJob
      /\ pc = "idle" /\ copy = NoWorkflow /\ ~held /\ id = NoRun /\ phase = ""
      /\ branch /\ queued /\ ~completed
      /\ \A r \in Runs : runs[r] \in {"queued", "none"}
  BY DEF Init
<1>1. TypeOK
  <2>1. runs \in [Runs -> RunStatuses]
    BY DEF Init, RunStatuses
  <2> QED BY <1>i, <1>n, <1>w, <2>1, RunIDsType DEF Init, TypeOK, Steps
<1>2. PhaseInv /\ CurrentInv /\ RunInv /\ JobInv
  BY <1>i, <1>n DEF PhaseInv, CurrentInv, RunInv, JobInv
<1>3. PresenceInv
  BY <1>i, <1>n, <1>w DEF PresenceInv, Creating
<1>4. CancelInv /\ ReportInv
  BY <1>i, <1>n DEF CancelInv, ReportInv, Creating, Late
<1>5. KeepInv /\ HeardInv
  BY <1>i DEF KeepInv, HeardInv
<1>6. VerdictInv /\ SuccessInv
  BY <1>i, <1>n, <1>w DEF VerdictInv, SuccessInv, Claimed, Shown, Creating
<1> QED BY <1>1, <1>2, <1>3, <1>4, <1>5, <1>6 DEF IInv

(* The conjuncts together are inductive. *)
LEMMA Invariance == Spec => []IInv
<1>1. IInv /\ [Next]_vars => IInv'
  <2> SUFFICES ASSUME IInv, [Next]_vars PROVE IInv'
    OBVIOUS
  <2>1. TypeOK' /\ PhaseInv' /\ CurrentInv' /\ RunInv' /\ JobInv' /\ PresenceInv'
    BY TypeStep, CurrentStep, RunStored, JobInvStep, PresenceStep DEF IInv
  <2>2. CancelInv' /\ ReportInv'
    BY CancelStep, ReportStep DEF IInv
  <2>3. (~Lag => KeepInv' /\ HeardInv') /\ (~Expiry => VerdictInv')
    BY KeepStep, HeardStep, VerdictStep DEF IInv
  <2>4. ~Completions /\ ~Foreign => SuccessInv'
    BY SuccessStep DEF IInv
  <2> QED BY <2>1, <2>2, <2>3, <2>4 DEF IInv
<1> QED BY <1>1, InitInv, PTL DEF Spec

(* Every variable has its type, whatever others do. *)
THEOREM TypeCorrect == Spec => []TypeOK
<1>1. IInv => TypeOK
  BY DEF IInv
<1> QED BY <1>1, Invariance, PTL

(* A Job belongs to a Workflow that has stored its CheckRun, whatever fails *)
(* or restarts and however late the informers are.                          *)
THEOREM RunComesFirst == Spec => []RunBeforeJob
<1>1. IInv => RunBeforeJob
  BY DEF IInv, RunInv, RunBeforeJob
<1> QED BY <1>1, Invariance, PTL

(* When nothing is left to do, phase and CheckRun show the Job as it is: no *)
(* fault, conflict, lost write or late informer loses the last wake-up.     *)
THEOREM NothingLost == Spec => []NothingUnreported
<1>1. IInv => NothingUnreported
  BY DEF IInv, ReportInv, Late, Reported, NothingUnreported, Quiet
<1> QED BY <1>1, Invariance, PTL

(* Success is claimed only for a completed Job, as long as nobody else's    *)
(* Job takes the name and the template does not ask for several pods.       *)
THEOREM SuccessEarned == ~Completions /\ ~Foreign => (Spec => []SuccessIsEarned)
<1> SUFFICES ASSUME ~Completions, ~Foreign PROVE Spec => []SuccessIsEarned
  OBVIOUS
<1>1. IInv => SuccessIsEarned
  BY DEF IInv, SuccessInv, Claimed, Shown, SuccessIsEarned
<1> QED BY <1>1, Invariance, PTL

(* A cancelled CheckRun stays cancelled; a success stays as long as Jobs do *)
(* not expire and the cache holds the Job it is about.                      *)
THEOREM VerdictsStand == Spec => VerdictStands
<1> DEFINE Verdict(r) == runs[r] = "cancelled"
                          \/ (runs[r] = "success" /\ cachedJob.own /\ ~Expiry)
<1>1. ASSUME IInv, [Next]_vars, NEW r \in Runs, Verdict(r) PROVE runs'[r] = runs[r]
  <2>t. runs \in [Runs -> RunStatuses]
    BY <1>1 DEF IInv, TypeOK
  <2>1. CASE ~RunStep
    BY <1>1, <2>1, OtherRunStep
  <2>2. CASE RunStep /\ runs[r] = "cancelled"
    <3>1. pc \in {"idle", "lookup", "cancel", "unfinalize", "error"}
      BY <1>1, <2>2 DEF IInv, CancelInv
    <3>2. CancelRun
      BY <2>2, <3>1 DEF RunStep, CreateCheckRun, FailRun, Report
    <3>3. RunStatus("Cancelled") = "cancelled"
      BY DEF RunStatus
    <3> QED BY <2>2, <2>t, <3>2, <3>3 DEF CancelRun
  <2>3. CASE RunStep /\ runs[r] = "success" /\ cachedJob.own /\ ~Expiry
    <3>1. Shown /\ VerdictInv
      BY <1>1, <2>3 DEF IInv, Shown
    <3>2. Report /\ phase = "Succeeded"
      BY <2>3, <3>1 DEF VerdictInv, RunStep, CancelRun, CreateCheckRun, FailRun, Report,
         Creating
    <3>3. RunStatus(phase) = "success"
      BY <3>2 DEF RunStatus
    <3> QED BY <2>3, <2>t, <3>2, <3>3 DEF Report
  <2> QED BY <1>1, <2>1, <2>2, <2>3
<1>2. IInv /\ [Next]_vars =>
        [\A r \in Runs :
           \/ runs[r] = "cancelled"
           \/ runs[r] = "success" /\ cachedJob.own /\ ~Expiry
           => runs'[r] = runs[r]]_vars
  BY <1>1
<1> QED BY <1>2, Invariance, PTL DEF Spec, VerdictStands

(* A stored CheckRun is never replaced, when informers do not lag. *)
THEOREM RunKept == ~Lag => (Spec => RunNeverReplaced)
<1> SUFFICES ASSUME ~Lag PROVE Spec => RunNeverReplaced
  OBVIOUS
<1>1. ASSUME IInv, [Next]_vars, wf.run # NoRun PROVE wf'.run = wf.run
  <2>1. ~PersistRun
    BY <1>1 DEF IInv, KeepInv, PersistRun
  <2>2. CASE WorkflowStep
    BY <1>1, <2>1, <2>2, Written DEF IInv
  <2>3. CASE ~WorkflowStep
    BY <1>1, <2>3, OtherWorkflowStep
  <2> QED BY <2>2, <2>3
<1>2. IInv /\ [Next]_vars => [wf.run # NoRun => wf'.run = wf.run]_vars
  BY <1>1
<1> QED BY <1>2, Invariance, PTL DEF Spec, RunNeverReplaced

(* A phase is stored only when its CheckRun shows it, when informers do not *)
(* lag; a refused Job is marked failed as far as the calls succeed.         *)
THEOREM HeardFirst == ~Lag => (Spec => GitHubHearsFirst)
<1> SUFFICES ASSUME ~Lag PROVE Spec => GitHubHearsFirst
  OBVIOUS
<1>1. ASSUME IInv, [Next]_vars, wf'.phase # wf.phase, pc # "failstatus"
      PROVE  runs[wf.run] = RunStatus(wf'.phase)
  <2>1. WorkflowStep
    BY <1>1, OtherWorkflowStep
  <2>2. WritePhase /\ wf'.phase = phase
    BY <1>1, <2>1, Written DEF IInv, FailStatus
  <2>3. pc = "writephase"
    BY <2>2 DEF WritePhase
  <2>4. id = wf.run /\ runs[id] = RunStatus(phase)
    BY <1>1, <2>3 DEF IInv, HeardInv
  <2> QED BY <2>2, <2>4
<1>2. IInv /\ [Next]_vars =>
        [wf'.phase # wf.phase /\ pc # "failstatus" =>
           runs[wf.run] = RunStatus(wf'.phase)]_vars
  BY <1>1
<1> QED BY <1>2, Invariance, PTL DEF Spec, GitHubHearsFirst

(* A Workflow whose Job has not ended goes only with its CheckRun           *)
(* cancelled, when informers do not lag.                                    *)
THEOREM CancelledFirst == ~Lag => (Spec => CancelledBeforeGone)
<1> SUFFICES ASSUME ~Lag PROVE Spec => CancelledBeforeGone
  OBVIOUS
<1>1. ASSUME IInv, [Next]_vars, wf.present, ~wf'.present, branch, job.own, ~job.succeeded,
             ~job.failed, wf.run # NoRun
      PROVE  runs[wf.run] = "cancelled"
  <2>1. WorkflowStep
    BY <1>1, OtherWorkflowStep
  <2>2. wf.finalizer
    BY <1>1 DEF IInv, PresenceInv
  <2>3. RemoveFinalizer
    <3>1. TypeOK /\ CurrentInv
      BY <1>1 DEF IInv
    <3>2. wf' # wf /\ ~(wf'.present = wf.present)
      BY <1>1
    <3> QED BY <1>1, <2>1, <2>2, <3>1, <3>2, Written
  <2> QED BY <1>1, <2>3 DEF IInv, KeepInv, RemoveFinalizer
<1>2. IInv /\ [Next]_vars =>
        [wf.present /\ ~wf'.present /\ branch
         /\ job.own /\ ~job.succeeded /\ ~job.failed /\ wf.run # NoRun =>
           runs[wf.run] = "cancelled"]_vars
  BY <1>1
<1> QED BY <1>2, Invariance, PTL DEF Spec, CancelledBeforeGone
=============================================================================
