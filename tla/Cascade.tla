------------------------------- MODULE Cascade -------------------------------
(***************************************************************************)
(* The three reconcilers together, as far as the life of a Repository, its *)
(* Branches and their Workflows goes.                                      *)
(*                                                                         *)
(* Each finalizer waits for the objects below it, and the lowest one needs *)
(* the objects above it: a GitHub client comes from the Branch, through    *)
(* its Repository, from a Secret.  Fan-out, cursor and reports are reduced *)
(* to the steps that create, finish and delete; BranchController,          *)
(* RepositoryController and WorkflowController have the details, and the   *)
(* informers that lag.  Each kind has one worker.                          *)
(***************************************************************************)
EXTENDS Naturals

CONSTANTS
  Repository,  \* the name of the Repository
  Branches,    \* names a commit of the default branch may get
  Workflows,   \* names a Workflow may get
  BranchOf     \* BranchOf[w]: the Branch that controls w

ASSUME ObjectsAssumption ==
  /\ Repository \notin Branches \cup Workflows
  /\ Branches \cap Workflows = {}
  /\ BranchOf \in [Workflows -> Branches]

Objects == {Repository} \cup Branches \cup Workflows

(* What controller owns o. *)
OwnerOf(o) == IF o \in Workflows THEN BranchOf[o] ELSE Repository

(* An object is created bare, becomes live with its finalizer and dying     *)
(* with its deletion timestamp.                                             *)
Status == {"none", "bare", "live", "dying", "gone"}

(* The controller whose queue has o. *)
Controllers == {"repository", "branch", "workflow"}
ControllerOf(o) == CASE o = Repository -> "repository"
                     [] o \in Branches -> "branch"
                     [] o \in Workflows -> "workflow"
Nobody == "nobody"

VARIABLES
  obj,     \* status of every object
  marked,  \* Branches whose last-sha annotation is set
  job,     \* the Job of every Workflow
  run,     \* its CheckRun
  done,    \* Workflows with a terminal phase
  secret,  \* the Secret that the Repository names exists
  pc,      \* pc[c]: next call of controller c, "idle" between reconciles
  on,      \* on[c]: the object it reconciles
  calm     \* calls no longer fail

vars == <<obj, marked, job, run, done, secret, pc, on, calm>>

Steps == {"idle", "finalizer", "sync", "delete", "wait", "unfinalize",
          "list", "create", "remove", "lookup", "cancel", "job"}

Stored(o) == obj[o] \in {"bare", "live", "dying"}
Owned(o) == {p \in Objects \ {Repository} : OwnerOf(p) = o /\ Stored(p)}

(* r.Delete of every object of S, by whomever. *)
AfterDelete(S) ==
  [o \in Objects |->
     CASE o \in S /\ obj[o] = "bare" -> "gone"
       [] o \in S /\ obj[o] = "live" -> "dying"
       [] OTHER -> obj[o]]

Goto(c, step) == pc' = [pc EXCEPT ![c] = step] /\ UNCHANGED on
Return(c) ==
  /\ pc' = [pc EXCEPT ![c] = "idle"]
  /\ on' = [on EXCEPT ![c] = Nobody]

rest == <<marked, job, run, done, secret, calm>>
-----------------------------------------------------------------------------
(* What the three have in common *)

(* GetClientForBranch succeeds: the Repository is there, and its Secret. *)
HasClient == Stored(Repository) /\ secret

(* r.Get, and the choice between deletion, finalizer and the normal path.  *)
BeginRepository ==
  CASE obj[Repository] = "dying" -> "delete"
    [] obj[Repository] = "bare" -> "finalizer"
    [] OTHER -> "sync"

BeginBranch(b) ==
  CASE obj[b] = "dying" -> "delete"
    [] obj[b] = "bare" -> "finalizer"
    [] OTHER -> IF Stored(Repository) THEN "list" ELSE "remove"

BeginWorkflow(w) ==
  CASE obj[w] = "dying" -> IF Stored(BranchOf[w]) THEN "lookup" ELSE "unfinalize"
    [] obj[w] = "bare" -> "finalizer"
    [] OTHER -> IF Stored(BranchOf[w]) THEN "job" ELSE "remove"

(* WorkflowReconciler gets the Branch, and a client when there is one,     *)
(* before it looks at the deletion timestamp: without a client it ends in  *)
(* an error whatever has become of the Workflow.                           *)
Begin(o) ==
  LET c == ControllerOf(o) IN
  /\ pc[c] = "idle" /\ Stored(o)
  /\ c = "workflow" /\ Stored(OwnerOf(o)) => HasClient
  /\ on' = [on EXCEPT ![c] = o]
  /\ pc' = [pc EXCEPT ![c] = CASE c = "repository" -> BeginRepository
                               [] c = "branch" -> BeginBranch(o)
                               [] c = "workflow" -> BeginWorkflow(o)]
  /\ UNCHANGED <<obj, rest>>

(* An update of an object that was deleted meanwhile fails. *)
AddFinalizer(c) ==
  /\ pc[c] = "finalizer"
  /\ obj' = [obj EXCEPT ![on[c]] = IF @ = "bare" THEN "live" ELSE @]
  /\ Return(c)
  /\ UNCHANGED rest

(* Mutant of DeleteOwned: what has no finalizer yet is left alone. *)
DeleteFinalized(c) ==
  /\ pc[c] = "delete"
  /\ obj' = AfterDelete({o \in Owned(on[c]) : obj[o] # "bare"})
  /\ Goto(c, "wait")
  /\ UNCHANGED rest

(* deleteBranchesForRepository, deleteWorkflowsForBranch: all that is       *)
(* listed, *)
DeleteOwned(c) ==
  /\ pc[c] = "delete"
  /\ obj' = AfterDelete(Owned(on[c]))
  /\ Goto(c, "wait")
  /\ UNCHANGED rest

(* or some of it, when one of the calls fails. *)
DeleteSomeOwned(c) ==
  /\ pc[c] = "delete" /\ ~calm
  /\ \E S \in SUBSET Owned(on[c]) :
       S # Owned(on[c]) /\ obj' = AfterDelete(S)
  /\ Return(c)
  /\ UNCHANGED rest

(* Mutant of WaitForOwned: issuing the deletes is taken for their end. *)
NoWaitForOwned(c) ==
  /\ pc[c] = "wait"
  /\ Goto(c, "unfinalize")
  /\ UNCHANGED <<obj, rest>>

(* A second list must be empty; otherwise it is tried again in 5 s. *)
WaitForOwned(c) ==
  /\ pc[c] = "wait"
  /\ IF Owned(on[c]) = {} THEN Goto(c, "unfinalize") ELSE Return(c)
  /\ UNCHANGED <<obj, rest>>

RemoveFinalizer(c) ==
  /\ pc[c] = "unfinalize"
  /\ obj' = [obj EXCEPT ![on[c]] = "gone"]
  /\ Return(c)
  /\ UNCHANGED rest

(* BranchReconciler deletes a Branch that is complete or has no Repository, *)
(* WorkflowReconciler a Workflow that has no Branch.                        *)
Remove(c) ==
  /\ pc[c] = "remove"
  /\ obj' = AfterDelete({on[c]})
  /\ Return(c)
  /\ UNCHANGED rest

(* Any call fails, or the process stops and starts again. *)
Fault(c) ==
  /\ pc[c] # "idle" /\ ~calm
  /\ Return(c)
  /\ UNCHANGED <<obj, rest>>
-----------------------------------------------------------------------------
(* RepositoryReconciler *)

(* The reconcile that read a live Repository goes on creating Branches      *)
(* after its deletion; without the Secret it fails first.                   *)
CreateBranch(b) ==
  /\ pc["repository"] = "sync" /\ secret
  /\ obj[b] = "none"
  /\ obj' = [obj EXCEPT ![b] = "bare"]
  /\ UNCHANGED <<pc, on, rest>>

EndSync ==
  /\ pc["repository"] = "sync"
  /\ Return("repository")
  /\ UNCHANGED <<obj, rest>>
-----------------------------------------------------------------------------
(* BranchReconciler *)

ListWorkflows ==
  LET b == on["branch"] IN
  /\ pc["branch"] = "list"
  /\ CASE b \notin marked /\ HasClient -> Goto("branch", "create")
       [] b \in marked /\ Owned(b) \subseteq done -> Goto("branch", "remove")
       [] OTHER -> Return("branch")
  /\ UNCHANGED <<obj, rest>>

(* A fan-out creates any number of Workflows, under names of their own. *)
CreateWorkflow(w) ==
  /\ pc["branch"] = "create" /\ on["branch"] = BranchOf[w]
  /\ obj[w] = "none"
  /\ obj' = [obj EXCEPT ![w] = "bare"]
  /\ UNCHANGED <<pc, on, rest>>

(* The annotation is refused for a Branch that was deleted meanwhile. *)
MarkSHA ==
  /\ pc["branch"] = "create"
  /\ IF obj[on["branch"]] = "live"
     THEN marked' = marked \cup {on["branch"]}
     ELSE UNCHANGED marked
  /\ Return("branch")
  /\ UNCHANGED <<obj, job, run, done, secret, calm>>

(* Nothing to run for a default-branch commit. *)
RemoveUnmatched ==
  /\ pc["branch"] = "create"
  /\ Goto("branch", "remove")
  /\ UNCHANGED <<obj, rest>>
-----------------------------------------------------------------------------
(* WorkflowReconciler *)

(* handleWorkflowDeletion *)

(* Without a CheckRun, or with a Job that has ended or is not found, there  *)
(* is nothing to cancel.                                                    *)
LookUpJob ==
  LET w == on["workflow"] IN
  /\ pc["workflow"] = "lookup"
  /\ Goto("workflow",
          IF run[w] = "none" \/ job[w] # "running" THEN "unfinalize" ELSE "cancel")
  /\ UNCHANGED <<obj, rest>>

(* Mutant of CancelRun: a failing UpdateCheckRun does not keep the finalizer. *)
CancelRunBestEffort ==
  /\ pc["workflow"] = "cancel"
  /\ run' \in {run, [run EXCEPT ![on["workflow"]] = "cancelled"]}
  /\ Goto("workflow", "unfinalize")
  /\ UNCHANGED <<obj, marked, job, done, secret, calm>>

CancelRun ==
  /\ pc["workflow"] = "cancel"
  /\ run' = [run EXCEPT ![on["workflow"]] = "cancelled"]
  /\ Goto("workflow", "unfinalize")
  /\ UNCHANGED <<obj, marked, job, done, secret, calm>>

(* CreateCheckRun, with its ID stored, then the Job. *)
CreateCheckRun ==
  LET w == on["workflow"] IN
  /\ pc["workflow"] = "job" /\ job[w] = "none" /\ run[w] = "none"
  /\ run' = [run EXCEPT ![w] = "open"]
  /\ UNCHANGED <<obj, marked, job, done, secret, calm, pc, on>>

CreateJob ==
  LET w == on["workflow"] IN
  /\ pc["workflow"] = "job" /\ job[w] = "none" /\ run[w] # "none"
  /\ job' = [job EXCEPT ![w] = "running"]
  /\ Return("workflow")
  /\ UNCHANGED <<obj, marked, run, done, secret, calm>>

(* Mutant of GetJob: any Job that exists counts as an end. *)
GetJobAsEnd ==
  /\ pc["workflow"] = "job" /\ job[on["workflow"]] # "none"
  /\ done' = done \cup {on["workflow"]}
  /\ Return("workflow")
  /\ UNCHANGED <<obj, marked, job, run, secret, calm>>

(* an existing Job is reported, and its verdict stored as the phase.       *)
GetJob ==
  LET w == on["workflow"] IN
  /\ pc["workflow"] = "job" /\ job[w] # "none"
  /\ done' = IF job[w] = "ended" THEN done \cup {w} ELSE done
  /\ Return("workflow")
  /\ UNCHANGED <<obj, marked, job, run, secret, calm>>
-----------------------------------------------------------------------------
(* The cluster *)

JobEnds(w) ==
  /\ job[w] = "running"
  /\ job' = [job EXCEPT ![w] = "ended"]
  /\ UNCHANGED <<obj, marked, run, done, secret, calm, pc, on>>

(* An operator deletes an object, or everything in the namespace; the      *)
(* RepositoryReconciler deletes the Branch of a ref that is gone.          *)
Delete(o) ==
  /\ obj[o] \in {"bare", "live"}
  /\ obj' = AfterDelete({o})
  /\ UNCHANGED <<pc, on, rest>>

DeleteSecret ==
  /\ secret /\ secret' = FALSE
  /\ UNCHANGED <<obj, marked, job, run, done, calm, pc, on>>

CalmDown ==
  /\ ~calm /\ calm' = TRUE
  /\ UNCHANGED <<obj, marked, job, run, done, secret, pc, on>>
-----------------------------------------------------------------------------
Init ==
  /\ obj = [o \in Objects |-> IF o = Repository THEN "bare" ELSE "none"]
  /\ marked = {} /\ done = {}
  /\ job = [w \in Workflows |-> "none"] /\ run = [w \in Workflows |-> "none"]
  /\ secret = TRUE /\ calm = FALSE
  /\ pc = [c \in Controllers |-> "idle"]
  /\ on = [c \in Controllers |-> Nobody]

RepositoryStep == (\E b \in Branches : CreateBranch(b)) \/ EndSync

BranchStep ==
  \/ ListWorkflows
  \/ (\E w \in Workflows : CreateWorkflow(w)) \/ MarkSHA \/ RemoveUnmatched

WorkflowStep ==
  \/ LookUpJob \/ CancelRun
  \/ CreateCheckRun \/ CreateJob \/ GetJob

Owning == {"repository", "branch"}

CommonStep(c) ==
  \/ AddFinalizer(c) \/ RemoveFinalizer(c) \/ Remove(c)
  \/ c \in Owning /\ (DeleteOwned(c) \/ WaitForOwned(c))

(* A reconcile goes on. *)
Continue(c) ==
  \/ CommonStep(c)
  \/ c = "repository" /\ RepositoryStep
  \/ c = "branch" /\ BranchStep
  \/ c = "workflow" /\ WorkflowStep

Failure == \E c \in Controllers : Fault(c) \/ DeleteSomeOwned(c)

Next ==
  \/ \E c \in Controllers : Continue(c)
  \/ \E o \in Objects : Begin(o)
  \/ Failure
  \/ (\E w \in Workflows : JobEnds(w))
  \/ (\E o \in Objects : Delete(o)) \/ DeleteSecret \/ CalmDown

Spec == Init /\ [][Next]_vars

(* A reconcile ends.  A dying object is reconciled until it is gone: its   *)
(* deletion wakes its controller, an error is tried again, and so is a     *)
(* wait, after 5 s; the queue of a controller is in order, so that other   *)
(* objects do not keep it out.  Nothing wakes the controller of a live     *)
(* object, no Job has to end, and no failure has to stop.                  *)
Fairness ==
  /\ \A c \in Controllers : WF_vars(Continue(c))
  /\ \A o \in Objects : SF_vars(obj[o] = "dying" /\ Begin(o))

LiveSpec == Spec /\ Fairness
-----------------------------------------------------------------------------
(* Properties *)

(* The variables have their types, and a terminal phase is that of a Job.  *)
TypeOK ==
  /\ obj \in [Objects -> Status]
  /\ marked \subseteq Branches /\ done \subseteq {w \in Workflows : job[w] = "ended"}
  /\ job \in [Workflows -> {"none", "running", "ended"}]
  /\ run \in [Workflows -> {"none", "open", "cancelled"}]
  /\ secret \in BOOLEAN /\ calm \in BOOLEAN
  /\ pc \in [Controllers -> Steps]
  /\ on \in [Controllers -> Objects \cup {Nobody}]
  /\ \A c \in Controllers : IF pc[c] = "idle" THEN on[c] = Nobody
                           ELSE on[c] \in Objects /\ ControllerOf(on[c]) = c

(* A Branch that is stored has its Repository, a Workflow that is stored   *)
(* its Branch: no finalizer goes while something below it is there, is     *)
(* being created, or is about to be, so that a Workflow can always reach   *)
(* GitHub through its Branch to close its CheckRun.                        *)
NoOrphans ==
  \A o \in Branches \cup Workflows : Stored(o) => Stored(OwnerOf(o))

(* When the last trace of a Workflow goes while its Job runs, its CheckRun *)
(* has been cancelled: whoever deletes it, in whatever order the objects   *)
(* above it are deleted, and whatever fails on the way.                    *)
CancelledInTime ==
  [][\A w \in Workflows :
       Stored(w) /\ obj'[w] = "gone" /\ job[w] = "running" /\ run[w] # "none"
       => run[w] = "cancelled"]_vars

(* A Repository that is deleted goes, and with it every Branch and         *)
(* Workflow, once calls succeed: no finalizer waits for one that waits for *)
(* it.  The Secret must outlive them.                                      *)
NothingStranded ==
  (calm /\ obj[Repository] = "dying") ~>
    (~secret \/ \A o \in Objects : ~Stored(o))
=============================================================================
