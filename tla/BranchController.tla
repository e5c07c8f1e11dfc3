-------------------------- MODULE BranchController --------------------------
(***************************************************************************)
(* BranchReconciler.Reconcile (internal/controller/branch_controller.go)   *)
(* for one Branch: its finalizer, the fan-out of one Workflow per target   *)
(* of the templates that match the changed files, the last-sha annotation, *)
(* the replacement of the Workflows of an older SHA, the removal of a      *)
(* default-branch Branch that has nothing left to do, and the deletion     *)
(* path.  One action per call that reads or writes outside the process,    *)
(* and the work queue, for the controller has no periodic requeue.         *)
(***************************************************************************)
EXTENDS Naturals, FiniteSets, TemplateMatching

CONSTANTS
  MaxSHA,        \* bound: SHAs the Branch moves through
  MaxWorkflows,  \* bound: Workflows that get created
  Changes,       \* sets of files a commit may change
  Pulls,         \* sets of files its pull request may have
  TemplateLists, \* lists of WorkflowTemplates: functions from names to matches
  Lag            \* may the informers lag behind the API server?

ASSUME ConstantsAssumption ==
  /\ MaxSHA \in Nat \ {0} /\ MaxWorkflows \in Nat
  /\ Changes \subseteq SUBSET Files /\ Pulls \subseteq SUBSET Files
  /\ \A l \in TemplateLists :
       DOMAIN l \subseteq Templates /\ l \in [DOMAIN l -> WorkflowMatch]
  /\ Lag \in BOOLEAN

NoSHA == 0
SHAs == 1 .. MaxSHA

(* pr: spec.prNumber # 0; last: the terrakojo.io/last-sha annotation. *)
Branch == [present : BOOLEAN, deleting : BOOLEAN, finalizer : BOOLEAN,
           pr : BOOLEAN, sha : SHAs, last : SHAs \cup {NoSHA}]

(* done: its phase is terminal; ended: it has been, once or more (history). *)
Workflow == [id : 1 .. MaxWorkflows, sha : SHAs, target : Target,
             done : BOOLEAN, ended : BOOLEAN, dying : BOOLEAN]

(* A template is to run for a file. *)
Call == [template : Templates, match : WorkflowMatch, file : Files]

VARIABLES
  (* the subject of this Branch *)
  isDefault,   \* it stands for a commit of the default branch
  changed,     \* changed[s]: the files commit s changes
  (* API server *)
  br,          \* the Branch
  workflows,   \* the Workflows it controls
  created,     \* Workflows created so far
  (* the controller manager *)
  cachedBr,    \* the Branch as the cache holds it
  freshBr,     \* cachedBr carries the current resourceVersion
  cachedWfs,   \* its Workflows as the cache holds them
  repository,  \* the cache holds its Repository
  queued,      \* the Branch is in the work queue
  (* the reconcile in progress *)
  pc,          \* its next call, "idle" between two reconciles
  copy,        \* the Branch it read
  held,        \* copy carries the current resourceVersion
  todo,        \* targets that still get a Workflow
  (* history *)
  calls        \* what the last fan-out was for

subject == <<isDefault, changed, calls>>
vars == <<isDefault, changed, br, workflows, created, cachedBr, freshBr, cachedWfs,
          repository, queued, pc, copy, held, todo, calls>>

Steps == {"idle", "finalizer", "repository", "list", "replace", "files",
          "create", "mark", "marknone", "status", "delete", "sweep", "wait",
          "unfinalize", "error"}

NoBranch == [present |-> FALSE, deleting |-> FALSE, finalizer |-> FALSE,
             pr |-> FALSE, sha |-> 1, last |-> NoSHA]
-----------------------------------------------------------------------------
(* A stored object moves the resourceVersion, and its watch event enqueues *)
(* the Branch.                                                             *)
Store(o) ==
  /\ br' = o
  /\ IF Lag THEN freshBr' = FALSE /\ UNCHANGED <<cachedBr, queued>>
            ELSE cachedBr' = o /\ queued' = TRUE /\ UNCHANGED freshBr

SetWorkflows(ws) ==
  /\ workflows' = ws
  /\ IF Lag THEN UNCHANGED <<cachedWfs, queued>>
            ELSE cachedWfs' = ws /\ queued' = TRUE

Goto(step) == pc' = step

Return ==
  Goto("idle") /\ copy' = NoBranch /\ held' = FALSE /\ todo' = {}

branchObject == <<br, cachedBr, freshBr>>
children == <<workflows, created, cachedWfs>>
outside == <<isDefault, changed, br, workflows, created, cachedBr, freshBr, cachedWfs,
             repository>>
world == <<outside, calls>>

(* An update of the copy: refused with a conflict unless held. *)
Write(o) == held /\ Store(o)
-----------------------------------------------------------------------------
(* Reconcile *)

Begin ==
  /\ pc = "idle" /\ queued /\ cachedBr.present
  /\ cachedBr.deleting => cachedBr.finalizer
  /\ queued' = FALSE
  /\ copy' = cachedBr /\ held' = freshBr
  /\ Goto(CASE cachedBr.deleting -> "sweep"
            [] ~cachedBr.deleting /\ ~cachedBr.finalizer -> "finalizer"
            [] OTHER -> "repository")
  /\ UNCHANGED <<world, todo>>

(* Nothing to do for a Branch that is gone. *)
Ignore ==
  /\ pc = "idle" /\ queued
  /\ ~cachedBr.present \/ (cachedBr.deleting /\ ~cachedBr.finalizer)
  /\ queued' = FALSE
  /\ UNCHANGED <<world, pc, copy, held, todo>>

AddFinalizer ==
  /\ pc = "finalizer"
  /\ Write([copy EXCEPT !.finalizer = TRUE])
  /\ Return
  /\ UNCHANGED <<subject, children, repository>>

(* getRepositoryForBranch; without a Repository the Branch is deleted. *)
GetRepository ==
  /\ pc = "repository"
  /\ Goto(IF repository THEN "list" ELSE "delete")
  /\ UNCHANGED <<world, queued, copy, held, todo>>

(* Mutant of AllWorkflowsCompleted: one completed Workflow will do. *)
SomeWorkflowCompleted(ws) == \E w \in ws : w.done

AllWorkflowsCompleted(ws) == ws # {} /\ \A w \in ws : w.done

(* Mutant of ListWorkflows: a new SHA leaves the Workflows of the old one. *)
ListWorkflowsKeepOld ==
  /\ pc = "list"
  /\ CASE copy.last = copy.sha
            /\ isDefault /\ (cachedWfs = {} \/ AllWorkflowsCompleted(cachedWfs))
            -> Goto("delete") /\ UNCHANGED <<copy, held, todo>>
       [] copy.last = copy.sha
            /\ ~(isDefault /\ (cachedWfs = {} \/ AllWorkflowsCompleted(cachedWfs)))
            -> Return
       [] OTHER -> Goto("files") /\ UNCHANGED <<copy, held, todo>>
  /\ UNCHANGED <<world, queued>>

(* listWorkflowsForBranch.  A SHA that was fanned out is left alone, until *)
(* a default-branch Branch has no Workflow, or none left to complete.      *)
ListWorkflows ==
  /\ pc = "list"
  /\ CASE copy.last = copy.sha
            /\ isDefault /\ (cachedWfs = {} \/ AllWorkflowsCompleted(cachedWfs))
            -> Goto("delete") /\ UNCHANGED <<copy, held, todo>>
       [] copy.last = copy.sha
            /\ ~(isDefault /\ (cachedWfs = {} \/ AllWorkflowsCompleted(cachedWfs)))
            -> Return
       [] copy.last = NoSHA -> Goto("files") /\ UNCHANGED <<copy, held, todo>>
       [] OTHER -> Goto("replace") /\ UNCHANGED <<copy, held, todo>>
  /\ UNCHANGED <<world, queued>>

Marked(W) == {[w EXCEPT !.dying = w.dying \/ w.id \in W] : w \in workflows}
Ids(ws) == {w.id : w \in ws}

(* deleteWorkflowsForBranch: every Workflow the cache lists is deleted; *)
DeleteWorkflows ==
  /\ pc \in {"replace", "sweep"}
  /\ SetWorkflows(Marked(Ids(cachedWfs)))
  /\ Goto(IF pc = "replace" THEN "files" ELSE "wait")
  /\ UNCHANGED <<subject, branchObject, created, repository, copy, held, todo>>

(* a failed delete ends the reconcile before the others. *)
DeleteSomeWorkflows ==
  /\ pc \in {"replace", "sweep"}
  /\ \E W \in SUBSET Ids(cachedWfs) :
       W # Ids(cachedWfs) /\ SetWorkflows(Marked(W))
  /\ Goto("error")
  /\ UNCHANGED <<subject, branchObject, created, repository, copy, held, todo>>

(* A pull request is asked for by number: its present head answers, where  *)
(* a push since b.sha may have added files or undone what b.sha changes.   *)
(* Anything else is asked for by SHA.                                      *)
ChangedFiles(b) == IF b.pr THEN Pulls ELSE {changed[b.sha]}

(* The files that templates are to run for. *)
Calls(templates, files) ==
  {c \in [template : DOMAIN templates, match : {templates[t] : t \in DOMAIN templates},
          file : files] :
     c.match = templates[c.template] /\ CallsFor(c.match, c.file)}

(* The templates are listed after the files, as they are at that moment;   *)
(* without a group, and without a file, there is nothing to run.           *)
MatchChangedFiles ==
  /\ pc = "files"
  /\ \E files \in ChangedFiles(copy), templates \in TemplateLists :
       LET groups == MatchTemplates(templates, files) IN
       /\ IF DOMAIN groups = {}
          THEN Goto(IF isDefault THEN "delete" ELSE "marknone") /\ UNCHANGED todo
          ELSE Goto("create") /\ todo' = FanOut(groups)
       /\ calls' = Calls(templates, files)
  /\ UNCHANGED <<outside, queued, copy, held>>

(* A failed template list is recorded in a condition before the error. *)
TemplateListFails ==
  /\ pc = "files"
  /\ \/ held /\ Store(copy)
     \/ UNCHANGED <<branchObject, queued>>
  /\ Goto("error") /\ held' = FALSE
  /\ UNCHANGED <<subject, children, repository, copy, todo>>

(* Mutant of NewWorkflow: the identity of its predecessor. *)
NewWorkflowSameName(t) ==
  [id |-> created, sha |-> copy.sha, target |-> t,
   done |-> FALSE, ended |-> FALSE, dying |-> FALSE]

NewWorkflow(t) ==
  [id |-> created + 1, sha |-> copy.sha, target |-> t,
   done |-> FALSE, ended |-> FALSE, dying |-> FALSE]

(* Mutant of CreateWorkflow: an error is logged and the next target taken. *)
CreateWorkflowLeniently ==
  /\ pc = "create" /\ created < MaxWorkflows
  /\ \E t \in todo :
       /\ \/ SetWorkflows(workflows \cup {NewWorkflow(t)})
          \/ UNCHANGED <<workflows, cachedWfs, queued>>
       /\ todo' = todo \ {t}
  /\ created' = created + 1
  /\ UNCHANGED <<subject, branchObject, repository, pc, copy, held>>

(* createWorkflowForBranch, template by template, path by path; the name is *)
(* generated, so that nothing of an earlier attempt is found again.         *)
CreateWorkflow ==
  /\ pc = "create" /\ created < MaxWorkflows
  /\ \E t \in todo :
       /\ SetWorkflows(workflows \cup {NewWorkflow(t)})
       /\ todo' = todo \ {t}
  /\ created' = created + 1
  /\ UNCHANGED <<subject, branchObject, repository, pc, copy, held>>

(* The last-sha annotation follows the last Workflow, *)
MarkSHA ==
  /\ pc = "create" /\ todo = {}
  /\ Write([copy EXCEPT !.last = copy.sha])
  /\ copy' = [copy EXCEPT !.last = copy.sha]
  /\ Goto("status")
  /\ UNCHANGED <<subject, children, repository, held, todo>>

(* and the status follows the annotation.  Nothing reads it back. *)
UpdateStatus ==
  /\ pc = "status"
  /\ Write(copy)
  /\ Return
  /\ UNCHANGED <<subject, children, repository>>

(* markBranchSHA, when there is nothing to run. *)
MarkBranchSHA ==
  /\ pc = "marknone"
  /\ Write([copy EXCEPT !.last = copy.sha])
  /\ Return
  /\ UNCHANGED <<subject, children, repository>>

(* r.Delete compares no resourceVersion, and accepts NotFound. *)
DeleteBranch ==
  /\ pc = "delete"
  /\ IF br.present THEN Store([br EXCEPT !.deleting = TRUE])
                   ELSE UNCHANGED <<branchObject, queued>>
  /\ Return
  /\ UNCHANGED <<subject, children, repository>>

(* Mutant of WaitForWorkflows: issuing the deletes is taken for their end. *)
NoWaitForWorkflows ==
  /\ pc = "wait" /\ Goto("unfinalize")
  /\ UNCHANGED <<world, queued, copy, held, todo>>

(* A second list must be empty; otherwise it is tried again in 5 s. *)
WaitForWorkflows ==
  /\ pc = "wait"
  /\ IF cachedWfs = {}
     THEN Goto("unfinalize") /\ UNCHANGED <<queued, copy, held, todo>>
     ELSE queued' = TRUE /\ Return
  /\ UNCHANGED world

RemoveFinalizer ==
  /\ pc = "unfinalize"
  /\ Write([copy EXCEPT !.finalizer = FALSE, !.present = FALSE])
  /\ Return
  /\ UNCHANGED <<subject, children, repository>>

(* An update with an old resourceVersion is refused. *)
Conflict ==
  /\ ~held
  /\ \/ pc \in {"finalizer", "marknone", "status", "unfinalize"}
     \/ pc = "create" /\ todo = {}
  /\ Goto("error")
  /\ UNCHANGED <<world, queued, copy, held, todo>>

(* Any call fails, or the process stops and starts again. *)
Fault ==
  /\ pc \notin {"idle", "error"}
  /\ Goto("error")
  /\ UNCHANGED <<world, queued, copy, held, todo>>

(* Mutant of ReturnError: the error is logged and nil returned. *)
SwallowError ==
  /\ pc = "error" /\ Return
  /\ UNCHANGED <<world, queued>>

(* A reconcile that returns an error is queued again. *)
ReturnError ==
  /\ pc = "error"
  /\ queued' = TRUE
  /\ Return
  /\ UNCHANGED world
-----------------------------------------------------------------------------
reconcile == <<pc, copy, todo>>

(* The spec.sha of a ref's Branch is edited in place, to a later commit,   *)
(* which this controller handles although RepositoryReconciler replaces the *)
(* object instead; ...                                                      *)
MoveSHA ==
  /\ br.present /\ ~isDefault
  /\ \E s \in SHAs : br.sha < s /\ Store([br EXCEPT !.sha = s])
  /\ held' = FALSE
  /\ UNCHANGED <<subject, children, repository, reconcile>>

(* RepositoryReconciler stores another PR number (updateBranchResource) when *)
(* a pull request is opened or closed, *)
UpdateBranchResource ==
  /\ br.present /\ ~isDefault /\ freshBr
  /\ Store([br EXCEPT !.pr = ~@])
  /\ held' = FALSE
  /\ UNCHANGED <<subject, children, repository, reconcile>>

(* ... or prunes it; an operator or the garbage collector may, too. *)
PruneBranch ==
  /\ br.present /\ ~br.deleting
  /\ Store([br EXCEPT !.deleting = TRUE, !.present = br.finalizer])
  /\ held' = FALSE
  /\ UNCHANGED <<subject, children, repository, reconcile>>

RepositoryGone ==
  /\ repository /\ repository' = FALSE
  /\ UNCHANGED <<subject, branchObject, children, queued, reconcile, held>>

(* WorkflowReconciler: a phase becomes terminal; ... *)
WorkflowCompletes(w) ==
  /\ w \in workflows /\ ~w.done
  /\ SetWorkflows((workflows \ {w}) \cup {[w EXCEPT !.done = TRUE, !.ended = TRUE]})
  /\ UNCHANGED <<subject, branchObject, created, repository, reconcile, held>>

(* a Job that is gone, by its TTL say, is run again and the phase goes back; *)
WorkflowReruns(w) ==
  /\ w \in workflows /\ w.done /\ ~w.dying
  /\ SetWorkflows((workflows \ {w}) \cup {[w EXCEPT !.done = FALSE]})
  /\ UNCHANGED <<subject, branchObject, created, repository, reconcile, held>>

(* a finalizer is removed. *)
WorkflowGone(w) ==
  /\ w \in workflows /\ (w.dying \/ ~br.present)
  /\ SetWorkflows(workflows \ {w})
  /\ UNCHANGED <<subject, branchObject, created, repository, reconcile, held>>

(* The informers catch up. *)
CacheBranch ==
  /\ ~freshBr
  /\ cachedBr' = br /\ freshBr' = TRUE /\ queued' = TRUE
  /\ UNCHANGED <<subject, br, children, repository, reconcile, held>>

(* Mutant of CacheWorkflows: the Workflows it owns are not watched. *)
CacheWorkflowsUnwatched ==
  /\ cachedWfs # workflows
  /\ cachedWfs' = workflows
  /\ UNCHANGED <<subject, branchObject, workflows, created, repository,
                 queued, reconcile, held>>

CacheWorkflows ==
  /\ cachedWfs # workflows
  /\ cachedWfs' = workflows /\ queued' = TRUE
  /\ UNCHANGED <<subject, branchObject, workflows, created, repository,
                 reconcile, held>>
-----------------------------------------------------------------------------
Init ==
  /\ isDefault \in BOOLEAN /\ changed \in [SHAs -> Changes]
  /\ \E pr \in BOOLEAN :
       /\ pr => ~isDefault
       /\ br = [NoBranch EXCEPT !.present = TRUE, !.pr = pr]
  /\ workflows = {} /\ created = 0
  /\ cachedBr = br /\ freshBr = TRUE /\ cachedWfs = {}
  /\ repository = TRUE /\ queued = TRUE
  /\ pc = "idle" /\ copy = NoBranch /\ held = FALSE /\ todo = {}
  /\ calls = {}

Reconcile ==
  \/ Begin \/ Ignore \/ AddFinalizer \/ GetRepository \/ ListWorkflows
  \/ DeleteWorkflows \/ MatchChangedFiles \/ CreateWorkflow \/ MarkSHA
  \/ UpdateStatus \/ MarkBranchSHA \/ DeleteBranch \/ WaitForWorkflows
  \/ RemoveFinalizer \/ Conflict \/ ReturnError

Failure == DeleteSomeWorkflows \/ TemplateListFails \/ Fault

Informers == CacheBranch \/ CacheWorkflows

WorkflowsEnd ==
  \E w \in workflows : WorkflowCompletes(w) \/ WorkflowGone(w)

WorkflowsAgain == \E w \in workflows : WorkflowReruns(w)

Next ==
  \/ Reconcile \/ Failure \/ Informers
  \/ MoveSHA \/ UpdateBranchResource \/ PruneBranch \/ RepositoryGone
  \/ WorkflowsEnd \/ WorkflowsAgain

Spec == Init /\ [][Next]_vars
-----------------------------------------------------------------------------
(* Every variable has its type. *)
TypeOK ==
  /\ isDefault \in BOOLEAN /\ changed \in [SHAs -> Changes]
  /\ br \in Branch /\ cachedBr \in Branch /\ copy \in Branch
  /\ workflows \subseteq Workflow /\ cachedWfs \subseteq Workflow
  /\ created \in 0 .. MaxWorkflows
  /\ freshBr \in BOOLEAN /\ repository \in BOOLEAN /\ queued \in BOOLEAN
  /\ pc \in Steps /\ held \in BOOLEAN /\ todo \subseteq Target
  /\ calls \subseteq Call

(* The call c has a Workflow, one of commit sha that stays. *)
Served(c, sha) ==
  \E w \in workflows :
    /\ w.sha = sha /\ ~w.dying
    /\ w.target.template = c.template /\ LooksAfter(c.match, w.target, c.file)

(* A Branch that carries its SHA in the annotation has Workflows for all    *)
(* the files GitHub answered with for the pull request or the commit, by    *)
(* the templates of that moment: a fan-out that failed halfway, that was    *)
(* repeated with other templates or files, or that the SHA moved away from, *)
(* is not taken for a complete one (lines 198-303).                         *)
FannedOut ==
  br.present /\ ~br.deleting /\ br.last = br.sha =>
    \A c \in calls : Served(c, br.sha)

(* A default-branch Branch whose SHA was fanned out is not deleted before   *)
(* each of its Workflows has come to an end, once at least, whatever        *)
(* happens between the list and the deletion (lines 128-169; overview.md:   *)
(* "when all owned Workflows are terminal (Succeeded/Failed/Cancelled),     *)
(* deletes the Branch").  A Branch not fanned out yet has no such promise:  *)
(* without a matching template it goes with whatever an attempt that failed *)
(* left behind (lines 243-251).                                             *)
DeletedWhenDone ==
  [][pc = "delete" /\ repository /\ br.last = br.sha
       /\ br.present /\ ~br.deleting /\ br'.deleting =>
         \A w \in workflows : w.ended]_vars

(* A SHA that replaces one that was marked leaves no Workflow of an older   *)
(* SHA going on (branch-controller.md: "SHA change causes full replacement  *)
(* of branch-owned workflows").                                             *)
MarkedRunsReplaced ==
  [][br'.last # br.last /\ br.last # NoSHA =>
       \A w \in workflows : w.sha = br'.last \/ w.dying]_vars

(* A Branch outlives its Workflows, those included that a fan-out creates   *)
(* after the deletion (lines 77-101).                                       *)
BranchOutlivesWorkflows == ~br.present => workflows = {}

(* No wake-up is lost: when the queue is empty and the caches are current,  *)
(* the SHA of a Branch has been dealt with, one of the default branch has   *)
(* something left to run, and no deletion is under way (lines 77-101).      *)
Quiet == pc = "idle" /\ ~queued /\ freshBr /\ cachedWfs = workflows

NothingForgotten ==
  Quiet /\ br.present =>
    /\ ~br.deleting /\ br.last = br.sha
    /\ isDefault => \E w \in workflows : ~w.done
=============================================================================
