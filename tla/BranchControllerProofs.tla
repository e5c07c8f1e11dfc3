------------------------ MODULE BranchControllerProofs ------------------------
(***************************************************************************)
(* Proofs about BranchController, for any templates, files and bounds.     *)
(***************************************************************************)
EXTENDS BranchController, TemplateMatchingProofs

(* Targets are made of a template, a folder or file, and a unit.            *)
LEMMA FanOutType ==
  ASSUME NEW ts, DOMAIN ts \subseteq Templates, NEW fs \in SUBSET Files
  PROVE  FanOut(MatchTemplates(ts, fs)) \subseteq Target
<1> DEFINE groups == MatchTemplates(ts, fs)
<1> SUFFICES ASSUME NEW x \in FanOut(groups) PROVE x \in Target
  OBVIOUS
<1>1. PICK t \in DOMAIN groups :
        \E target \in WorkflowTargets(groups[t].match.executionUnit, groups[t].files) :
          x = [template |-> t, path |-> target.path,
               executionUnit |-> target.executionUnit]
  BY DEF FanOut
<1>2. PICK target \in WorkflowTargets(groups[t].match.executionUnit, groups[t].files) :
        x = [template |-> t, path |-> target.path,
             executionUnit |-> target.executionUnit]
  BY <1>1
<1>3. t \in Templates /\ groups[t].files \subseteq Files
  BY DEF MatchTemplates, MatchTemplate
<1> DEFINE unit == NormalizeExecutionUnit(groups[t].match.executionUnit)
<1>4. unit \in {"folder", "repository", "file"}
  BY DEF NormalizeExecutionUnit
<1>5. PICK p \in WorkflowPaths(unit, groups[t].files) :
        target = [path |-> p, executionUnit |-> unit]
  BY <1>2 DEF WorkflowTargets
<1> HIDE DEF unit
<1>6. p \in Paths
  BY <1>3, <1>4, <1>5 DEF WorkflowPaths, SplitFolderLevel, Paths
<1> QED BY <1>2, <1>3, <1>4, <1>5, <1>6 DEF Target, Units

(* The files that are asked for are files. *)
LEMMA ChangedFilesType ==
  ASSUME TypeOK, NEW b \in Branch, NEW fs \in ChangedFiles(b) PROVE fs \in SUBSET Files
BY ConstantsAssumption DEF TypeOK, ChangedFiles, Branch

(* What a template is to run for is of its type, *)
LEMMA CallsType ==
  ASSUME NEW ts \in TemplateLists, NEW fs \in SUBSET Files
  PROVE  Calls(ts, fs) \subseteq Call
<1>1. DOMAIN ts \subseteq Templates /\ \A t \in DOMAIN ts : ts[t] \in WorkflowMatch
  BY ConstantsAssumption
<1> QED BY <1>1 DEF Calls, Call

(* and has a target among those of the fan-out. *)
LEMMA CallsHaveTargets ==
  ASSUME NEW ts, NEW fs, NEW c \in Calls(ts, fs)
  PROVE  \E x \in FanOut(MatchTemplates(ts, fs)) :
           x.template = c.template /\ LooksAfter(c.match, x, c.file)
<1>1. /\ c.template \in DOMAIN ts /\ c.file \in fs
      /\ c.match = ts[c.template] /\ CallsFor(ts[c.template], c.file)
  BY DEF Calls
<1> QED BY <1>1, FanOutCovers

(* The variables keep their types. *)
LEMMA TypeStep == TypeOK /\ [Next]_vars => TypeOK'
<1> SUFFICES ASSUME TypeOK, [Next]_vars PROVE TypeOK'
  OBVIOUS
<1> USE ConstantsAssumption
<1> USE DEF TypeOK, Steps, Goto
<1>b. NoBranch \in Branch
  BY DEF NoBranch, Branch, SHAs
<1>s. ASSUME NEW o \in Branch, Store(o)
      PROVE  br' \in Branch /\ cachedBr' \in Branch /\ freshBr' \in BOOLEAN
             /\ queued' \in BOOLEAN
  BY <1>s DEF Store
<1>w. ASSUME NEW ws \in SUBSET Workflow, SetWorkflows(ws)
      PROVE  workflows' \subseteq Workflow /\ cachedWfs' \subseteq Workflow
             /\ queued' \in BOOLEAN
  BY <1>w DEF SetWorkflows
<1>r. ASSUME Return
      PROVE  pc' \in Steps /\ copy' \in Branch /\ held' \in BOOLEAN /\ todo' \subseteq Target
  BY <1>r, <1>b DEF Return
<1>1. CASE Begin
  BY <1>1 DEF Begin, world, outside
<1>2. CASE Ignore
  BY <1>2 DEF Ignore, world, outside
<1>3. CASE AddFinalizer
  <2>1. [copy EXCEPT !.finalizer = TRUE] \in Branch
    BY DEF Branch
  <2> QED BY <1>3, <1>s, <1>r, <2>1 DEF AddFinalizer, Write, subject, children
<1>4. CASE GetRepository
  BY <1>4 DEF GetRepository, world, outside
<1>5. CASE ListWorkflows
  <2>1. pc' \in Steps /\ copy' \in Branch /\ held' \in BOOLEAN /\ todo' \subseteq Target
    <3>1. CASE Return
      BY <3>1, <1>r
    <3>2. CASE ~Return
      BY <1>5, <3>2 DEF ListWorkflows
    <3> QED BY <3>1, <3>2
  <2> QED BY <1>5, <2>1 DEF ListWorkflows, world, outside
<1>m. \A W : Marked(W) \subseteq Workflow
  BY DEF Marked, Workflow
<1>6. CASE DeleteWorkflows
  BY <1>6, <1>w, <1>m DEF DeleteWorkflows, subject, branchObject
<1>7. CASE DeleteSomeWorkflows
  BY <1>7, <1>w, <1>m DEF DeleteSomeWorkflows, subject, branchObject
<1>8. CASE MatchChangedFiles
  <2>1. PICK fs \in ChangedFiles(copy), ts \in TemplateLists :
          /\ \/ todo' = todo /\ pc' \in Steps
             \/ todo' = FanOut(MatchTemplates(ts, fs)) /\ pc' \in Steps
          /\ calls' = Calls(ts, fs)
    BY <1>8 DEF MatchChangedFiles
  <2>2. fs \in SUBSET Files /\ DOMAIN ts \subseteq Templates
    BY ChangedFilesType, ConstantsAssumption
  <2>3. todo' \subseteq Target /\ calls' \subseteq Call
    BY <2>1, <2>2, FanOutType, CallsType
  <2> QED BY <1>8, <2>1, <2>3 DEF MatchChangedFiles, outside
<1>9. CASE TemplateListFails
  BY <1>9, <1>s DEF TemplateListFails, subject, children, branchObject
<1>10. CASE CreateWorkflow
  <2>1. PICK t \in todo : SetWorkflows(workflows \cup {NewWorkflow(t)}) /\ todo' = todo \ {t}
    BY <1>10 DEF CreateWorkflow
  <2>2. NewWorkflow(t) \in Workflow /\ created + 1 \in 0 .. MaxWorkflows
    BY <1>10 DEF CreateWorkflow, NewWorkflow, Workflow, Branch
  <2> QED BY <1>10, <2>1, <2>2, <1>w DEF CreateWorkflow, subject, branchObject
<1>l. [copy EXCEPT !.last = copy.sha] \in Branch
  BY DEF Branch
<1>11. CASE MarkSHA
  BY <1>11, <1>l, <1>s DEF MarkSHA, Write, subject, children
<1>12. CASE UpdateStatus
  BY <1>12, <1>s, <1>r DEF UpdateStatus, Write, subject, children
<1>13. CASE MarkBranchSHA
  BY <1>13, <1>l, <1>s, <1>r DEF MarkBranchSHA, Write, subject, children
<1>14. CASE DeleteBranch
  <2>1. [br EXCEPT !.deleting = TRUE] \in Branch
    BY DEF Branch
  <2> QED BY <1>14, <2>1, <1>s, <1>r DEF DeleteBranch, subject, children, branchObject
<1>15. CASE WaitForWorkflows
  <2>1. CASE cachedWfs = {}
    BY <1>15, <2>1 DEF WaitForWorkflows, world, outside
  <2>2. CASE cachedWfs # {}
    BY <1>15, <2>2, <1>r DEF WaitForWorkflows, world, outside
  <2> QED BY <2>1, <2>2
<1>16. CASE RemoveFinalizer
  <2>1. [copy EXCEPT !.finalizer = FALSE, !.present = FALSE] \in Branch
    BY DEF Branch
  <2> QED BY <1>16, <2>1, <1>s, <1>r DEF RemoveFinalizer, Write, subject, children
<1>17. CASE Conflict \/ Fault
  BY <1>17 DEF Conflict, Fault, world, outside
<1>18. CASE ReturnError
  BY <1>18, <1>r DEF ReturnError, world, outside
<1>19. ASSUME NEW w \in workflows, WorkflowReruns(w) PROVE TypeOK'
  <2>1. (workflows \ {w}) \cup {[w EXCEPT !.done = FALSE]} \subseteq Workflow
    BY DEF Workflow
  <2> QED BY <1>19, <2>1, <1>w DEF WorkflowReruns, subject, branchObject, reconcile
<1>20. CASE MoveSHA
  <2>1. PICK n \in SHAs : Store([br EXCEPT !.sha = n])
    BY <1>20 DEF MoveSHA
  <2>2. [br EXCEPT !.sha = n] \in Branch
    BY DEF Branch
  <2> QED BY <1>20, <2>1, <2>2, <1>s DEF MoveSHA, subject, children, reconcile
<1>21. CASE UpdateBranchResource
  <2>1. [br EXCEPT !.pr = ~@] \in Branch
    BY DEF Branch
  <2> QED BY <1>21, <2>1, <1>s DEF UpdateBranchResource, subject, children, reconcile
<1>22. CASE PruneBranch
  <2>1. [br EXCEPT !.deleting = TRUE, !.present = br.finalizer] \in Branch
    BY DEF Branch
  <2> QED BY <1>22, <2>1, <1>s DEF PruneBranch, subject, children, reconcile
<1>23. CASE RepositoryGone
  BY <1>23 DEF RepositoryGone, subject, branchObject, children, reconcile
<1>24. ASSUME NEW w \in workflows, WorkflowCompletes(w) \/ WorkflowGone(w) PROVE TypeOK'
  <2>1. (workflows \ {w}) \cup {[w EXCEPT !.done = TRUE, !.ended = TRUE]} \subseteq Workflow
    BY DEF Workflow
  <2> QED BY <1>24, <2>1, <1>w DEF WorkflowCompletes, WorkflowGone, subject,
         branchObject, reconcile
<1>25. CASE CacheBranch \/ CacheWorkflows
  BY <1>25 DEF CacheBranch, CacheWorkflows, subject, children, branchObject, reconcile
<1>26. CASE UNCHANGED vars
  BY <1>26 DEF vars
<1> QED
  BY <1>1, <1>2, <1>3, <1>4, <1>5, <1>6, <1>7, <1>8, <1>9, <1>10, <1>11, <1>12, <1>13,
     <1>14, <1>15, <1>16, <1>17, <1>18, <1>19, <1>20, <1>21, <1>22, <1>23, <1>24,
     <1>25, <1>26 DEF Next, Reconcile, Failure, Informers, WorkflowsEnd, WorkflowsAgain

(* The first states have the types. *)
LEMMA InitType == Init => TypeOK
<1> SUFFICES ASSUME Init PROVE TypeOK
  OBVIOUS
<1>1. NoBranch \in Branch
  BY ConstantsAssumption DEF NoBranch, Branch, SHAs
<1>2. PICK pr \in BOOLEAN : br = [NoBranch EXCEPT !.present = TRUE, !.pr = pr]
  BY DEF Init
<1>3. br \in Branch
  BY <1>1, <1>2 DEF Branch
<1>4. created \in 0 .. MaxWorkflows
  BY ConstantsAssumption DEF Init, SHAs
<1> QED BY <1>1, <1>3, <1>4 DEF Init, TypeOK, Steps

(* Every variable has its type, for every list of templates and every bound. *)
THEOREM TypeCorrect == Spec => []TypeOK
<1> QED BY InitType, TypeStep, PTL DEF Spec
-----------------------------------------------------------------------------
(* What else holds when the informers do not lag. *)
Running == pc \notin {"idle", "error"}

CacheInv == freshBr /\ cachedBr = br /\ cachedWfs = workflows

(* The copy of a reconcile is the stored Branch, or an older state of it. *)
CopyInv ==
  /\ held => copy = br
  /\ Running => /\ copy.present /\ copy.last = br.last
                /\ copy.last <= copy.sha /\ copy.sha <= br.sha
  /\ br.last <= br.sha
  /\ pc = "sweep" => br.deleting
  /\ pc \in {"replace", "files"} => copy.last # copy.sha
  /\ pc = "replace" => copy.last # NoSHA

(* The finalizer is there before the first Workflow, and goes after the last. *)
FinalizerInv ==
  /\ Running /\ pc # "finalizer" => br.finalizer
  /\ br.finalizer => br.present
  /\ ~br.finalizer => workflows = {}
  /\ pc = "unfinalize" => workflows = {}

(* The Workflows of an older SHA are on their way out before a new one is   *)
(* created.                                                                 *)
ReplaceInv ==
  pc \in {"files", "create", "marknone"} /\ copy.last # NoSHA =>
    \A w \in workflows : w.sha = copy.sha \/ w.dying

(* A call whose Workflow is still to be created. *)
Waits(c) == \E x \in todo : x.template = c.template /\ LooksAfter(c.match, x, c.file)

(* During a fan-out every call has a Workflow, or a target that still waits *)
(* for one.                                                                 *)
CoverInv ==
  pc \in {"create", "marknone"} =>
    \A c \in calls : Served(c, copy.sha) \/ (pc = "create" /\ Waits(c))

(* A Branch that is to go because of its Workflows has none that never      *)
(* ended.                                                                   *)
EndInv ==
  /\ \A w \in workflows : w.done => w.ended
  /\ pc = "delete" /\ repository /\ copy.last = copy.sha =>
       \A w \in workflows : w.ended

IInv ==
  TypeOK /\ CacheInv /\ CopyInv /\ FinalizerInv /\ ReplaceInv /\ CoverInv
    /\ EndInv /\ FannedOut
-----------------------------------------------------------------------------
(* The caches follow the API server. *)
LEMMA CacheStep ==
  ASSUME ~Lag, CacheInv, [Next]_vars PROVE CacheInv'
<1> USE DEF CacheInv
<1>s. ASSUME NEW o, Store(o) PROVE cachedBr' = br' /\ freshBr' = freshBr
  BY <1>s DEF Store
<1>w. ASSUME NEW ws, SetWorkflows(ws) PROVE cachedWfs' = workflows'
  BY <1>w DEF SetWorkflows
<1>1. CASE UNCHANGED outside
  BY <1>1 DEF outside
<1>2. CASE AddFinalizer \/ TemplateListFails \/ MarkSHA \/ UpdateStatus
           \/ MarkBranchSHA \/ DeleteBranch \/ RemoveFinalizer
  BY <1>2, <1>s DEF AddFinalizer, TemplateListFails, MarkSHA, UpdateStatus, MarkBranchSHA,
     DeleteBranch, RemoveFinalizer, Write, children, branchObject
<1>3. CASE MoveSHA \/ UpdateBranchResource \/ PruneBranch
  BY <1>3, <1>s DEF MoveSHA, UpdateBranchResource, PruneBranch, children
<1>4. CASE DeleteWorkflows \/ DeleteSomeWorkflows \/ CreateWorkflow
  BY <1>4, <1>w DEF DeleteWorkflows, DeleteSomeWorkflows, CreateWorkflow, branchObject
<1>5. CASE WorkflowsEnd \/ WorkflowsAgain
  BY <1>5, <1>w DEF WorkflowsEnd, WorkflowsAgain, WorkflowCompletes, WorkflowReruns,
     WorkflowGone, branchObject
<1>6. CASE RepositoryGone
  BY <1>6 DEF RepositoryGone, branchObject, children
<1>7. CASE Informers
  BY <1>7 DEF Informers, CacheBranch, CacheWorkflows
<1>8. CASE Begin \/ Ignore \/ GetRepository \/ ListWorkflows \/ MatchChangedFiles
           \/ WaitForWorkflows \/ Conflict \/ ReturnError \/ Fault
  BY <1>1, <1>8 DEF Begin, Ignore, GetRepository, ListWorkflows, MatchChangedFiles,
     WaitForWorkflows, Conflict, ReturnError, Fault, world
<1>9. CASE UNCHANGED vars
  BY <1>9 DEF vars
<1> QED
  BY <1>2, <1>3, <1>4, <1>5, <1>6, <1>7, <1>8, <1>9 DEF Next, Reconcile, Failure

(* The copy stays the stored Branch, or an older state of it. *)
LEMMA CopyStep ==
  ASSUME ~Lag, TypeOK, CacheInv, CopyInv, [Next]_vars PROVE CopyInv'
<1> USE DEF CopyInv, CacheInv, Running, Goto
<1>t. /\ br \in Branch /\ copy \in Branch
      /\ br.sha \in Nat /\ br.last \in Nat /\ copy.sha \in Nat /\ copy.last \in Nat
  BY ConstantsAssumption DEF TypeOK, Branch, SHAs, NoSHA
<1>r. ASSUME Return, br'.last <= br'.sha PROVE CopyInv'
  BY <1>r DEF Return
<1>e. ASSUME pc' = "error", UNCHANGED <<br, copy, held>> PROVE CopyInv'
  BY <1>e
<1>1. CASE Begin
  BY <1>1, <1>t DEF Begin, world, outside
<1>2. CASE Ignore
  BY <1>2 DEF Ignore, world, outside
<1>3. CASE AddFinalizer
  BY <1>3, <1>r DEF AddFinalizer, Write, Store, Branch, TypeOK, subject
<1>4. CASE GetRepository
  BY <1>4 DEF GetRepository, world, outside
<1>5. CASE ListWorkflows
  <2>1. CASE Return
    BY <1>5, <2>1, <1>r DEF ListWorkflows, world, outside
  <2>2. CASE ~Return
    <3>1. copy.sha # NoSHA
      BY DEF TypeOK, Branch, SHAs, NoSHA
    <3> QED BY <1>5, <2>2, <3>1 DEF ListWorkflows, world, outside
  <2> QED BY <2>1, <2>2
<1>6. CASE DeleteWorkflows
  BY <1>6 DEF DeleteWorkflows, subject, branchObject
<1>7. CASE DeleteSomeWorkflows
  BY <1>7, <1>e DEF DeleteSomeWorkflows, subject, branchObject
<1>8. CASE MatchChangedFiles
  BY <1>8 DEF MatchChangedFiles, world, outside
<1>9. CASE TemplateListFails
  BY <1>9 DEF TemplateListFails, Store, subject, branchObject
<1>10. CASE CreateWorkflow
  BY <1>10 DEF CreateWorkflow, subject, branchObject
<1>11. CASE MarkSHA
  <2>1. br' = [copy EXCEPT !.last = copy.sha] /\ copy' = br' /\ copy = br
    BY <1>11 DEF MarkSHA, Write, Store
  <2>2. br'.last = copy.sha /\ br'.sha = copy.sha /\ br'.present = copy.present
    BY <2>1, <1>t DEF Branch
  <2> QED BY <1>11, <1>t, <2>1, <2>2 DEF MarkSHA, subject
<1>12. CASE UpdateStatus
  BY <1>12, <1>r DEF UpdateStatus, Write, Store, subject
<1>13. CASE MarkBranchSHA
  <2>1. br' = [copy EXCEPT !.last = copy.sha] /\ copy = br
    BY <1>13 DEF MarkBranchSHA, Write, Store
  <2>2. br'.last = copy.sha /\ br'.sha = copy.sha
    BY <2>1, <1>t DEF Branch
  <2> QED BY <1>13, <1>r, <1>t, <2>1, <2>2 DEF MarkBranchSHA, subject
<1>14. CASE DeleteBranch
  <2>1. br'.last = br.last /\ br'.sha = br.sha
    BY <1>14, <1>t DEF DeleteBranch, Store, branchObject, Branch
  <2> QED BY <1>14, <2>1, <1>r DEF DeleteBranch, subject
<1>15. CASE WaitForWorkflows
  <2>1. CASE cachedWfs = {}
    BY <1>15, <2>1 DEF WaitForWorkflows, world, outside
  <2>2. CASE cachedWfs # {}
    BY <1>15, <2>2, <1>r DEF WaitForWorkflows, world, outside
  <2> QED BY <2>1, <2>2
<1>16. CASE RemoveFinalizer
  <2>1. br'.last = br.last /\ br'.sha = br.sha
    BY <1>16, <1>t DEF RemoveFinalizer, Write, Store, Branch
  <2> QED BY <1>16, <2>1, <1>r DEF RemoveFinalizer, subject
<1>17. CASE Conflict \/ Fault
  BY <1>17, <1>e DEF Conflict, Fault, world, outside
<1>18. CASE ReturnError
  BY <1>18, <1>r DEF ReturnError, world, outside
<1>20. CASE MoveSHA
  <2>1. PICK n \in SHAs : br.sha < n /\ br' = [br EXCEPT !.sha = n]
    BY <1>20 DEF MoveSHA, Store
  <2>2. br'.last = br.last /\ br'.sha = n /\ br'.deleting = br.deleting /\ n \in Nat
    BY <2>1, <1>t, ConstantsAssumption DEF Branch, SHAs
  <2> QED BY <1>20, <2>1, <2>2, <1>t DEF MoveSHA, subject, reconcile
<1>21. CASE UpdateBranchResource \/ PruneBranch
  <2>1. br'.last = br.last /\ br'.sha = br.sha /\ (br.deleting => br'.deleting)
    BY <1>21, <1>t DEF UpdateBranchResource, PruneBranch, Store, Branch
  <2> QED BY <1>21, <2>1, <1>t DEF UpdateBranchResource, PruneBranch, subject, reconcile
<1>22. CASE RepositoryGone
  BY <1>22 DEF RepositoryGone, subject, branchObject, reconcile
<1>23. CASE WorkflowsEnd \/ WorkflowsAgain
  <2>1. UNCHANGED <<subject, branchObject, reconcile, held>>
    BY <1>23 DEF WorkflowsEnd, WorkflowsAgain, WorkflowCompletes, WorkflowReruns,
       WorkflowGone
  <2> QED BY <2>1 DEF subject, branchObject, reconcile
<1>24. CASE Informers
  BY <1>24 DEF Informers, CacheBranch, CacheWorkflows, subject, branchObject, reconcile
<1>25. CASE UNCHANGED vars
  BY <1>25 DEF vars
<1> QED
  BY <1>1, <1>2, <1>3, <1>4, <1>5, <1>6, <1>7, <1>8, <1>9, <1>10, <1>11, <1>12, <1>13,
     <1>14, <1>15, <1>16, <1>17, <1>18, <1>20, <1>21, <1>22, <1>23, <1>24, <1>25
     DEF Next, Reconcile, Failure

(* The finalizer is there before the first Workflow, and goes after the last. *)
LEMMA FinalizerStep ==
  ASSUME ~Lag, TypeOK, CacheInv, CopyInv, FinalizerInv, [Next]_vars PROVE FinalizerInv'
<1> USE DEF FinalizerInv, CacheInv, Running, Goto
<1>t. br \in Branch /\ copy \in Branch
  BY DEF TypeOK
<1>r. ASSUME Return, br'.finalizer => br'.present, ~br'.finalizer => workflows' = {}
      PROVE  FinalizerInv'
  BY <1>r DEF Return
<1>1. CASE Begin
  BY <1>1 DEF Begin, world, outside
<1>2. CASE Ignore
  BY <1>2 DEF Ignore, world, outside
<1>3. CASE AddFinalizer
  <2>1. br' = [copy EXCEPT !.finalizer = TRUE] /\ copy.present
    BY <1>3 DEF AddFinalizer, Write, Store, CopyInv
  <2>2. br'.finalizer /\ br'.present
    BY <2>1, <1>t DEF Branch
  <2> QED BY <1>3, <2>2, <1>r DEF AddFinalizer
<1>4. CASE GetRepository
  BY <1>4 DEF GetRepository, world, outside
<1>5. CASE ListWorkflows
  <2>1. CASE Return
    BY <1>5, <2>1, <1>r DEF ListWorkflows, world, outside
  <2>2. CASE ~Return
    BY <1>5, <2>2 DEF ListWorkflows, world, outside
  <2> QED BY <2>1, <2>2
<1>6. CASE DeleteWorkflows \/ DeleteSomeWorkflows
  BY <1>6 DEF DeleteWorkflows, DeleteSomeWorkflows, branchObject
<1>7. CASE MatchChangedFiles
  BY <1>7 DEF MatchChangedFiles, world, outside
<1>8. CASE TemplateListFails
  BY <1>8 DEF TemplateListFails, Store, branchObject, children, CopyInv
<1>9. CASE CreateWorkflow
  BY <1>9 DEF CreateWorkflow, branchObject
<1>l. held => /\ [copy EXCEPT !.last = copy.sha].finalizer = br.finalizer
              /\ [copy EXCEPT !.last = copy.sha].present = br.present
  BY <1>t DEF Branch, CopyInv
<1>10. CASE MarkSHA
  BY <1>10, <1>l DEF MarkSHA, Write, Store, children
<1>11. CASE UpdateStatus
  BY <1>11, <1>r DEF UpdateStatus, Write, Store, children, CopyInv
<1>12. CASE MarkBranchSHA
  BY <1>12, <1>l, <1>r DEF MarkBranchSHA, Write, Store, children
<1>13. CASE DeleteBranch
  <2>1. br'.present = br.present /\ br'.finalizer = br.finalizer
    BY <1>13, <1>t DEF DeleteBranch, Store, branchObject, Branch
  <2> QED BY <1>13, <2>1, <1>r DEF DeleteBranch, children
<1>14. CASE WaitForWorkflows
  <2>1. CASE cachedWfs = {}
    BY <1>14, <2>1 DEF WaitForWorkflows, world, outside
  <2>2. CASE cachedWfs # {}
    BY <1>14, <2>2, <1>r DEF WaitForWorkflows, world, outside
  <2> QED BY <2>1, <2>2
<1>15. CASE RemoveFinalizer
  <2>1. ~br'.finalizer
    BY <1>15, <1>t DEF RemoveFinalizer, Write, Store, Branch
  <2> QED BY <1>15, <2>1, <1>r DEF RemoveFinalizer, children
<1>16. CASE Conflict \/ Fault
  BY <1>16 DEF Conflict, Fault, world, outside
<1>17. CASE ReturnError
  BY <1>17, <1>r DEF ReturnError, world, outside
<1>18. CASE RepositoryGone
  BY <1>18 DEF RepositoryGone, branchObject, children, reconcile
<1>19. CASE MoveSHA \/ UpdateBranchResource \/ PruneBranch
  <2>1. br'.finalizer = br.finalizer /\ (br'.finalizer => br'.present)
    BY <1>19, <1>t DEF MoveSHA, UpdateBranchResource, PruneBranch, Store, Branch
  <2> QED BY <1>19, <2>1 DEF MoveSHA, UpdateBranchResource, PruneBranch, children, reconcile
<1>20. CASE WorkflowsEnd \/ WorkflowsAgain
  <2>1. UNCHANGED <<branchObject, reconcile, held>> /\ workflows # {}
    BY <1>20 DEF WorkflowsEnd, WorkflowsAgain, WorkflowCompletes, WorkflowReruns,
       WorkflowGone
  <2> QED BY <2>1 DEF branchObject, reconcile
<1>21. CASE Informers
  BY <1>21 DEF Informers, CacheBranch, CacheWorkflows
<1>22. CASE UNCHANGED vars
  BY <1>22 DEF vars
<1> QED
  BY <1>1, <1>2, <1>3, <1>4, <1>5, <1>6, <1>7, <1>8, <1>9, <1>10, <1>11, <1>12, <1>13,
     <1>14, <1>15, <1>16, <1>17, <1>18, <1>19, <1>20, <1>21, <1>22
     DEF Next, Reconcile, Failure
-----------------------------------------------------------------------------
(* What becomes of Workflows in other hands. *)
WorkflowsMove == WorkflowsEnd \/ WorkflowsAgain

(* The steps of a fan-out, and what others do to it. *)
FanOutStep ==
  \/ GetRepository \/ ListWorkflows \/ DeleteWorkflows \/ DeleteSomeWorkflows
  \/ MatchChangedFiles \/ CreateWorkflow \/ WorkflowsMove

(* They alone look up files, create Workflows, or decide on a deletion.     *)
LEMMA OtherStep ==
  ASSUME [Next]_vars, ~FanOutStep
  PROVE  /\ UNCHANGED <<workflows, calls>>
         /\ repository' => repository
         /\ pc' \in {"files", "create", "marknone", "delete"} =>
              UNCHANGED <<pc, copy, todo>>
<1> USE DEF Goto
<1>r. ASSUME Return PROVE pc' = "idle"
  BY <1>r DEF Return
<1>1. CASE Reconcile
  BY <1>1, <1>r DEF FanOutStep, Reconcile, Begin, Ignore, AddFinalizer, MarkSHA, UpdateStatus,
     MarkBranchSHA, DeleteBranch, WaitForWorkflows, RemoveFinalizer, Conflict,
     ReturnError, world, outside, children, subject
<1>2. CASE Failure
  BY <1>2 DEF FanOutStep, Failure, TemplateListFails, Fault, world, outside, children,
     subject
<1>3. CASE ~Reconcile /\ ~Failure
  BY <1>3 DEF FanOutStep, Next, Informers, CacheBranch, CacheWorkflows, MoveSHA,
     UpdateBranchResource, PruneBranch, RepositoryGone, WorkflowsMove, children, reconcile,
     vars, subject
<1> QED BY <1>1, <1>2, <1>3

(* What becomes of a Workflow that completes, runs again or goes. *)
LEMMA WorkflowsMoveKeeps ==
  ASSUME TypeOK, WorkflowsMove
  PROVE  /\ UNCHANGED <<subject, branchObject, created, repository, reconcile, held>>
         /\ \A x \in workflows' : \E w \in workflows :
              /\ x.sha = w.sha /\ x.dying = w.dying
              /\ w.ended => x.ended
              /\ (w.done => w.ended) => (x.done => x.ended)
         /\ br.present => \A w \in workflows : ~w.dying =>
              \E x \in workflows' : ~x.dying /\ x.sha = w.sha /\ x.target = w.target
<1>1. PICK v \in workflows : WorkflowCompletes(v) \/ WorkflowReruns(v) \/ WorkflowGone(v)
  BY DEF WorkflowsMove, WorkflowsEnd, WorkflowsAgain
<1>2. v \in Workflow
  BY DEF TypeOK
<1>3. CASE WorkflowCompletes(v)
  <2> DEFINE u == [v EXCEPT !.done = TRUE, !.ended = TRUE]
  <2>1. u.sha = v.sha /\ u.dying = v.dying /\ u.target = v.target /\ u.ended
    BY <1>2 DEF Workflow
  <2>2. workflows' = (workflows \ {v}) \cup {u}
    BY <1>3 DEF WorkflowCompletes, SetWorkflows
  <2> HIDE DEF u
  <2> QED BY <1>3, <2>1, <2>2 DEF WorkflowCompletes
<1>4. CASE WorkflowReruns(v)
  <2> DEFINE u == [v EXCEPT !.done = FALSE]
  <2>1. /\ u.sha = v.sha /\ u.dying = v.dying /\ u.target = v.target
        /\ u.ended = v.ended /\ ~u.done
    BY <1>2 DEF Workflow
  <2>2. workflows' = (workflows \ {v}) \cup {u}
    BY <1>4 DEF WorkflowReruns, SetWorkflows
  <2> HIDE DEF u
  <2> QED BY <1>4, <2>1, <2>2 DEF WorkflowReruns
<1>5. CASE WorkflowGone(v)
  BY <1>5 DEF WorkflowGone, SetWorkflows
<1> QED BY <1>1, <1>3, <1>4, <1>5

(* The Workflows of an older SHA are dying once files are looked up. *)
LEMMA ReplaceStep ==
  ASSUME ~Lag, TypeOK, CacheInv, CopyInv, ReplaceInv, [Next]_vars PROVE ReplaceInv'
<1> USE DEF ReplaceInv, Goto
<1>r. ASSUME Return PROVE ReplaceInv'
  BY <1>r DEF Return
<1>1. CASE GetRepository
  BY <1>1 DEF GetRepository, world, outside
<1>2. CASE ListWorkflows
  BY <1>2, <1>r DEF ListWorkflows, world, outside
<1>3. CASE DeleteWorkflows
  <2>1. \A w \in workflows' : w.dying
    <3> SUFFICES ASSUME NEW w \in workflows' PROVE w.dying
      OBVIOUS
    <3>1. workflows' = Marked(Ids(workflows))
      BY <1>3 DEF DeleteWorkflows, SetWorkflows, CacheInv
    <3>2. PICK v \in workflows : w = [v EXCEPT !.dying = v.dying \/ v.id \in Ids(workflows)]
      BY <3>1 DEF Marked
    <3>3. v \in Workflow /\ v.id \in Ids(workflows)
      BY DEF TypeOK, Ids
    <3> QED BY <3>2, <3>3 DEF Workflow
  <2> QED BY <2>1
<1>4. CASE DeleteSomeWorkflows
  BY <1>4 DEF DeleteSomeWorkflows
<1>5. CASE MatchChangedFiles
  BY <1>5 DEF MatchChangedFiles, world, outside
<1>6. CASE CreateWorkflow
  <2>1. PICK t : workflows' = workflows \cup {NewWorkflow(t)}
    BY <1>6 DEF CreateWorkflow, SetWorkflows
  <2>2. NewWorkflow(t).sha = copy.sha
    BY DEF NewWorkflow
  <2> QED BY <1>6, <2>1, <2>2 DEF CreateWorkflow
<1>7. CASE WorkflowsMove
  BY <1>7, WorkflowsMoveKeeps DEF reconcile
<1>8. CASE ~FanOutStep
  BY <1>8, OtherStep
<1> QED BY <1>1, <1>2, <1>3, <1>4, <1>5, <1>6, <1>7, <1>8 DEF FanOutStep

(* A call keeps the Workflow it has, and the target it has becomes one. *)
LEMMA CoverStep ==
  ASSUME ~Lag, TypeOK, CacheInv, CopyInv, FinalizerInv, CoverInv, [Next]_vars
  PROVE  CoverInv'
<1> USE DEF Goto
<1>k. ASSUME pc \in {"create", "marknone"}, UNCHANGED <<pc, copy, calls>>,
             \A c : Waits(c) => Waits(c)' \/ Served(c, copy.sha)',
             \A c : Served(c, copy.sha) => Served(c, copy.sha)'
      PROVE  CoverInv'
  BY <1>k DEF CoverInv
<1>1. CASE GetRepository
  BY <1>1 DEF GetRepository, CoverInv
<1>2. CASE ListWorkflows
  BY <1>2 DEF ListWorkflows, Return, CoverInv
<1>3. CASE DeleteWorkflows \/ DeleteSomeWorkflows
  BY <1>3 DEF DeleteWorkflows, DeleteSomeWorkflows, CoverInv
<1>4. CASE MatchChangedFiles
  <2>1. PICK fs \in ChangedFiles(copy), ts \in TemplateLists :
          /\ IF DOMAIN MatchTemplates(ts, fs) = {} THEN pc' # "create"
             ELSE pc' = "create" /\ todo' = FanOut(MatchTemplates(ts, fs))
          /\ calls' = Calls(ts, fs)
    BY <1>4 DEF MatchChangedFiles
  <2>2. ASSUME NEW c \in calls' PROVE pc' = "create" /\ Waits(c)'
    <3>1. PICK x \in FanOut(MatchTemplates(ts, fs)) :
            x.template = c.template /\ LooksAfter(c.match, x, c.file)
      BY <2>1, <2>2, CallsHaveTargets
    <3>2. DOMAIN MatchTemplates(ts, fs) # {}
      BY <3>1 DEF FanOut
    <3> QED BY <2>1, <3>1, <3>2 DEF Waits
  <2> QED BY <2>2 DEF CoverInv
<1>5. CASE CreateWorkflow
  <2>1. PICK u \in todo : workflows' = workflows \cup {NewWorkflow(u)} /\ todo' = todo \ {u}
    BY <1>5 DEF CreateWorkflow, SetWorkflows
  <2>2. NewWorkflow(u).sha = copy.sha /\ NewWorkflow(u).target = u /\ ~NewWorkflow(u).dying
    BY DEF NewWorkflow
  <2>3. UNCHANGED <<pc, copy, calls>> /\ pc = "create"
    BY <1>5 DEF CreateWorkflow, subject
  <2>4. ASSUME NEW c, Waits(c) PROVE Waits(c)' \/ Served(c, copy.sha)'
    <3>1. PICK x \in todo : x.template = c.template /\ LooksAfter(c.match, x, c.file)
      BY <2>4 DEF Waits
    <3>2. CASE x = u
      <4>1. NewWorkflow(u) \in workflows'
        BY <2>1
      <4> QED BY <4>1, <3>1, <3>2, <2>2, <2>3 DEF Served
    <3>3. CASE x # u
      BY <3>1, <3>3, <2>1 DEF Waits
    <3> QED BY <3>2, <3>3
  <2>5. \A c : Served(c, copy.sha) => Served(c, copy.sha)'
    BY <2>1, <2>3 DEF Served
  <2> QED BY <2>3, <2>4, <2>5, <1>k
<1>6. CASE WorkflowsMove /\ pc \in {"create", "marknone"}
  <2>1. br.present
    BY <1>6 DEF FinalizerInv, Running
  <2>2. UNCHANGED <<pc, copy, todo, calls>>
    BY <1>6, WorkflowsMoveKeeps DEF reconcile, subject
  <2>3. ASSUME NEW c, Served(c, copy.sha) PROVE Served(c, copy.sha)'
    <3>1. PICK w \in workflows : /\ w.sha = copy.sha /\ ~w.dying
                                 /\ w.target.template = c.template
                                 /\ LooksAfter(c.match, w.target, c.file)
      BY <2>3 DEF Served
    <3>2. PICK x \in workflows' : ~x.dying /\ x.sha = w.sha /\ x.target = w.target
      BY <1>6, <2>1, <3>1, WorkflowsMoveKeeps
    <3> QED BY <3>1, <3>2, <2>2 DEF Served
  <2>4. \A c : Waits(c) => Waits(c)'
    BY <2>2 DEF Waits
  <2> QED BY <1>6, <2>2, <2>3, <2>4, <1>k
<1>7. CASE WorkflowsMove /\ pc \notin {"create", "marknone"}
  BY <1>7, WorkflowsMoveKeeps DEF reconcile, CoverInv
<1>8. CASE ~FanOutStep /\ pc' \in {"create", "marknone"}
  <2>1. UNCHANGED <<pc, copy, todo, workflows, calls>>
    BY <1>8, OtherStep
  <2> QED BY <1>8, <2>1, <1>k DEF Waits, Served
<1>9. CASE pc' \notin {"create", "marknone"}
  BY <1>9 DEF CoverInv
<1> QED BY <1>1, <1>2, <1>3, <1>4, <1>5, <1>6, <1>7, <1>8, <1>9 DEF FanOutStep

(* A default-branch Branch that is to go has no Workflow left to complete. *)
LEMMA EndStep ==
  ASSUME ~Lag, TypeOK, CacheInv, CopyInv, EndInv, [Next]_vars
  PROVE  EndInv'
<1> USE DEF EndInv, Goto
<1>r. ASSUME Return, workflows' = workflows PROVE EndInv'
  BY <1>r DEF Return
<1>1. CASE GetRepository
  BY <1>1 DEF GetRepository, world, outside
<1>2. CASE ListWorkflows
  <2>1. CASE Return
    BY <1>2, <2>1, <1>r DEF ListWorkflows, world, outside
  <2>2. CASE ~Return
    BY <1>2, <2>2 DEF ListWorkflows, world, outside, AllWorkflowsCompleted, CacheInv
  <2> QED BY <2>1, <2>2
<1>3. CASE DeleteWorkflows \/ DeleteSomeWorkflows
  <2>1. pc' # "delete"
    BY <1>3 DEF DeleteWorkflows, DeleteSomeWorkflows
  <2>2. PICK W : workflows' = Marked(W)
    BY <1>3 DEF DeleteWorkflows, DeleteSomeWorkflows, SetWorkflows
  <2>3. \A w \in workflows : LET u == [w EXCEPT !.dying = w.dying \/ w.id \in W]
                            IN  u.done = w.done /\ u.ended = w.ended
    BY DEF TypeOK, Workflow
  <2>4. \A u \in workflows' : u.done => u.ended
    BY <2>2, <2>3 DEF Marked
  <2> QED BY <2>1, <2>4
<1>4. CASE MatchChangedFiles
  BY <1>4 DEF MatchChangedFiles, outside, CopyInv
<1>5. CASE CreateWorkflow
  <2>1. PICK t : workflows' = workflows \cup {NewWorkflow(t)}
    BY <1>5 DEF CreateWorkflow, SetWorkflows
  <2>2. ~NewWorkflow(t).done
    BY DEF NewWorkflow
  <2> QED BY <1>5, <2>1, <2>2 DEF CreateWorkflow
<1>6. CASE WorkflowsMove
  <2>1. UNCHANGED <<pc, copy, repository>>
    BY <1>6, WorkflowsMoveKeeps DEF reconcile
  <2> QED BY <1>6, <2>1, WorkflowsMoveKeeps
<1>7. CASE ~FanOutStep
  BY <1>7, OtherStep
<1> QED BY <1>1, <1>2, <1>3, <1>4, <1>5, <1>6, <1>7 DEF FanOutStep
-----------------------------------------------------------------------------
(* The annotation of a Branch changes where the fan-out of its SHA is done. *)
LEMMA AnnotationStep ==
  ASSUME ~Lag, TypeOK, CacheInv, CopyInv, [Next]_vars
  PROVE  \/ /\ MarkSHA \/ MarkBranchSHA
            /\ copy = br /\ br'.last = br.sha /\ br'.sha = br.sha /\ br'.pr = br.pr
            /\ workflows' = workflows
         \/ /\ br'.last = br.last
            /\ br.deleting => br'.deleting
            /\ br'.present => br.present
            /\ br'.sha = br.sha \/ br'.last # br'.sha
<1>t. br \in Branch /\ copy \in Branch
  BY DEF TypeOK
<1>1. CASE MarkSHA \/ MarkBranchSHA
  <2>1. copy = br /\ br' = [copy EXCEPT !.last = copy.sha]
    BY <1>1 DEF MarkSHA, MarkBranchSHA, Write, Store, CopyInv
  <2>2. br'.last = br.sha /\ br'.sha = br.sha /\ br'.pr = br.pr
    BY <2>1, <1>t DEF Branch
  <2> QED BY <1>1, <2>1, <2>2 DEF MarkSHA, MarkBranchSHA, children
<1>2. CASE UNCHANGED br
  BY <1>2
<1>3. CASE AddFinalizer \/ RemoveFinalizer
  BY <1>3, <1>t DEF AddFinalizer, RemoveFinalizer, Write, Store, CopyInv, Branch
<1>4. CASE TemplateListFails \/ UpdateStatus
  BY <1>4 DEF TemplateListFails, UpdateStatus, Write, Store, CopyInv, branchObject
<1>5. CASE DeleteBranch \/ UpdateBranchResource \/ PruneBranch
  BY <1>5, <1>t DEF DeleteBranch, UpdateBranchResource, PruneBranch, Store, Branch,
     branchObject
<1>6. CASE MoveSHA
  <2>1. PICK n \in SHAs : br' = [br EXCEPT !.sha = n] /\ br.sha < n
    BY <1>6 DEF MoveSHA, Store
  <2>2. br'.last = br.last /\ br'.sha = n /\ br'.deleting = br.deleting
        /\ br'.present = br.present
    BY <2>1, <1>t DEF Branch
  <2>3. br.last # n
    BY <2>1, <1>t, ConstantsAssumption DEF CopyInv, Branch, SHAs, NoSHA
  <2> QED BY <2>2, <2>3
<1>7. CASE Begin \/ Ignore \/ GetRepository \/ ListWorkflows \/ MatchChangedFiles
           \/ WaitForWorkflows \/ Conflict \/ ReturnError \/ Fault
  BY <1>2, <1>7 DEF Begin, Ignore, GetRepository, ListWorkflows, MatchChangedFiles,
     WaitForWorkflows, Conflict, ReturnError, Fault, world, outside
<1>8. CASE DeleteWorkflows \/ DeleteSomeWorkflows \/ CreateWorkflow
  BY <1>2, <1>8 DEF DeleteWorkflows, DeleteSomeWorkflows, CreateWorkflow, branchObject
<1>9. CASE RepositoryGone \/ Informers
  BY <1>2, <1>9 DEF RepositoryGone, Informers, CacheBranch, CacheWorkflows, branchObject
<1>10. CASE WorkflowsMove
  BY <1>2, <1>10, WorkflowsMoveKeeps DEF branchObject
<1>11. CASE UNCHANGED vars
  BY <1>2, <1>11 DEF vars
<1> QED
  BY <1>1, <1>3, <1>4, <1>5, <1>6, <1>7, <1>8, <1>9, <1>10, <1>11
     DEF Next, Reconcile, Failure, WorkflowsMove

(* A marked SHA keeps its Workflows, and the next fan-out is for another. *)
LEMMA FannedOutStep ==
  ASSUME ~Lag, TypeOK, CacheInv, CopyInv, FinalizerInv, CoverInv, FannedOut, [Next]_vars
  PROVE  FannedOut'
<1> SUFFICES ASSUME br'.present, ~br'.deleting, br'.last = br'.sha,
                    NEW c \in calls'
             PROVE  Served(c, br.sha)'
  BY DEF FannedOut
<1>1. CASE MarkSHA \/ MarkBranchSHA
  <2>1. copy = br /\ br'.sha = br.sha /\ UNCHANGED <<workflows, calls>>
    <3>1. copy = br /\ br' = [copy EXCEPT !.last = copy.sha]
      BY <1>1 DEF MarkSHA, MarkBranchSHA, Write, Store, CopyInv
    <3> QED BY <3>1, <1>1 DEF MarkSHA, MarkBranchSHA, children, subject, TypeOK, Branch
  <2>2. Served(c, br.sha)
    BY <1>1, <2>1 DEF CoverInv, Waits, MarkSHA, MarkBranchSHA
  <2> QED BY <2>1, <2>2 DEF Served
<1>2. CASE ~(MarkSHA \/ MarkBranchSHA)
  <2>1. br.present /\ ~br.deleting /\ br.last = br.sha /\ br'.sha = br.sha
    BY <1>2, AnnotationStep
  <2>2. pc \notin {"replace", "sweep", "files"}
    BY <2>1, ConstantsAssumption DEF CopyInv, Running, TypeOK, Branch, SHAs, NoSHA
  <2>3. calls' = calls
    <3>1. CASE FanOutStep /\ ~WorkflowsMove
      BY <2>2, <3>1 DEF FanOutStep, GetRepository, ListWorkflows, DeleteWorkflows,
         DeleteSomeWorkflows, MatchChangedFiles, CreateWorkflow, world, subject
    <3>2. CASE WorkflowsMove
      BY <3>2, WorkflowsMoveKeeps DEF subject
    <3> QED BY <3>1, <3>2, OtherStep
  <2>4. Served(c, br.sha)
    BY <2>1, <2>3 DEF FannedOut
  <2>k. SUFFICES \A w \in workflows : ~w.dying =>
                   \E x \in workflows' : ~x.dying /\ x.sha = w.sha /\ x.target = w.target
    BY <2>1, <2>4 DEF Served
  <2>5. CASE WorkflowsMove
    BY <2>1, <2>5, WorkflowsMoveKeeps
  <2>6. CASE CreateWorkflow
    BY <2>6 DEF CreateWorkflow, SetWorkflows
  <2>7. CASE GetRepository \/ ListWorkflows
    BY <2>7 DEF GetRepository, ListWorkflows, world, outside
  <2>8. CASE ~FanOutStep
    BY <2>8, OtherStep
  <2> QED BY <2>2, <2>5, <2>6, <2>7, <2>8 DEF FanOutStep, DeleteWorkflows,
         DeleteSomeWorkflows, MatchChangedFiles
<1> QED BY <1>1, <1>2
-----------------------------------------------------------------------------
(* The conjuncts together are inductive. *)
LEMMA Invariance ==
  ASSUME ~Lag PROVE Spec => []IInv
<1>1. Init => IInv
  <2> SUFFICES ASSUME Init PROVE IInv
    OBVIOUS
  <2>1. PICK p \in BOOLEAN : /\ p => ~isDefault
                             /\ br = [NoBranch EXCEPT !.present = TRUE, !.pr = p]
    BY DEF Init
  <2>2. /\ br.present /\ ~br.finalizer /\ br.pr = p /\ br.sha = 1 /\ br.last = NoSHA
        /\ ~NoBranch.pr
    BY <2>1 DEF NoBranch
  <2>3. TypeOK
    BY InitType
  <2>4. CacheInv /\ FinalizerInv /\ ReplaceInv /\ CoverInv
    BY <2>2 DEF Init, CacheInv, FinalizerInv, Running, ReplaceInv, CoverInv
  <2>5. CopyInv /\ FannedOut
    BY <2>2 DEF Init, CopyInv, Running, FannedOut, NoSHA
  <2>6. EndInv
    BY DEF Init, EndInv
  <2> QED BY <2>3, <2>4, <2>5, <2>6 DEF IInv
<1>2. IInv /\ [Next]_vars => IInv'
  BY TypeStep, CacheStep, CopyStep, FinalizerStep, ReplaceStep, CoverStep, EndStep,
     FannedOutStep DEF IInv
<1> QED BY <1>1, <1>2, PTL DEF Spec

(* An annotated Branch has Workflows for all the files of its commit, when  *)
(* informers do not lag.                                                    *)
THEOREM FanOutComplete == ~Lag => (Spec => []FannedOut)
<1> SUFFICES ASSUME ~Lag PROVE Spec => []FannedOut
  OBVIOUS
<1>1. IInv => FannedOut
  BY DEF IInv
<1> QED BY <1>1, Invariance, PTL

(* A Branch that is gone has left no Workflow behind, when informers do not *)
(* lag.                                                                     *)
THEOREM WorkflowsGoFirst == ~Lag => (Spec => []BranchOutlivesWorkflows)
<1> SUFFICES ASSUME ~Lag PROVE Spec => []BranchOutlivesWorkflows
  OBVIOUS
<1>1. IInv => BranchOutlivesWorkflows
  BY DEF IInv, FinalizerInv, BranchOutlivesWorkflows
<1> QED BY <1>1, Invariance, PTL

(* A Branch annotated with a second SHA has no live Workflow of the first.  *)
THEOREM FullReplacement == ~Lag => (Spec => MarkedRunsReplaced)
<1> SUFFICES ASSUME ~Lag PROVE Spec => MarkedRunsReplaced
  OBVIOUS
<1>1. ASSUME IInv, [Next]_vars, br'.last # br.last, br.last # NoSHA
      PROVE  \A w \in workflows : w.sha = br'.last \/ w.dying
  <2>1. (MarkSHA \/ MarkBranchSHA) /\ copy = br /\ br'.last = br.sha
    BY <1>1, AnnotationStep DEF IInv
  <2> QED BY <1>1, <2>1 DEF IInv, ReplaceInv, MarkSHA, MarkBranchSHA
<1>2. IInv /\ [Next]_vars =>
        [br'.last # br.last /\ br.last # NoSHA =>
           \A w \in workflows : w.sha = br'.last \/ w.dying]_vars
  BY <1>1
<1> QED BY <1>2, Invariance, PTL DEF Spec, MarkedRunsReplaced

(* A default-branch Branch whose SHA was fanned out is not deleted while a  *)
(* Workflow of it is at its first run and its Repository exists.            *)
THEOREM DeletionWaits == ~Lag => (Spec => DeletedWhenDone)
<1> SUFFICES ASSUME ~Lag PROVE Spec => DeletedWhenDone
  OBVIOUS
<1>1. ASSUME IInv, pc = "delete", repository, br.last = br.sha
      PROVE  \A w \in workflows : w.ended
  <2>1. copy.last = br.last /\ copy.last <= copy.sha /\ copy.sha <= br.sha
    BY <1>1 DEF IInv, CopyInv, Running
  <2>2. copy.last = copy.sha
    BY <1>1, <2>1, ConstantsAssumption DEF IInv, TypeOK, Branch, SHAs, NoSHA
  <2> QED BY <1>1, <2>2 DEF IInv, EndInv
<1>2. IInv /\ [Next]_vars =>
        [pc = "delete" /\ repository /\ br.last = br.sha
           /\ br.present /\ ~br.deleting /\ br'.deleting =>
             \A w \in workflows : w.ended]_vars
  BY <1>1
<1> QED BY <1>2, Invariance, PTL DEF Spec, DeletedWhenDone
-----------------------------------------------------------------------------
(* What holds of wake-ups, also when the informers lag. *)
Awake == queued \/ ~freshBr

(* A copy whose Branch has moved on means that a wake-up is under way. *)
AwareInv ==
  /\ freshBr => cachedBr = br
  /\ held => copy = br
  /\ Running => copy.present /\ (Awake \/ copy = br)
  /\ pc \in {"repository", "list"} => ~copy.deleting

(* The finalizer, once seen on a Branch, stays until the Branch is gone, so *)
(* that a Branch that is being deleted and still there has one.             *)
KeptInv ==
  /\ br.present /\ br.deleting => br.finalizer
  /\ br.present /\ (cachedBr.finalizer \/ copy.finalizer) => br.finalizer
  /\ Running /\ pc # "finalizer" => copy.finalizer

(* What rests was dealt with, as far as the cache tells. *)
WakeInv ==
  pc = "idle" /\ ~Awake /\ br.present =>
    /\ ~br.deleting /\ br.last = br.sha
    /\ isDefault => \E w \in cachedWfs : ~w.done

WInv == TypeOK /\ AwareInv /\ KeptInv /\ WakeInv

(* A step that stores the Branch is followed by another reconcile. *)
LEMMA StoreWakes ==
  ASSUME NEW o, Store(o)
  PROVE  Awake' /\ br' = o /\ (cachedBr' = cachedBr \/ cachedBr' = o)
         /\ (freshBr' => cachedBr' = br' \/ (freshBr /\ cachedBr' = o))
BY DEF Store, Awake

(* A change of the Workflows does not put the queue to sleep. *)
LEMMA WorkflowsWake ==
  ASSUME NEW ws, SetWorkflows(ws)
  PROVE  queued => queued'
BY DEF SetWorkflows

(* Nor does what WorkflowReconciler does to them, and the caches that do    *)
(* not lag tell the Branch.                                                 *)
LEMMA WorkflowsMoveWakes ==
  ASSUME WorkflowsMove
  PROVE  /\ queued => queued'
         /\ queued' \/ UNCHANGED cachedWfs
<1>1. PICK ws : SetWorkflows(ws)
  BY DEF WorkflowsMove, WorkflowsEnd, WorkflowsAgain, WorkflowCompletes, WorkflowReruns,
     WorkflowGone
<1> QED BY <1>1 DEF SetWorkflows

(* Copies are current, or the next reconcile is. *)
LEMMA AwareStep ==
  ASSUME WInv, [Next]_vars PROVE AwareInv'
<1> USE DEF AwareInv, Running, Awake, Goto
<1>i. AwareInv
  BY DEF WInv
<1>r. ASSUME Return, freshBr' => cachedBr' = br' PROVE AwareInv'
  BY <1>r DEF Return
<1>1. CASE Begin \/ Ignore
  BY <1>1, <1>i DEF Begin, Ignore, world, outside
<1>2. CASE AddFinalizer \/ UpdateStatus \/ MarkBranchSHA \/ RemoveFinalizer
  BY <1>2, <1>i, <1>r DEF AddFinalizer, UpdateStatus, MarkBranchSHA, RemoveFinalizer, Write,
     Store
<1>3. CASE MarkSHA
  <2>1. [copy EXCEPT !.last = copy.sha].present = copy.present
    BY DEF WInv, TypeOK, Branch
  <2> QED BY <1>3, <2>1, <1>i DEF MarkSHA, Write, Store
<1>4. CASE GetRepository \/ MatchChangedFiles \/ Conflict \/ Fault
  BY <1>4, <1>i DEF GetRepository, MatchChangedFiles, Conflict, Fault, world, outside
<1>5. CASE ListWorkflows \/ WaitForWorkflows \/ ReturnError
  BY <1>5, <1>i, <1>r DEF ListWorkflows, WaitForWorkflows, ReturnError, world, outside
<1>6. CASE DeleteWorkflows \/ DeleteSomeWorkflows \/ CreateWorkflow
  <2>1. UNCHANGED <<br, cachedBr, freshBr, copy, held>> /\ (queued => queued')
    BY <1>6, WorkflowsWake DEF DeleteWorkflows, DeleteSomeWorkflows, CreateWorkflow,
       branchObject
  <2>2. pc \in {"replace", "sweep", "create"} /\ pc' \notin {"repository", "list"}
    BY <1>6 DEF DeleteWorkflows, DeleteSomeWorkflows, CreateWorkflow
  <2> QED BY <2>1, <2>2, <1>i
<1>7. CASE TemplateListFails
  BY <1>7, <1>i DEF TemplateListFails, Store, branchObject
<1>8. CASE DeleteBranch
  BY <1>8, <1>i, <1>r DEF DeleteBranch, Store, branchObject
<1>9. CASE MoveSHA \/ UpdateBranchResource \/ PruneBranch
  BY <1>9, <1>i DEF MoveSHA, UpdateBranchResource, PruneBranch, Store, reconcile
<1>10. CASE RepositoryGone \/ Informers
  BY <1>10, <1>i DEF RepositoryGone, Informers, CacheBranch, CacheWorkflows,
     branchObject, reconcile
<1>11. CASE WorkflowsMove
  <2>1. UNCHANGED <<br, cachedBr, freshBr, pc, copy, held>> /\ (queued => queued')
    BY <1>11, WorkflowsMoveKeeps, WorkflowsMoveWakes DEF WInv, branchObject, reconcile
  <2> QED BY <2>1, <1>i
<1>12. CASE UNCHANGED vars
  BY <1>12, <1>i DEF vars
<1> QED
  BY <1>1, <1>2, <1>3, <1>4, <1>5, <1>6, <1>7, <1>8, <1>9, <1>10, <1>11, <1>12
     DEF Next, Reconcile, Failure, WorkflowsMove

(* A step by which nobody sees or stores another finalizer. *)
LEMMA KeptStep ==
  ASSUME WInv, [Next]_vars PROVE KeptInv'
<1> USE DEF KeptInv, Running, Goto
<1>i. KeptInv /\ AwareInv
  BY DEF WInv
<1>t. br \in Branch /\ copy \in Branch /\ cachedBr \in Branch
  BY DEF WInv, TypeOK
<1>k. ASSUME UNCHANGED <<br, cachedBr>>,
             copy' = copy, Running' /\ pc' # "finalizer" => copy.finalizer
      PROVE  KeptInv'
  BY <1>k, <1>i
<1>r. ASSUME Return, UNCHANGED <<br, cachedBr>> PROVE KeptInv'
  BY <1>r, <1>i DEF Return, NoBranch
<1>s. ASSUME NEW o, Store(o), Return,
             o.present => o.finalizer
      PROVE  KeptInv'
  BY <1>s, <1>i DEF Store, Return, NoBranch
<1>1. CASE Begin \/ Ignore
  BY <1>1, <1>i DEF Begin, Ignore, world, outside
<1>2. CASE AddFinalizer
  <2> DEFINE o == [copy EXCEPT !.finalizer = TRUE]
  <2>1. o.finalizer
    BY <1>t DEF Branch
  <2>2. Store(o) /\ Return
    BY <1>2 DEF AddFinalizer, Write
  <2> HIDE DEF o, KeptInv
  <2> QED BY <2>1, <2>2, <1>s
<1>3. CASE UpdateStatus \/ MarkBranchSHA
  <2> DEFINE o == [copy EXCEPT !.last = copy.sha]
  <2>1. copy.finalizer /\ o.finalizer
    BY <1>3, <1>t, <1>i DEF UpdateStatus, MarkBranchSHA, Branch
  <2>2. (Store(copy) \/ Store(o)) /\ Return
    BY <1>3 DEF UpdateStatus, MarkBranchSHA, Write
  <2> HIDE DEF o, KeptInv
  <2> QED BY <2>1, <2>2, <1>s
<1>4. CASE RemoveFinalizer
  <2>1. ~[copy EXCEPT !.finalizer = FALSE, !.present = FALSE].present
    BY <1>t DEF Branch
  <2> QED BY <1>4, <2>1, <1>s DEF RemoveFinalizer, Write
<1>5. CASE MarkSHA
  <2>1. copy.finalizer /\ [copy EXCEPT !.last = copy.sha].finalizer
    BY <1>5, <1>t, <1>i DEF MarkSHA, Branch
  <2> QED BY <1>5, <2>1, <1>i DEF MarkSHA, Write, Store
<1>6. CASE GetRepository \/ MatchChangedFiles \/ Conflict \/ Fault
  <2>1. /\ UNCHANGED <<br, cachedBr, copy>> /\ pc' # "finalizer"
        /\ pc' # "error" => Running /\ pc # "finalizer"
    BY <1>6 DEF GetRepository, MatchChangedFiles, Conflict, Fault, world, outside
  <2> QED BY <2>1, <1>k, <1>i
<1>7. CASE ListWorkflows \/ WaitForWorkflows \/ ReturnError
  <2>1. /\ UNCHANGED <<br, cachedBr>>
        /\ Return \/ (copy' = copy /\ pc \in {"list", "wait"})
    BY <1>7 DEF ListWorkflows, WaitForWorkflows, ReturnError, world, outside
  <2> QED BY <2>1, <1>r, <1>k, <1>i
<1>8. CASE DeleteWorkflows \/ DeleteSomeWorkflows \/ CreateWorkflow
  <2>1. /\ UNCHANGED <<br, cachedBr, copy>>
        /\ pc \in {"replace", "sweep", "create"}
    BY <1>8 DEF DeleteWorkflows, DeleteSomeWorkflows, CreateWorkflow, branchObject
  <2> QED BY <2>1, <1>k, <1>i
<1>9. CASE TemplateListFails
  <2>1. copy.finalizer
    BY <1>9, <1>i DEF TemplateListFails
  <2> QED BY <1>9, <2>1, <1>i DEF TemplateListFails, Store, branchObject
<1>10. CASE DeleteBranch
  <2>1. CASE br.present
    <3> DEFINE o == [br EXCEPT !.deleting = TRUE]
    <3>1. br.finalizer /\ o.finalizer
      BY <1>10, <2>1, <1>t, <1>i DEF DeleteBranch, Branch
    <3>2. Store(o) /\ Return
      BY <1>10, <2>1 DEF DeleteBranch
    <3> HIDE DEF o, KeptInv
    <3> QED BY <3>1, <3>2, <1>s
  <2>2. CASE ~br.present
    BY <1>10, <2>2, <1>r DEF DeleteBranch, branchObject
  <2> QED BY <2>1, <2>2
<1>11. CASE MoveSHA \/ UpdateBranchResource \/ PruneBranch
  <2>p. br.present /\ UNCHANGED <<pc, copy>>
    BY <1>11 DEF MoveSHA, UpdateBranchResource, PruneBranch, reconcile
  <2>o. ASSUME NEW o, Store(o), o.finalizer <=> br.finalizer,
               o.present /\ o.deleting => br.deleting \/ o.finalizer
        PROVE  KeptInv'
    BY <2>p, <2>o, <1>i DEF Store
  <2>1. CASE MoveSHA
    <3>1. PICK n \in SHAs : Store([br EXCEPT !.sha = n])
      BY <2>1 DEF MoveSHA
    <3> DEFINE o == [br EXCEPT !.sha = n]
    <3>2. (o.finalizer <=> br.finalizer) /\ (o.deleting <=> br.deleting)
      BY <1>t DEF Branch
    <3> QED BY <3>1, <3>2, <2>o
  <2>2. CASE UpdateBranchResource
    <3> DEFINE o == [br EXCEPT !.pr = ~@]
    <3>1. (o.finalizer <=> br.finalizer) /\ (o.deleting <=> br.deleting)
      BY <1>t DEF Branch
    <3> QED BY <2>2, <3>1, <2>o DEF UpdateBranchResource
  <2>3. CASE PruneBranch
    <3> DEFINE o == [br EXCEPT !.deleting = TRUE, !.present = br.finalizer]
    <3>1. (o.finalizer <=> br.finalizer) /\ (o.present <=> br.finalizer)
      BY <1>t DEF Branch
    <3> QED BY <2>3, <3>1, <2>o DEF PruneBranch
  <2> QED BY <1>11, <2>1, <2>2, <2>3
<1>12. CASE RepositoryGone \/ Informers
  BY <1>12, <1>i DEF RepositoryGone, Informers, CacheBranch, CacheWorkflows,
     branchObject, reconcile
<1>13. CASE WorkflowsMove
  BY <1>13, <1>k, <1>i DEF WorkflowsMove, WorkflowsEnd, WorkflowsAgain, WorkflowCompletes,
     WorkflowReruns, WorkflowGone, branchObject, reconcile
<1>14. CASE UNCHANGED vars
  BY <1>14, <1>i DEF vars
<1> QED
  BY <1>1, <1>2, <1>3, <1>4, <1>5, <1>6, <1>7, <1>8, <1>9, <1>10, <1>11, <1>12, <1>13,
     <1>14 DEF Next, Reconcile, Failure, WorkflowsMove

(* A reconcile that comes to rest has nothing left to do, *)
LEMMA RestStep ==
  ASSUME WInv, [Next]_vars, pc # "idle", pc' = "idle", ~Awake'
  PROVE  \/ ~br'.present
         \/ /\ ListWorkflows /\ UNCHANGED <<br, cachedWfs, isDefault>>
            /\ ~br.deleting /\ br.last = br.sha
            /\ isDefault => \E w \in cachedWfs : ~w.done
<1> USE DEF Goto, Awake
<1>1. CASE ListWorkflows
  <2>1. UNCHANGED <<br, cachedWfs, isDefault, queued, freshBr>>
    BY <1>1 DEF ListWorkflows, world, outside
  <2>2. copy = br /\ ~copy.deleting
    BY <1>1, <2>1 DEF ListWorkflows, WInv, AwareInv, Running
  <2>3. /\ copy.last = copy.sha
        /\ ~(isDefault /\ (cachedWfs = {} \/ AllWorkflowsCompleted(cachedWfs)))
    BY <1>1 DEF ListWorkflows
  <2> QED BY <1>1, <2>1, <2>2, <2>3 DEF AllWorkflowsCompleted
<1>2. CASE AddFinalizer \/ UpdateStatus \/ MarkBranchSHA \/ RemoveFinalizer
  BY <1>2 DEF AddFinalizer, UpdateStatus, MarkBranchSHA, RemoveFinalizer, Write, Store
<1>3. CASE DeleteBranch
  BY <1>3 DEF DeleteBranch, Store, branchObject
<1>4. CASE WaitForWorkflows \/ ReturnError
  BY <1>4 DEF WaitForWorkflows, ReturnError
<1>5. CASE Begin \/ Ignore
  BY <1>5 DEF Begin, Ignore
<1>6. CASE GetRepository \/ MatchChangedFiles \/ Conflict \/ Fault \/ MarkSHA
           \/ TemplateListFails
  BY <1>6 DEF GetRepository, MatchChangedFiles, Conflict, Fault, MarkSHA, TemplateListFails
<1>7. CASE DeleteWorkflows \/ DeleteSomeWorkflows \/ CreateWorkflow
  BY <1>7 DEF DeleteWorkflows, DeleteSomeWorkflows, CreateWorkflow
<1>8. CASE MoveSHA \/ UpdateBranchResource \/ PruneBranch \/ RepositoryGone
           \/ Informers \/ WorkflowsMove \/ UNCHANGED vars
  BY <1>8 DEF MoveSHA, UpdateBranchResource, PruneBranch, RepositoryGone, Informers,
     CacheBranch, CacheWorkflows, WorkflowsMove, WorkflowsEnd, WorkflowsAgain,
     WorkflowCompletes, WorkflowReruns, WorkflowGone, reconcile, vars
<1> QED
  BY <1>1, <1>2, <1>3, <1>4, <1>5, <1>6, <1>7, <1>8
     DEF Next, Reconcile, Failure, WorkflowsMove

(* and is not left asleep with something to do. *)
LEMMA WakeStep ==
  ASSUME WInv, [Next]_vars PROVE WakeInv'
<1> USE DEF Awake
<1> SUFFICES ASSUME pc' = "idle", ~Awake', br'.present
             PROVE  /\ ~br'.deleting /\ br'.last = br'.sha
                    /\ isDefault' => \E w \in cachedWfs' : ~w.done
  BY DEF WakeInv
<1>1. CASE pc # "idle"
  BY <1>1, RestStep
<1>2. CASE pc = "idle"
  <2>i. /\ WakeInv /\ KeptInv
        /\ freshBr => cachedBr = br
    BY DEF WInv, AwareInv
  <2>1. CASE Begin
    BY <2>1 DEF Begin, Goto
  <2>2. CASE Ignore
    BY <2>2, <2>i DEF Ignore, world, outside, KeptInv
  <2>3. CASE MoveSHA \/ UpdateBranchResource \/ PruneBranch
    BY <2>3, StoreWakes DEF MoveSHA, UpdateBranchResource, PruneBranch
  <2>4. CASE RepositoryGone
    BY <1>2, <2>4, <2>i DEF RepositoryGone, WakeInv, subject, branchObject, children
  <2>5. CASE Informers
    BY <2>5 DEF Informers, CacheBranch, CacheWorkflows
  <2>6. CASE WorkflowsMove
    <3>1. UNCHANGED <<br, freshBr, isDefault>>
      BY <2>6, WorkflowsMoveKeeps DEF WInv, branchObject, subject
    <3>2. ~queued /\ UNCHANGED cachedWfs
      BY <2>6, WorkflowsMoveWakes
    <3> QED BY <1>2, <3>1, <3>2, <2>i DEF WakeInv
  <2>7. CASE UNCHANGED vars
    BY <1>2, <2>7, <2>i DEF vars, WakeInv
  <2> QED
    BY <1>2, <2>1, <2>2, <2>3, <2>4, <2>5, <2>6, <2>7 DEF Next, Reconcile, Failure,
       WorkflowsMove, AddFinalizer, GetRepository, ListWorkflows, DeleteWorkflows, MatchChangedFiles,
       CreateWorkflow, MarkSHA, UpdateStatus, MarkBranchSHA, DeleteBranch, WaitForWorkflows,
       RemoveFinalizer, Conflict, ReturnError, DeleteSomeWorkflows, TemplateListFails, Fault
<1> QED BY <1>1, <1>2

(* A Branch is never left alone with something to do, whatever fails, lags  *)
(* or changes under a reconcile: every SHA is fanned out or replaced, every *)
(* deletion goes on, and a default-branch Branch that has nothing to run    *)
(* goes.                                                                    *)
THEOREM NoWakeUpLost == Spec => []NothingForgotten
<1>1. Init => WInv
  <2> SUFFICES ASSUME Init PROVE WInv
    OBVIOUS
  <2>1. PICK p \in BOOLEAN : br = [NoBranch EXCEPT !.present = TRUE, !.pr = p]
    BY DEF Init
  <2>2. ~br.deleting /\ ~NoBranch.finalizer /\ ~br.finalizer
    BY <2>1 DEF NoBranch
  <2>3. AwareInv /\ KeptInv /\ WakeInv
    BY <2>2 DEF Init, AwareInv, KeptInv, WakeInv, Running, Awake
  <2> QED BY <2>3, InitType DEF WInv
<1>2. WInv /\ [Next]_vars => WInv'
  BY TypeStep, AwareStep, KeptStep, WakeStep DEF WInv
<1>3. WInv => NothingForgotten
  BY DEF WInv, WakeInv, Awake, NothingForgotten, Quiet
<1> QED BY <1>1, <1>2, <1>3, PTL DEF Spec
=============================================================================
