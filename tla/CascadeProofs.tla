---------------------------- MODULE CascadeProofs ----------------------------
(***************************************************************************)
(* Proofs about Cascade, for any numbers of Branches and Workflows.        *)
(***************************************************************************)
EXTENDS Cascade, TLAPS

(* What a reconcile knows of its object between two calls.  A finalizer is  *)
(* about to go only when nothing is left below.                             *)
Doomed == {"delete", "wait", "unfinalize", "lookup", "cancel"}
Kept == {"sync", "list", "create", "remove", "job"}

Control(c) ==
  /\ pc[c] \in Doomed => obj[on[c]] = "dying"
  /\ pc[c] \in Kept => obj[on[c]] \in {"live", "dying"}
  /\ pc[c] = "unfinalize" => Owned(on[c]) = {}

ControlInv == \A c \in Controllers : Control(c)

(* What is stored has an owner that holds a finalizer. *)
OwnedInv ==
  \A o \in Branches \cup Workflows :
    Stored(o) => obj[OwnerOf(o)] \in {"live", "dying"}

(* A Job comes after the finalizer; a Workflow that is about to lose it has *)
(* nothing to cancel.                                                       *)
JobInv ==
  /\ \A w \in Workflows : obj[w] \in {"none", "bare"} => job[w] = "none"
  /\ pc["workflow"] = "unfinalize" =>
       \/ run[on["workflow"]] \in {"none", "cancelled"}
       \/ job[on["workflow"]] # "running"

IInv == TypeOK /\ ControlInv /\ OwnedInv /\ JobInv

(* Who creates p. *)
Creator(p) ==
  \/ p \in Branches /\ pc["repository"] = "sync"
  \/ p \in Workflows /\ pc["branch"] = "create" /\ on["branch"] = BranchOf[p]

(* What one step does to an object. *)
Moved(o) ==
  \/ obj'[o] = obj[o]
  \/ obj[o] = "none" /\ obj'[o] = "bare" /\ Creator(o)
  \/ obj[o] = "bare" /\ obj'[o] \in {"live", "gone"}
  \/ obj[o] = "live" /\ obj'[o] = "dying"
  \/ /\ obj[o] = "dying" /\ obj'[o] = "gone"
     /\ \E c \in Controllers : pc[c] = "unfinalize" /\ on[c] = o /\ pc'[c] = "idle"
-----------------------------------------------------------------------------
(* Every object is in the queue of one controller. *)
LEMMA ControllerFacts ==
  /\ ControllerOf(Repository) = "repository"
  /\ \A b \in Branches : ControllerOf(b) = "branch"
  /\ \A w \in Workflows : ControllerOf(w) = "workflow"
  /\ \A o \in Objects : /\ ControllerOf(o) \in Controllers
                        /\ ControllerOf(o) = "repository" => o = Repository
                        /\ ControllerOf(o) = "branch" => o \in Branches
                        /\ ControllerOf(o) = "workflow" => o \in Workflows
BY ObjectsAssumption DEF ControllerOf, Controllers, Objects

(* A Branch is owned by the Repository, a Workflow by a Branch. *)
LEMMA OwnerFacts ==
  /\ \A b \in Branches : OwnerOf(b) = Repository
  /\ \A w \in Workflows : OwnerOf(w) = BranchOf[w] /\ BranchOf[w] \in Branches
  /\ \A o \in Branches \cup Workflows : o \in Objects \ {Repository}
  /\ \A o \in Objects \ {Repository} : o \in Branches \cup Workflows
BY ObjectsAssumption DEF OwnerOf, Objects

(* A delete has its effect on what it names only. *)
LEMMA AfterDeleteFacts ==
  ASSUME NEW S, TypeOK
  PROVE  /\ AfterDelete(S) \in [Objects -> Status]
         /\ \A o \in Objects :
              \/ AfterDelete(S)[o] = obj[o]
              \/ obj[o] = "bare" /\ AfterDelete(S)[o] = "gone"
              \/ obj[o] = "live" /\ AfterDelete(S)[o] = "dying"
BY DEF AfterDelete, TypeOK, Status
-----------------------------------------------------------------------------
(* The actions of Next, one disjunct each. *)
AnyStep ==
  \/ \E c \in Controllers :
       \/ AddFinalizer(c) \/ RemoveFinalizer(c) \/ Remove(c)
       \/ c \in Owning /\ (DeleteOwned(c) \/ WaitForOwned(c))
       \/ Fault(c) \/ DeleteSomeOwned(c)
  \/ \E o \in Objects : Begin(o) \/ Delete(o)
  \/ \E b \in Branches : CreateBranch(b)
  \/ \E w \in Workflows : CreateWorkflow(w) \/ JobEnds(w)
  \/ EndSync \/ ListWorkflows \/ MarkSHA \/ RemoveUnmatched
  \/ LookUpJob \/ CancelRun \/ CreateCheckRun \/ CreateJob \/ GetJob
  \/ DeleteSecret \/ CalmDown

(* They are all. *)
LEMMA NextIsAnyStep == Next => AnyStep
BY DEF Next, AnyStep, Continue, CommonStep, RepositoryStep, BranchStep,
       WorkflowStep, Failure

(* The variables keep their types. *)
LEMMA TypeStep == TypeOK /\ [Next]_vars => TypeOK'
<1> SUFFICES ASSUME TypeOK, [Next]_vars PROVE TypeOK'
  OBVIOUS
<1>e. Repository \in Objects /\ Branches \subseteq Objects /\ Workflows \subseteq Objects
  BY DEF Objects
<1> USE <1>e, ControllerFacts
<1>1. ASSUME NEW c \in Controllers, AddFinalizer(c) PROVE TypeOK'
  BY <1>1 DEF AddFinalizer, TypeOK, Return, rest, Status, Steps
<1>2. ASSUME NEW c \in Controllers, RemoveFinalizer(c) PROVE TypeOK'
  BY <1>2 DEF RemoveFinalizer, TypeOK, Return, rest, Status, Steps
<1>3. ASSUME NEW c \in Controllers, Remove(c) PROVE TypeOK'
  BY <1>3, AfterDeleteFacts DEF Remove, TypeOK, Return, rest, Steps
<1>4. ASSUME NEW c \in Controllers, DeleteOwned(c) PROVE TypeOK'
  BY <1>4, AfterDeleteFacts DEF DeleteOwned, TypeOK, Goto, rest, Steps
<1>5. ASSUME NEW c \in Controllers, WaitForOwned(c) PROVE TypeOK'
  <2>1. CASE Owned(on[c]) = {}
    BY <1>5, <2>1 DEF WaitForOwned, TypeOK, Goto, rest, Steps
  <2>2. CASE Owned(on[c]) # {}
    BY <1>5, <2>2 DEF WaitForOwned, TypeOK, Return, rest, Steps
  <2> QED BY <2>1, <2>2
<1>6. ASSUME NEW c \in Controllers, Fault(c) PROVE TypeOK'
  BY <1>6 DEF Fault, TypeOK, Return, rest, Steps
<1>7. ASSUME NEW c \in Controllers, DeleteSomeOwned(c) PROVE TypeOK'
  BY <1>7, AfterDeleteFacts DEF DeleteSomeOwned, TypeOK, Return, rest, Steps
<1>8. ASSUME NEW o \in Objects, Begin(o) PROVE TypeOK'
  <2> DEFINE c == ControllerOf(o)
  <2>1. c \in Controllers /\ pc'[c] \in Steps \ {"idle"}
    BY <1>8 DEF Begin, BeginRepository, BeginBranch, BeginWorkflow, TypeOK,
                Steps, Controllers
  <2>2. /\ \E step : pc' = [pc EXCEPT ![c] = step]
        /\ on' = [on EXCEPT ![c] = o]
        /\ UNCHANGED <<obj, marked, job, run, done, secret, calm>>
    BY <1>8 DEF Begin, rest
  <2> HIDE DEF c
  <2>3. ControllerOf(o) = c
    BY DEF c
  <2> QED BY <2>1, <2>2, <2>3 DEF TypeOK
<1>9. ASSUME NEW o \in Objects, Delete(o) PROVE TypeOK'
  BY <1>9, AfterDeleteFacts DEF Delete, TypeOK, rest
<1>10. ASSUME NEW b \in Branches, CreateBranch(b) PROVE TypeOK'
  BY <1>10 DEF CreateBranch, TypeOK, rest, Status
<1>11. ASSUME NEW w \in Workflows, CreateWorkflow(w) PROVE TypeOK'
  BY <1>11 DEF CreateWorkflow, TypeOK, rest, Status
<1>12. ASSUME NEW w \in Workflows, JobEnds(w) PROVE TypeOK'
  BY <1>12 DEF JobEnds, TypeOK
<1>13. CASE EndSync
  BY <1>13 DEF EndSync, TypeOK, Return, rest, Steps, Controllers
<1>14. CASE ListWorkflows
  <2>1. CASE \E step \in {"create", "remove"} : Goto("branch", step)
    BY <1>14, <2>1 DEF ListWorkflows, TypeOK, Goto, rest, Steps, Controllers
  <2>2. CASE Return("branch")
    BY <1>14, <2>2 DEF ListWorkflows, TypeOK, Return, rest, Steps, Controllers
  <2> QED BY <1>14, <2>1, <2>2 DEF ListWorkflows
<1>15. CASE MarkSHA
  BY <1>15 DEF MarkSHA, TypeOK, Return, Steps, Controllers
<1>16. CASE RemoveUnmatched
  BY <1>16 DEF RemoveUnmatched, TypeOK, Goto, rest, Steps, Controllers
<1>17. CASE LookUpJob
  BY <1>17 DEF LookUpJob, TypeOK, Goto, rest, Steps, Controllers
<1>18. CASE CancelRun
  BY <1>18 DEF CancelRun, TypeOK, Goto, Steps, Controllers
<1>19. CASE CreateCheckRun
  BY <1>19 DEF CreateCheckRun, TypeOK
<1>20. CASE CreateJob
  BY <1>20 DEF CreateJob, TypeOK, Return, Steps, Controllers
<1>21. CASE GetJob
  BY <1>21 DEF GetJob, TypeOK, Return, Steps, Controllers
<1>22. CASE DeleteSecret \/ CalmDown \/ UNCHANGED vars
  BY <1>22 DEF DeleteSecret, CalmDown, vars, TypeOK
<1> QED
  BY NextIsAnyStep, <1>1, <1>2, <1>3, <1>4, <1>5, <1>6, <1>7, <1>8, <1>9, <1>10,
     <1>11, <1>12, <1>13, <1>14, <1>15, <1>16, <1>17, <1>18, <1>19, <1>20, <1>21,
     <1>22 DEF AnyStep
-----------------------------------------------------------------------------
(* No object goes a way of its own: what a step makes of one. *)
LEMMA MoveStep ==
  TypeOK /\ ControlInv /\ [Next]_vars => \A o \in Objects : Moved(o)
<1> SUFFICES ASSUME TypeOK, ControlInv, [Next]_vars, NEW o \in Objects PROVE Moved(o)
  OBVIOUS
<1> DEFINE Deletes == \E S : obj' = AfterDelete(S)
<1>1. ASSUME Deletes PROVE Moved(o)
  BY <1>1, AfterDeleteFacts DEF Moved
<1>2. ASSUME UNCHANGED obj PROVE Moved(o)
  BY <1>2 DEF Moved
<1> HIDE DEF Deletes
<1>3. ASSUME NEW c \in Controllers, AddFinalizer(c) PROVE Moved(o)
  BY <1>3 DEF AddFinalizer, TypeOK, Moved
<1>4. ASSUME NEW c \in Controllers, RemoveFinalizer(c) PROVE Moved(o)
  <2>1. obj[on[c]] = "dying"
    BY <1>4 DEF RemoveFinalizer, ControlInv, Control, Doomed
  <2>2. pc'[c] = "idle" /\ pc[c] = "unfinalize"
    BY <1>4 DEF RemoveFinalizer, Return, TypeOK
  <2>3. obj' = [obj EXCEPT ![on[c]] = "gone"]
    BY <1>4 DEF RemoveFinalizer
  <2> QED BY <2>1, <2>2, <2>3 DEF Moved, TypeOK
<1>5. ASSUME NEW b \in Branches, CreateBranch(b) PROVE Moved(o)
  BY <1>5 DEF CreateBranch, TypeOK, Moved, Creator
<1>6. ASSUME NEW w \in Workflows, CreateWorkflow(w) PROVE Moved(o)
  BY <1>6 DEF CreateWorkflow, TypeOK, Moved, Creator
<1>7. ASSUME NEW c \in Controllers,
             Remove(c) \/ DeleteOwned(c) \/ DeleteSomeOwned(c) PROVE Deletes
  BY <1>7 DEF Remove, DeleteOwned, DeleteSomeOwned, Deletes
<1>8. ASSUME NEW p \in Objects, Delete(p) PROVE Deletes
  BY <1>8 DEF Delete, Deletes
<1>9. ASSUME NEW c \in Controllers, WaitForOwned(c) \/ Fault(c) PROVE UNCHANGED obj
  BY <1>9 DEF WaitForOwned, Fault
<1>10. ASSUME NEW p \in Objects, Begin(p) PROVE UNCHANGED obj
  BY <1>10 DEF Begin
<1>11. ASSUME NEW w \in Workflows, JobEnds(w) PROVE UNCHANGED obj
  BY <1>11 DEF JobEnds
<1>12. ASSUME \/ EndSync \/ ListWorkflows \/ MarkSHA \/ RemoveUnmatched
              \/ LookUpJob \/ CancelRun \/ CreateCheckRun \/ CreateJob \/ GetJob
              \/ DeleteSecret \/ CalmDown \/ UNCHANGED vars
       PROVE UNCHANGED obj
  BY <1>12 DEF EndSync, ListWorkflows, MarkSHA, RemoveUnmatched, LookUpJob,
     CancelRun, CreateCheckRun, CreateJob, GetJob, DeleteSecret, CalmDown, vars
<1> QED
  BY NextIsAnyStep, <1>1, <1>2, <1>3, <1>4, <1>5, <1>6, <1>7, <1>8, <1>9, <1>10,
     <1>11, <1>12 DEF AnyStep

(* What is stored keeps an owner that holds a finalizer: finalizers go from *)
(* the leaves up, and what creates an object is at work on its owner.       *)
LEMMA OwnedStep ==
  TypeOK /\ ControlInv /\ OwnedInv /\ [Next]_vars => OwnedInv'
<1> SUFFICES ASSUME TypeOK, ControlInv, OwnedInv, [Next]_vars,
                    NEW o \in Branches \cup Workflows, Stored(o)'
             PROVE  obj'[OwnerOf(o)] \in {"live", "dying"}
  BY DEF OwnedInv, OwnerOf
<1> DEFINE q == OwnerOf(o)
<1>1. o \in Objects /\ q \in Objects
  BY OwnerFacts DEF Objects
<1>2. Moved(o) /\ Moved(q)
  BY <1>1, MoveStep
<1>3. obj[q] \in {"live", "dying"}
  <2>1. CASE Stored(o)
    BY <2>1 DEF OwnedInv
  <2>2. CASE ~Stored(o)
    <3>1. Creator(o)
      BY <1>2, <2>2 DEF Moved, Stored
    <3>2. CASE o \in Branches /\ pc["repository"] = "sync"
      <4>1. on["repository"] = Repository
        BY <3>2, ControllerFacts DEF TypeOK, Controllers
      <4> QED BY <3>2, <4>1, OwnerFacts DEF ControlInv, Control, Kept, Controllers
    <3>3. CASE o \in Workflows /\ pc["branch"] = "create" /\ on["branch"] = BranchOf[o]
      BY <3>3, OwnerFacts DEF ControlInv, Control, Kept, Controllers
    <3> QED BY <3>1, <3>2, <3>3 DEF Creator
  <2> QED BY <2>1, <2>2
<1>4. ASSUME NEW c \in Controllers, pc[c] = "unfinalize", on[c] = q PROVE FALSE
  <2>1. Owned(q) = {}
    BY <1>4 DEF ControlInv, Control
  <2>2. ~Stored(o)
    BY <2>1, OwnerFacts DEF Owned
  <2>3. Creator(o)
    BY <1>2, <2>2 DEF Moved, Stored
  <2>4. ControllerOf(q) = c
    BY <1>4 DEF TypeOK
  <2>5. CASE o \in Branches /\ pc["repository"] = "sync"
    BY <1>4, <2>4, <2>5, OwnerFacts, ControllerFacts
  <2>6. CASE o \in Workflows /\ pc["branch"] = "create"
    BY <1>4, <2>4, <2>6, OwnerFacts, ControllerFacts
  <2> QED BY <2>3, <2>5, <2>6 DEF Creator
<1> QED BY <1>2, <1>3, <1>4 DEF Moved
(* A Workflow owns nothing that this module follows. *)
LEMMA WorkflowOwnsNothing == \A w \in Workflows : Owned(w) = {}
BY OwnerFacts, ObjectsAssumption DEF Owned

(* What a reconcile knows is not undone by others: nobody else removes the  *)
(* finalizer, and nobody creates below an object that is finalized.         *)
LEMMA ControlFrame ==
  ASSUME TypeOK, ControlInv, [Next]_vars, NEW c \in Controllers,
         pc'[c] = pc[c], on'[c] = on[c]
  PROVE  Control(c)'
<1> DEFINE q == on[c]
<1>1. CASE pc[c] = "idle"
  BY <1>1 DEF Control, Doomed, Kept
<1>2. CASE pc[c] # "idle"
  <2>1. q \in Objects /\ ControllerOf(q) = c
    BY <1>2 DEF TypeOK
  <2>2. Moved(q)
    BY <2>1, MoveStep
  <2>3. ASSUME NEW d \in Controllers, pc[d] = "unfinalize", on[d] = q, pc'[d] = "idle"
        PROVE  FALSE
    <3>1. d = c
      BY <2>1, <2>3 DEF TypeOK
    <3> QED BY <3>1, <2>3, <1>2
  <2>4. pc[c] \in Doomed => obj'[q] = "dying"
    BY <2>2, <2>3 DEF Moved, ControlInv, Control
  <2>5. pc[c] \in Kept => obj'[q] \in {"live", "dying"}
    BY <2>2, <2>3 DEF Moved, ControlInv, Control
  <2>6. ASSUME pc[c] = "unfinalize" PROVE Owned(q)' = {}
    <3> SUFFICES ASSUME NEW p \in Objects \ {Repository}, OwnerOf(p) = q, Stored(p)'
                 PROVE  FALSE
      BY DEF Owned, OwnerOf
    <3>1. ~Stored(p)
      BY <2>6 DEF ControlInv, Control, Owned
    <3>2. Moved(p)
      BY MoveStep
    <3>3. Creator(p)
      BY <3>1, <3>2 DEF Moved, Stored
    <3>4. CASE p \in Branches /\ pc["repository"] = "sync"
      BY <2>1, <2>6, <3>4, OwnerFacts, ControllerFacts
    <3>5. CASE p \in Workflows /\ pc["branch"] = "create"
      BY <2>1, <2>6, <3>5, OwnerFacts, ControllerFacts
    <3> QED BY <3>3, <3>4, <3>5 DEF Creator
  <2>7. Owned(on[c])' = Owned(q)'
    BY DEF Owned, OwnerOf
  <2> QED BY <2>4, <2>5, <2>6, <2>7 DEF Control
<1> QED BY <1>1, <1>2

(* A reconcile that ends knows nothing. *)
LEMMA ControlReturn ==
  ASSUME TypeOK, ControlInv, [Next]_vars, NEW d \in Controllers, Return(d)
  PROVE  ControlInv'
<1> SUFFICES ASSUME NEW c \in Controllers PROVE Control(c)'
  BY DEF ControlInv
<1>1. CASE c = d
  BY <1>1 DEF Return, Control, Doomed, Kept, TypeOK
<1>2. CASE c # d
  BY <1>2, ControlFrame DEF Return, TypeOK
<1> QED BY <1>1, <1>2

(* A reconcile that goes on to a call that asks for no more than this one. *)
LEMMA ControlGoto ==
  ASSUME TypeOK, ControlInv, [Next]_vars, NEW d \in Controllers, NEW step,
         Goto(d, step), Control(d)'
  PROVE  ControlInv'
<1> SUFFICES ASSUME NEW c \in Controllers, c # d PROVE Control(c)'
  BY DEF ControlInv
<1> QED BY ControlFrame DEF Goto, TypeOK

(* What a reconcile under way knows of its object stays true. *)
LEMMA ControlStep == TypeOK /\ ControlInv /\ OwnedInv /\ [Next]_vars => ControlInv'
<1> SUFFICES ASSUME TypeOK, ControlInv, OwnedInv, [Next]_vars PROVE ControlInv'
  OBVIOUS
<1> USE DEF Doomed, Kept
<1>1. ASSUME NEW d \in Controllers, Return(d) PROVE ControlInv'
  BY <1>1, ControlReturn
<1>2. ASSUME UNCHANGED <<pc, on>> PROVE ControlInv'
  BY <1>2, ControlFrame DEF ControlInv
<1>3. ASSUME NEW d \in Controllers, DeleteOwned(d) PROVE ControlInv'
  <2>1. on[d] \in Objects /\ obj[on[d]] = "dying"
    BY <1>3 DEF DeleteOwned, TypeOK, ControlInv, Control
  <2>2. obj'[on[d]] = "dying"
    BY <1>3, <2>1, AfterDeleteFacts DEF DeleteOwned
  <2>3. Goto(d, "wait") /\ Control(d)'
    BY <1>3, <2>2 DEF DeleteOwned, Goto, TypeOK, Control
  <2> QED BY <2>3, ControlGoto
<1>4. ASSUME NEW d \in Controllers, WaitForOwned(d) PROVE ControlInv'
  <2>1. CASE Owned(on[d]) = {}
    <3>1. Goto(d, "unfinalize") /\ UNCHANGED obj
      BY <1>4, <2>1 DEF WaitForOwned
    <3>2. Owned(on[d])' = {}
      BY <2>1, <3>1 DEF Owned, OwnerOf, Stored, Goto
    <3>3. obj[on[d]] = "dying"
      BY <1>4 DEF WaitForOwned, ControlInv, Control
    <3>4. Control(d)'
      BY <3>1, <3>2, <3>3 DEF Control, Goto, TypeOK
    <3> QED BY <3>1, <3>4, ControlGoto
  <2>2. CASE Owned(on[d]) # {}
    BY <1>1, <1>4, <2>2 DEF WaitForOwned
  <2> QED BY <2>1, <2>2
<1>5. ASSUME NEW o \in Objects, NEW d \in Controllers, d = ControllerOf(o), Begin(o)
      PROVE  ControlInv'
  <2>1. on'[d] = o /\ UNCHANGED obj
    BY <1>5 DEF Begin, TypeOK
  <2>2. ASSUME NEW c \in Controllers, c # d PROVE Control(c)'
    BY <1>5, <2>2, ControlFrame DEF Begin, TypeOK
  <2>3. Stored(o)
    BY <1>5 DEF Begin
  <2>4. ASSUME d = "repository" PROVE Control(d)'
    <3>1. pc'[d] = BeginRepository /\ o = Repository
      BY <1>5, <2>4, ControllerFacts DEF Begin, TypeOK, Controllers
    <3>2. /\ obj[o] = "dying" => pc'[d] = "delete"
          /\ obj[o] = "bare" => pc'[d] = "finalizer"
          /\ obj[o] = "live" => pc'[d] = "sync"
      BY <3>1 DEF BeginRepository
    <3> QED BY <2>1, <2>3, <3>2 DEF Control, Stored
  <2>5. ASSUME d = "branch" PROVE Control(d)'
    <3>1. pc'[d] = BeginBranch(o)
      BY <1>5, <2>5 DEF Begin, TypeOK, Controllers
    <3>2. /\ obj[o] = "dying" => pc'[d] = "delete"
          /\ obj[o] = "bare" => pc'[d] = "finalizer"
          /\ obj[o] = "live" => pc'[d] \in {"list", "remove"}
      BY <3>1 DEF BeginBranch
    <3> QED BY <2>1, <2>3, <3>2 DEF Control, Stored
  <2>6. ASSUME d = "workflow" PROVE Control(d)'
    <3>1. pc'[d] = BeginWorkflow(o) /\ o \in Workflows
      BY <1>5, <2>6, ControllerFacts DEF Begin, TypeOK, Controllers
    <3>2. /\ obj[o] = "dying" => pc'[d] \in {"lookup", "unfinalize"}
          /\ obj[o] = "bare" => pc'[d] = "finalizer"
          /\ obj[o] = "live" => pc'[d] \in {"job", "remove"}
      BY <3>1 DEF BeginWorkflow
    <3>3. Owned(on[d])' = {}
      BY <3>1, <2>1, WorkflowOwnsNothing DEF Owned, OwnerOf, Stored
    <3> QED BY <2>1, <2>3, <3>2, <3>3 DEF Control, Stored
  <2>7. Control(d)'
    BY <2>4, <2>5, <2>6 DEF Controllers
  <2> QED BY <2>2, <2>7 DEF ControlInv
<1>6. CASE ListWorkflows
  <2>1. obj[on["branch"]] \in {"live", "dying"} /\ UNCHANGED obj
    BY <1>6 DEF ListWorkflows, ControlInv, Control, Controllers
  <2>2. ASSUME NEW step \in {"create", "remove"}, Goto("branch", step)
        PROVE  ControlInv'
    <3>1. Control("branch")'
      BY <2>1, <2>2 DEF Control, Goto, TypeOK, Controllers
    <3> QED BY <2>2, <3>1, ControlGoto DEF Controllers
  <2> QED BY <1>1, <1>6, <2>2 DEF ListWorkflows, Controllers
<1>7. CASE RemoveUnmatched
  <2>1. Goto("branch", "remove") /\ Control("branch")'
    BY <1>7 DEF RemoveUnmatched, ControlInv, Control, Goto, TypeOK, Controllers
  <2> QED BY <2>1, ControlGoto DEF Controllers
<1>8. CASE LookUpJob \/ CancelRun
  <2> DEFINE w == on["workflow"]
  <2>1. pc["workflow"] \in {"lookup", "cancel"} /\ UNCHANGED obj
    BY <1>8 DEF LookUpJob, CancelRun
  <2>2. obj[w] = "dying"
    BY <2>1 DEF ControlInv, Control, Controllers
  <2>3. w \in Workflows
    BY <2>1, ControllerFacts DEF TypeOK, Controllers
  <2>4. PICK step \in {"unfinalize", "cancel"} : Goto("workflow", step)
    BY <1>8 DEF LookUpJob, CancelRun
  <2>5. Owned(w)' = {}
    BY <2>1, <2>3, <2>4, WorkflowOwnsNothing DEF Owned, OwnerOf, Stored, Goto
  <2>6. Control("workflow")'
    BY <2>1, <2>2, <2>4, <2>5 DEF Control, Goto, TypeOK, Controllers
  <2> QED BY <2>4, <2>6, ControlGoto DEF Controllers
<1>9. ASSUME NEW d \in Controllers,
             \/ AddFinalizer(d) \/ RemoveFinalizer(d) \/ Remove(d) \/ Fault(d)
             \/ DeleteSomeOwned(d)
      PROVE  Return(d)
  BY <1>9 DEF AddFinalizer, RemoveFinalizer, Remove, Fault, DeleteSomeOwned
<1>10. ASSUME EndSync \/ MarkSHA \/ CreateJob \/ GetJob
       PROVE  \E d \in Controllers : Return(d)
  BY <1>10 DEF EndSync, MarkSHA, CreateJob, GetJob, Controllers
<1>11. ASSUME NEW o \in Objects, Delete(o) PROVE UNCHANGED <<pc, on>>
  BY <1>11 DEF Delete
<1>12. ASSUME NEW b \in Branches, CreateBranch(b) PROVE UNCHANGED <<pc, on>>
  BY <1>12 DEF CreateBranch
<1>13. ASSUME NEW w \in Workflows, CreateWorkflow(w) \/ JobEnds(w)
       PROVE  UNCHANGED <<pc, on>>
  BY <1>13 DEF CreateWorkflow, JobEnds
<1>14. ASSUME CreateCheckRun \/ DeleteSecret \/ CalmDown \/ UNCHANGED vars
       PROVE  UNCHANGED <<pc, on>>
  BY <1>14 DEF CreateCheckRun, DeleteSecret, CalmDown, vars
<1> QED
  BY NextIsAnyStep, ControllerFacts, <1>1, <1>2, <1>3, <1>4, <1>5, <1>6, <1>7, <1>8,
     <1>9, <1>10, <1>11, <1>12, <1>13, <1>14 DEF AnyStep

(* JobInv is kept: only the Workflow's own reconcile creates its Job and    *)
(* its CheckRun, and it has its finalizer then.                             *)
LEMMA JobStep ==
  TypeOK /\ ControlInv /\ OwnedInv /\ JobInv /\ [Next]_vars => JobInv'
<1> SUFFICES ASSUME TypeOK, ControlInv, OwnedInv, JobInv, [Next]_vars PROVE JobInv'
  OBVIOUS
<1> DEFINE w == on["workflow"]
           Settled(v) == run[v] \in {"none", "cancelled"} \/ job[v] # "running"
<1>0. \A v \in Workflows : Moved(v)
  BY MoveStep DEF Objects
<1>1. ASSUME \A v \in Workflows :
               job'[v] = job[v] \/ job[v] # "none" \/ obj[v] \in {"live", "dying"}
      PROVE  \A v \in Workflows : obj'[v] \in {"none", "bare"} => job'[v] = "none"
  <2> SUFFICES ASSUME NEW v \in Workflows, obj'[v] \in {"none", "bare"}
               PROVE  job'[v] = "none"
    OBVIOUS
  <2>1. obj[v] \in {"none", "bare"}
    BY <1>0 DEF Moved
  <2> QED BY <1>1, <2>1 DEF JobInv
<1>2. ASSUME pc'["workflow"] = "unfinalize" => pc["workflow"] = "unfinalize",
             pc["workflow"] = "unfinalize" => UNCHANGED <<on["workflow"], run>>,
             \A v \in Workflows : job'[v] = "running" => job[v] = "running",
             UNCHANGED job \/ \E v \in Workflows : JobEnds(v)
      PROVE  JobInv'
  <2>1. pc["workflow"] = "unfinalize" => w \in Workflows
    BY ControllerFacts DEF TypeOK, Controllers
  <2>2. \A v \in Workflows : job'[v] = job[v] \/ job[v] # "none"
    BY <1>2 DEF JobEnds, TypeOK
  <2> QED BY <1>1, <1>2, <2>1, <2>2 DEF JobInv
<1>3. ASSUME UNCHANGED <<run, job>>,
             pc'["workflow"] = "unfinalize" =>
               pc["workflow"] = "unfinalize" /\ UNCHANGED on["workflow"]
      PROVE  JobInv'
  BY <1>1, <1>3 DEF JobInv
<1>4. ASSUME NEW d \in Controllers, Return(d)
      PROVE  pc'["workflow"] = "unfinalize" =>
               pc["workflow"] = "unfinalize" /\ UNCHANGED on["workflow"]
  BY <1>4 DEF Return, TypeOK, Controllers
<1>5. ASSUME NEW c \in Controllers,
             \/ AddFinalizer(c) \/ RemoveFinalizer(c) \/ Remove(c) \/ Fault(c)
             \/ DeleteSomeOwned(c)
      PROVE  JobInv'
  <2>1. Return(c) /\ UNCHANGED <<run, job>>
    BY <1>5 DEF AddFinalizer, RemoveFinalizer, Remove, Fault, DeleteSomeOwned, rest
  <2> QED BY <2>1, <1>3, <1>4
<1>6. ASSUME NEW c \in Owning, DeleteOwned(c) \/ WaitForOwned(c) PROVE JobInv'
  BY <1>3, <1>6 DEF DeleteOwned, WaitForOwned, Goto, Return, rest, TypeOK, Owning,
                    Controllers
<1>7. ASSUME NEW o \in Objects, Begin(o) PROVE JobInv'
  <2> DEFINE d == ControllerOf(o)
  <2>1. UNCHANGED <<obj, run, job>> /\ d \in Controllers
    BY <1>7, ControllerFacts DEF Begin, rest
  <2>2. CASE d # "workflow"
    BY <1>3, <1>7, <2>1, <2>2 DEF Begin, TypeOK, Controllers
  <2>3. CASE d = "workflow"
    <3>1. o \in Workflows /\ Stored(o)
      BY <1>7, <2>3, ControllerFacts DEF Begin
    <3>2. Stored(BranchOf[o])
      BY <3>1, OwnerFacts DEF OwnedInv, Stored
    <3>3. pc'["workflow"] = BeginWorkflow(o)
      BY <1>7, <2>3 DEF Begin, TypeOK, Controllers
    <3>4. pc'["workflow"] # "unfinalize"
      BY <3>1, <3>2, <3>3 DEF BeginWorkflow, Stored
    <3> QED BY <1>3, <2>1, <3>4
  <2> QED BY <2>2, <2>3
<1>8. CASE LookUpJob
  <2>1. w \in Workflows /\ on' = on /\ UNCHANGED <<run, job>>
    BY <1>8, ControllerFacts DEF LookUpJob, Goto, rest, TypeOK, Controllers
  <2>2. pc'["workflow"] = "unfinalize" => Settled(w)
    BY <1>8 DEF LookUpJob, Goto, TypeOK, Controllers
  <2>3. \A v \in Workflows : job'[v] = job[v]
    BY <2>1
  <2> QED BY <1>1, <2>1, <2>2, <2>3 DEF JobInv
<1>9. CASE CancelRun
  <2>1. w \in Workflows /\ on' = on /\ run'[w] = "cancelled" /\ UNCHANGED job
    BY <1>9, ControllerFacts DEF CancelRun, Goto, TypeOK, Controllers
  <2> QED BY <1>1, <2>1 DEF JobInv
<1>10. CASE CreateCheckRun
  <2>1. pc' = pc /\ on' = on /\ pc["workflow"] = "job" /\ UNCHANGED job
    BY <1>10 DEF CreateCheckRun
  <2> QED BY <1>1, <2>1 DEF JobInv
<1>11. CASE CreateJob
  <2>1. pc["workflow"] = "job" /\ pc'["workflow"] = "idle"
    BY <1>11 DEF CreateJob, Return, TypeOK, Controllers
  <2>2. obj[w] \in {"live", "dying"}
    BY <2>1 DEF ControlInv, Control, Kept, Controllers
  <2>3. \A v \in Workflows : v # w => job'[v] = job[v]
    BY <1>11 DEF CreateJob, TypeOK
  <2> QED BY <1>1, <2>1, <2>2, <2>3 DEF JobInv
<1>12. ASSUME NEW v \in Workflows, JobEnds(v) PROVE JobInv'
  BY <1>2, <1>12 DEF JobEnds, TypeOK
<1>13. CASE ListWorkflows \/ RemoveUnmatched \/ MarkSHA \/ EndSync
  <2>1. UNCHANGED <<run, job, pc["workflow"], on["workflow"]>>
    BY <1>13 DEF ListWorkflows, RemoveUnmatched, MarkSHA, EndSync, Goto, Return, rest,
                 TypeOK, Controllers
  <2> QED BY <1>3, <2>1
<1>14. CASE GetJob
  <2>1. Return("workflow") /\ UNCHANGED <<run, job>>
    BY <1>14 DEF GetJob
  <2> QED BY <1>3, <1>4, <2>1 DEF Controllers
<1>15. ASSUME NEW o \in Objects, Delete(o) PROVE JobInv'
  BY <1>3, <1>15 DEF Delete, rest
<1>16. ASSUME NEW b \in Branches, CreateBranch(b) PROVE JobInv'
  BY <1>3, <1>16 DEF CreateBranch, rest
<1>17. ASSUME NEW v \in Workflows, CreateWorkflow(v) PROVE JobInv'
  BY <1>3, <1>17 DEF CreateWorkflow, rest
<1>18. CASE DeleteSecret \/ CalmDown \/ UNCHANGED vars
  BY <1>3, <1>18 DEF DeleteSecret, CalmDown, vars
<1> QED
  BY NextIsAnyStep, <1>5, <1>6, <1>7, <1>8, <1>9, <1>10, <1>11, <1>12, <1>13,
     <1>14, <1>15, <1>16, <1>17, <1>18 DEF AnyStep
-----------------------------------------------------------------------------
(* IInv is inductive. *)
THEOREM Invariance == Spec => []IInv
<1>1. Init => IInv
  <2> SUFFICES ASSUME Init PROVE IInv
    OBVIOUS
  <2>1. TypeOK
    BY DEF Init, TypeOK, Objects, Status, Steps, Controllers
  <2>2. ControlInv
    BY DEF Init, ControlInv, Control, Doomed, Kept
  <2>3. OwnedInv
    BY OwnerFacts DEF Init, OwnedInv, Stored
  <2>4. JobInv
    BY DEF Init, JobInv, Controllers
  <2> QED BY <2>1, <2>2, <2>3, <2>4 DEF IInv
<1>2. IInv /\ [Next]_vars => IInv'
  BY TypeStep, ControlStep, OwnedStep, JobStep DEF IInv
<1> QED BY <1>1, <1>2, PTL DEF Spec

(* The variables have their types. *)
THEOREM TypeCorrect == Spec => []TypeOK
<1>1. IInv => TypeOK
  BY DEF IInv
<1> QED BY <1>1, Invariance, PTL

(* Whatever is stored has its owner: finalizers go from the leaves up,      *)
(* whichever of the objects is deleted and whatever is created meanwhile.   *)
THEOREM OwnersOutlive == Spec => []NoOrphans
<1>1. IInv => NoOrphans
  BY DEF IInv, OwnedInv, NoOrphans, Stored
<1> QED BY <1>1, Invariance, PTL

(* A Workflow whose Job runs does not go before its CheckRun is cancelled.  *)
THEOREM CancellationsReported == Spec => CancelledInTime
<1> DEFINE A == \A w \in Workflows :
                  Stored(w) /\ obj'[w] = "gone" /\ job[w] = "running" /\ run[w] # "none"
                  => run[w] = "cancelled"
<1>1. IInv /\ [Next]_vars => A
  <2> SUFFICES ASSUME IInv, [Next]_vars, NEW w \in Workflows, Stored(w),
                      obj'[w] = "gone", job[w] = "running", run[w] # "none"
               PROVE  run[w] = "cancelled"
    OBVIOUS
  <2>1. w \in Objects /\ Moved(w)
    BY MoveStep DEF Objects, IInv
  <2>2. obj[w] # "bare"
    BY DEF IInv, JobInv
  <2>3. PICK c \in Controllers : pc[c] = "unfinalize" /\ on[c] = w
    BY <2>1, <2>2 DEF Moved, Stored
  <2>4. c = "workflow"
    BY <2>3, ControllerFacts DEF IInv, TypeOK
  <2> QED BY <2>3, <2>4 DEF IInv, JobInv
<1>2. IInv /\ [Next]_vars => [A]_vars
  BY <1>1
<1> QED BY <1>2, Invariance, PTL DEF Spec, CancelledInTime
=============================================================================
