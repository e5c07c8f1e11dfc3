---------------------------- MODULE DeliveryProofs ----------------------------
(***************************************************************************)
(* Delivery for any number of pushes, of copies of a delivery, of requests *)
(* handled at the same time and of attempts: nothing that was stored is    *)
(* taken back, and a push whose delivery met no failed call is synced      *)
(* without the poll.                                                       *)
(***************************************************************************)
EXTENDS Delivery, TLAPS

(* What is there before anything happens has its type. *)
LEMMA Blanks ==
  /\ NoRepository \in Repository /\ Idle \in Handler
  /\ 0 \in 0 .. MaxPush /\ 0 \in 0 .. MaxEdits /\ 0 \in 0 .. MaxCopies
<1>1. 0 \in 0 .. MaxPush /\ 0 \in 0 .. MaxEdits /\ 0 \in 0 .. MaxCopies
      /\ 0 \in 0 .. MaxAttempts
  BY ConstantsAssumption
<1>2. NoRepository \in Repository
  BY <1>1 DEF NoRepository, Repository
<1>3. Idle \in Handler
  BY <1>1, <1>2 DEF Idle, Handler
<1> QED BY <1>1, <1>2, <1>3

(* A handler begins with the push of its delivery. *)
LEMMA Received ==
  ASSUME NEW p \in Pushes
  PROVE  [Idle EXCEPT !.step = "list", !.push = p] \in Handler
<1>1. Idle \in Handler /\ p \in 0 .. MaxPush
  BY Blanks, ConstantsAssumption DEF Pushes
<1> QED BY <1>1 DEF Handler

(* What the actions store is a Repository. *)
LEMMA Records ==
  \A o \in Repository :
    /\ \A b \in BOOLEAN : [o EXCEPT !.finalizer = b] \in Repository
    /\ \A b \in BOOLEAN : [o EXCEPT !.labelled = b] \in Repository
    /\ \A p \in 0 .. MaxPush : [o EXCEPT !.cursor = p] \in Repository
    /\ [NoRepository EXCEPT !.present = TRUE] \in Repository
BY Blanks DEF Repository

(* The variables keep their types. *)
LEMMA TypeStep == TypeOK /\ [Next]_vars => TypeOK'
<1> SUFFICES ASSUME TypeOK, [Next]_vars PROVE TypeOK'
  OBVIOUS
<1> USE ConstantsAssumption
<1>t. /\ handler \in [Handlers -> Handler] /\ repo \in Repository
      /\ copy \in Repository /\ cached \in Repository
      /\ head \in 0 .. MaxPush /\ told \in 0 .. MaxPush
      /\ sent \in [Pushes -> 0 .. MaxCopies] /\ fetched \in 0 .. MaxPush
  BY DEF TypeOK
<1>r. ASSUME Return \/ Goto("error")
      PROVE  /\ pc' \in Steps /\ copy' \in Repository /\ held' \in BOOLEAN
             /\ fetched' \in 0 .. MaxPush
  BY <1>r, Blanks DEF Return, Goto, Steps
<1>h. ASSUME NEW h \in Handlers
      PROVE  /\ handler[h].push \in 0 .. MaxPush
             /\ handler[h].attempts \in 0 .. MaxAttempts
             /\ handler[h].copy \in Repository
             /\ [handler EXCEPT ![h] = Idle] \in [Handlers -> Handler]
             /\ [Released(Handlers) EXCEPT ![h] = Idle] \in [Handlers -> Handler]
             /\ Metadata(handler[h].copy) \in Repository
             /\ Latest(told, handler[h].push) \in 0 .. MaxPush
  <2>1. handler[h] \in Handler
    BY <1>t
  <2>2. handler[h].push \in 0 .. MaxPush /\ handler[h].attempts \in 0 .. MaxAttempts
        /\ handler[h].copy \in Repository
    BY <2>1 DEF Handler
  <2>3. Metadata(handler[h].copy) \in Repository
    BY <2>2, <1>t DEF Metadata, Repository
  <2> QED BY <2>2, <2>3, <1>t, Blanks DEF Latest, Released, Handler
<1>s. Released(Handlers) \in [Handlers -> Handler]
  BY <1>t DEF Released, Handler
<1>1. CASE Push
  BY <1>1, <1>t DEF Push, TypeOK, Pushes, server, object, informer, reconcile
<1>2. ASSUME NEW h \in Handlers, Receive(h) PROVE TypeOK'
  <2>1. PICK p \in Pushes :
          /\ sent[p] > 0 /\ sent' = [sent EXCEPT ![p] = @ - 1]
          /\ handler' = [handler EXCEPT ![h] = [Idle EXCEPT !.step = "list", !.push = p]]
    BY <1>2 DEF Receive
  <2>2. [Idle EXCEPT !.step = "list", !.push = p] \in Handler
    BY Received
  <2>3. handler' \in [Handlers -> Handler]
    BY <1>t, <2>1, <2>2
  <2>4. sent' \in [Pushes -> 0 .. MaxCopies]
    BY <1>t, <2>1
  <2> QED BY <1>2, <2>3, <2>4 DEF Receive, TypeOK, object, informer, reconcile
<1>3. ASSUME NEW h \in Handlers, ListRepositories(h) PROVE TypeOK'
  <2>1. [handler EXCEPT ![h].step = "get"] \in [Handlers -> Handler]
    BY <1>t DEF Handler
  <2>2. handler' \in [Handlers -> Handler] /\ told' \in 0 .. MaxPush
    BY <1>3, <1>t, <1>h, <2>1 DEF ListRepositories, Finish
  <2> QED BY <1>3, <2>2 DEF ListRepositories, TypeOK, github, object, informer, reconcile
<1>4. ASSUME NEW h \in Handlers, GetRepository(h) PROVE TypeOK'
  <2>1. [repo EXCEPT !.cursor = 0] \in Repository
    BY <1>t, Records
  <2>2. handler' \in [Handlers -> Handler]
    BY <1>4, <1>t, <2>1 DEF GetRepository, Handler
  <2> QED BY <1>4, <2>2 DEF GetRepository, TypeOK, github, object, informer, reconcile
<1>5. ASSUME NEW h \in Handlers, UpdateAnnotation(h) PROVE TypeOK'
  BY <1>5, <1>h DEF UpdateAnnotation, Store, TypeOK, github
<1>6. ASSUME NEW h \in Handlers, UpdateConflict(h) PROVE TypeOK'
  <2>1. CASE handler[h].attempts + 1 < MaxAttempts
    <3>1. handler[h].attempts + 1 \in 0 .. MaxAttempts
      BY <2>1, <1>h
    <3>2. [handler EXCEPT ![h].step = "get", ![h].attempts = @ + 1,
                          ![h].copy = NoRepository] \in [Handlers -> Handler]
      BY <3>1, <1>t, Blanks DEF Handler
    <3> QED BY <1>6, <2>1, <3>2 DEF UpdateConflict, TypeOK, github, object, informer,
            reconcile
  <2>2. CASE ~(handler[h].attempts + 1 < MaxAttempts)
    BY <1>6, <2>2, <1>h DEF UpdateConflict, Finish, TypeOK, github, object, informer,
       reconcile
  <2> QED BY <2>1, <2>2
<1>7. ASSUME NEW h \in Handlers, HandlerFails(h) PROVE TypeOK'
  BY <1>7, <1>h DEF HandlerFails, TypeOK, github, object, informer, reconcile
<1>8. CASE CreateRepository \/ EditRepository
  <2>1. repo' \in Repository /\ fresh' \in BOOLEAN
    BY <1>8, <1>t, Records DEF CreateRepository, EditRepository, Store
  <2>2. edits' \in 0 .. MaxEdits
    BY <1>8 DEF CreateRepository, EditRepository, TypeOK
  <2> QED BY <1>8, <2>1, <2>2, <1>s DEF CreateRepository, EditRepository, TypeOK, github
<1>9. CASE CacheRepository \/ TimerFires
  BY <1>9 DEF CacheRepository, TimerFires, TypeOK, github, server, object, informer, reconcile
<1>10. CASE Begin
  BY <1>10 DEF Begin, TypeOK, Steps, github, server, object, informer
<1>11. CASE AddFinalizer \/ EnsureLabels
  BY <1>11, <1>t, <1>s, <1>r, Records DEF AddFinalizer, EnsureLabels, Store, TypeOK, github
<1>12. CASE FetchHead
  BY <1>12 DEF FetchHead, TypeOK, Steps, github, server, object, informer
<1>13. CASE StoreCursor
  BY <1>13, <1>t, <1>s, Records DEF StoreCursor, Store, TypeOK, github
<1>14. CASE RequeueForPoll \/ Conflict \/ Fault \/ ReturnError
  BY <1>14, <1>r DEF RequeueForPoll, Conflict, Fault, ReturnError, TypeOK, github, server,
     object, informer
<1>15. CASE Restart
  BY <1>15, <1>r, <1>t DEF Restart, TypeOK, github, server, object, Repository
<1>16. CASE CalmDown
  BY <1>16 DEF CalmDown, TypeOK, github, server, object, informer, reconcile
<1>17. CASE UNCHANGED vars
  BY <1>17 DEF vars, TypeOK
<1> QED
  BY <1>1, <1>2, <1>3, <1>4, <1>5, <1>6, <1>7, <1>8, <1>9, <1>10, <1>11, <1>12, <1>13,
     <1>14, <1>15, <1>16, <1>17 DEF Next, Handle, Reconcile

(* The first state has the types. *)
LEMMA InitType == Init => TypeOK
BY Blanks DEF Init, TypeOK, Steps

(* Every variable has its type, for any bounds and handlers. *)
THEOREM TypeCorrect == Spec => []TypeOK
<1> QED BY InitType, TypeStep, PTL DEF Spec
-----------------------------------------------------------------------------
(* A copy that carries the current resourceVersion is the stored object, but *)
(* for the status, which the webhook server does not keep.                   *)
CopyInv ==
  /\ fresh => cached = repo
  /\ held => copy = repo
  /\ \A h \in Handlers : handler[h].held =>
       handler[h].step = "update" /\ handler[h].copy = [repo EXCEPT !.cursor = 0]

(* The cursor is never ahead of GitHub nor of what is about to be stored. *)
CursorInv ==
  /\ repo.cursor <= head /\ copy.cursor <= repo.cursor /\ cached.cursor <= repo.cursor
  /\ pc = "cursor" => repo.cursor <= fetched /\ fetched <= head

(* A Repository that is not there yet has no past and is not reconciled. *)
AbsentInv ==
  ~repo.present => repo = NoRepository /\ ~cached.present /\ pc = "idle"

(* Where the labels are missing, a reconcile that adds them is to come. *)
LabelInv ==
  repo.present /\ ~repo.labelled =>
    ~fresh \/ queued \/ pc \in {"finalizer", "labels", "error"}

(* A push is taken care of: it is synced, or about to be stored, or what is *)
(* going on, or to come, asks GitHub after it.                              *)
Taken(p) ==
  \/ ~repo.present \/ ~fresh \/ queued
  \/ pc \in {"finalizer", "labels", "fetch", "error"}
  \/ pc = "cursor" /\ p <= fetched
  \/ p <= repo.cursor

(* That is so of the pushes whose delivery ended without a failed call, and *)
(* of those whose update is going to be refused.                            *)
PushInv ==
  /\ \A p \in Pushes : sent[p] > 0 => p <= head
  /\ told <= head /\ Taken(told)
  /\ \A h \in Handlers :
       /\ handler[h].push <= head
       /\ handler[h].step = "update" /\ ~handler[h].held => Taken(handler[h].push)

IInv == TypeOK /\ CopyInv /\ CursorInv /\ AbsentInv /\ LabelInv /\ PushInv
-----------------------------------------------------------------------------
(* The steps of the webhook server that store nothing. *)
HandlerReads ==
  \E h \in Handlers : \/ Receive(h) \/ ListRepositories(h) \/ GetRepository(h)
                      \/ UpdateConflict(h) \/ HandlerFails(h)

(* What an update of the webhook server stores is what was there. *)
LEMMA MetadataKept ==
  ASSUME TypeOK, CopyInv, NEW h \in Handlers, handler[h].held
  PROVE  Metadata(handler[h].copy) = repo
<1>1. handler[h].copy = [repo EXCEPT !.cursor = 0] /\ repo \in Repository
  BY DEF CopyInv, TypeOK
<1> QED BY <1>1 DEF Metadata, Repository

(* A step that stores the Repository: who takes it, and what else it does. *)
Stores ==
  \/ \E h \in Handlers : UpdateAnnotation(h)
  \/ CreateRepository \/ EditRepository
  \/ AddFinalizer \/ EnsureLabels \/ StoreCursor

(* Whoever stores the Repository takes no flag back, *)
LEMMA StoreFlags ==
  ASSUME IInv, Stores
  PROVE  /\ repo.present => repo'.present
         /\ repo.finalizer => repo'.finalizer
         /\ repo.labelled /\ ~repo'.labelled => edits' # edits
         /\ ~repo'.present => repo' = repo
<1> USE DEF Store
<1>t. /\ repo \in Repository /\ copy \in Repository
  BY DEF IInv, TypeOK
<1>1. CASE \E h \in Handlers : UpdateAnnotation(h)
  BY <1>1, MetadataKept DEF UpdateAnnotation, IInv
<1>2. CASE CreateRepository
  <2>1. repo'.present /\ ~repo.present /\ ~repo.finalizer /\ ~repo.labelled
    BY <1>2 DEF CreateRepository, IInv, AbsentInv, NoRepository
  <2> QED BY <2>1
<1>3. CASE EditRepository
  <2>1. repo'.present /\ (repo.finalizer => repo'.finalizer)
    BY <1>3, <1>t DEF EditRepository, Repository
  <2>2. edits' # edits /\ repo.present
    BY <1>3 DEF EditRepository, IInv, TypeOK
  <2> QED BY <2>1, <2>2
<1>4. CASE AddFinalizer \/ EnsureLabels \/ StoreCursor
  <2>1. copy = repo /\ repo.present
    BY <1>4 DEF AddFinalizer, EnsureLabels, StoreCursor, IInv, CopyInv, AbsentInv
  <2>2. /\ repo'.present /\ (repo.finalizer => repo'.finalizer)
        /\ repo.labelled => repo'.labelled
    BY <1>4, <2>1, <1>t DEF AddFinalizer, EnsureLabels, StoreCursor, Repository
  <2> QED BY <2>1, <2>2
<1> QED BY <1>1, <1>2, <1>3, <1>4 DEF Stores

(* nor the cursor, *)
LEMMA StoreNumbers ==
  ASSUME IInv, Stores
  PROVE  /\ repo.cursor <= repo'.cursor /\ repo'.cursor <= head
         /\ copy'.cursor <= repo'.cursor
         /\ pc' = "cursor" =>
              fetched' = fetched /\ pc = "cursor" /\ repo'.cursor <= fetched
<1> USE DEF Store
<1>t. /\ repo \in Repository /\ copy \in Repository
      /\ repo.cursor \in Nat /\ copy.cursor \in Nat /\ head \in Nat /\ fetched \in Nat
      /\ repo.cursor <= head /\ copy.cursor <= repo.cursor
      /\ pc = "cursor" => repo.cursor <= fetched /\ fetched <= head
  BY ConstantsAssumption DEF IInv, TypeOK, CursorInv, Repository
<1>1. CASE /\ repo'.cursor = repo.cursor /\ UNCHANGED <<copy, pc, fetched>>
  BY <1>1, <1>t
<1>2. CASE /\ repo'.cursor = repo.cursor /\ Return
  BY <1>2, <1>t DEF Return, Goto, NoRepository
<1>3. CASE \E h \in Handlers : UpdateAnnotation(h)
  BY <1>1, <1>3, MetadataKept DEF UpdateAnnotation, IInv
<1>4. CASE CreateRepository
  BY <1>1, <1>4 DEF CreateRepository, IInv, AbsentInv, NoRepository
<1>5. CASE EditRepository
  BY <1>1, <1>5, <1>t DEF EditRepository, Repository
<1>6. CASE AddFinalizer \/ EnsureLabels
  BY <1>2, <1>6, <1>t DEF AddFinalizer, EnsureLabels, Repository, IInv, CopyInv
<1>7. CASE StoreCursor
  BY <1>7, <1>t DEF StoreCursor, Repository
<1> QED BY <1>3, <1>4, <1>5, <1>6, <1>7 DEF Stores

(* leaves every copy but its own out of date, *)
LEMMA StoreAges ==
  ASSUME IInv, Stores
  PROVE  /\ fresh' = FALSE /\ UNCHANGED <<head, sent, cached, queued, timer>>
         /\ held' => copy' = repo'
<1> USE DEF Store, github
<1>1. CASE \E h \in Handlers : UpdateAnnotation(h)
  BY <1>1 DEF UpdateAnnotation
<1>2. CASE CreateRepository \/ EditRepository
  BY <1>2 DEF CreateRepository, EditRepository
<1>3. CASE AddFinalizer \/ EnsureLabels
  BY <1>3 DEF AddFinalizer, EnsureLabels, Return, Goto
<1>4. CASE StoreCursor
  BY <1>4 DEF StoreCursor, IInv, CopyInv
<1> QED BY <1>1, <1>2, <1>3, <1>4 DEF Stores

(* and no handler holds a current one after it. *)
LEMMA StoreReleases ==
  ASSUME IInv, Stores, NEW h \in Handlers
  PROVE  /\ ~handler'[h].held
         /\ \/ handler'[h] = Idle
            \/ handler'[h].push = handler[h].push
<1>1. /\ ~Released(Handlers)[h].held /\ ~Idle.held
      /\ Released(Handlers)[h].push = handler[h].push
  BY DEF Released, IInv, TypeOK, Handler, Idle
<1> QED
  BY <1>1 DEF Stores, UpdateAnnotation, CreateRepository, EditRepository, AddFinalizer,
     EnsureLabels, StoreCursor, Released

(* Reading leaves everything but the handlers and the deliveries alone. *)
LEMMA HandlerStep ==
  ASSUME HandlerReads
  PROVE  UNCHANGED <<head, repo, cached, fresh, queued, pc, copy, held, fetched>>
BY DEF HandlerReads, Receive, ListRepositories, GetRepository, UpdateConflict, HandlerFails,
   object, informer, reconcile, github

(* Every other step leaves the webhook server and the Repository alone. *)
LEMMA OtherStep ==
  ASSUME [Next]_vars, ~Stores, ~HandlerReads
  PROVE  UNCHANGED <<handler, told, repo>>
BY DEF Next, Handle, Reconcile, Stores, HandlerReads, vars, Push, CacheRepository, TimerFires,
   Begin, FetchHead, RequeueForPoll, Conflict, ReturnError, Fault, Restart, CalmDown,
   server, object
-----------------------------------------------------------------------------
(* Copies stay what they are, or are given up. *)
LEMMA CopyStep ==
  ASSUME IInv, [Next]_vars PROVE CopyInv'
<1> USE DEF CopyInv
<1>i. CopyInv
  BY DEF IInv
<1>1. CASE Stores
  BY <1>1, StoreAges, StoreReleases
<1>2. CASE HandlerReads
  <2>1. UNCHANGED <<repo, cached, fresh, copy, held>>
    BY <1>2, HandlerStep
  <2>2. SUFFICES ASSUME NEW g \in Handlers, handler'[g].held
                 PROVE  /\ handler'[g].step = "update"
                        /\ handler'[g].copy = [repo EXCEPT !.cursor = 0]
    BY <2>1, <1>i
  <2>3. PICK h \in Handlers : \/ Receive(h) \/ ListRepositories(h) \/ GetRepository(h)
                              \/ UpdateConflict(h) \/ HandlerFails(h)
    BY <1>2 DEF HandlerReads
  <2>4. CASE g # h
    <3>1. handler'[g] = handler[g]
      BY <2>3, <2>4 DEF Receive, ListRepositories, GetRepository, UpdateConflict,
         HandlerFails, Finish, IInv, TypeOK
    <3> QED BY <3>1, <2>2, <1>i
  <2>5. CASE g = h
    <3>h. /\ handler \in [Handlers -> Handler] /\ handler[h] \in Handler /\ ~Idle.held
      BY DEF IInv, TypeOK, Idle
    <3>1. CASE Receive(h)
      BY <3>1, <3>h, <2>2, <2>5 DEF Receive, Idle
    <3>2. CASE ListRepositories(h)
      <4>1. ~handler'[h].held
        BY <3>2, <3>h, <1>i DEF ListRepositories, Finish, Handler
      <4> QED BY <4>1, <2>2, <2>5
    <3>3. CASE GetRepository(h)
      BY <3>3, <3>h, <2>5 DEF GetRepository, Handler
    <3>4. CASE UpdateConflict(h)
      <4>1. ~handler'[h].held
        BY <3>4, <3>h DEF UpdateConflict, Finish, Handler
      <4> QED BY <4>1, <2>2, <2>5
    <3>5. CASE HandlerFails(h)
      BY <3>5, <3>h, <2>2, <2>5 DEF HandlerFails
    <3> QED BY <2>3, <3>1, <3>2, <3>3, <3>4, <3>5
  <2> QED BY <2>4, <2>5
<1>3. CASE ~Stores /\ ~HandlerReads
  <2>1. UNCHANGED <<handler, repo>>
    BY <1>3, OtherStep
  <2>2. (fresh' => cached' = repo) /\ (held' => copy' = repo)
    BY <1>3, <1>i DEF Next, Handle, Reconcile, Stores, HandlerReads, vars, Push,
       CacheRepository, TimerFires, Begin, FetchHead, RequeueForPoll, Conflict, ReturnError,
       Fault, Restart, CalmDown, Goto, Return, informer, reconcile
  <2> QED BY <2>1, <2>2, <1>i
<1> QED BY <1>1, <1>2, <1>3

(* The cursor follows GitHub. *)
LEMMA CursorStep ==
  ASSUME IInv, [Next]_vars PROVE CursorInv'
<1> USE DEF CursorInv
<1>i. CursorInv /\ CopyInv
  BY DEF IInv
<1>t. /\ repo.cursor \in Nat /\ copy.cursor \in Nat /\ cached.cursor \in Nat
      /\ head \in Nat /\ fetched \in Nat
  BY ConstantsAssumption DEF IInv, TypeOK, Repository
<1>1. CASE Stores
  <2>1. repo'.cursor \in Nat
    BY TypeStep, ConstantsAssumption DEF IInv, TypeOK, Repository
  <2>2. cached'.cursor <= repo'.cursor /\ head' = head
    BY <1>1, <1>i, <1>t, <2>1, StoreAges, StoreNumbers
  <2>3. pc = "cursor" => fetched <= head
    BY <1>i
  <2> QED BY <1>1, <2>2, <2>3, StoreNumbers
<1>2. CASE HandlerReads
  BY <1>2, <1>i, HandlerStep
<1>3. CASE ~Stores /\ ~HandlerReads
  <2>1. repo' = repo
    BY <1>3, OtherStep
  <2>r. ASSUME Return \/ Goto("error") PROVE pc' # "cursor" /\ copy'.cursor = 0
    BY <2>r DEF Return, Goto, NoRepository
  <2>2. CASE Push
    BY <2>1, <2>2, <1>i, <1>t DEF Push, informer, reconcile
  <2>3. CASE CacheRepository \/ TimerFires \/ CalmDown \/ UNCHANGED vars
    BY <2>1, <2>3, <1>i, <1>t DEF CacheRepository, TimerFires, CalmDown, vars, github, informer,
       reconcile
  <2>4. CASE Begin
    BY <2>1, <2>4, <1>i, <1>t DEF Begin, github, informer
  <2>5. CASE FetchHead
    BY <2>1, <2>5, <1>i, <1>t DEF FetchHead, github, informer
  <2>6. CASE RequeueForPoll \/ Conflict \/ ReturnError \/ Fault
    BY <2>1, <2>6, <2>r, <1>i, <1>t DEF RequeueForPoll, Conflict, ReturnError, Fault, github,
       informer
  <2>7. CASE Restart
    BY <2>1, <2>7, <2>r, <1>i, <1>t DEF Restart, github
  <2> QED BY <1>3, <2>2, <2>3, <2>4, <2>5, <2>6, <2>7 DEF Next, Handle, Reconcile, Stores,
          HandlerReads
<1> QED BY <1>1, <1>2, <1>3

(* Where there is no Repository none is reconciled. *)
LEMMA AbsentStep ==
  ASSUME IInv, [Next]_vars PROVE AbsentInv'
<1> USE DEF AbsentInv
<1>i. AbsentInv
  BY DEF IInv
<1>1. CASE Stores
  <2>1. SUFFICES ASSUME ~repo'.present PROVE AbsentInv'
    OBVIOUS
  <2>2. repo' = repo /\ cached' = cached /\ ~repo.present
    BY <1>1, <2>1, StoreFlags, StoreAges
  <2>3. pc' = pc
    BY <1>1, <1>i, <2>1, <2>2 DEF Stores, UpdateAnnotation, CreateRepository, EditRepository,
       AddFinalizer, EnsureLabels, StoreCursor, Store, NoRepository
  <2> QED BY <1>i, <2>2, <2>3
<1>2. CASE HandlerReads
  BY <1>2, <1>i, HandlerStep
<1>3. CASE ~Stores /\ ~HandlerReads
  <2>1. UNCHANGED repo
    BY <1>3, OtherStep
  <2>2. ~repo.present => ~cached'.present /\ pc' = "idle"
    BY <1>3, <1>i DEF Next, Handle, Reconcile, Stores, HandlerReads, vars, Push,
       CacheRepository, TimerFires, Begin, FetchHead, RequeueForPoll, Conflict, ReturnError,
       Fault, Restart, CalmDown, Return, Goto, informer, reconcile
  <2> QED BY <2>1, <2>2, <1>i
<1> QED BY <1>1, <1>2, <1>3

(* Labels that are missing are missed. *)
LEMMA LabelStep ==
  ASSUME IInv, [Next]_vars PROVE LabelInv'
<1> USE DEF LabelInv
<1>i. LabelInv /\ CopyInv
  BY DEF IInv
<1>1. CASE Stores
  BY <1>1, StoreAges
<1>2. CASE HandlerReads
  BY <1>2, <1>i, HandlerStep
<1>3. CASE ~Stores /\ ~HandlerReads
  <2>1. UNCHANGED repo
    BY <1>3, OtherStep
  <2>2. CASE Push \/ CacheRepository \/ TimerFires \/ CalmDown \/ Restart \/ UNCHANGED vars
    BY <2>1, <2>2, <1>i DEF Push, CacheRepository, TimerFires, CalmDown, Restart, vars,
       informer, reconcile
  <2>3. CASE Begin
    BY <2>1, <2>3, <1>i DEF Begin, CopyInv, informer
  <2>4. CASE FetchHead \/ RequeueForPoll \/ Conflict \/ ReturnError \/ Fault
    BY <2>1, <2>4, <1>i DEF FetchHead, RequeueForPoll, Conflict, ReturnError, Fault, Goto,
       informer
  <2> QED BY <1>3, <2>2, <2>3, <2>4 DEF Next, Handle, Reconcile, Stores, HandlerReads
<1> QED BY <1>1, <1>2, <1>3

(* A push that is taken care of stays so until it is synced. *)
LEMMA TakenStep ==
  ASSUME IInv, [Next]_vars, NEW p \in Nat, p <= head, Taken(p)
  PROVE  Taken(p)'
<1> USE DEF Taken
<1>i. CopyInv /\ CursorInv
  BY DEF IInv
<1>t. /\ repo.cursor \in Nat /\ copy.cursor \in Nat /\ head \in Nat /\ fetched \in Nat
      /\ copy.cursor <= repo.cursor
  BY ConstantsAssumption DEF IInv, TypeOK, Repository, CursorInv
<1>1. CASE Stores
  BY <1>1, StoreAges
<1>2. CASE HandlerReads
  BY <1>2, HandlerStep
<1>3. CASE ~Stores /\ ~HandlerReads
  <2>1. UNCHANGED repo
    BY <1>3, OtherStep
  <2>2. CASE Push \/ CacheRepository \/ TimerFires \/ CalmDown \/ Restart \/ UNCHANGED vars
    BY <2>1, <2>2 DEF Push, CacheRepository, TimerFires, CalmDown, Restart, vars,
       informer, reconcile
  <2>3. CASE Begin
    BY <2>1, <2>3, <1>i DEF Begin, CopyInv, informer
  <2>4. CASE FetchHead
    BY <2>4 DEF FetchHead
  <2>5. CASE RequeueForPoll
    BY <2>1, <2>5, <1>t DEF RequeueForPoll, Return, Goto, informer
  <2>6. CASE Conflict \/ ReturnError \/ Fault
    BY <2>6 DEF Conflict, ReturnError, Fault, Goto
  <2> QED BY <1>3, <2>2, <2>3, <2>4, <2>5, <2>6 DEF Next, Handle, Reconcile, Stores,
          HandlerReads
<1> QED BY <1>1, <1>2, <1>3

(* A handler that ends without a failed call leaves its push taken care of. *)
LEMMA ToldStep ==
  ASSUME IInv, [Next]_vars
  PROVE  told' <= head /\ Taken(told)'
<1>t. /\ told \in Nat /\ head \in Nat /\ told <= head /\ Taken(told)
      /\ \A h \in Handlers : handler[h].push \in Nat /\ handler[h].push <= head
  BY ConstantsAssumption DEF IInv, TypeOK, PushInv, Handler
<1>k. ASSUME NEW p \in Nat, told' = p, p <= head, Taken(p)
      PROVE  told' <= head /\ Taken(told)'
  <2>1. Taken(p)'
    BY <1>k, TakenStep
  <2> QED BY <1>k, <2>1 DEF Taken
<1>1. CASE told' = told
  BY <1>1, <1>t, <1>k
<1>2. ASSUME NEW h \in Handlers, UpdateAnnotation(h)
      PROVE  told' <= head /\ Taken(told)'
  BY <1>2, <1>t DEF UpdateAnnotation, Store, Latest, Taken
<1>3. ASSUME NEW h \in Handlers, ListRepositories(h)
      PROVE  told' <= head /\ Taken(told)'
  <2>1. CASE repo.present /\ repo.labelled
    BY <1>1, <1>3, <2>1 DEF ListRepositories
  <2>2. CASE ~(repo.present /\ repo.labelled)
    <3>1. told' = told \/ told' = handler[h].push
      BY <1>3, <2>2 DEF ListRepositories, Finish, Latest
    <3>2. \A p \in Nat : Taken(p)
      BY <2>2 DEF Taken, IInv, LabelInv
    <3> QED BY <3>1, <3>2, <1>t, <1>k
  <2> QED BY <2>1, <2>2
<1>4. ASSUME NEW h \in Handlers, UpdateConflict(h)
      PROVE  told' <= head /\ Taken(told)'
  <2>1. told' = told \/ told' = handler[h].push
    BY <1>4 DEF UpdateConflict, Finish, Latest
  <2>2. Taken(handler[h].push)
    BY <1>4 DEF UpdateConflict, IInv, PushInv
  <2> QED BY <2>1, <2>2, <1>t, <1>k
<1>5. CASE Stores
  BY <1>1, <1>2, <1>5 DEF Stores, CreateRepository, EditRepository, AddFinalizer, EnsureLabels,
     StoreCursor
<1>6. ASSUME NEW h \in Handlers, Receive(h) \/ GetRepository(h) \/ HandlerFails(h)
      PROVE  told' = told
  BY <1>6 DEF Receive, GetRepository, HandlerFails
<1>7. CASE HandlerReads
  BY <1>1, <1>3, <1>4, <1>6, <1>7 DEF HandlerReads
<1>8. CASE ~Stores /\ ~HandlerReads
  BY <1>1, <1>8, OtherStep
<1> QED BY <1>5, <1>7, <1>8

(* The pushes of handlers were made, and those whose update will be refused *)
(* are taken care of.                                                       *)
LEMMA HandlerPushStep ==
  ASSUME IInv, [Next]_vars, NEW g \in Handlers
  PROVE  /\ handler'[g].push <= head
         /\ handler'[g].step = "update" /\ ~handler'[g].held =>
              Taken(handler[g].push)'
<1>t. /\ handler \in [Handlers -> Handler] /\ handler[g] \in Handler
      /\ handler[g].push \in Nat /\ handler[g].push <= head /\ head \in Nat
      /\ handler[g].step = "update" /\ ~handler[g].held => Taken(handler[g].push)
  BY ConstantsAssumption DEF IInv, TypeOK, PushInv, Handler
<1> DEFINE Kept == handler'[g].step = "update" /\ ~handler'[g].held =>
                     Taken(handler[g].push)'
<1>e. ASSUME handler'[g] = Idle
      PROVE  handler'[g].push <= head /\ Kept
  <2>1. handler'[g].push = 0 /\ handler'[g].step # "update"
    BY <1>e DEF Idle
  <2> QED BY <2>1, <1>t
<1>k. ASSUME handler'[g] = handler[g]
      PROVE  handler'[g].push <= head /\ Kept
  <2>1. ASSUME NEW p \in Nat, p = handler[g].push, Taken(p)
        PROVE  Taken(handler[g].push)'
    <3>1. Taken(p)'
      BY <1>t, <2>1, TakenStep
    <3> QED BY <1>k, <2>1, <3>1 DEF Taken
  <2> QED BY <1>k, <1>t, <2>1
<1>1. CASE Stores
  <2>1. handler'[g] = Idle \/ handler'[g].push = handler[g].push
    BY <1>1, StoreReleases
  <2>2. Kept
    BY <1>1, StoreAges DEF Taken
  <2> QED BY <2>1, <2>2, <1>t, <1>e
<1>2. CASE HandlerReads
  <2>1. PICK h \in Handlers : \/ Receive(h) \/ ListRepositories(h) \/ GetRepository(h)
                              \/ UpdateConflict(h) \/ HandlerFails(h)
    BY <1>2 DEF HandlerReads
  <2>2. CASE g # h
    BY <2>1, <2>2, <1>t, <1>k DEF Receive, ListRepositories, GetRepository, UpdateConflict,
       HandlerFails, Finish
  <2>3. CASE g = h /\ Receive(h)
    <3>1. PICK p \in Pushes : /\ sent[p] > 0
                              /\ handler'[g] = [Idle EXCEPT !.step = "list", !.push = p]
      BY <2>3, <1>t DEF Receive
    <3>2. p <= head /\ p \in Nat
      BY <3>1, ConstantsAssumption DEF IInv, PushInv, Pushes
    <3>3. handler'[g].push = p /\ handler'[g].step = "list"
      BY <3>1 DEF Idle
    <3> QED BY <3>2, <3>3
  <2>4. CASE g = h /\ (ListRepositories(h) \/ UpdateConflict(h) \/ HandlerFails(h))
    <3>1. handler'[g] = Idle \/ (handler'[g].step = "get" /\ handler'[g].push = handler[g].push)
      BY <2>4, <1>t DEF ListRepositories, UpdateConflict, HandlerFails, Finish, Handler
    <3> QED BY <3>1, <1>e, <1>t
  <2>5. CASE g = h /\ GetRepository(h)
    <3>1. handler'[g].held /\ handler'[g].push = handler[g].push
      BY <2>5, <1>t DEF GetRepository, Handler
    <3> QED BY <3>1, <1>t
  <2> QED BY <2>1, <2>2, <2>3, <2>4, <2>5
<1>3. CASE ~Stores /\ ~HandlerReads
  BY <1>3, <1>k, OtherStep
<1> QED BY <1>1, <1>2, <1>3

(* What was pushed was pushed. *)
LEMMA PushStep ==
  ASSUME IInv, [Next]_vars PROVE PushInv'
<1>t. head \in Nat /\ head' \in Nat /\ told' \in Nat
      /\ sent \in [Pushes -> 0 .. MaxCopies]
      /\ \A h \in Handlers : handler'[h].push \in Nat
  BY TypeStep, ConstantsAssumption DEF IInv, TypeOK, Handler
<1>1. head <= head' /\ \A p \in Pushes : sent'[p] > 0 => p <= head'
  <2>1. CASE Push
    BY <2>1, <1>t, ConstantsAssumption DEF Push, IInv, PushInv, Pushes
  <2>2. CASE \E h \in Handlers : Receive(h)
    <3>1. PICK h \in Handlers, q \in Pushes :
            sent[q] > 0 /\ sent' = [sent EXCEPT ![q] = @ - 1] /\ head' = head
      BY <2>2 DEF Receive
    <3> QED BY <3>1, <1>t, ConstantsAssumption DEF IInv, PushInv, Pushes
  <2>3. CASE UNCHANGED <<head, sent>>
    BY <2>3, <1>t DEF IInv, PushInv
  <2>4. CASE Stores
    BY <2>3, <2>4, StoreAges
  <2>5. CASE HandlerReads /\ ~\E h \in Handlers : Receive(h)
    BY <2>3, <2>5 DEF HandlerReads, ListRepositories, GetRepository, UpdateConflict,
       HandlerFails, github
  <2>6. CASE ~Stores /\ ~HandlerReads /\ ~Push
    BY <2>3, <2>6 DEF Next, Handle, Reconcile, Stores, HandlerReads, vars, CacheRepository,
       TimerFires, Begin, FetchHead, RequeueForPoll, Conflict, ReturnError, Fault, Restart,
       CalmDown, github
  <2> QED BY <2>1, <2>2, <2>4, <2>5, <2>6
<1>2. told' <= head' /\ Taken(told)'
  BY <1>1, <1>t, ToldStep
<1>3. \A h \in Handlers : handler'[h].push <= head'
  BY <1>1, <1>t, HandlerPushStep
<1> QED BY <1>1, <1>2, <1>3, HandlerPushStep DEF PushInv
-----------------------------------------------------------------------------
(* The conjuncts together are inductive. *)
LEMMA Invariance == Spec => []IInv
<1>1. Init => IInv
  <2> SUFFICES ASSUME Init PROVE IInv
    OBVIOUS
  <2>1. TypeOK
    BY InitType
  <2>2. CopyInv /\ AbsentInv /\ LabelInv
    BY DEF Init, CopyInv, AbsentInv, LabelInv, Idle, NoRepository
  <2>3. CursorInv /\ PushInv
    BY DEF Init, CursorInv, PushInv, Taken, Idle, NoRepository
  <2> QED BY <2>1, <2>2, <2>3 DEF IInv
<1>2. IInv /\ [Next]_vars => IInv'
  BY TypeStep, CopyStep, CursorStep, AbsentStep, LabelStep, PushStep DEF IInv
<1> QED BY <1>1, <1>2, PTL DEF Spec

(* When the controller is at rest, every push is synced whose delivery met  *)
(* no failed call -- also if its handler found no labelled Repository, or   *)
(* gave up after conflicts -- for any number of handlers, pushes and copies. *)
THEOREM DeliveredMeansSynced == Spec => []NoPushForgotten
<1>1. IInv => NoPushForgotten
  BY DEF IInv, PushInv, Taken, NoPushForgotten, Quiet
<1> QED BY <1>1, Invariance, PTL

(* Whatever is stored, and by whom, a finalizer, a cursor and the labels    *)
(* that were stored before stay, but for what a user edits.                 *)
THEOREM StoredIsKept == Spec => NothingTakenBack
<1>1. ASSUME IInv, [Next]_vars
      PROVE  /\ repo.finalizer => repo'.finalizer
             /\ repo.cursor <= repo'.cursor
             /\ repo.labelled /\ ~repo'.labelled => edits' # edits
  <2>1. repo.cursor \in Nat
    BY <1>1, ConstantsAssumption DEF IInv, TypeOK, Repository
  <2>2. CASE Stores
    BY <1>1, <2>2, StoreFlags, StoreNumbers
  <2>3. CASE ~Stores
    <3>1. repo' = repo
      BY <1>1, <2>3, HandlerStep, OtherStep
    <3> QED BY <2>1, <3>1
  <2> QED BY <2>2, <2>3
<1>2. IInv /\ [Next]_vars =>
        [/\ repo.finalizer => repo'.finalizer
         /\ repo.cursor <= repo'.cursor
         /\ repo.labelled /\ ~repo'.labelled => edits' # edits]_vars
  BY <1>1
<1> QED BY <1>2, Invariance, PTL DEF Spec, NothingTakenBack
=============================================================================
