--------------------- MODULE RepositoryControllerProofs ---------------------
(***************************************************************************)
(* RepositoryController for every value of its constants: the inductive    *)
(* invariant IInv and the safety properties that follow from it.           *)
(***************************************************************************)
EXTENDS RepositoryController, FiniteSetTheorems, TLAPS

(* The history is a partial order that agrees with the numbering, of the   *)
(* first commits of the numbering.                                         *)
HistoryInv ==
  /\ \A c \in Published, d \in Commits : d <= c => d \in Published
  /\ \A c \in Commits : \A d \in anc[c] :
       /\ d <= c /\ c \in anc[c]
       /\ d \in anc[d] /\ anc[d] \subseteq anc[c]
  /\ head \in Published \cup {NoSHA}

(* Whoever holds the current resourceVersion holds the stored object. *)
CurrentInv == (held => repo = obj) /\ (fresh => cached = obj)

(* Every cursor is a commit GitHub has published. *)
PublishedInv ==
  {obj.cursor, cached.cursor, repo.cursor, headSHA, last}
    \subseteq Published \cup {NoSHA}

(* Branches are created for published commits only. *)
TodoInv == todo \subseteq Published

(* A Branch that is stored, cached or listed was created. *)
CreatedInv == branches \cup seen \cup existing \subseteq created

(* A reconcile past ensureBootstrapResetID has an ID if and only if a reset *)
(* is requested; it is at the cutover only if one is due, and past it only  *)
(* if the requested one is applied.                                         *)
ResetInv ==
  /\ pc \in {"fetch", "bootstrap"} =>
       (IsBootstrapResetRequested(repo) <=> repo.resetID # NoID)
  /\ pc = "bootstrap" => ShouldBootstrapFromHead(repo) /\ headSHA # NoSHA
  /\ pc \in {"collect", "create", "heads", "ack"} =>
       (IsBootstrapResetRequested(repo) =>
          repo.resetID # NoID /\ repo.appliedID = repo.resetID)
  /\ pc = "ack" => IsBootstrapResetRequested(repo)
  /\ pc = "collect" => headSHA # NoSHA

(* While a batch is delivered, every commit between the cursor and the last *)
(* one of the batch has had its Branch or is still to get it.               *)
BatchInv ==
  pc = "create" =>
    /\ last # NoSHA
    /\ last \in created \cup todo \cup {repo.cursor}
    /\ \/ repo.cursor = NoSHA
       \/ Ancestors(last) \ Ancestors(repo.cursor) \subseteq created \cup todo
       \/ repo.cursor \in lost /\ last \in created \cup todo

(* Identities are used once: the applied one is never newer than the        *)
(* requested one, nor that one than the last one minted.                    *)
IdentityInv ==
  /\ obj.appliedID <= minted /\ obj.resetID <= minted
  /\ obj.resetID # NoID => obj.appliedID <= obj.resetID

(* With informers that do not lag: Branches exist only under a Repository  *)
(* that carries the finalizer, and none is left when it is removed.        *)
CleanupInv ==
  ~StaleCache =>
    /\ fresh /\ seen = branches
    /\ branches # {} => obj.present /\ obj.finalizer
    /\ pc \notin {"idle", "finalizer"} => obj.present /\ obj.finalizer
    /\ pc = "unfinalize" => branches = {}

IInv ==
  /\ TypeOK /\ HistoryInv /\ CurrentInv /\ PublishedInv /\ TodoInv
  /\ CreatedInv /\ ResetInv /\ BatchInv /\ IdentityInv /\ CleanupInv
-----------------------------------------------------------------------------
(* Finite sets of commits, and the page CompareCommits returns. *)

LEMMA FinitePast ==
  ASSUME NEW S \in SUBSET Commits, NEW c \in Commits
  PROVE  LET past == {d \in S : d < c}
         IN  IsFiniteSet(past) /\ Cardinality(past) \in Nat
<1>1. IsFiniteSet(1 .. MaxCommit)
  BY ConstantsAssumption, FS_Interval
<1>2. {d \in S : d < c} \in SUBSET (1 .. MaxCommit)
  BY DEF Commits
<1> QED
  BY <1>1, <1>2, FS_Subset, FS_CardinalityType

(* A page holds, with any commit, every older one of the backlog. *)
LEMMA PageIsPrefix ==
  ASSUME NEW S \in SUBSET Commits, NEW c \in FirstPage(S),
         NEW d \in S, d <= c
  PROVE  d \in FirstPage(S)
<1> DEFINE before(x) == {e \in S : e < x}
<1>1. c \in Commits /\ d \in Commits /\ S \subseteq Nat
  BY DEF FirstPage, Commits
<1>2. IsFiniteSet(before(c)) /\ Cardinality(before(c)) \in Nat
  BY <1>1, FinitePast
<1>3. Cardinality(before(d)) \in Nat
  BY <1>1, FinitePast
<1>4. before(d) \in SUBSET before(c)
  <2>1. ASSUME NEW e \in S, e < d PROVE e < c
    BY <1>1, <2>1 DEF Commits
  <2> QED BY <2>1
<1>5. Cardinality(before(d)) <= Cardinality(before(c))
  <2> HIDE DEF before
  <2> QED BY <1>2, <1>4, FS_Subset
<1>6. Cardinality(before(c)) < PageSize
  BY DEF FirstPage
<1>7. Cardinality(before(d)) < PageSize
  <2> HIDE DEF before
  <2> QED BY <1>2, <1>3, <1>5, <1>6, ConstantsAssumption
<1> QED BY <1>7 DEF FirstPage
-----------------------------------------------------------------------------
(* The Repository that a reconcile starts from has the type of one. *)
LEMMA BlankType == Blank \in Repository
BY ConstantsAssumption
   DEF Repository, Blank, SHAs, ResetIDs, ResetValues, Ready, NoSHA, NoID

(* The initial states are of their types. *)
LEMMA TypeInit == Init => TypeOK
<1> SUFFICES ASSUME Init PROVE TypeOK
  OBVIOUS
<1>1. obj \in Repository
  BY BlankType DEF Init, Repository, ResetValues
<1>2. cached \in Repository /\ repo \in Repository
  BY <1>1, BlankType DEF Init
<1>3. NoSHA \in SHAs /\ 0 \in ResetIDs
  BY ConstantsAssumption DEF SHAs, ResetIDs, NoSHA
<1>4. "lookup" \in Causes /\ "idle" \in Steps
  BY DEF Causes, Steps
<1> QED
  BY <1>1, <1>2, <1>3, <1>4 DEF Init, TypeOK

(* A stored Repository has its type in the API server and in the cache. *)
LEMMA StoreType ==
  ASSUME TypeOK, NEW o \in Repository, Store(o)
  PROVE  obj' \in Repository /\ cached' \in Repository /\ fresh' \in BOOLEAN
BY DEF TypeOK, Store

(* What a reconcile leaves behind when it ends has its type. *)
LEMMA ReturnType ==
  ASSUME Return
  PROVE  /\ pc' \in Steps /\ repo' \in Repository /\ held' \in BOOLEAN
         /\ existing' \subseteq Commits /\ headSHA' \in SHAs
         /\ todo' \subseteq Commits /\ last' \in SHAs /\ cause' \in Causes
<1>1. NoSHA \in SHAs
  BY ConstantsAssumption DEF SHAs, NoSHA
<1>2. "lookup" \in Causes /\ "idle" \in Steps
  BY DEF Causes, Steps
<1> QED BY <1>1, <1>2, BlankType DEF Return, Goto

(* The variables keep their types. *)
LEMMA TypeStep == TypeOK /\ [Next]_vars => TypeOK'
<1> SUFFICES ASSUME TypeOK, [Next]_vars PROVE TypeOK'
  OBVIOUS
<1> USE ConstantsAssumption
<1>1. CASE Begin
  BY <1>1 DEF Begin, TypeOK, Goto, Steps, github, locals
<1>2. CASE AddFinalizer
  <2>1. [repo EXCEPT !.finalizer = TRUE] \in Repository
    BY DEF TypeOK, Repository
  <2> QED BY <1>2, <2>1, StoreType, ReturnType
       DEF AddFinalizer, TypeOK, Write, github
<1>3. CASE EnsureLabels
  <2>1. [repo EXCEPT !.labels = TRUE] \in Repository
    BY DEF TypeOK, Repository
  <2> QED BY <1>3, <2>1, StoreType, ReturnType
       DEF EnsureLabels, TypeOK, Write, github
<1>4. CASE ListBranches
  BY <1>4 DEF ListBranches, TypeOK, Goto, Steps, github
<1>5. CASE MintResetID
  <2>1. minted + 1 \in ResetIDs
    BY <1>5 DEF MintResetID, TypeOK, ResetIDs
  <2>2. [repo EXCEPT !.resetID = minted + 1] \in Repository
    BY <2>1 DEF TypeOK, Repository
  <2> QED BY <1>5, <2>1, <2>2, StoreType
       DEF MintResetID, TypeOK, WriteAndGo, Write, github, locals, Steps
<1>6. CASE ClearResetID
  <2>1. [repo EXCEPT !.resetID = NoID] \in Repository
    BY DEF TypeOK, Repository, ResetIDs, NoID
  <2> QED BY <1>6, <2>1, StoreType
       DEF ClearResetID, TypeOK, WriteAndGo, Write, github, locals, Steps
<1>7. CASE KeepResetID
  BY <1>7 DEF KeepResetID, TypeOK, Goto, Steps, github, locals
<1>8. CASE FetchHead \/ FetchHeadFails
  BY <1>8 DEF FetchHead, FetchHeadFails, TypeOK, Goto, Steps, github, Causes
<1>9. CASE MarkFailure
  <2>1. [repo EXCEPT !.ready = cause] \in Repository
    BY DEF TypeOK, Repository, Ready
  <2> QED BY <1>9, <2>1, StoreType, ReturnType
       DEF MarkFailure, TypeOK, Write, github
<1>10. CASE Bootstrap
  <2> DEFINE o == [repo EXCEPT
                     !.cursor = headSHA,
                     !.appliedID = IF IsBootstrapResetRequested(repo)
                                   THEN repo.resetID ELSE @,
                     !.ready = "initialized"]
  <2>1. o \in Repository
    BY DEF TypeOK, Repository, Ready
  <2>2. Store(o) /\ repo' = o /\ held' = held /\ pc' = "heads"
    BY <1>10 DEF Bootstrap, WriteAndGo, Write
  <2> HIDE DEF o
  <2> QED BY <1>10, <2>1, <2>2, StoreType
       DEF Bootstrap, TypeOK, github, locals, Steps
<1>11. CASE BootstrapFails
  BY <1>11 DEF BootstrapFails, TypeOK, Goto, Steps, github, Causes
<1>12. CASE Collect
  <2>1. todo' \subseteq Commits
    <3>1. Ancestors(headSHA) \subseteq Commits
      BY DEF Ancestors, TypeOK, SHAs, Commits, NoSHA
    <3>2. headSHA # NoSHA => headSHA \in Commits
      BY DEF TypeOK, SHAs, Commits, NoSHA
    <3> QED BY <1>12, <3>1, <3>2 DEF Collect, CommitsToDeliver, FirstPage
  <2>2. last' \in SHAs
    BY <1>12, <2>1 DEF Collect, Newest, TypeOK, SHAs, Commits
  <2> QED BY <1>12, <2>1, <2>2 DEF Collect, TypeOK, Goto, Steps, github
<1>13. CASE CollectFails
  BY <1>13, ReturnType DEF CollectFails, TypeOK, github
<1>14. ASSUME NEW c \in Commits, Deliver(c) PROVE TypeOK'
  <2>1. CASE SkipExisting(c)
    BY <2>1 DEF SkipExisting, TypeOK, github
  <2>2. CASE CreateBranch(c)
    BY <2>2 DEF CreateBranch, SetBranches, TypeOK, github
  <2>3. CASE AlreadyExists(c)
    BY <2>3, ReturnType DEF AlreadyExists, TypeOK, github
  <2> QED BY <1>14, <2>1, <2>2, <2>3 DEF Deliver
<1>15. CASE AdvanceCursor
  <2>1. [repo EXCEPT !.cursor = last] \in Repository
    BY DEF TypeOK, Repository
  <2> QED BY <1>15, <2>1, StoreType
       DEF AdvanceCursor, TypeOK, WriteAndGo, Write, github, locals, Steps
<1>16. CASE KeepCursor
  BY <1>16 DEF KeepCursor, TypeOK, Goto, Steps, github, locals
<1>17. CASE SyncHeads
  BY <1>17, ReturnType DEF SyncHeads, TypeOK, Goto, Steps, github, locals
<1>18. CASE Acknowledge
  <2>1. "done" \in ResetValues /\ NoID \in ResetIDs
    BY DEF ResetValues, ResetIDs, NoID
  <2>2. [repo EXCEPT !.reset = "done", !.resetID = NoID] \in Repository
    BY <2>1 DEF TypeOK, Repository
  <2> QED BY <1>18, <2>2, StoreType, ReturnType
       DEF Acknowledge, TypeOK, Write, github
<1>19. CASE DeleteBranches
  BY <1>19 DEF DeleteBranches, TypeOK, Goto, Steps, github, locals
<1>20. CASE DeleteSomeBranches
  BY <1>20, ReturnType DEF DeleteSomeBranches, TypeOK, github
<1>21. CASE WaitForBranches
  BY <1>21, ReturnType DEF WaitForBranches, TypeOK, Goto, Steps, github, locals
<1>22. CASE RemoveFinalizer
  <2>1. [repo EXCEPT !.finalizer = FALSE, !.present = FALSE] \in Repository
    BY DEF TypeOK, Repository
  <2> QED BY <1>22, <2>1, StoreType, ReturnType
       DEF RemoveFinalizer, TypeOK, Write, github
<1>23. CASE Conflict \/ Fault
  BY <1>23, ReturnType DEF Conflict, Fault, TypeOK, github
<1>24. CASE GitHubStep
  <2>1. ASSUME NEW c \in Commits, NEW m \in SHAs, NEW n \in SHAs, Commit(c, m, n)
        PROVE  TypeOK'
    <3>1. Ancestors(m) \subseteq Commits /\ Ancestors(n) \subseteq Commits
      BY DEF Ancestors, TypeOK, SHAs, Commits, NoSHA
    <3> QED BY <2>1, <3>1 DEF Commit, TypeOK, reconcile
  <2>2. ASSUME NEW c \in Commits, MoveHead(c) PROVE TypeOK'
    BY <2>2 DEF MoveHead, TypeOK, reconcile, SHAs, Commits
  <2>3. ASSUME NEW c \in Commits, LoseCommit(c) PROVE TypeOK'
    BY <2>3 DEF LoseCommit, TypeOK, reconcile, Published
  <2> QED BY <1>24, <2>1, <2>2, <2>3 DEF GitHubStep
<1>25. CASE OperatorRequest
  <2>1. [obj EXCEPT !.reset = "true"] \in Repository
    BY DEF TypeOK, Repository, ResetValues
  <2> QED BY <1>25, <2>1, StoreType
       DEF OperatorRequest, WriteOver, TypeOK, others
<1>26. CASE OperatorCancel
  <2>1. [obj EXCEPT !.reset = ""] \in Repository
    BY DEF TypeOK, Repository, ResetValues
  <2> QED BY <1>26, <2>1, StoreType
       DEF OperatorCancel, WriteOver, TypeOK, others
<1>27. CASE OperatorDelete
  <2> DEFINE o == IF obj.finalizer THEN [obj EXCEPT !.deleting = TRUE]
                  ELSE [obj EXCEPT !.deleting = TRUE, !.present = FALSE]
  <2>1. o \in Repository
    BY DEF TypeOK, Repository
  <2>2. Store(o) /\ held' = FALSE /\ repo' = repo
    BY <1>27 DEF OperatorDelete, WriteOver
  <2> HIDE DEF o
  <2> QED BY <1>27, <2>1, <2>2, StoreType DEF OperatorDelete, TypeOK, others
<1>28. CASE RequestRepositorySync
  <2>1. obj \in Repository
    BY DEF TypeOK
  <2> QED BY <1>28, <2>1, StoreType
       DEF RequestRepositorySync, WriteOver, TypeOK, others
<1>29. ASSUME NEW c \in Commits, BranchEnds(c) PROVE TypeOK'
  BY <1>29 DEF BranchEnds, SetBranches, TypeOK, github, locals
<1>30. CASE CacheSync
  BY <1>30 DEF CacheSync, TypeOK, github, locals
<1>31. ASSUME NEW c \in Commits, SeeBranch(c) PROVE TypeOK'
  BY <1>31 DEF SeeBranch, TypeOK, github, locals
<1>32. CASE UNCHANGED vars
  BY <1>32 DEF vars, TypeOK
<1> QED
  BY <1>1, <1>2, <1>3, <1>4, <1>5, <1>6, <1>7, <1>8, <1>9, <1>10, <1>11,
     <1>12, <1>13, <1>14, <1>15, <1>16, <1>17, <1>18, <1>19, <1>20, <1>21,
     <1>22, <1>23, <1>24, <1>25, <1>26, <1>27, <1>28, <1>29, <1>30, <1>31,
     <1>32
     DEF Next, Reconcile, Failure, Informers, OperatorStep,
         BootstrapConflict, BootstrapRejected

(* Every variable stays in its type, whatever the informers, the operator,   *)
(* GitHub and failing calls do.                                              *)
THEOREM TypeCorrect == Spec => []TypeOK
<1> QED BY TypeInit, TypeStep, PTL DEF Spec
-----------------------------------------------------------------------------
(* Only GitHub changes the history. *)
LEMMA GitHubFrame == [Next]_vars => GitHubStep \/ UNCHANGED github
BY DEF Next, Reconcile, Failure, Informers, OperatorStep, Deliver, vars, github,
   Begin, AddFinalizer, EnsureLabels, ListBranches, MintResetID, ClearResetID,
   KeepResetID, FetchHead, FetchHeadFails, MarkFailure, Bootstrap,
   BootstrapFails, BootstrapConflict, BootstrapRejected, Collect, CollectFails,
   SkipExisting, CreateBranch, AlreadyExists, AdvanceCursor, KeepCursor,
   SyncHeads, Acknowledge, DeleteBranches, DeleteSomeBranches, WaitForBranches,
   RemoveFinalizer, Conflict, Fault, OperatorRequest, OperatorCancel,
   OperatorDelete, RequestRepositorySync, others, BranchEnds, CacheSync,
   SeeBranch

(* What a step does to the stored Repository: nothing, a write of the       *)
(* reconcile, or a write of somebody else.                                  *)
LEMMA CurrentStep == TypeOK /\ CurrentInv /\ [Next]_vars => CurrentInv'
<1> SUFFICES ASSUME TypeOK, CurrentInv, [Next]_vars PROVE CurrentInv'
  OBVIOUS
<1> USE DEF CurrentInv, Return, Write, WriteAndGo, WriteOver, Store
<1>1. CASE Begin
  BY <1>1 DEF Begin
<1>2. CASE AddFinalizer \/ EnsureLabels \/ MarkFailure \/ Acknowledge
           \/ RemoveFinalizer
  BY <1>2 DEF AddFinalizer, EnsureLabels, MarkFailure, Acknowledge,
     RemoveFinalizer
<1>3. CASE MintResetID \/ ClearResetID \/ Bootstrap \/ AdvanceCursor
  BY <1>3 DEF MintResetID, ClearResetID, Bootstrap, AdvanceCursor
<1>4. CASE OperatorStep \/ RequestRepositorySync
  BY <1>4 DEF OperatorStep, OperatorRequest, OperatorCancel, OperatorDelete,
     RequestRepositorySync
<1>5. CASE CacheSync
  BY <1>5 DEF CacheSync
<1>6. CASE \/ CollectFails \/ DeleteSomeBranches \/ Conflict \/ Fault
           \/ (\E c \in Commits : AlreadyExists(c))
  BY <1>6 DEF CollectFails, DeleteSomeBranches, Conflict, Fault, AlreadyExists
<1>7. CASE SyncHeads \/ WaitForBranches
  BY <1>7 DEF SyncHeads, WaitForBranches
<1>8. CASE \/ ListBranches \/ KeepResetID \/ FetchHead \/ FetchHeadFails
           \/ BootstrapFails \/ Collect \/ KeepCursor \/ DeleteBranches
           \/ (\E c \in Commits : SkipExisting(c) \/ CreateBranch(c))
           \/ (\E c \in Commits : BranchEnds(c) \/ SeeBranch(c))
           \/ GitHubStep \/ UNCHANGED vars
  <2>1. UNCHANGED <<obj, cached, fresh, repo, held>>
    BY <1>8 DEF ListBranches, KeepResetID, FetchHead, FetchHeadFails,
       BootstrapFails, Collect, SkipExisting, CreateBranch, KeepCursor,
       DeleteBranches, GitHubStep, Commit, MoveHead, LoseCommit, BranchEnds,
       SeeBranch, vars
  <2> QED BY <2>1
<1> QED
  BY <1>1, <1>2, <1>3, <1>4, <1>5, <1>6, <1>7, <1>8
     DEF Next, Reconcile, Failure, Informers, BootstrapConflict,
         BootstrapRejected, Deliver

(* Published commits stay published, and their ancestors with them. *)
LEMMA HistoryStep == TypeOK /\ HistoryInv /\ [Next]_vars => HistoryInv'
<1> SUFFICES ASSUME TypeOK, HistoryInv, [Next]_vars PROVE HistoryInv'
  OBVIOUS
<1>1. ASSUME NEW c \in Commits, NEW m \in SHAs, NEW n \in SHAs, Commit(c, m, n)
      PROVE  HistoryInv'
  <2> DEFINE past == Ancestors(m) \cup Ancestors(n)
  <2>1. /\ c \notin Published
        /\ anc' = [anc EXCEPT ![c] = {c} \cup past]
        /\ \A d \in Commits : d < c => d \in Published
        /\ head' = head
    BY <1>1 DEF Commit
  <2>2. m \in Published \cup {NoSHA} /\ n \in Published \cup {NoSHA}
    BY <1>1 DEF Commit
  <2>3. \A d \in past : d \in Commits /\ d \in Published /\ anc[d] \subseteq past
    BY <2>2 DEF Ancestors, HistoryInv, Published, TypeOK
  <2>4. \A d \in Published : d # c /\ d < c
    <3> SUFFICES ASSUME NEW d \in Published PROVE d # c /\ d < c
      OBVIOUS
    <3>1. d # c /\ ~(c <= d)
      BY <2>1 DEF HistoryInv
    <3> QED BY <3>1 DEF Published, Commits
  <2>5. anc'[c] = {c} \cup past /\ \A d \in Commits : d # c => anc'[d] = anc[d]
    BY <2>1 DEF TypeOK
  <2> HIDE DEF past
  <2>6. Published' = Published \cup {c}
    BY <2>1, <2>5 DEF Published
  <2>7. \A d \in Published', e \in Commits : e <= d => e \in Published'
    BY <2>1, <2>6 DEF HistoryInv, Commits
  <2>8. head' \in Published' \cup {NoSHA}
    BY <2>1, <2>6 DEF HistoryInv
  <2>9. ASSUME NEW x \in Commits, NEW d \in anc'[x]
        PROVE  d <= x /\ x \in anc'[x] /\ d \in anc'[d] /\ anc'[d] \subseteq anc'[x]
    <3>1. CASE x # c
      <4>1. d \in anc[x] /\ d \in Commits /\ d \in Published
        BY <3>1, <2>5, <2>9 DEF HistoryInv, TypeOK, Published
      <4> QED BY <3>1, <4>1, <2>4, <2>5 DEF HistoryInv
    <3>2. CASE x = c /\ d = c
      BY <3>2, <2>5 DEF Commits
    <3>3. CASE x = c /\ d # c
      <4>1. d \in past
        BY <3>3, <2>5, <2>9
      <4>2. d \in Commits /\ d < c /\ anc'[d] = anc[d] /\ d \in anc[d]
        BY <4>1, <2>3, <2>4, <2>5, <3>3 DEF Published
      <4> QED BY <3>3, <4>1, <4>2, <2>3, <2>5 DEF Commits
    <3> QED BY <3>1, <3>2, <3>3
  <2> QED BY <2>7, <2>8, <2>9 DEF HistoryInv
<1>2. ASSUME NEW c \in Commits, MoveHead(c) PROVE HistoryInv'
  BY <1>2 DEF MoveHead, HistoryInv, Published
<1>3. ASSUME NEW c \in Commits, LoseCommit(c) PROVE HistoryInv'
  BY <1>3 DEF LoseCommit, HistoryInv, Published
<1>4. CASE UNCHANGED github
  BY <1>4 DEF github, HistoryInv, Published
<1> QED BY <1>1, <1>2, <1>3, <1>4, GitHubFrame DEF GitHubStep

(* A published commit keeps its ancestors, and a lost one stays lost. *)
LEMMA HistoryGrows ==
  ASSUME TypeOK, [Next]_vars
  PROVE  /\ \A c \in Published : c \in Published' /\ anc'[c] = anc[c]
         /\ lost \subseteq lost'
<1>1. ASSUME NEW d \in Commits, NEW m \in SHAs, NEW n \in SHAs, Commit(d, m, n)
      PROVE  /\ \A c \in Published : c \in Published' /\ anc'[c] = anc[c]
             /\ lost \subseteq lost'
  <2>1. /\ d \notin Published /\ lost' = lost
        /\ \A c \in Commits : c # d => anc'[c] = anc[c]
    BY <1>1 DEF Commit, TypeOK
  <2> QED BY <2>1 DEF Published
<1>2. ASSUME NEW c \in Commits, MoveHead(c) \/ LoseCommit(c)
      PROVE  anc' = anc /\ lost \subseteq lost'
  BY <1>2 DEF MoveHead, LoseCommit
<1>3. CASE UNCHANGED github
  BY <1>3 DEF github, Published
<1> QED BY <1>1, <1>2, <1>3, GitHubFrame DEF GitHubStep, Published
-----------------------------------------------------------------------------
(* A cursor is only ever set to a commit GitHub has published. *)
LEMMA PublishedStep ==
  TypeOK /\ HistoryInv /\ PublishedInv /\ [Next]_vars => PublishedInv'
<1> SUFFICES ASSUME TypeOK, HistoryInv, PublishedInv, [Next]_vars
             PROVE  PublishedInv'
  OBVIOUS
<1> DEFINE Known(c) == c \in Published \cup {NoSHA}
<1> DEFINE Goal == /\ Known(obj'.cursor) /\ Known(cached'.cursor)
                   /\ Known(repo'.cursor) /\ Known(headSHA') /\ Known(last')
<1>0. /\ Known(obj.cursor) /\ Known(cached.cursor) /\ Known(repo.cursor)
      /\ Known(headSHA) /\ Known(last) /\ Known(head)
  BY DEF PublishedInv, HistoryInv
<1>1. obj \in Repository /\ cached \in Repository /\ repo \in Repository
  BY DEF TypeOK
<1>2. Return => Known(repo'.cursor) /\ Known(headSHA') /\ Known(last')
  <2>1. Blank.cursor = NoSHA
    BY DEF Blank
  <2> QED BY <2>1 DEF Return
<1>3. ASSUME NEW o, Store(o), Known(o.cursor)
      PROVE  Known(obj'.cursor) /\ Known(cached'.cursor)
  BY <1>0, <1>3 DEF Store
<1> SUFFICES Goal
  BY HistoryGrows DEF PublishedInv
<1> HIDE DEF Known
<1>4. CASE Begin
  BY <1>4, <1>0 DEF Begin, locals
<1>5. CASE AddFinalizer
  <2>1. [repo EXCEPT !.finalizer = TRUE].cursor = repo.cursor
    BY <1>1 DEF Repository
  <2> QED BY <1>5, <2>1, <1>0, <1>2, <1>3 DEF AddFinalizer, Write
<1>6. CASE EnsureLabels
  <2>1. [repo EXCEPT !.labels = TRUE].cursor = repo.cursor
    BY <1>1 DEF Repository
  <2> QED BY <1>6, <2>1, <1>0, <1>2, <1>3 DEF EnsureLabels, Write
<1>7. CASE MarkFailure
  <2>1. [repo EXCEPT !.ready = cause].cursor = repo.cursor
    BY <1>1 DEF Repository
  <2> QED BY <1>7, <2>1, <1>0, <1>2, <1>3 DEF MarkFailure, Write
<1>8. CASE Acknowledge
  <2>1. [repo EXCEPT !.reset = "done", !.resetID = NoID].cursor = repo.cursor
    BY <1>1 DEF Repository
  <2> QED BY <1>8, <2>1, <1>0, <1>2, <1>3 DEF Acknowledge, Write
<1>9. CASE RemoveFinalizer
  <2>1. [repo EXCEPT !.finalizer = FALSE, !.present = FALSE].cursor = repo.cursor
    BY <1>1 DEF Repository
  <2> QED BY <1>9, <2>1, <1>0, <1>2, <1>3 DEF RemoveFinalizer, Write
<1>10. CASE MintResetID
  <2>1. [repo EXCEPT !.resetID = minted + 1].cursor = repo.cursor
    BY <1>1 DEF Repository
  <2> QED BY <1>10, <2>1, <1>0, <1>3 DEF MintResetID, WriteAndGo, Write, locals
<1>11. CASE ClearResetID
  <2>1. [repo EXCEPT !.resetID = NoID].cursor = repo.cursor
    BY <1>1 DEF Repository
  <2> QED BY <1>11, <2>1, <1>0, <1>3 DEF ClearResetID, WriteAndGo, Write, locals
<1>12. CASE Bootstrap
  <2> DEFINE o == [repo EXCEPT
                     !.cursor = headSHA,
                     !.appliedID = IF IsBootstrapResetRequested(repo)
                                   THEN repo.resetID ELSE @,
                     !.ready = "initialized"]
  <2>1. o.cursor = headSHA
    BY <1>1 DEF Repository
  <2>2. Store(o) /\ repo' = o /\ UNCHANGED locals
    BY <1>12 DEF Bootstrap, WriteAndGo, Write
  <2> HIDE DEF o
  <2> QED BY <2>1, <2>2, <1>0, <1>3 DEF locals
<1>13. CASE AdvanceCursor
  <2>1. [repo EXCEPT !.cursor = last].cursor = last
    BY <1>1 DEF Repository
  <2> QED BY <1>13, <2>1, <1>0, <1>3 DEF AdvanceCursor, WriteAndGo, Write, locals
<1>14. CASE FetchHead \/ FetchHeadFails
  BY <1>14, <1>0 DEF FetchHead, FetchHeadFails
<1>15. CASE Collect
  <2>1. /\ headSHA # NoSHA => headSHA \in Published
        /\ Ancestors(headSHA) \subseteq Published
    BY <1>0 DEF Known, HistoryInv, Published, Ancestors, TypeOK
  <2>2. todo' \subseteq Published
    BY <1>15, <2>1 DEF Collect, CommitsToDeliver, FirstPage
  <2>3. Known(last')
    BY <1>15, <1>0, <2>2 DEF Collect, Newest, Known
  <2> QED BY <1>15, <2>3, <1>0 DEF Collect
<1>16. CASE OperatorRequest
  <2>1. [obj EXCEPT !.reset = "true"].cursor = obj.cursor
    BY <1>1 DEF Repository
  <2> QED BY <1>16, <2>1, <1>0, <1>3 DEF OperatorRequest, WriteOver, others
<1>17. CASE OperatorCancel
  <2>1. [obj EXCEPT !.reset = ""].cursor = obj.cursor
    BY <1>1 DEF Repository
  <2> QED BY <1>17, <2>1, <1>0, <1>3 DEF OperatorCancel, WriteOver, others
<1>18. CASE OperatorDelete
  <2> DEFINE o == IF obj.finalizer THEN [obj EXCEPT !.deleting = TRUE]
                  ELSE [obj EXCEPT !.deleting = TRUE, !.present = FALSE]
  <2>1. o.cursor = obj.cursor
    BY <1>1 DEF Repository
  <2>2. Store(o) /\ UNCHANGED <<repo, others>>
    BY <1>18 DEF OperatorDelete, WriteOver
  <2> HIDE DEF o
  <2> QED BY <2>1, <2>2, <1>0, <1>3 DEF others
<1>19. CASE RequestRepositorySync
  BY <1>19, <1>0, <1>3 DEF RequestRepositorySync, WriteOver, others
<1>20. CASE CacheSync
  BY <1>20, <1>0 DEF CacheSync, locals
<1>21. CASE \/ CollectFails \/ DeleteSomeBranches \/ Conflict \/ Fault
            \/ (\E c \in Commits : AlreadyExists(c))
  BY <1>21, <1>0, <1>2 DEF CollectFails, DeleteSomeBranches, Conflict, Fault,
     AlreadyExists
<1>22. CASE SyncHeads \/ WaitForBranches
  BY <1>22, <1>0, <1>2 DEF SyncHeads, WaitForBranches, locals
<1>23. CASE \/ ListBranches \/ KeepResetID \/ BootstrapFails \/ KeepCursor
            \/ DeleteBranches
            \/ (\E c \in Commits : SkipExisting(c) \/ CreateBranch(c))
            \/ (\E c \in Commits : BranchEnds(c) \/ SeeBranch(c))
            \/ GitHubStep \/ UNCHANGED vars
  <2>1. UNCHANGED <<obj, cached, repo, headSHA, last>>
    BY <1>23 DEF ListBranches, KeepResetID, BootstrapFails, SkipExisting,
       CreateBranch, KeepCursor, DeleteBranches, GitHubStep, Commit, MoveHead,
       LoseCommit, BranchEnds, SeeBranch, reconcile, locals, vars
  <2> QED BY <2>1, <1>0
<1> QED
  BY <1>4, <1>5, <1>6, <1>7, <1>8, <1>9, <1>10, <1>11, <1>12, <1>13, <1>14,
     <1>15, <1>16, <1>17, <1>18, <1>19, <1>20, <1>21, <1>22, <1>23
     DEF Next, Reconcile, Failure, Informers, BootstrapConflict,
         BootstrapRejected, Deliver, OperatorStep
-----------------------------------------------------------------------------
(* What a reconcile still has to deliver came from a comparison with the    *)
(* head it fetched.                                                         *)
LEMMA TodoStep ==
  TypeOK /\ HistoryInv /\ PublishedInv /\ TodoInv /\ [Next]_vars => TodoInv'
<1> SUFFICES ASSUME TypeOK, HistoryInv, PublishedInv, TodoInv, [Next]_vars
             PROVE  TodoInv'
  OBVIOUS
<1>1. Published \subseteq Published'
  BY HistoryGrows
<1>2. CASE Collect
  <2>1. todo' = CommitsToDeliver(repo.cursor) /\ Published' = Published
    BY <1>2 DEF Collect, github, Published
  <2>2. headSHA # NoSHA => headSHA \in Published
    BY DEF PublishedInv
  <2>3. Ancestors(headSHA) \subseteq Published
    BY <2>2 DEF Ancestors, HistoryInv, Published, TypeOK
  <2>4. todo' \subseteq {headSHA} \cup Ancestors(headSHA)
    BY <2>1 DEF CommitsToDeliver, FirstPage
  <2>5. headSHA = NoSHA => todo' = {}
    BY <2>1 DEF CommitsToDeliver
  <2> QED BY <2>1, <2>2, <2>3, <2>4, <2>5 DEF TodoInv
<1>3. CASE todo' \subseteq todo
  BY <1>1, <1>3 DEF TodoInv
<1>4. CASE \/ Begin \/ AddFinalizer \/ EnsureLabels \/ ListBranches
           \/ MintResetID \/ ClearResetID \/ KeepResetID \/ FetchHead
           \/ FetchHeadFails \/ MarkFailure \/ Bootstrap \/ BootstrapFails
           \/ CollectFails \/ (\E c \in Commits : Deliver(c))
           \/ AdvanceCursor \/ KeepCursor \/ SyncHeads \/ Acknowledge
           \/ DeleteBranches \/ DeleteSomeBranches \/ WaitForBranches
           \/ RemoveFinalizer \/ Conflict \/ Fault
  <2>1. todo' \subseteq todo
    BY <1>4 DEF Begin, AddFinalizer, EnsureLabels, ListBranches, MintResetID,
       ClearResetID, KeepResetID, FetchHead, FetchHeadFails, MarkFailure,
       Bootstrap, BootstrapFails, CollectFails, Deliver, SkipExisting,
       CreateBranch, AlreadyExists, AdvanceCursor, KeepCursor, SyncHeads,
       Acknowledge, DeleteBranches, DeleteSomeBranches, WaitForBranches,
       RemoveFinalizer, Conflict, Fault, Return, locals
  <2> QED BY <2>1, <1>3
<1>5. CASE \/ (\E c \in Commits : BranchEnds(c)) \/ Informers \/ GitHubStep
           \/ OperatorStep \/ RequestRepositorySync \/ UNCHANGED vars
  <2>1. todo' = todo
    BY <1>5 DEF BranchEnds, Informers, CacheSync, SeeBranch, GitHubStep,
       Commit, MoveHead, LoseCommit, OperatorStep, OperatorRequest,
       OperatorCancel, OperatorDelete, RequestRepositorySync, vars, locals,
       reconcile, others
  <2> QED BY <2>1, <1>3
<1> QED
  BY <1>2, <1>4, <1>5
     DEF Next, Reconcile, Failure, BootstrapConflict, BootstrapRejected

(* A Branch is stored, cached or listed only after its creation. *)
LEMMA CreatedStep == CreatedInv /\ [Next]_vars => CreatedInv'
<1> SUFFICES ASSUME CreatedInv, [Next]_vars PROVE CreatedInv'
  OBVIOUS
<1> USE DEF CreatedInv
<1>1. ASSUME NEW c \in Commits, CreateBranch(c) \/ BranchEnds(c) PROVE CreatedInv'
  <2>1. /\ branches' \subseteq branches \cup {c}
        /\ seen' = seen \/ seen' = branches'
        /\ existing' = existing /\ created \subseteq created'
        /\ branches' \subseteq created'
    BY <1>1 DEF CreateBranch, BranchEnds, SetBranches, locals
  <2> QED BY <2>1
<1>2. ASSUME NEW c \in Commits, SeeBranch(c) PROVE CreatedInv'
  BY <1>2 DEF SeeBranch, locals
<1>3. CASE ListBranches
  BY <1>3 DEF ListBranches
<1>4. CASE \/ AddFinalizer \/ EnsureLabels \/ MarkFailure \/ Acknowledge
           \/ RemoveFinalizer \/ CollectFails \/ DeleteSomeBranches
           \/ Conflict \/ Fault \/ (\E c \in Commits : AlreadyExists(c))
  <2>1. existing' = {} /\ UNCHANGED <<branches, seen, created>>
    BY <1>4 DEF AddFinalizer, EnsureLabels, MarkFailure, Acknowledge,
       RemoveFinalizer, CollectFails, DeleteSomeBranches, Conflict, Fault,
       AlreadyExists, Return
  <2> QED BY <2>1
<1>5. CASE SyncHeads \/ WaitForBranches
  BY <1>5 DEF SyncHeads, WaitForBranches, Return, locals
<1>6. CASE \/ Begin \/ MintResetID \/ ClearResetID \/ KeepResetID \/ FetchHead
           \/ FetchHeadFails \/ Bootstrap \/ BootstrapFails \/ Collect
           \/ AdvanceCursor \/ KeepCursor \/ DeleteBranches
           \/ (\E c \in Commits : SkipExisting(c)) \/ CacheSync
           \/ GitHubStep \/ OperatorStep \/ RequestRepositorySync
           \/ UNCHANGED vars
  <2>1. UNCHANGED <<branches, seen, created, existing>>
    BY <1>6 DEF Begin, MintResetID, ClearResetID, KeepResetID, FetchHead,
       FetchHeadFails, Bootstrap, BootstrapFails, Collect, AdvanceCursor,
       KeepCursor, DeleteBranches, SkipExisting, CacheSync, GitHubStep,
       Commit, MoveHead, LoseCommit, OperatorStep, OperatorRequest,
       OperatorCancel, OperatorDelete, RequestRepositorySync, vars, locals,
       reconcile, others
  <2> QED BY <2>1
<1> QED
  BY <1>1, <1>2, <1>3, <1>4, <1>5, <1>6
     DEF Next, Reconcile, Failure, Informers, BootstrapConflict,
         BootstrapRejected, Deliver

(* A reconcile passes ensureBootstrapResetID and the cutover in order. *)
LEMMA ResetStep == TypeOK /\ ResetInv /\ [Next]_vars => ResetInv'
<1> SUFFICES ASSUME TypeOK, ResetInv, [Next]_vars PROVE ResetInv'
  OBVIOUS
<1> USE DEF ResetInv
<1>1. CASE MintResetID
  <2> DEFINE o == [repo EXCEPT !.resetID = minted + 1]
  <2>1. o.reset = repo.reset /\ o.resetID = minted + 1 /\ minted + 1 # NoID
    BY DEF TypeOK, Repository, ResetIDs, NoID
  <2>2. repo' = o /\ pc' = "fetch" /\ IsBootstrapResetRequested(repo)
    BY <1>1 DEF MintResetID, WriteAndGo
  <2> HIDE DEF o
  <2> QED BY <2>1, <2>2 DEF IsBootstrapResetRequested
<1>2. CASE ClearResetID
  <2> DEFINE o == [repo EXCEPT !.resetID = NoID]
  <2>1. o.reset = repo.reset /\ o.resetID = NoID
    BY DEF TypeOK, Repository
  <2>2. repo' = o /\ pc' = "fetch" /\ ~IsBootstrapResetRequested(repo)
    BY <1>2 DEF ClearResetID, WriteAndGo
  <2> HIDE DEF o
  <2> QED BY <2>1, <2>2 DEF IsBootstrapResetRequested
<1>3. CASE KeepResetID
  BY <1>3 DEF KeepResetID, Goto, IsBootstrapResetRequested
<1>4. CASE FetchHead
  BY <1>4 DEF FetchHead, Goto, ShouldBootstrapFromHead,
     IsBootstrapResetRequested
<1>5. CASE Bootstrap
  <2> DEFINE o == [repo EXCEPT
                     !.cursor = headSHA,
                     !.appliedID = IF IsBootstrapResetRequested(repo)
                                   THEN repo.resetID ELSE @,
                     !.ready = "initialized"]
  <2>1. /\ o.reset = repo.reset /\ o.resetID = repo.resetID
        /\ IsBootstrapResetRequested(repo) => o.appliedID = repo.resetID
    BY DEF TypeOK, Repository
  <2>2. repo' = o /\ pc' = "heads" /\ pc = "bootstrap"
    BY <1>5 DEF Bootstrap, WriteAndGo
  <2> HIDE DEF o
  <2> QED BY <2>1, <2>2 DEF IsBootstrapResetRequested
<1>6. CASE AdvanceCursor
  <2> DEFINE o == [repo EXCEPT !.cursor = last]
  <2>1. /\ o.reset = repo.reset /\ o.resetID = repo.resetID
        /\ o.appliedID = repo.appliedID
    BY DEF TypeOK, Repository
  <2>2. repo' = o /\ pc' = "heads" /\ pc = "create"
    BY <1>6 DEF AdvanceCursor, WriteAndGo
  <2> HIDE DEF o
  <2> QED BY <2>1, <2>2 DEF IsBootstrapResetRequested
<1>7. CASE SyncHeads
  BY <1>7 DEF SyncHeads, Goto, Return, locals, IsBootstrapResetRequested
<1>8. CASE Collect \/ KeepCursor \/ (\E c \in Commits : SkipExisting(c) \/ CreateBranch(c))
  <2>1. /\ \/ pc = "collect" /\ pc' = "create"
           \/ pc = "create" /\ pc' \in {"create", "heads"}
        /\ UNCHANGED repo
    BY <1>8 DEF Collect, KeepCursor, SkipExisting, CreateBranch, Goto
  <2> QED BY <2>1 DEF IsBootstrapResetRequested
<1>9. CASE \/ AddFinalizer \/ EnsureLabels \/ MarkFailure \/ Acknowledge
           \/ RemoveFinalizer \/ CollectFails \/ DeleteSomeBranches
           \/ Conflict \/ Fault \/ (\E c \in Commits : AlreadyExists(c))
           \/ Begin \/ ListBranches \/ FetchHeadFails \/ BootstrapFails
           \/ DeleteBranches \/ WaitForBranches
  <2>1. pc' \in {"idle", "finalizer", "labels", "list", "resetid", "fail",
                 "drain", "wait", "unfinalize"}
    BY <1>9 DEF AddFinalizer, EnsureLabels, MarkFailure, Acknowledge,
       RemoveFinalizer, CollectFails, DeleteSomeBranches, Conflict, Fault,
       AlreadyExists, Begin, ListBranches, FetchHeadFails, BootstrapFails,
       DeleteBranches, WaitForBranches, Return, Goto
  <2> QED BY <2>1
<1>10. CASE \/ (\E c \in Commits : BranchEnds(c)) \/ Informers \/ GitHubStep
            \/ OperatorStep \/ RequestRepositorySync \/ UNCHANGED vars
  <2>1. UNCHANGED <<pc, repo, headSHA>>
    BY <1>10 DEF BranchEnds, Informers, CacheSync, SeeBranch, GitHubStep,
       Commit, MoveHead, LoseCommit, OperatorStep, OperatorRequest,
       OperatorCancel, OperatorDelete, RequestRepositorySync, WriteOver,
       vars, locals, reconcile, others
  <2> QED BY <2>1 DEF IsBootstrapResetRequested, ShouldBootstrapFromHead
<1> QED
  BY <1>1, <1>2, <1>3, <1>4, <1>5, <1>6, <1>7, <1>8, <1>9, <1>10
     DEF Next, Reconcile, Failure, BootstrapConflict, BootstrapRejected,
         Deliver

(* The batch under way leaves out no commit up to the one it ends with. *)
LEMMA BatchStep ==
  /\ TypeOK /\ HistoryInv /\ PublishedInv /\ CreatedInv /\ ResetInv
  /\ BatchInv /\ [Next]_vars
  => BatchInv'
<1> SUFFICES ASSUME TypeOK, HistoryInv, PublishedInv, CreatedInv, ResetInv,
                    BatchInv, [Next]_vars
             PROVE  BatchInv'
  OBVIOUS
<1>0. /\ headSHA \in Published \cup {NoSHA}
      /\ repo.cursor \in Published \cup {NoSHA}
      /\ last \in Published \cup {NoSHA}
  BY DEF PublishedInv
<1>1. CASE Collect
  <2> DEFINE base == repo.cursor
             backlog == Ancestors(headSHA) \ Ancestors(base)
  <2>1. /\ pc = "collect" /\ UNCHANGED <<repo, anc, lost, created>>
        /\ todo' = CommitsToDeliver(base)
        /\ todo' = {} => base = headSHA
        /\ last' \in IF todo' = {} THEN {headSHA} ELSE Newest(todo')
    BY <1>1 DEF Collect, github
  <2>2. headSHA \in Published
    BY <1>0, <2>1 DEF ResetInv
  <2>3. Ancestors(headSHA) \subseteq Commits /\ headSHA \in Ancestors(headSHA)
    BY <2>2 DEF Published, Ancestors, TypeOK, NoSHA, Commits
  <2>4. CASE base = headSHA
    <3>1. todo' = {} /\ last' = headSHA
      BY <2>1, <2>4 DEF CommitsToDeliver
    <3> QED BY <3>1, <2>1, <2>2, <2>4 DEF BatchInv, Ancestors, Published,
             Commits, NoSHA
  <2>5. CASE base # headSHA /\ (base = NoSHA \/ base \in lost
                                 \/ headSHA \in Ancestors(base))
    <3>1. todo' = {headSHA} /\ last' = headSHA /\ headSHA # NoSHA
      BY <2>1, <2>2, <2>5
         DEF CommitsToDeliver, Newest, Published, Commits, NoSHA
    <3>2. headSHA \in Ancestors(base) => Ancestors(headSHA) \subseteq Ancestors(base)
      BY <1>0, <3>1 DEF HistoryInv, Ancestors, Published
    <3> QED BY <3>1, <3>2, <2>1, <2>5 DEF BatchInv, Ancestors
  <2>6. CASE base # headSHA /\ base # NoSHA /\ base \notin lost
             /\ headSHA \notin Ancestors(base)
    <3>1. headSHA # NoSHA
      BY <2>2 DEF Published, Commits, NoSHA
    <3>2. todo' = FirstPage(backlog)
      BY <2>1, <2>6, <3>1 DEF CommitsToDeliver
    <3>3. last' \in todo' /\ (\A d \in todo' : d <= last')
      BY <2>1, <2>6, <3>2 DEF Newest
    <3>4. backlog \in SUBSET Commits
      BY <2>3
    <3>5. last' \in backlog /\ last' \in Commits
      BY <3>2, <3>3, <3>4 DEF FirstPage
    <3>6. anc[last'] \subseteq Ancestors(headSHA)
      BY <3>1, <3>5, <2>2 DEF HistoryInv, Ancestors, Published
    <3>7. ASSUME NEW d \in anc[last'] \ Ancestors(base) PROVE d \in todo'
      <4>1. d <= last' /\ d \in backlog
        BY <3>5, <3>6 DEF HistoryInv
      <4> HIDE DEF backlog
      <4> QED BY <4>1, <3>2, <3>3, <3>4, PageIsPrefix
    <3>8. last' # NoSHA
      BY <3>5 DEF Commits, NoSHA
    <3> QED BY <3>3, <3>7, <3>8, <2>1 DEF BatchInv, Ancestors
  <2> QED BY <2>4, <2>5, <2>6
<1>2. ASSUME NEW c \in Commits, SkipExisting(c) \/ CreateBranch(c)
      PROVE  BatchInv'
  <2>1. /\ pc = "create" /\ UNCHANGED <<repo, last, anc, lost>>
        /\ todo \cup created \subseteq todo' \cup created'
    BY <1>2 DEF SkipExisting, CreateBranch, github, CreatedInv
  <2> QED BY <2>1 DEF BatchInv, Ancestors
<1>3. CASE \/ (\E c \in Commits : BranchEnds(c)) \/ Informers \/ GitHubStep
           \/ OperatorStep \/ RequestRepositorySync \/ UNCHANGED vars
  <2>1. UNCHANGED <<pc, repo, last, todo, created>>
    BY <1>3 DEF BranchEnds, Informers, CacheSync, SeeBranch, GitHubStep,
       Commit, MoveHead, LoseCommit, OperatorStep, OperatorRequest,
       OperatorCancel, OperatorDelete, RequestRepositorySync, WriteOver,
       vars, locals, reconcile, others
  <2>2. /\ Ancestors(last)' = Ancestors(last)
        /\ Ancestors(repo.cursor)' = Ancestors(repo.cursor)
        /\ lost \subseteq lost'
    BY <1>0, <2>1, HistoryGrows DEF Ancestors
  <2> QED BY <2>1, <2>2 DEF BatchInv
<1>4. CASE \/ Begin \/ AddFinalizer \/ EnsureLabels \/ ListBranches
           \/ MintResetID \/ ClearResetID \/ KeepResetID \/ FetchHead
           \/ FetchHeadFails \/ MarkFailure \/ Bootstrap \/ BootstrapFails
           \/ CollectFails \/ (\E c \in Commits : AlreadyExists(c))
           \/ AdvanceCursor \/ KeepCursor \/ SyncHeads \/ Acknowledge
           \/ DeleteBranches \/ DeleteSomeBranches \/ WaitForBranches
           \/ RemoveFinalizer \/ Conflict \/ Fault
  <2>1. pc' # "create"
    BY <1>4 DEF Begin, AddFinalizer, EnsureLabels, ListBranches, MintResetID,
       ClearResetID, KeepResetID, FetchHead, FetchHeadFails, MarkFailure,
       Bootstrap, BootstrapFails, CollectFails, AlreadyExists, AdvanceCursor,
       KeepCursor, SyncHeads, Acknowledge, DeleteBranches, DeleteSomeBranches,
       WaitForBranches, RemoveFinalizer, Conflict, Fault, Return, Goto,
       WriteAndGo
  <2> QED BY <2>1 DEF BatchInv
<1> QED
  BY <1>1, <1>2, <1>3, <1>4
     DEF Next, Reconcile, Failure, BootstrapConflict, BootstrapRejected,
         Deliver
-----------------------------------------------------------------------------
(* The part of the Repository the reset protocol works on, and what a step *)
(* can do to it.                                                           *)
Protocol(o) == <<o.reset, o.resetID, o.cursor, o.appliedID, o.ready>>

Mints ==
  /\ obj.reset = "true" /\ minted' = minted + 1
  /\ Protocol(obj') = <<obj.reset, minted + 1, obj.cursor, obj.appliedID, obj.ready>>

CutsOver ==
  /\ pc = "bootstrap" /\ repo = obj /\ minted' = minted
  /\ Protocol(obj') =
       <<obj.reset, obj.resetID, headSHA,
         IF obj.reset = "true" THEN obj.resetID ELSE obj.appliedID,
         "initialized">>

Advances ==
  /\ pc = "create" /\ todo = {} /\ repo = obj /\ minted' = minted
  /\ created' = created
  /\ Protocol(obj') = <<obj.reset, obj.resetID, last, obj.appliedID, obj.ready>>

Acknowledges ==
  /\ pc = "ack" /\ repo = obj /\ minted' = minted
  /\ Protocol(obj') = <<"done", NoID, obj.cursor, obj.appliedID, obj.ready>>

Relabels ==
  /\ minted' = minted
  /\ \E r \in {obj.reset, "", "true"}, i \in {obj.resetID, NoID}, x \in Ready :
       Protocol(obj') = <<r, i, obj.cursor, obj.appliedID, x>>

(* A step mints an ID, cuts over, advances the cursor, acknowledges ... *)
LEMMA ProtocolSteps ==
  ASSUME TypeOK, CurrentInv, [Next]_vars
  PROVE  Mints \/ CutsOver \/ Advances \/ Acknowledges \/ Relabels
<1>0. /\ obj \in Repository /\ repo \in Repository /\ obj.ready \in Ready
      /\ cause \in Ready
  BY DEF TypeOK, Repository, Ready
<1>1. CASE obj' = obj /\ minted' = minted
  BY <1>0, <1>1 DEF Relabels, Protocol
<1>2. CASE AddFinalizer
  <2>1. repo = obj /\ obj' = [obj EXCEPT !.finalizer = TRUE] /\ minted' = minted
    BY <1>2 DEF AddFinalizer, Write, Store, CurrentInv
  <2> QED BY <1>0, <2>1 DEF Relabels, Protocol, Repository
<1>3. CASE EnsureLabels
  <2>1. repo = obj /\ obj' = [obj EXCEPT !.labels = TRUE] /\ minted' = minted
    BY <1>3 DEF EnsureLabels, Write, Store, CurrentInv
  <2> QED BY <1>0, <2>1 DEF Relabels, Protocol, Repository
<1>4. CASE MintResetID
  <2>1. /\ repo = obj /\ obj' = [obj EXCEPT !.resetID = minted + 1]
        /\ minted' = minted + 1 /\ obj.reset = "true"
    BY <1>4 DEF MintResetID, WriteAndGo, Write, Store, CurrentInv,
       IsBootstrapResetRequested
  <2> QED BY <1>0, <2>1 DEF Mints, Protocol, Repository
<1>5. CASE ClearResetID
  <2>1. repo = obj /\ obj' = [obj EXCEPT !.resetID = NoID] /\ minted' = minted
    BY <1>5 DEF ClearResetID, WriteAndGo, Write, Store, CurrentInv
  <2> QED BY <1>0, <2>1 DEF Relabels, Protocol, Repository
<1>6. CASE MarkFailure
  <2>1. \/ obj' = obj
        \/ repo = obj /\ obj' = [obj EXCEPT !.ready = cause]
    BY <1>6 DEF MarkFailure, Write, Store, CurrentInv
  <2>2. minted' = minted
    BY <1>6 DEF MarkFailure
  <2> QED BY <1>0, <1>1, <2>1, <2>2 DEF Relabels, Protocol, Repository
<1>7. CASE Bootstrap
  <2>1. /\ repo = obj /\ pc = "bootstrap" /\ minted' = minted
        /\ obj' = [obj EXCEPT !.cursor = headSHA,
                     !.appliedID = IF obj.reset = "true" THEN obj.resetID ELSE @,
                     !.ready = "initialized"]
    BY <1>7 DEF Bootstrap, WriteAndGo, Write, Store, CurrentInv,
       IsBootstrapResetRequested
  <2> QED BY <1>0, <2>1 DEF CutsOver, Protocol, Repository
<1>8. CASE AdvanceCursor
  <2>1. /\ repo = obj /\ pc = "create" /\ todo = {} /\ minted' = minted
        /\ created' = created /\ obj' = [obj EXCEPT !.cursor = last]
    BY <1>8 DEF AdvanceCursor, WriteAndGo, Write, Store, CurrentInv
  <2> QED BY <1>0, <2>1 DEF Advances, Protocol, Repository
<1>9. CASE Acknowledge
  <2>1. /\ repo = obj /\ pc = "ack" /\ minted' = minted
        /\ obj' = [obj EXCEPT !.reset = "done", !.resetID = NoID]
    BY <1>9 DEF Acknowledge, Write, Store, CurrentInv
  <2> QED BY <1>0, <2>1 DEF Acknowledges, Protocol, Repository
<1>10. CASE RemoveFinalizer
  <2>1. /\ repo = obj /\ minted' = minted
        /\ obj' = [obj EXCEPT !.finalizer = FALSE, !.present = FALSE]
    BY <1>10 DEF RemoveFinalizer, Write, Store, CurrentInv
  <2> QED BY <1>0, <2>1 DEF Relabels, Protocol, Repository
<1>11. CASE OperatorRequest
  <2>1. obj' = [obj EXCEPT !.reset = "true"] /\ minted' = minted
    BY <1>11 DEF OperatorRequest, WriteOver, Store, others
  <2> QED BY <1>0, <2>1 DEF Relabels, Protocol, Repository
<1>12. CASE OperatorCancel
  <2>1. obj' = [obj EXCEPT !.reset = ""] /\ minted' = minted
    BY <1>12 DEF OperatorCancel, WriteOver, Store, others
  <2> QED BY <1>0, <2>1 DEF Relabels, Protocol, Repository
<1>13. CASE OperatorDelete
  <2>1. /\ \/ obj' = [obj EXCEPT !.deleting = TRUE]
           \/ obj' = [obj EXCEPT !.deleting = TRUE, !.present = FALSE]
        /\ minted' = minted
    BY <1>13 DEF OperatorDelete, WriteOver, Store, others
  <2> QED BY <1>0, <2>1 DEF Relabels, Protocol, Repository
<1>14. CASE RequestRepositorySync
  BY <1>14, <1>1 DEF RequestRepositorySync, WriteOver, Store, others
<1>15. CASE \/ Begin \/ ListBranches \/ KeepResetID \/ FetchHead
            \/ FetchHeadFails \/ BootstrapFails \/ Collect \/ CollectFails
            \/ (\E c \in Commits : Deliver(c)) \/ KeepCursor \/ SyncHeads
            \/ DeleteBranches \/ DeleteSomeBranches \/ WaitForBranches
            \/ Conflict \/ Fault \/ GitHubStep \/ Informers
            \/ (\E c \in Commits : BranchEnds(c)) \/ UNCHANGED vars
  <2>1. UNCHANGED <<obj, minted>>
    BY <1>15 DEF Begin, ListBranches, KeepResetID, FetchHead, FetchHeadFails,
       BootstrapFails, Collect, CollectFails, Deliver, SkipExisting,
       CreateBranch, AlreadyExists, KeepCursor, SyncHeads, DeleteBranches,
       DeleteSomeBranches, WaitForBranches, Conflict, Fault, GitHubStep,
       Commit, MoveHead, LoseCommit, Informers, CacheSync, SeeBranch,
       BranchEnds, vars
  <2> QED BY <2>1, <1>1
<1> QED
  BY <1>2, <1>3, <1>4, <1>5, <1>6, <1>7, <1>8, <1>9, <1>10, <1>11, <1>12,
     <1>13, <1>14, <1>15
     DEF Next, Reconcile, Failure, OperatorStep, BootstrapConflict,
         BootstrapRejected

(* A reset ID is applied after it was minted, and never a newer one. *)
LEMMA IdentityStep ==
  TypeOK /\ CurrentInv /\ IdentityInv /\ [Next]_vars => IdentityInv'
<1> SUFFICES ASSUME TypeOK, CurrentInv, IdentityInv, [Next]_vars
             PROVE  IdentityInv'
  OBVIOUS
<1>1. minted \in Nat /\ obj.resetID \in Nat /\ obj.appliedID \in Nat
  BY DEF TypeOK, Repository, ResetIDs
<1>2. CASE Mints
  <2>1. obj'.appliedID = obj.appliedID /\ obj'.resetID = minted + 1 /\ minted' = minted + 1
    BY <1>2 DEF Mints, Protocol
  <2> QED BY <2>1, <1>1 DEF IdentityInv
<1>3. CASE CutsOver
  <2>1. /\ obj'.appliedID \in {obj.resetID, obj.appliedID}
        /\ obj'.resetID = obj.resetID /\ minted' = minted
    BY <1>3 DEF CutsOver, Protocol
  <2> QED BY <2>1, <1>1 DEF IdentityInv
<1>4. CASE Advances \/ Acknowledges \/ Relabels
  <2>1. /\ obj'.appliedID = obj.appliedID /\ minted' = minted
        /\ obj'.resetID \in {obj.resetID, NoID}
    BY <1>4 DEF Advances, Acknowledges, Relabels, Protocol
  <2> QED BY <2>1, <1>1 DEF IdentityInv, NoID
<1> QED BY <1>2, <1>3, <1>4, ProtocolSteps

(* Nothing of the cleanup changes behind the finalizer's back: it is the    *)
(* flags of the stored Repository that matter here.                         *)
LEMMA CleanupStep ==
  /\ TypeOK /\ CurrentInv /\ CleanupInv /\ [Next]_vars
  => CleanupInv'
<1> SUFFICES ASSUME TypeOK, CurrentInv, CleanupInv, [Next]_vars, ~StaleCache
             PROVE  CleanupInv'
  BY DEF CleanupInv
<1>0. /\ fresh /\ seen = branches /\ cached = obj /\ obj \in Repository
      /\ branches # {} => obj.present /\ obj.finalizer
      /\ pc \notin {"idle", "finalizer"} => obj.present /\ obj.finalizer
      /\ pc = "unfinalize" => branches = {}
  BY DEF CleanupInv, CurrentInv, TypeOK
<1> DEFINE Alive(o) == o.present /\ o.finalizer
<1>1. ASSUME UNCHANGED <<branches, seen, fresh>>, pc' # "unfinalize" \/ pc' = pc,
             Alive(obj) => Alive(obj'),
             pc' \notin {"idle", "finalizer"} => pc \notin {"idle", "finalizer"} \/ Alive(obj)
      PROVE  CleanupInv'
  BY <1>0, <1>1 DEF CleanupInv
<1>2. CASE Begin
  <2>1. /\ obj.present /\ UNCHANGED <<obj, branches, seen, fresh>>
        /\ pc' \in {"finalizer", "drain", "labels", "list"}
        /\ pc' # "finalizer" => obj.finalizer
    BY <1>2, <1>0 DEF Begin, Goto
  <2> QED BY <2>1, <1>1
<1>3. CASE \/ AddFinalizer \/ EnsureLabels \/ MarkFailure \/ Acknowledge
           \/ MintResetID \/ ClearResetID \/ Bootstrap \/ AdvanceCursor
  <2>1. UNCHANGED <<branches, seen>> /\ pc' \in {"idle", "fetch", "heads"}
    BY <1>3 DEF AddFinalizer, EnsureLabels, MarkFailure, Acknowledge,
       MintResetID, ClearResetID, Bootstrap, AdvanceCursor, Return, Goto,
       WriteAndGo, github, locals
  <2>2. fresh' = fresh
    BY <1>3 DEF AddFinalizer, EnsureLabels, MarkFailure, Acknowledge,
       MintResetID, ClearResetID, Bootstrap, AdvanceCursor, Write, WriteAndGo,
       Store
  <2>3. Alive(obj) => Alive(obj')
    BY <1>0, <1>3 DEF AddFinalizer, EnsureLabels, MarkFailure, Acknowledge,
       MintResetID, ClearResetID, Bootstrap, AdvanceCursor, Write, WriteAndGo,
       Store, CurrentInv, Repository
  <2>4. pc' # "idle" => pc \notin {"idle", "finalizer"}
    BY <1>3 DEF AddFinalizer, EnsureLabels, MarkFailure, Acknowledge,
       MintResetID, ClearResetID, Bootstrap, AdvanceCursor, Return, Goto
  <2> QED BY <2>1, <2>2, <2>3, <2>4, <1>1
<1>4. CASE RemoveFinalizer
  <2>1. /\ pc' = "idle" /\ pc = "unfinalize" /\ UNCHANGED <<branches, seen, fresh>>
    BY <1>4 DEF RemoveFinalizer, Return, Goto, Write, Store
  <2> QED BY <2>1, <1>0 DEF CleanupInv
<1>5. CASE WaitForBranches
  <2>1. UNCHANGED <<branches, seen, fresh, obj>> /\ pc = "wait"
    BY <1>5 DEF WaitForBranches
  <2>2. pc' = "idle" \/ pc' = "unfinalize"
    BY <1>5 DEF WaitForBranches, Return, Goto
  <2>3. seen # {} => pc' = "idle"
    BY <1>5 DEF WaitForBranches, Return, Goto
  <2> QED BY <2>1, <2>2, <2>3, <1>0 DEF CleanupInv
<1>6. ASSUME NEW c \in Commits, CreateBranch(c) PROVE CleanupInv'
  <2>1. /\ pc = "create" /\ UNCHANGED <<pc, obj, fresh>> /\ seen' = branches'
    BY <1>6 DEF CreateBranch, SetBranches
  <2> QED BY <2>1, <1>0 DEF CleanupInv
<1>7. ASSUME NEW c \in Commits, BranchEnds(c) PROVE CleanupInv'
  <2>1. /\ UNCHANGED <<pc, obj, fresh>> /\ seen' = branches'
        /\ branches' = branches \ {c}
    BY <1>7 DEF BranchEnds, SetBranches
  <2> QED BY <2>1, <1>0 DEF CleanupInv
<1>8. CASE OperatorRequest \/ OperatorCancel \/ RequestRepositorySync
  <2>1. UNCHANGED <<branches, seen, pc>>
    BY <1>8 DEF OperatorRequest, OperatorCancel, RequestRepositorySync, others
  <2>2. fresh' = fresh /\ (Alive(obj) => Alive(obj'))
    BY <1>0, <1>8 DEF OperatorRequest, OperatorCancel, RequestRepositorySync,
       WriteOver, Store, Repository
  <2> QED BY <2>1, <2>2, <1>1
<1>9. CASE OperatorDelete
  <2>1. UNCHANGED <<branches, seen, pc>>
    BY <1>9 DEF OperatorDelete, others
  <2>2. fresh' = fresh /\ (Alive(obj) => Alive(obj'))
    BY <1>0, <1>9 DEF OperatorDelete, WriteOver, Store, Repository
  <2> QED BY <2>1, <2>2, <1>1
<1>10. CASE GitHubStep \/ UNCHANGED vars
  <2>1. UNCHANGED <<branches, seen, fresh, obj, pc>>
    BY <1>10 DEF GitHubStep, Commit, MoveHead, LoseCommit, reconcile, vars
  <2> QED BY <2>1, <1>1
<1>11. CASE Informers
  <2>1. UNCHANGED <<branches, obj, pc>> /\ fresh' /\ seen' = branches
    BY <1>11, <1>0 DEF Informers, CacheSync, SeeBranch
  <2> QED BY <2>1, <1>0 DEF CleanupInv
<1>12. CASE \/ CollectFails \/ DeleteSomeBranches \/ Conflict \/ Fault
            \/ (\E c \in Commits : AlreadyExists(c))
  <2>1. UNCHANGED <<branches, seen, fresh, obj>> /\ pc' = "idle"
    BY <1>12 DEF CollectFails, DeleteSomeBranches, Conflict, Fault,
       AlreadyExists, Return, Goto
  <2> QED BY <2>1, <1>1
<1>13. CASE \/ ListBranches \/ KeepResetID \/ FetchHead \/ FetchHeadFails
            \/ BootstrapFails \/ Collect \/ (\E c \in Commits : SkipExisting(c))
            \/ KeepCursor \/ SyncHeads \/ DeleteBranches
  <2>1. UNCHANGED <<branches, seen, fresh, obj>>
    BY <1>13 DEF ListBranches, KeepResetID, FetchHead, FetchHeadFails,
       BootstrapFails, Collect, SkipExisting, KeepCursor, SyncHeads,
       DeleteBranches
  <2>2. pc \notin {"idle", "finalizer"} /\ pc' # "unfinalize"
    BY <1>13 DEF ListBranches, KeepResetID, FetchHead, FetchHeadFails,
       BootstrapFails, Collect, SkipExisting, KeepCursor, SyncHeads,
       DeleteBranches, Goto, Return
  <2> QED BY <2>1, <2>2, <1>1
<1> QED
  BY <1>2, <1>3, <1>4, <1>5, <1>6, <1>7, <1>8, <1>9, <1>10, <1>11, <1>12, <1>13
     DEF Next, Reconcile, Failure, OperatorStep, BootstrapConflict,
         BootstrapRejected, Deliver

(* The inductive invariant holds at first. *)
LEMMA IInvInit == Init => IInv
<1> SUFFICES ASSUME Init PROVE IInv
  OBVIOUS
<1>1. TypeOK
  BY TypeInit
<1>2. Published = {} /\ HistoryInv
  BY DEF Init, HistoryInv, Published
<1>3. /\ CurrentInv /\ CreatedInv /\ ResetInv /\ BatchInv /\ CleanupInv
      /\ TodoInv
  BY DEF Init, CurrentInv, CreatedInv, TodoInv, ResetInv, BatchInv, CleanupInv
<1>4. /\ obj.cursor = NoSHA /\ obj.appliedID = NoID /\ obj.resetID = NoID
      /\ Blank.cursor = NoSHA /\ minted = 0
  BY DEF Init, Blank
<1>5. PublishedInv
  BY <1>4 DEF Init, PublishedInv
<1>6. IdentityInv
  BY <1>4 DEF IdentityInv, NoID
<1> QED BY <1>1, <1>2, <1>3, <1>5, <1>6 DEF IInv

(* ... and every step keeps it. *)
LEMMA IInvStep == IInv /\ [Next]_vars => IInv'
BY TypeStep, HistoryStep, CurrentStep, PublishedStep, TodoStep, CreatedStep,
   ResetStep, BatchStep, IdentityStep, CleanupStep DEF IInv

(* The conjunction is an invariant. *)
THEOREM Invariance == Spec => []IInv
<1> QED BY IInvInit, IInvStep, PTL DEF Spec
-----------------------------------------------------------------------------
(* Only GitHub changes the history, and only CreateBranch delivers. *)
LEMMA FeedFrame ==
  [Next]_vars =>
    \/ GitHubStep
    \/ UNCHANGED github /\ (\E c \in Commits : CreateBranch(c))
    \/ UNCHANGED <<anc, head, lost, rewritten, created>>
<1>1. [Next]_vars => GitHubStep \/ (\E c \in Commits : CreateBranch(c))
                       \/ created' = created
  BY DEF Next, Reconcile, Failure, Informers, OperatorStep, Deliver, vars,
     Begin, AddFinalizer, EnsureLabels, ListBranches, MintResetID,
     ClearResetID, KeepResetID, FetchHead, FetchHeadFails, MarkFailure,
     Bootstrap, BootstrapFails, BootstrapConflict, BootstrapRejected, Collect,
     CollectFails, SkipExisting, AlreadyExists, AdvanceCursor, KeepCursor,
     SyncHeads, Acknowledge, DeleteBranches, DeleteSomeBranches,
     WaitForBranches, RemoveFinalizer, Conflict, Fault, OperatorRequest,
     OperatorCancel, OperatorDelete, RequestRepositorySync, others,
     BranchEnds, CacheSync, SeeBranch
<1> QED BY <1>1, GitHubFrame DEF github

(* A push, and every loss of commits, is a step of the abstract GitHub. *)
LEMMA PublishStep ==
  ASSUME IInv, [Next]_vars, GitHubStep
  PROVE  Feed!Publish
<1>1. UNCHANGED <<obj, created>>
  BY DEF GitHubStep, Commit, MoveHead, LoseCommit
<1>2. ASSUME NEW c \in Commits, anc[c] # {} PROVE anc'[c] = anc[c]
  <2>1. c \in Published
    BY <1>2 DEF IInv, HistoryInv, Published
  <2> QED BY <2>1, HistoryGrows DEF IInv
<1>3. lost \subseteq lost'
  BY HistoryGrows DEF IInv
<1> QED BY <1>1, <1>2, <1>3 DEF Feed!Publish

(* A new Branch delivers its commit. *)
LEMMA DeliverStep ==
  ASSUME IInv, UNCHANGED github, NEW c \in Commits, CreateBranch(c)
  PROVE  Feed!Deliver(c)
<1>1. anc[c] # {}
  BY DEF IInv, TodoInv, CreateBranch, Oldest, Published
<1> QED BY <1>1 DEF Feed!Deliver, CreateBranch, github

(* A cutover moves the cursor to a published commit: the first one, or with *)
(* an identity that is newer than the one applied before.                   *)
LEMMA CutoverStep ==
  ASSUME IInv, UNCHANGED <<anc, head, lost, rewritten, created>>, CutsOver
  PROVE  \E c \in Commits : Feed!Cutover(c)
<1> USE DEF IInv
<1>1. /\ obj'.appliedID = IF obj.reset = "true" THEN obj.resetID ELSE obj.appliedID
      /\ pc = "bootstrap" /\ repo = obj /\ obj'.cursor = headSHA
  BY DEF CutsOver, Protocol
<1>2. headSHA \in Published
  BY <1>1 DEF ResetInv, PublishedInv
<1>3. /\ obj.appliedID \in Nat /\ obj.resetID \in Nat
      /\ obj.resetID # NoID => obj.appliedID <= obj.resetID
  BY DEF IdentityInv, TypeOK, Repository, ResetIDs
<1>4. \/ obj.reset = "true" /\ obj.resetID # NoID /\ obj.appliedID # obj.resetID
      \/ obj.reset # "true" /\ obj.cursor = NoSHA
  BY <1>1 DEF ResetInv, ShouldBootstrapFromHead, IsBootstrapResetRequested
<1>5. /\ obj.cursor = NoSHA \/ obj'.appliedID > obj.appliedID
      /\ obj'.appliedID >= obj.appliedID
  BY <1>1, <1>3, <1>4
<1>6. headSHA \in Commits /\ anc[headSHA] # {}
  BY <1>2 DEF Published
<1> QED BY <1>1, <1>5, <1>6 DEF Feed!Cutover

(* A cursor that follows a batch leaves nothing undelivered behind it. *)
LEMMA AdvanceStep ==
  ASSUME IInv, UNCHANGED <<anc, head, lost, rewritten, created>>, Advances
  PROVE  [\E c \in Commits : Feed!Cutover(c) \/ Feed!Advance(c)]_(Feed!feed)
<1> USE DEF IInv
<1>1. /\ pc = "create" /\ todo = {} /\ repo = obj
      /\ obj'.cursor = last /\ obj'.appliedID = obj.appliedID
  BY DEF Advances, Protocol
<1>2. last \in Published /\ last \in created \cup {obj.cursor}
  BY <1>1 DEF BatchInv, PublishedInv
<1>3. CASE last = obj.cursor
  BY <1>1, <1>3 DEF Feed!feed
<1>4. CASE obj.cursor = NoSHA
  <2>1. last \in Commits /\ anc[last] # {} /\ obj.appliedID \in Nat
    BY <1>2 DEF Published, TypeOK, Repository, ResetIDs
  <2>2. Feed!Cutover(last)
    BY <1>1, <1>4, <2>1 DEF Feed!Cutover
  <2> QED BY <2>1, <2>2
<1>5. CASE last \in created /\ obj.cursor # NoSHA
  <2>1. \/ Ancestors(last) \ Ancestors(obj.cursor) \subseteq created
        \/ obj.cursor \in lost
    BY <1>1, <1>5 DEF BatchInv
  <2>2. Feed!Advance(last)
    BY <1>1, <1>5, <2>1 DEF Feed!Advance, Feed!Past, Ancestors
  <2> QED BY <1>2, <2>2 DEF Published
<1> QED BY <1>2, <1>3, <1>4, <1>5

(* RepositoryController implements CommitFeed: what fails between two       *)
(* calls, what the caches hold late and how GitHub pages its answers shows  *)
(* in nothing that the cursor and the Branches promise.                     *)
THEOREM CommitsDelivered == Spec => FeedImplemented
<1>1. Init => Feed!Init
  BY DEF Init, Feed!Init, Blank, NoID
<1>2. ASSUME IInv, [Next]_vars PROVE [Feed!Next]_(Feed!feed)
  <2>1. CASE GitHubStep
    BY <1>2, <2>1, PublishStep DEF Feed!Next
  <2>2. CASE UNCHANGED github /\ (\E c \in Commits : CreateBranch(c))
    BY <1>2, <2>2, DeliverStep DEF Feed!Next
  <2>3. CASE UNCHANGED <<anc, head, lost, rewritten, created>>
    <3>1. CASE CutsOver
      BY <1>2, <2>3, <3>1, CutoverStep DEF Feed!Next
    <3>2. CASE Advances
      BY <1>2, <2>3, <3>2, AdvanceStep DEF Feed!Next
    <3>3. CASE Mints \/ Acknowledges \/ Relabels
      <4>1. obj'.cursor = obj.cursor /\ obj'.appliedID = obj.appliedID
        BY <3>3 DEF Mints, Acknowledges, Relabels, Protocol
      <4> QED BY <2>3, <4>1 DEF Feed!feed
    <3> QED BY <1>2, <3>1, <3>2, <3>3, ProtocolSteps DEF IInv
  <2> QED BY <1>2, <2>1, <2>2, <2>3, FeedFrame
<1>3. IInv /\ [Next]_vars => [Feed!Next]_(Feed!feed)
  BY <1>2
<1> QED BY Invariance, <1>1, <1>3, PTL DEF Spec, FeedImplemented, Feed!Spec

(* A reset request is answered "done" only by the cutover recorded for it, *)
(* however often it was cancelled, repeated or interrupted.                *)
THEOREM AckMeansApplied == Spec => AckOnlyIfApplied
<1>1. ASSUME IInv, [Next]_vars, obj'.reset = "done", obj.reset # "done"
      PROVE  /\ obj.reset = "true" /\ obj.resetID # NoID
             /\ obj.appliedID = obj.resetID /\ obj'.resetID = NoID
  <2> USE DEF IInv
  <2>1. CASE Acknowledges
    BY <1>1, <2>1 DEF Acknowledges, Protocol, ResetInv, IsBootstrapResetRequested
  <2>2. CASE Mints \/ CutsOver \/ Advances \/ Relabels
    BY <1>1, <2>2 DEF Mints, CutsOver, Advances, Relabels, Protocol
  <2> QED BY <1>1, <2>1, <2>2, ProtocolSteps
<1>2. IInv /\ [Next]_vars =>
        [obj'.reset = "done" /\ obj.reset # "done" =>
           /\ obj.reset = "true" /\ obj.resetID # NoID
           /\ obj.appliedID = obj.resetID /\ obj'.resetID = NoID]_vars
  BY <1>1
<1> QED BY Invariance, <1>2, PTL DEF Spec, AckOnlyIfApplied

(* A reset takes effect at most once, and only while it is requested. *)
THEOREM ResetsApplyOnce == Spec => AppliedOnce
<1>1. ASSUME IInv, [Next]_vars, obj'.appliedID # obj.appliedID
      PROVE  /\ obj.reset = "true" /\ obj'.appliedID = obj.resetID
             /\ obj'.appliedID > obj.appliedID
             /\ obj'.cursor # NoSHA /\ obj'.ready = "initialized"
  <2> USE DEF IInv
  <2>1. CASE CutsOver
    <3>1. /\ obj'.appliedID = IF obj.reset = "true" THEN obj.resetID ELSE obj.appliedID
          /\ pc = "bootstrap" /\ repo = obj /\ obj'.cursor = headSHA
          /\ obj'.ready = "initialized"
      BY <2>1 DEF CutsOver, Protocol
    <3>2. obj.reset = "true" /\ obj.resetID # NoID /\ headSHA # NoSHA
      BY <1>1, <3>1 DEF ResetInv, IsBootstrapResetRequested
    <3>3. obj.appliedID <= obj.resetID /\ obj.appliedID \in Nat /\ obj.resetID \in Nat
      BY <1>1, <3>2 DEF IdentityInv, TypeOK, Repository, ResetIDs
    <3> QED BY <1>1, <3>1, <3>2, <3>3
  <2>2. CASE Mints \/ Advances \/ Acknowledges \/ Relabels
    BY <1>1, <2>2 DEF Mints, Advances, Acknowledges, Relabels, Protocol
  <2> QED BY <1>1, <2>1, <2>2, ProtocolSteps
<1>2. IInv /\ [Next]_vars =>
        [obj'.appliedID # obj.appliedID =>
           /\ obj.reset = "true" /\ obj'.appliedID = obj.resetID
           /\ obj'.appliedID > obj.appliedID
           /\ obj'.cursor # NoSHA /\ obj'.ready = "initialized"]_vars
  BY <1>1
<1> QED BY Invariance, <1>2, PTL DEF Spec, AppliedOnce

(* A failed cutover records its cause and nothing else. *)
THEOREM FailuresKeepCutover == Spec => FailureKeepsCutover
<1>1. ASSUME IInv, [Next]_vars, obj'.ready \in Causes, obj'.ready # obj.ready
      PROVE  obj'.cursor = obj.cursor /\ obj'.appliedID = obj.appliedID
  <2>1. CASE CutsOver
    BY <1>1, <2>1 DEF CutsOver, Protocol, Causes
  <2>2. CASE Mints \/ Advances \/ Acknowledges \/ Relabels
    BY <1>1, <2>2 DEF Mints, Advances, Acknowledges, Relabels, Protocol
  <2> QED BY <1>1, <2>1, <2>2, ProtocolSteps DEF IInv
<1>2. IInv /\ [Next]_vars =>
        [obj'.ready \in Causes /\ obj'.ready # obj.ready =>
           obj'.cursor = obj.cursor /\ obj'.appliedID = obj.appliedID]_vars
  BY <1>1
<1> QED BY Invariance, <1>2, PTL DEF Spec, FailureKeepsCutover

(* With informers that do not lag, no Branch is left behind by a Repository *)
(* that goes away.                                                          *)
THEOREM CleanupComplete == ~StaleCache => (Spec => []RepoOutlivesBranches)
<1>1. ASSUME ~StaleCache PROVE IInv => RepoOutlivesBranches
  BY <1>1 DEF IInv, CleanupInv, RepoOutlivesBranches
<1> SUFFICES ASSUME ~StaleCache PROVE Spec => []RepoOutlivesBranches
  OBVIOUS
<1>2. IInv => RepoOutlivesBranches
  BY <1>1
<1> QED BY Invariance, <1>2, PTL
=============================================================================
