----------------------- MODULE RepositoryProgressProofs -----------------------
(***************************************************************************)
(* What the cursor of RepositoryController promises while the default      *)
(* branch is only ever fast-forwarded, for every value of the constants:   *)
(* PInv, which rests on IInv of RepositoryControllerProofs.                *)
(***************************************************************************)
EXTENDS RepositoryControllerProofs

(* What is lost was published, is not reachable from the head, and takes its *)
(* descendants with it.                                                    *)
LostInv ==
  /\ lost \subseteq Published /\ head \notin lost
  /\ \A c \in Published : anc[c] \cap lost # {} => c \in lost

(* Without merges the past of a commit is a line. *)
LineInv ==
  ~Merges => \A x \in Commits : \A c, d \in anc[x] : c <= d => c \in anc[d]

(* Until a force push, whatever a reconcile has read or is about to store   *)
(* lies behind the head, in the order in which it was read.                 *)
ForwardInv ==
  ~rewritten =>
    /\ {obj.cursor, cached.cursor, repo.cursor, headSHA, last}
         \subseteq Ancestors(head) \cup {NoSHA}
    /\ pc \in {"bootstrap", "collect"} =>
         repo.cursor \in Ancestors(headSHA) \cup {NoSHA}
    /\ pc = "create" => todo \cap Ancestors(repo.cursor) = {}
    /\ ~Merges /\ pc = "create" => repo.cursor \in Ancestors(last) \cup {NoSHA}

(* With informers that do not lag, a reconcile works from the stored cursor. *)
CopyInv ==
  ~StaleCache =>
    /\ cached.cursor = obj.cursor
    /\ pc # "idle" => repo.cursor = obj.cursor

PInv == IInv /\ LostInv /\ LineInv /\ ForwardInv /\ CopyInv
-----------------------------------------------------------------------------
(* What is lost stays apart from what the head reaches. *)
LEMMA LostStep ==
  ASSUME IInv, LostInv, [Next]_vars PROVE LostInv'
<1> USE DEF IInv
<1>1. ASSUME NEW c \in Commits, NEW m \in SHAs, NEW n \in SHAs, Commit(c, m, n)
      PROVE  LostInv'
  <2>1. /\ c \notin Published /\ lost' = lost /\ head' = head
        /\ anc'[c] = {c} \cup Ancestors(m) \cup Ancestors(n)
        /\ \A d \in Commits : d # c => anc'[d] = anc[d]
    BY <1>1 DEF Commit, TypeOK
  <2>2. m \in (Published \ lost) \cup {NoSHA} /\ n \in (Published \ lost) \cup {NoSHA}
    BY <1>1 DEF Commit
  <2>3. Ancestors(m) \cap lost = {} /\ Ancestors(n) \cap lost = {}
    BY <2>2 DEF LostInv, Ancestors
  <2>4. c \notin lost /\ anc'[c] \cap lost = {}
    BY <2>1, <2>3 DEF LostInv
  <2>5. \A d \in Published' : d = c \/ d \in Published
    BY <2>1 DEF Published
  <2>6. lost' \subseteq Published'
    BY <2>1, HistoryGrows DEF LostInv
  <2>7. ASSUME NEW d \in Published', anc'[d] \cap lost # {} PROVE d \in lost
    <3>1. d # c /\ d \in Published
      BY <2>4, <2>5, <2>7
    <3> QED BY <3>1, <2>1, <2>7 DEF LostInv, Published
  <2> QED BY <2>1, <2>6, <2>7 DEF LostInv
<1>2. ASSUME NEW c \in Commits, MoveHead(c) PROVE LostInv'
  BY <1>2 DEF MoveHead, LostInv, Published
<1>3. ASSUME NEW c \in Commits, LoseCommit(c) PROVE LostInv'
  <2> DEFINE gone == {d \in Published : c \in anc[d]}
  <2>1. /\ c \in Published /\ c \notin Ancestors(head) /\ head # NoSHA
        /\ lost' = lost \cup gone /\ UNCHANGED <<anc, head>>
    BY <1>3 DEF LoseCommit
  <2>2. head' \notin lost'
    BY <2>1 DEF LostInv, Ancestors
  <2>3. Published' = Published /\ lost' \subseteq Published
    BY <2>1 DEF LostInv, Published
  <2>4. ASSUME NEW d \in Published, NEW e \in anc[d], e \in gone PROVE d \in gone
    BY <2>4 DEF HistoryInv, Published
  <2>5. ASSUME NEW d \in Published, anc[d] \cap lost' # {} PROVE d \in lost'
    BY <2>1, <2>4, <2>5 DEF LostInv
  <2> QED BY <2>1, <2>2, <2>3, <2>5 DEF LostInv
<1>4. CASE UNCHANGED github
  BY <1>4 DEF github, LostInv, Published
<1> QED BY <1>1, <1>2, <1>3, <1>4, GitHubFrame DEF GitHubStep

(* A commit without a second parent extends the line of its parent. *)
LEMMA LineStep ==
  ASSUME IInv, LineInv, [Next]_vars PROVE LineInv'
<1> USE DEF IInv
<1> SUFFICES ASSUME ~Merges PROVE LineInv'
  BY DEF LineInv
<1>1. ASSUME NEW x \in Commits, NEW m \in SHAs, NEW n \in SHAs, Commit(x, m, n)
      PROVE  LineInv'
  <2>1. /\ x \notin Published /\ n = NoSHA /\ m \in Published \cup {NoSHA}
        /\ anc'[x] = {x} \cup Ancestors(m)
        /\ \A d \in Commits : d # x => anc'[d] = anc[d]
    BY <1>1 DEF Commit, TypeOK, Ancestors
  <2>2. \A d \in Ancestors(m) : d \in Commits /\ d # x /\ anc'[d] = anc[d]
    BY <2>1 DEF Ancestors, HistoryInv, Published, TypeOK
  <2>3. \A c, d \in Ancestors(m) : c <= d => c \in anc'[d]
    BY <2>1, <2>2 DEF LineInv, Ancestors, Published
  <2>4. \A d \in Commits : d < x => d # x
    BY DEF Commits
  <2>5. \A d \in Ancestors(m) : d < x
    <3>1. \A d \in Published : d < x
      <4> SUFFICES ASSUME NEW d \in Published, ~(d < x) PROVE FALSE
        OBVIOUS
      <4>1. x <= d
        BY DEF Published, Commits
      <4> QED BY <4>1, <2>1 DEF HistoryInv
    <3> QED BY <2>1, <3>1 DEF Ancestors, HistoryInv, Published, TypeOK
  <2>6. ASSUME NEW c \in anc'[x], NEW d \in anc'[x], c <= d PROVE c \in anc'[d]
    <3>1. CASE d = x
      BY <3>1
    <3>2. CASE d # x
      <4>1. d \in Ancestors(m) /\ d < x /\ d \in Commits
        BY <3>2, <2>1, <2>2, <2>5
      <4>2. c # x
        BY <4>1, <2>6 DEF Commits
      <4> QED BY <4>1, <4>2, <2>1, <2>3, <2>6
    <3> QED BY <3>1, <3>2
  <2>7. ASSUME NEW y \in Commits, y # x, NEW c \in anc'[y], NEW d \in anc'[y], c <= d
        PROVE  c \in anc'[d]
    <3>1. c \in anc[y] /\ d \in anc[y] /\ d \in Commits /\ d \in anc[d]
      BY <2>1, <2>7 DEF HistoryInv, TypeOK
    <3>2. d # x
      BY <3>1, <2>1 DEF Published
    <3> QED BY <3>1, <3>2, <2>1, <2>7 DEF LineInv
  <2> QED BY <2>6, <2>7 DEF LineInv
<1>2. CASE anc' = anc
  BY <1>2 DEF LineInv
<1>3. CASE GitHubStep
  BY <1>1, <1>2, <1>3 DEF GitHubStep, MoveHead, LoseCommit
<1> QED BY <1>2, <1>3, GitHubFrame DEF github
-----------------------------------------------------------------------------
(* The stored cursor changes by a cutover or behind a batch, and only from  *)
(* a copy that is current.                                                 *)
LEMMA CursorSources ==
  ASSUME IInv, [Next]_vars
  PROVE  \/ obj'.cursor = obj.cursor
         \/ pc = "bootstrap" /\ repo = obj /\ obj'.cursor = headSHA
         \/ pc = "create" /\ repo = obj /\ obj'.cursor = last
BY ProtocolSteps
   DEF IInv, Mints, CutsOver, Advances, Acknowledges, Relabels, Protocol

(* The steps of a reconcile by what they do to the cursor it works from,    *)
(* the head it fetched and the batch it delivers.                          *)
Passes ==
  /\ pc' \notin {"bootstrap", "collect", "create"}
  /\ repo'.cursor \in {repo.cursor, cached.cursor, obj'.cursor, NoSHA}
  /\ headSHA' \in {headSHA, NoSHA} /\ last' \in {last, NoSHA}

Delivers ==
  pc = "create" /\ todo' \subseteq todo /\ UNCHANGED <<pc, repo, headSHA, last>>

Rests == UNCHANGED <<pc, repo, headSHA, todo, last>>

LEMMA ReconcileSteps ==
  ASSUME [Next]_vars
  PROVE  /\ Passes \/ Delivers \/ Rests \/ FetchHead \/ Collect
         /\ cached'.cursor \in {cached.cursor, obj.cursor, obj'.cursor}
<1> USE DEF Goto, Write, WriteAndGo, WriteOver, Store
<1>r. ASSUME Return PROVE Passes
  BY <1>r DEF Return, Passes, Blank
<1>1. CASE Begin
  BY <1>1 DEF Begin, Passes, locals
<1>2. CASE AddFinalizer \/ EnsureLabels \/ MarkFailure \/ Acknowledge
           \/ RemoveFinalizer
  BY <1>2, <1>r DEF AddFinalizer, EnsureLabels, MarkFailure, Acknowledge,
     RemoveFinalizer
<1>3. CASE MintResetID \/ ClearResetID \/ Bootstrap \/ AdvanceCursor
  BY <1>3 DEF MintResetID, ClearResetID, Bootstrap, AdvanceCursor, Passes, locals
<1>4. CASE ListBranches \/ KeepResetID \/ FetchHeadFails \/ BootstrapFails
           \/ KeepCursor \/ DeleteBranches
  BY <1>4 DEF ListBranches, KeepResetID, FetchHeadFails, BootstrapFails,
     KeepCursor, DeleteBranches, Passes, locals
<1>5. CASE \/ CollectFails \/ DeleteSomeBranches \/ Conflict \/ Fault
           \/ (\E c \in Commits : AlreadyExists(c))
  BY <1>5, <1>r DEF CollectFails, DeleteSomeBranches, Conflict, Fault, AlreadyExists
<1>6. CASE SyncHeads \/ WaitForBranches
  BY <1>6, <1>r DEF SyncHeads, WaitForBranches, Passes, locals
<1>7. ASSUME NEW c \in Commits, SkipExisting(c) \/ CreateBranch(c)
      PROVE  Delivers /\ cached' = cached
  BY <1>7 DEF SkipExisting, CreateBranch, Delivers
<1>8. CASE FetchHead \/ Collect
  BY <1>8 DEF FetchHead, Collect
<1>9. CASE OperatorStep \/ RequestRepositorySync
  BY <1>9 DEF OperatorStep, OperatorRequest, OperatorCancel, OperatorDelete,
     RequestRepositorySync, others, Rests
<1>10. CASE \/ GitHubStep \/ Informers \/ (\E c \in Commits : BranchEnds(c))
            \/ UNCHANGED vars
  BY <1>10 DEF GitHubStep, Commit, MoveHead, LoseCommit, Informers, CacheSync,
     SeeBranch, BranchEnds, reconcile, locals, vars, Rests
<1> QED
  BY <1>1, <1>2, <1>3, <1>4, <1>5, <1>6, <1>7, <1>8, <1>9, <1>10
     DEF Next, Reconcile, Failure, BootstrapConflict, BootstrapRejected,
         Deliver

(* Until a force push the head leaves none of its past behind. *)
LEMMA HeadStep ==
  ASSUME IInv, [Next]_vars, ~rewritten'
  PROVE  ~rewritten /\ Ancestors(head) \subseteq Ancestors(head)'
<1> USE DEF IInv
<1>1. head \in Published \cup {NoSHA} /\ NoSHA \notin Commits
  BY DEF HistoryInv, NoSHA, Commits
<1>2. CASE UNCHANGED <<head, rewritten>>
  BY <1>1, <1>2, HistoryGrows DEF Ancestors
<1>3. ASSUME NEW c \in Commits, MoveHead(c)
      PROVE  ~rewritten /\ Ancestors(head) \subseteq Ancestors(head)'
  BY <1>1, <1>3 DEF MoveHead, Ancestors
<1> QED BY <1>2, <1>3, GitHubFrame DEF GitHubStep, Commit, LoseCommit, github

(* What lies behind the head stays there, with its past. *)
LEMMA BehindStep ==
  ASSUME IInv, [Next]_vars, ~rewritten',
         NEW c \in Ancestors(head) \cup {NoSHA}
  PROVE  c \in Ancestors(head)' \cup {NoSHA} /\ Ancestors(c)' = Ancestors(c)
<1> USE DEF IInv
<1>1. c \in Published \cup {NoSHA}
  BY DEF Ancestors, HistoryInv, Published, TypeOK
<1> QED BY <1>1, HeadStep, HistoryGrows DEF Ancestors

(* A batch lies ahead of the cursor, and its last commit leads on from it.  *)
LEMMA CollectStep ==
  ASSUME IInv, LostInv, LineInv, ForwardInv, ~rewritten, Collect
  PROVE  /\ last' \in Ancestors(head)
         /\ todo' \cap Ancestors(repo.cursor) = {}
         /\ ~Merges => repo.cursor \in Ancestors(last') \cup {NoSHA}
<1> USE DEF IInv
<1> DEFINE base == repo.cursor
           backlog == Ancestors(headSHA) \ Ancestors(base)
<1>1. /\ pc = "collect" /\ todo' = CommitsToDeliver(base)
      /\ todo' = {} => base = headSHA
      /\ last' \in IF todo' = {} THEN {headSHA} ELSE Newest(todo')
  BY DEF Collect
<1>2. /\ headSHA \in Published /\ headSHA \in Ancestors(head)
      /\ base \in Ancestors(headSHA) \cup {NoSHA}
  BY <1>1 DEF ResetInv, PublishedInv, ForwardInv
<1>3. /\ headSHA # NoSHA /\ headSHA \in Commits /\ NoSHA \notin Commits
      /\ Ancestors(headSHA) \subseteq Commits /\ headSHA \in Ancestors(headSHA)
  BY <1>2 DEF Published, Ancestors, TypeOK, NoSHA, Commits
<1>4. Ancestors(headSHA) \subseteq Ancestors(head)
  BY <1>2, <1>3 DEF Ancestors, HistoryInv, Published
<1>5. base \notin lost
  <2>1. \A d \in Ancestors(head) : d \notin lost
    BY DEF LostInv, HistoryInv, Ancestors
  <2> QED BY <1>2, <1>3, <1>4, <2>1 DEF LostInv, Published
<1>6. base # NoSHA => base \in Commits /\ base \in Ancestors(base)
  BY <1>2, <1>3 DEF HistoryInv, Ancestors, Published
<1>7. CASE base = headSHA
  <2>1. todo' = {} /\ last' = headSHA
    BY <1>1, <1>7 DEF CommitsToDeliver
  <2> QED BY <2>1, <1>2, <1>3, <1>7
<1>8. CASE base # headSHA /\ (base = NoSHA \/ headSHA \in Ancestors(base))
  <2>1. headSHA \notin Ancestors(base) /\ base = NoSHA
    <3>1. ASSUME base # NoSHA, headSHA \in Ancestors(base) PROVE FALSE
      <4>1. base <= headSHA /\ headSHA <= base
        BY <1>2, <1>3, <1>6, <3>1 DEF HistoryInv, Ancestors
      <4> QED BY <4>1, <1>3, <1>6, <1>8, <3>1 DEF Commits
    <3> QED BY <1>8, <3>1 DEF Ancestors
  <2>2. todo' = {headSHA} /\ last' = headSHA
    BY <1>1, <1>3, <1>8 DEF CommitsToDeliver, Newest
  <2> QED BY <2>1, <2>2, <1>2
<1>9. CASE base # headSHA /\ base # NoSHA /\ headSHA \notin Ancestors(base)
  <2>1. todo' = FirstPage(backlog)
    BY <1>1, <1>3, <1>5, <1>9 DEF CommitsToDeliver
  <2>2. last' \in todo' /\ todo' \subseteq backlog
    BY <1>1, <1>9, <2>1 DEF Newest, FirstPage
  <2>3. ASSUME ~Merges PROVE base \in Ancestors(last')
    <3>1. base \in anc[headSHA] /\ last' \in anc[headSHA] /\ last' \in Commits
      BY <1>2, <1>3, <1>9, <2>2 DEF Ancestors
    <3>2. last' \notin anc[base] /\ last' # NoSHA
      BY <1>3, <1>9, <2>2, <3>1 DEF Ancestors
    <3>3. base <= last' \/ last' <= base
      BY <1>6, <1>9, <3>1 DEF Commits
    <3> QED BY <2>3, <1>3, <3>1, <3>2, <3>3 DEF LineInv, Ancestors
  <2> QED BY <1>4, <2>2, <2>3
<1> QED BY <1>7, <1>8, <1>9

(* A reconcile keeps the order in which it read the cursor and the head. *)
LEMMA ForwardStep ==
  ASSUME IInv, LostInv, LineInv, ForwardInv, [Next]_vars
  PROVE  ForwardInv'
<1> SUFFICES ASSUME ~rewritten' PROVE ForwardInv'
  BY DEF ForwardInv
<1> DEFINE Behind(c) == c \in Ancestors(head) \cup {NoSHA}
<1>0. ~rewritten /\ ForwardInv
  BY HeadStep
<1>1. /\ Behind(obj.cursor) /\ Behind(cached.cursor) /\ Behind(repo.cursor)
      /\ Behind(headSHA) /\ Behind(last)
  BY <1>0 DEF ForwardInv
<1>2. Behind(obj'.cursor)
  BY <1>1, CursorSources
<1>3. Behind(cached'.cursor)
  BY <1>1, <1>2, ReconcileSteps
<1>4. \A c : Behind(c) => c \in Ancestors(head)' \cup {NoSHA} /\ Ancestors(c)' = Ancestors(c)
  BY BehindStep
<1> HIDE DEF Behind
<1> SUFFICES
      /\ {repo'.cursor, headSHA', last'} \subseteq Ancestors(head)' \cup {NoSHA}
      /\ pc' \in {"bootstrap", "collect"} =>
           repo'.cursor \in Ancestors(headSHA)' \cup {NoSHA}
      /\ pc' = "create" => todo' \cap Ancestors(repo.cursor)' = {}
      /\ ~Merges /\ pc' = "create" => repo'.cursor \in Ancestors(last)' \cup {NoSHA}
  BY <1>2, <1>3, <1>4 DEF ForwardInv
<1>5. CASE Passes
  BY <1>1, <1>2, <1>4, <1>5 DEF Passes
<1>6. CASE Delivers \/ Rests
  <2>1. UNCHANGED <<pc, repo, headSHA, last>> /\ (pc = "create" => todo' \subseteq todo)
    BY <1>6 DEF Delivers, Rests
  <2>2. /\ Ancestors(repo.cursor)' = Ancestors(repo.cursor)
        /\ Ancestors(headSHA)' = Ancestors(headSHA) /\ Ancestors(last)' = Ancestors(last)
    BY <1>1, <1>4, <2>1 DEF Ancestors
  <2> QED BY <1>0, <1>1, <1>4, <2>1, <2>2 DEF ForwardInv
<1>7. CASE FetchHead
  <2>1. headSHA' = head /\ UNCHANGED <<anc, head, repo, last>> /\ pc' # "create"
    BY <1>7 DEF FetchHead, github, Goto
  <2>2. Behind(head)
    BY DEF Behind, Ancestors, IInv, HistoryInv, Published
  <2>3. repo'.cursor \in Ancestors(headSHA)' \cup {NoSHA}
    BY <1>1, <2>1 DEF Behind, Ancestors
  <2> QED BY <1>1, <1>4, <2>1, <2>2, <2>3
<1>8. CASE Collect
  <2>1. UNCHANGED <<anc, head, repo, headSHA>> /\ pc' = "create"
    BY <1>8 DEF Collect, github, Goto
  <2>2. Behind(last')
    BY <1>0, <1>8, CollectStep DEF Behind
  <2>3. /\ Ancestors(repo.cursor)' = Ancestors(repo.cursor)
        /\ Ancestors(last)' = Ancestors(last')
    BY <2>1 DEF Ancestors
  <2> QED BY <1>0, <1>1, <1>4, <1>8, <2>1, <2>2, <2>3, CollectStep
<1> QED BY <1>5, <1>6, <1>7, <1>8, ReconcileSteps

(* Only the reconcile itself changes the cursor it works from.   *)
LEMMA CopyStep ==
  ASSUME IInv, CopyInv, [Next]_vars PROVE CopyInv'
<1> SUFFICES ASSUME ~StaleCache PROVE CopyInv'
  BY DEF CopyInv
<1> USE DEF Goto, Write, WriteAndGo, WriteOver, Store, CopyInv
<1>r. ASSUME Return, UNCHANGED <<obj, cached>> \/ cached' = obj' PROVE CopyInv'
  BY <1>r DEF Return
<1>1. CASE Begin
  BY <1>1 DEF Begin
<1>2. CASE AddFinalizer \/ EnsureLabels \/ MarkFailure \/ Acknowledge
           \/ RemoveFinalizer
  BY <1>2, <1>r DEF AddFinalizer, EnsureLabels, MarkFailure, Acknowledge,
     RemoveFinalizer
<1>3. CASE MintResetID \/ ClearResetID \/ Bootstrap \/ AdvanceCursor
  BY <1>3 DEF MintResetID, ClearResetID, Bootstrap, AdvanceCursor
<1>4. CASE ListBranches \/ KeepResetID \/ FetchHeadFails \/ BootstrapFails
           \/ KeepCursor \/ DeleteBranches \/ FetchHead \/ Collect
  BY <1>4 DEF ListBranches, KeepResetID, FetchHeadFails, BootstrapFails,
     KeepCursor, DeleteBranches, FetchHead, Collect
<1>5. CASE \/ CollectFails \/ DeleteSomeBranches \/ Conflict \/ Fault
           \/ (\E c \in Commits : AlreadyExists(c))
  BY <1>5, <1>r DEF CollectFails, DeleteSomeBranches, Conflict, Fault, AlreadyExists
<1>6. CASE SyncHeads \/ WaitForBranches
  BY <1>6, <1>r DEF SyncHeads, WaitForBranches
<1>7. ASSUME NEW c \in Commits, SkipExisting(c) \/ CreateBranch(c) PROVE CopyInv'
  BY <1>7 DEF SkipExisting, CreateBranch
<1>8. CASE OperatorStep \/ RequestRepositorySync
  <2>1. obj \in Repository
    BY DEF IInv, TypeOK
  <2>2. /\ obj'.cursor = obj.cursor /\ cached' = obj'
        /\ UNCHANGED <<pc, repo>>
    BY <1>8, <2>1 DEF OperatorStep, OperatorRequest, OperatorCancel, OperatorDelete,
       RequestRepositorySync, others, Repository
  <2> QED BY <2>2
<1>9. CASE \/ GitHubStep \/ Informers \/ (\E c \in Commits : BranchEnds(c))
           \/ UNCHANGED vars
  BY <1>9 DEF GitHubStep, Commit, MoveHead, LoseCommit, Informers, CacheSync,
     SeeBranch, BranchEnds, reconcile, locals, vars
<1> QED
  BY <1>1, <1>2, <1>3, <1>4, <1>5, <1>6, <1>7, <1>8, <1>9
     DEF Next, Reconcile, Failure, BootstrapConflict, BootstrapRejected,
         Deliver

(* PInv holds in every state. *)
THEOREM ProgressInvariance == Spec => []PInv
<1>1. Init => PInv
  <2> SUFFICES ASSUME Init PROVE PInv
    OBVIOUS
  <2>1. IInv
    BY IInvInit
  <2>2. Published = {} /\ head = NoSHA /\ lost = {}
    BY DEF Init, Published
  <2>3. LostInv /\ LineInv
    BY <2>2 DEF Init, LostInv, LineInv
  <2>4. obj.cursor = NoSHA /\ cached.cursor = NoSHA /\ repo.cursor = NoSHA
    BY DEF Init, Blank
  <2>5. ForwardInv /\ CopyInv
    BY <2>4 DEF Init, ForwardInv, CopyInv
  <2> QED BY <2>1, <2>3, <2>5 DEF PInv
<1>2. PInv /\ [Next]_vars => PInv'
  BY IInvStep, LostStep, LineStep, ForwardStep, CopyStep DEF PInv
<1> QED BY <1>1, <1>2, PTL DEF Spec

(* Without merges and force pushes the cursor never goes back, whatever the *)
(* caches hold and however often a reset is requested.                     *)
THEOREM CursorNeverGoesBack ==
  ~Merges =>
    (Spec => [][~rewritten =>
                  (obj'.cursor # obj.cursor /\ obj.cursor # NoSHA =>
                     obj.cursor \in Ancestors(obj'.cursor))]_vars)
<1> SUFFICES ASSUME ~Merges
             PROVE  Spec => [][~rewritten =>
                                 (obj'.cursor # obj.cursor /\ obj.cursor # NoSHA =>
                                    obj.cursor \in Ancestors(obj'.cursor))]_vars
  OBVIOUS
<1>1. ASSUME PInv, [Next]_vars, ~rewritten, obj'.cursor # obj.cursor, obj.cursor # NoSHA
      PROVE  obj.cursor \in Ancestors(obj'.cursor)
  BY <1>1, CursorSources DEF PInv, ForwardInv
<1>2. PInv /\ [Next]_vars =>
        [~rewritten => (obj'.cursor # obj.cursor /\ obj.cursor # NoSHA =>
                          obj.cursor \in Ancestors(obj'.cursor))]_vars
  BY <1>1
<1> QED BY ProgressInvariance, <1>2, PTL DEF Spec

(* With informers that do not lag no commit behind the cursor gets a Branch *)
(* again, merges or not, until the default branch is force-pushed.         *)
THEOREM NothingBehindCursor ==
  ~StaleCache =>
    (Spec => [][~rewritten =>
                  (branches' \ branches) \cap Ancestors(obj.cursor) = {}]_vars)
<1> SUFFICES ASSUME ~StaleCache
             PROVE  Spec => [][~rewritten => (branches' \ branches)
                                               \cap Ancestors(obj.cursor) = {}]_vars
  OBVIOUS
<1>1. ASSUME NEW c \in Commits, PInv, ~rewritten, CreateBranch(c)
      PROVE  (branches' \ branches) \cap Ancestors(obj.cursor) = {}
  <2>1. branches' = branches \cup {c} /\ c \in todo /\ pc = "create"
    BY <1>1 DEF CreateBranch, SetBranches, Oldest
  <2>2. repo.cursor = obj.cursor
    BY <1>1, <2>1 DEF PInv, CopyInv
  <2> QED BY <1>1, <2>1, <2>2 DEF PInv, ForwardInv
<1>2. ASSUME [Next]_vars
      PROVE  (\E c \in Commits : CreateBranch(c)) \/ branches' \subseteq branches
  BY <1>2
     DEF Next, Reconcile, Failure, Informers, OperatorStep, GitHubStep, Deliver, vars,
     Begin, AddFinalizer, EnsureLabels, ListBranches, MintResetID,
     ClearResetID, KeepResetID, FetchHead, FetchHeadFails, MarkFailure,
     Bootstrap, BootstrapFails, BootstrapConflict, BootstrapRejected, Collect,
     CollectFails, SkipExisting, AlreadyExists, AdvanceCursor, KeepCursor,
     SyncHeads, Acknowledge, DeleteBranches, DeleteSomeBranches,
     WaitForBranches, RemoveFinalizer, Conflict, Fault, OperatorRequest,
     OperatorCancel, OperatorDelete, RequestRepositorySync, others,
     BranchEnds, SetBranches, CacheSync, SeeBranch, Commit, MoveHead, LoseCommit
<1>3. PInv /\ [Next]_vars =>
        [~rewritten => (branches' \ branches) \cap Ancestors(obj.cursor) = {}]_vars
  BY <1>1, <1>2
<1> QED BY ProgressInvariance, <1>3, PTL DEF Spec

(* The two together: the cursor marks progress.  A merge can set it back    *)
(* (its parents are listed side by side), a cache that lags can repeat what *)
(* is behind it; both are excluded.                                        *)
THEOREM CursorIsProgress == ~Merges /\ ~StaleCache => (Spec => CursorMarksProgress)
<1> SUFFICES ASSUME ~Merges, ~StaleCache PROVE Spec => CursorMarksProgress
  OBVIOUS
<1>1. Spec => [][~rewritten =>
                   (obj'.cursor # obj.cursor /\ obj.cursor # NoSHA =>
                      obj.cursor \in Ancestors(obj'.cursor))]_vars
  BY CursorNeverGoesBack
<1>2. Spec => [][~rewritten =>
                   (branches' \ branches) \cap Ancestors(obj.cursor) = {}]_vars
  BY NothingBehindCursor
<1> QED BY <1>1, <1>2, PTL DEF CursorMarksProgress
=============================================================================
