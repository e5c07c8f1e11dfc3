------------------------ MODULE RepositoryController ------------------------
(***************************************************************************)
(* RepositoryReconciler.Reconcile (internal/controller/                    *)
(* repository_controller.go) for one Repository: finalizer, labels, the    *)
(* bootstrap-reset protocol, the default-branch cursor, one Branch per     *)
(* default-branch commit, and the deletion path.  One action per call that *)
(* reads or writes outside the process, so that the operator, the webhook, *)
(* the other controllers and GitHub move between any two of them.          *)
(*                                                                         *)
(* Commits are numbered in the order GitHub lists them (oldest first), so  *)
(* an ancestor has a smaller number; 0 stands for the empty string, of a   *)
(* SHA as of a reset ID.                                                   *)
(***************************************************************************)
EXTENDS Naturals, FiniteSets

CONSTANTS
  MaxCommit,   \* bound: commits GitHub ever publishes
  PageSize,    \* commits CompareCommits returns at most (250 in the code)
  MaxResets,   \* bound: reset requests that get an identity
  Merges,      \* does a commit have a second parent?
  Rewrites,    \* may the default branch be force-pushed?
  StaleCache   \* may the informers lag behind the API server?

ASSUME ConstantsAssumption ==
  /\ MaxCommit \in Nat
  /\ PageSize \in Nat \ {0}
  /\ MaxResets \in Nat
  /\ Merges \in BOOLEAN /\ Rewrites \in BOOLEAN /\ StaleCache \in BOOLEAN

NoSHA == 0
NoID == 0
Commits == 1 .. MaxCommit
SHAs == 0 .. MaxCommit
ResetIDs == 0 .. MaxResets

(* The value of the bootstrap-reset annotation; "" when it is absent. *)
ResetValues == {"", "true", "done"}

(* The BootstrapReady condition: unset, True, or False with its cause (the *)
(* message of the condition is the error that caused it).                  *)
Causes == {"lookup", "empty", "persist"}
Ready == {"unset", "initialized"} \cup Causes

Repository ==
  [present : BOOLEAN, deleting : BOOLEAN, finalizer : BOOLEAN,
   labels : BOOLEAN, reset : ResetValues, resetID : ResetIDs,
   cursor : SHAs, appliedID : ResetIDs, ready : Ready]

VARIABLES
  (* GitHub *)
  anc,        \* anc[c]: c and its ancestors; {} until c is published
  head,       \* head of the default branch
  lost,       \* commits GitHub no longer finds
  rewritten,  \* history: the default branch was force-pushed
  (* API server *)
  obj,        \* the Repository
  branches,   \* commits that have a Branch
  dying,      \* ... whose Branch has a deletion timestamp
  minted,     \* reset identities generated so far
  (* informers of the controller manager *)
  cached,     \* the Repository as the cache holds it
  fresh,      \* cached carries the current resourceVersion
  seen,       \* commits whose Branch the cache holds
  (* the reconcile in progress *)
  pc,         \* its next call, "idle" between two reconciles
  repo,       \* its copy of the Repository
  held,       \* repo carries the current resourceVersion
  existing,   \* commits that had a Branch when it listed them
  headSHA,    \* the default-branch head it fetched
  todo,       \* commits whose Branch it still has to ensure
  last,       \* the cursor it is about to store
  cause,      \* error to record in the condition
  (* history *)
  created     \* commits whose Branch was created at some time

github == <<anc, head, lost, rewritten>>
locals == <<existing, headSHA, todo, last, cause>>
vars == <<anc, head, lost, rewritten, obj, branches, dying, minted, cached,
          fresh, seen, pc, repo, held, existing, headSHA, todo, last, cause,
          created>>

Steps == {"idle", "finalizer", "labels", "list", "resetid", "fetch",
          "bootstrap", "collect", "create", "heads", "ack", "fail",
          "drain", "wait", "unfinalize"}

Ancestors(c) == IF c = NoSHA THEN {} ELSE anc[c]
Published == {c \in Commits : c \in anc[c]}

IsBootstrapResetRequested(r) == r.reset = "true"

ShouldBootstrapFromHead(r) ==
  IF IsBootstrapResetRequested(r)
  THEN r.resetID = NoID \/ r.appliedID # r.resetID
  ELSE r.cursor = NoSHA

(* What a reconcile holds before it has read the Repository. *)
Blank == [present |-> FALSE, deleting |-> FALSE, finalizer |-> FALSE,
          labels |-> FALSE, reset |-> "", resetID |-> NoID,
          cursor |-> NoSHA, appliedID |-> NoID, ready |-> "unset"]

-----------------------------------------------------------------------------
(* Every stored write moves the resourceVersion.  The model keeps what a   *)
(* resourceVersion is compared for: whether the cache (fresh) and the      *)
(* reconcile (held) still carry the current one.                           *)

Store(o) ==
  /\ obj' = o
  /\ IF StaleCache THEN fresh' = FALSE /\ UNCHANGED cached
                   ELSE cached' = o /\ UNCHANGED fresh

(* A write of the reconcile: refused with a conflict unless held. *)
Write(o) == held /\ Store(o)
WriteAndGo(o, step) == Write(o) /\ repo' = o /\ pc' = step /\ UNCHANGED held

(* A write of somebody else: the reconcile's copy is out of date. *)
WriteOver(o) == Store(o) /\ held' = FALSE /\ UNCHANGED repo

SetBranches(bs) ==
  /\ branches' = bs
  /\ IF StaleCache THEN UNCHANGED seen ELSE seen' = bs

Goto(step) == pc' = step

(* The locals of a reconcile do not outlive it. *)
Return ==
  /\ Goto("idle") /\ repo' = Blank /\ held' = FALSE
  /\ existing' = {} /\ headSHA' = NoSHA /\ todo' = {} /\ last' = NoSHA
  /\ cause' = "lookup"
-----------------------------------------------------------------------------
(* Reconcile *)

(* r.Get, and the choice between deletion, finalizer, labels and sync. *)
Begin ==
  /\ pc = "idle" /\ cached.present
  /\ cached.deleting => cached.finalizer
  /\ repo' = cached /\ held' = fresh
  /\ Goto(CASE cached.deleting -> "drain"
            [] ~cached.deleting /\ ~cached.finalizer -> "finalizer"
            [] ~cached.deleting /\ cached.finalizer /\ ~cached.labels -> "labels"
            [] OTHER -> "list")
  /\ UNCHANGED <<github, obj, branches, dying, minted, cached, fresh, seen,
                 locals, created>>

AddFinalizer ==
  /\ pc = "finalizer"
  /\ Write([repo EXCEPT !.finalizer = TRUE])
  /\ Return
  /\ UNCHANGED <<github, branches, dying, minted, seen, created>>

EnsureLabels ==
  /\ pc = "labels"
  /\ Write([repo EXCEPT !.labels = TRUE])
  /\ Return
  /\ UNCHANGED <<github, branches, dying, minted, seen, created>>

(* GetClientForRepository, then r.List of the owned Branches. *)
ListBranches ==
  /\ pc = "list"
  /\ existing' = seen
  /\ Goto("resetid")
  /\ UNCHANGED <<github, obj, branches, dying, minted, cached, fresh, seen,
                 repo, held, headSHA, todo, last, cause, created>>

(* ensureBootstrapResetID: a new identity for a request that has none, ... *)
MintResetID ==
  /\ pc = "resetid"
  /\ IsBootstrapResetRequested(repo) /\ repo.resetID = NoID
  /\ minted < MaxResets
  /\ minted' = minted + 1
  /\ WriteAndGo([repo EXCEPT !.resetID = minted + 1], "fetch")
  /\ UNCHANGED <<github, branches, dying, seen, locals, created>>

(* ... none for a request that was cancelled, ... *)
ClearResetID ==
  /\ pc = "resetid"
  /\ ~IsBootstrapResetRequested(repo) /\ repo.resetID # NoID
  /\ WriteAndGo([repo EXCEPT !.resetID = NoID], "fetch")
  /\ UNCHANGED <<github, branches, dying, minted, seen, locals, created>>

(* ... and no write otherwise. *)
KeepResetID ==
  /\ pc = "resetid"
  /\ IsBootstrapResetRequested(repo) <=> repo.resetID # NoID
  /\ Goto("fetch")
  /\ UNCHANGED <<github, obj, branches, dying, minted, cached, fresh, seen,
                 repo, held, locals, created>>

(* FetchDefaultBranchHeadSHA.  An empty head skips the default branch,     *)
(* unless a cutover is due.                                                *)
FetchHead ==
  /\ pc = "fetch"
  /\ headSHA' = head
  /\ Goto(CASE head = NoSHA /\ ShouldBootstrapFromHead(repo) -> "fail"
            [] head = NoSHA /\ ~ShouldBootstrapFromHead(repo) -> "heads"
            [] head # NoSHA /\ ShouldBootstrapFromHead(repo) -> "bootstrap"
            [] OTHER -> "collect")
  /\ cause' = "empty"
  /\ UNCHANGED <<github, obj, branches, dying, minted, cached, fresh, seen,
                 repo, held, existing, todo, last, created>>

(* A failed lookup is recorded when a cutover is due; otherwise Fault. *)
FetchHeadFails ==
  /\ pc = "fetch" /\ ShouldBootstrapFromHead(repo)
  /\ cause' = "lookup" /\ Goto("fail")
  /\ UNCHANGED <<github, obj, branches, dying, minted, cached, fresh, seen,
                 repo, held, existing, headSHA, todo, last, created>>

(* markBootstrapFailure: an unchanged condition is not written again. *)
MarkFailure ==
  /\ pc = "fail"
  /\ IF repo.ready = cause
     THEN UNCHANGED <<obj, cached, fresh>>
     ELSE Write([repo EXCEPT !.ready = cause])
  /\ Return
  /\ UNCHANGED <<github, branches, dying, minted, seen, created>>

(* Mutant of Bootstrap: the status write is forced over a conflict. *)
BootstrapBlindly ==
  /\ pc = "bootstrap"
  /\ Store([obj EXCEPT
              !.cursor = headSHA,
              !.appliedID = IF IsBootstrapResetRequested(repo)
                            THEN repo.resetID ELSE @,
              !.ready = "initialized"])
  /\ Goto("heads")
  /\ UNCHANGED <<github, branches, dying, minted, seen, repo, held, locals,
                 created>>

(* bootstrapDefaultBranchFromCurrentHead: cursor, applied reset and         *)
(* condition in one status write.                                          *)
Bootstrap ==
  /\ pc = "bootstrap"
  /\ WriteAndGo([repo EXCEPT
                   !.cursor = headSHA,
                   !.appliedID = IF IsBootstrapResetRequested(repo)
                                 THEN repo.resetID ELSE @,
                   !.ready = "initialized"], "heads")
  /\ UNCHANGED <<github, branches, dying, minted, seen, locals, created>>

(* A refused status write leaves repo as it was read. *)
BootstrapFails ==
  /\ pc = "bootstrap"
  /\ cause' = "persist" /\ Goto("fail")
  /\ UNCHANGED <<github, obj, branches, dying, minted, cached, fresh, seen,
                 repo, held, existing, headSHA, todo, last, created>>

(* The commits CompareCommits returns: the PageSize oldest. *)
FirstPage(S) == {c \in S : Cardinality({d \in S : d < c}) < PageSize}

(* Mutant of CommitsToDeliver: the comparison includes its base. *)
CommitsFromBase(base) ==
  CASE headSHA \in {NoSHA, base} -> {}
    [] headSHA \notin {NoSHA, base} /\ (base = NoSHA \/ base \in lost
                                      \/ headSHA \in Ancestors(base)) -> {headSHA}
    [] OTHER -> FirstPage((Ancestors(headSHA) \ Ancestors(base)) \cup {base})

(* CollectDefaultBranchCommits(head) from the cursor base. *)
CommitsToDeliver(base) ==
  CASE headSHA \in {NoSHA, base} -> {}
    [] headSHA \notin {NoSHA, base} /\ (base = NoSHA \/ base \in lost
                                      \/ headSHA \in Ancestors(base)) -> {headSHA}
    [] OTHER -> FirstPage(Ancestors(headSHA) \ Ancestors(base))

Newest(S) == {c \in S : \A d \in S : d <= c}

(* Comparing with a head that was lost meanwhile fails. *)
Collect ==
  /\ pc = "collect"
  /\ \/ headSHA \notin lost
     \/ repo.cursor \in {NoSHA, headSHA} \cup lost
  /\ todo' = CommitsToDeliver(repo.cursor)
  /\ todo' = {} => repo.cursor = headSHA
  /\ last' \in IF todo' = {} THEN {headSHA} ELSE Newest(todo')
  /\ Goto("create")
  /\ UNCHANGED <<github, obj, branches, dying, minted, cached, fresh, seen,
                 repo, held, existing, headSHA, cause, created>>

CollectFails ==
  /\ pc = "collect"
  /\ headSHA \in lost /\ repo.cursor \notin {NoSHA, headSHA} \cup lost
  /\ Return
  /\ UNCHANGED <<github, obj, branches, dying, minted, cached, fresh, seen,
                 created>>

(* ensureDefaultBranchCommits, oldest commit first. *)
Oldest(c) == c \in todo /\ \A d \in todo : c <= d

SkipExisting(c) ==
  /\ pc = "create" /\ Oldest(c) /\ c \in existing
  /\ todo' = todo \ {c}
  /\ UNCHANGED <<github, obj, branches, dying, minted, cached, fresh, seen, pc,
                 repo, held, existing, headSHA, last, cause, created>>

CreateBranch(c) ==
  /\ pc = "create" /\ Oldest(c) /\ c \notin existing
  /\ c \notin branches
  /\ SetBranches(branches \cup {c})
  /\ created' = created \cup {c}
  /\ todo' = todo \ {c}
  /\ UNCHANGED <<github, obj, dying, minted, cached, fresh, pc, repo, held,
                 existing, headSHA, last, cause>>

(* The Branch the list did not show makes the create fail. *)
AlreadyExists(c) ==
  /\ pc = "create" /\ Oldest(c) /\ c \notin existing
  /\ c \in branches
  /\ Return
  /\ UNCHANGED <<github, obj, branches, dying, minted, cached, fresh, seen,
                 created>>

(* Mutant of AdvanceCursor: the cursor is stored before the Branches. *)
AdvanceCursorEarly ==
  /\ pc = "create"
  /\ repo.cursor # last
  /\ WriteAndGo([repo EXCEPT !.cursor = last], "heads")
  /\ UNCHANGED <<github, branches, dying, minted, seen, locals, created>>

(* The cursor follows once every commit of the batch has its Branch. *)
AdvanceCursor ==
  /\ pc = "create" /\ todo = {}
  /\ repo.cursor # last
  /\ WriteAndGo([repo EXCEPT !.cursor = last], "heads")
  /\ UNCHANGED <<github, branches, dying, minted, seen, locals, created>>

KeepCursor ==
  /\ pc = "create" /\ todo = {}
  /\ repo.cursor = last
  /\ Goto("heads")
  /\ UNCHANGED <<github, obj, branches, dying, minted, cached, fresh, seen,
                 repo, held, locals, created>>

(* Mutant of SyncHeads: the reconcile ends without acknowledging. *)
SyncHeadsAndReturn ==
  /\ pc = "heads" /\ Return
  /\ UNCHANGED <<github, obj, branches, dying, minted, cached, fresh, seen,
                 created>>

(* FetchBranchHeadsFromGitHub and syncBranchHeads, which touch none of the *)
(* Branches of default-branch commits.  Their failures, and                *)
(* errBranchMigrationPending, are Fault here.                              *)
SyncHeads ==
  /\ pc = "heads"
  /\ IF IsBootstrapResetRequested(repo)
     THEN /\ Goto("ack")
          /\ UNCHANGED <<repo, held, locals>>
     ELSE Return
  /\ UNCHANGED <<github, obj, branches, dying, minted, cached, fresh, seen,
                 created>>

(* Mutant of Acknowledge: a conflict is answered by patching the latest. *)
AcknowledgeBlindly ==
  /\ pc = "ack"
  /\ Store([obj EXCEPT !.reset = "done", !.resetID = NoID])
  /\ Return
  /\ UNCHANGED <<github, branches, dying, minted, seen, created>>

(* Mutant of Acknowledge: the answer is a value no reader of it knows. *)
AcknowledgeFalse ==
  /\ pc = "ack"
  /\ Write([repo EXCEPT !.reset = "false", !.resetID = NoID])
  /\ Return
  /\ UNCHANGED <<github, branches, dying, minted, seen, created>>

(* markBootstrapResetDone *)
Acknowledge ==
  /\ pc = "ack"
  /\ Write([repo EXCEPT !.reset = "done", !.resetID = NoID])
  /\ Return
  /\ UNCHANGED <<github, branches, dying, minted, seen, created>>

(* Mutant of DeleteBranches: it waits for Branches nobody deletes. *)
DeleteNoBranches ==
  /\ pc = "drain" /\ Goto("wait")
  /\ UNCHANGED <<github, obj, branches, dying, minted, cached, fresh, seen,
                 repo, held, locals, created>>

(* deleteBranchesForRepository; a failed delete ends the reconcile. *)
DeleteBranches ==
  /\ pc = "drain"
  /\ dying' = dying \cup (seen \cap branches)
  /\ Goto("wait")
  /\ UNCHANGED <<github, obj, branches, minted, cached, fresh, seen, repo,
                 held, locals, created>>

DeleteSomeBranches ==
  /\ pc = "drain"
  /\ \E D \in SUBSET seen : D # seen /\ dying' = dying \cup (D \cap branches)
  /\ Return
  /\ UNCHANGED <<github, obj, branches, minted, cached, fresh, seen, created>>

(* Mutant of WaitForBranches: issuing the deletes is taken for their end. *)
NoWaitForBranches ==
  /\ pc = "wait" /\ Goto("unfinalize")
  /\ UNCHANGED <<github, obj, branches, dying, minted, cached, fresh, seen,
                 repo, held, locals, created>>

(* handleRepositoryDeletion lists again, and waits for an empty list. *)
WaitForBranches ==
  /\ pc = "wait"
  /\ IF seen = {} THEN Goto("unfinalize") /\ UNCHANGED <<repo, held, locals>>
                  ELSE Return
  /\ UNCHANGED <<github, obj, branches, dying, minted, cached, fresh, seen,
                 created>>

RemoveFinalizer ==
  /\ pc = "unfinalize"
  /\ Write([repo EXCEPT !.finalizer = FALSE, !.present = FALSE])
  /\ Return
  /\ UNCHANGED <<github, branches, dying, minted, seen, created>>

(* A write with an old resourceVersion is refused and its error returned;  *)
(* a refused cutover goes through BootstrapFails.                          *)
Writing ==
  \/ pc \in {"finalizer", "labels", "ack", "unfinalize"}
  \/ pc = "resetid"
     /\ ~(IsBootstrapResetRequested(repo) <=> repo.resetID # NoID)
  \/ pc = "create" /\ todo = {} /\ repo.cursor # last
  \/ pc = "fail" /\ repo.ready # cause

Conflict ==
  /\ Writing /\ ~held
  /\ Return
  /\ UNCHANGED <<github, obj, branches, dying, minted, cached, fresh, seen,
                 created>>

(* Any call returns an error, or the process stops.  After a write it also *)
(* stands for the write that was stored although an error came back.       *)
Fault ==
  /\ pc # "idle"
  /\ Return
  /\ UNCHANGED <<github, obj, branches, dying, minted, cached, fresh, seen,
                 created>>
-----------------------------------------------------------------------------
(* GitHub.  A push publishes commits, then moves the head. *)

reconcile == <<pc, existing, headSHA, todo, last, cause>>

Commit(c, m, n) ==
  /\ c \in Commits \ Published /\ \A d \in Commits : d < c => d \in Published
  /\ m \in (Published \ lost) \cup {NoSHA}
  /\ m = NoSHA => Published = {} \/ Rewrites
  /\ n \in (Published \ lost) \cup {NoSHA} /\ (n # NoSHA => Merges /\ n < m)
  /\ anc' = [anc EXCEPT ![c] = {c} \cup Ancestors(m) \cup Ancestors(n)]
  /\ UNCHANGED <<head, lost, rewritten, obj, branches, dying, minted, cached,
                 fresh, seen, reconcile, repo, held, created>>

MoveHead(c) ==
  /\ c \in Published \ lost /\ c # head
  /\ Ancestors(head) \subseteq anc[c] \/ Rewrites
  /\ head' = c
  /\ rewritten' = (rewritten \/ ~(Ancestors(head) \subseteq anc[c]))
  /\ UNCHANGED <<anc, lost, obj, branches, dying, minted, cached, fresh, seen,
                 reconcile, repo, held, created>>

LoseCommit(c) ==
  /\ c \in Published \ (Ancestors(head) \cup lost)
  /\ Rewrites /\ head # NoSHA
  /\ lost' = lost \cup {d \in Published : c \in anc[d]}
  /\ UNCHANGED <<anc, head, rewritten, obj, branches, dying, minted, cached,
                 fresh, seen, reconcile, repo, held, created>>

(* The operator *)

others == <<anc, head, lost, rewritten, branches, dying, minted, seen, pc,
            existing, headSHA, todo, last, cause, created>>

OperatorRequest ==
  /\ obj.present /\ obj.reset # "true" /\ minted < MaxResets
  /\ WriteOver([obj EXCEPT !.reset = "true"])
  /\ UNCHANGED others

OperatorCancel ==
  /\ obj.present /\ obj.reset = "true"
  /\ WriteOver([obj EXCEPT !.reset = ""])
  /\ UNCHANGED others

OperatorDelete ==
  /\ obj.present /\ ~obj.deleting
  /\ WriteOver(IF obj.finalizer THEN [obj EXCEPT !.deleting = TRUE]
                ELSE [obj EXCEPT !.deleting = TRUE, !.present = FALSE])
  /\ UNCHANGED others

(* requestRepositorySync of the webhook server, on a match of the labels:  *)
(* an annotation this controller does not read.                            *)
RequestRepositorySync ==
  /\ obj.present /\ obj.labels
  /\ fresh \/ held
  /\ WriteOver(obj)
  /\ UNCHANGED others

(* BranchReconciler: a finished or deleted Branch goes away. *)
BranchEnds(c) ==
  /\ c \in branches
  /\ SetBranches(branches \ {c})
  /\ dying' = dying \ {c}
  /\ UNCHANGED <<github, obj, minted, cached, fresh, pc, repo, held, locals,
                 created>>

(* The informers catch up. *)
CacheSync ==
  /\ ~fresh
  /\ cached' = obj /\ fresh' = TRUE
  /\ UNCHANGED <<github, obj, branches, dying, minted, seen, pc, repo, held,
                 locals, created>>

SeeBranch(c) ==
  /\ (c \in seen) # (c \in branches)
  /\ seen' = (seen \ {c}) \cup ({c} \cap branches)
  /\ UNCHANGED <<github, obj, branches, dying, minted, cached, fresh, pc, repo,
                 held, locals, created>>
-----------------------------------------------------------------------------
Init ==
  /\ anc = [c \in Commits |-> {}] /\ head = NoSHA /\ lost = {}
  /\ rewritten = FALSE
  /\ \E r \in {""} \cup (IF MaxResets > 0 THEN {"true"} ELSE {}) :
       obj = [Blank EXCEPT !.present = TRUE, !.reset = r]
  /\ branches = {} /\ dying = {} /\ minted = 0
  /\ cached = obj /\ fresh = TRUE /\ seen = {}
  /\ pc = "idle" /\ repo = Blank /\ held = FALSE
  /\ existing = {} /\ headSHA = NoSHA /\ todo = {} /\ last = NoSHA
  /\ cause = "lookup"
  /\ created = {}

Deliver(c) == SkipExisting(c) \/ CreateBranch(c) \/ AlreadyExists(c)

BootstrapConflict == ~held /\ BootstrapFails
BootstrapRejected == held /\ BootstrapFails

(* What a reconcile does when nothing outside makes it fail. *)
Reconcile ==
  \/ Begin \/ AddFinalizer \/ EnsureLabels \/ ListBranches
  \/ MintResetID \/ ClearResetID \/ KeepResetID
  \/ FetchHead \/ MarkFailure \/ Bootstrap \/ BootstrapConflict
  \/ Collect \/ CollectFails \/ (\E c \in Commits : Deliver(c))
  \/ AdvanceCursor \/ KeepCursor \/ SyncHeads \/ Acknowledge
  \/ DeleteBranches \/ WaitForBranches \/ RemoveFinalizer
  \/ Conflict

GitHubStep ==
  \/ \E c \in Commits, m, n \in SHAs : Commit(c, m, n)
  \/ \E c \in Commits : MoveHead(c) \/ LoseCommit(c)

OperatorStep == OperatorRequest \/ OperatorCancel \/ OperatorDelete

Failure ==
  FetchHeadFails \/ BootstrapRejected \/ DeleteSomeBranches \/ Fault

Informers == CacheSync \/ (\E c \in Commits : SeeBranch(c))

Next ==
  \/ Reconcile \/ Failure \/ Informers
  \/ (\E c \in Commits : BranchEnds(c))
  \/ GitHubStep \/ OperatorStep \/ RequestRepositorySync

Spec == Init /\ [][Next]_vars
-----------------------------------------------------------------------------
(* Every variable has its type, and only a Branch that exists is dying.     *)
TypeOK ==
  /\ anc \in [Commits -> SUBSET Commits] /\ head \in SHAs
  /\ lost \subseteq Commits /\ rewritten \in BOOLEAN
  /\ obj \in Repository /\ cached \in Repository /\ repo \in Repository
  /\ branches \subseteq Commits /\ dying \subseteq branches
  /\ minted \in ResetIDs
  /\ fresh \in BOOLEAN /\ held \in BOOLEAN /\ seen \subseteq Commits
  /\ pc \in Steps
  /\ existing \subseteq Commits /\ headSHA \in SHAs /\ todo \subseteq Commits
  /\ last \in SHAs /\ cause \in Causes
  /\ created \subseteq Commits

(* The reconciler implements CommitFeed: whatever fails, restarts or lags,  *)
(* the stored cursor starts at a cutover, passes only commits that have had *)
(* their Branch, and jumps only when a reset is applied that was not        *)
(* applied before (github_sync.go 68-80 and 93-103: "avoid skipping         *)
(* intermediate commits"; repository-controller.md "retries never           *)
(* reinitialize that reset").                                               *)
Feed == INSTANCE CommitFeed
          WITH past <- anc, cursor <- obj.cursor, applied <- obj.appliedID,
               delivered <- created

FeedImplemented == Feed!Spec

(* "done" answers only a request whose cutover is stored, with its ID, and *)
(* retires that ID (markBootstrapResetDone, lines 335-347).                *)
AckOnlyIfApplied ==
  [][obj'.reset = "done" /\ obj.reset # "done" =>
       /\ obj.reset = "true" /\ obj.resetID # NoID
       /\ obj.appliedID = obj.resetID /\ obj'.resetID = NoID]_vars

(* A reset is recorded as applied only while its request stands, together   *)
(* with a cursor and the condition of a cutover that succeeded, and no      *)
(* identity is applied again after another one (lines 310-311: "making      *)
(* retries safe after restart").                                            *)
AppliedOnce ==
  [][obj'.appliedID # obj.appliedID =>
       /\ obj.reset = "true" /\ obj'.appliedID = obj.resetID
       /\ obj'.appliedID > obj.appliedID
       /\ obj'.cursor # NoSHA /\ obj'.ready = "initialized"]_vars

(* A failure condition never carries a cursor or a reset with it (lines    *)
(* 366-367), and an initialized one never lacks a cursor.                  *)
FailureKeepsCutover ==
  [][obj'.ready \in Causes /\ obj'.ready # obj.ready =>
       obj'.cursor = obj.cursor /\ obj'.appliedID = obj.appliedID]_vars

(* While the default branch is only ever fast-forwarded the cursor marks    *)
(* progress: it moves to descendants, resets included, and no Branch is     *)
(* created for a commit that the stored cursor has passed.                  *)
CursorMarksProgress ==
  [][~rewritten =>
       /\ obj'.cursor # obj.cursor /\ obj.cursor # NoSHA =>
            obj.cursor \in Ancestors(obj'.cursor)
       /\ (branches' \ branches) \cap Ancestors(obj.cursor) = {}]_vars

(* A Branch that completed is not created a second time                     *)
(* (repository-controller.md: "completed and deleted commit Branches must   *)
(* not be replayed").                                                       *)
NoReplay == [][~rewritten => (branches' \ branches) \cap created = {}]_vars

(* The finalizer outlives every commit Branch (lines 614-625). *)
RepoOutlivesBranches == ~obj.present => branches = {}
=============================================================================
