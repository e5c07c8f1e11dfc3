# terrakojo: TLA+ models, checks and proofs

Terrakojo is a Kubernetes operator that runs CI jobs for GitHub repositories.
This directory holds TLA+ modules of its controllers, TLC configurations that
check them on small instances, and TLAPS proofs about all of the reconcilers and
the webhook server, alone and composed. Paths below are relative to `src/`.

    tlasany M.tla                          parse a module
    tlc -config X.cfg M                    one run (table "Runs" below)
    tlapm MProofs.tla                      the proofs about module M, for
                                           RepositoryController, BranchHeadSync,
                                           TemplateMatching, BranchController,
                                           WorkflowController, Cascade and
                                           Delivery
    tlapm RepositoryProgressProofs.tla     the rest about RepositoryController

## 1. Inventory

Four kinds of objects live in the API server, each managed by one reconciler:

    Repository --> Branch --> Workflow --> Job (and a GitHub CheckRun)

A reconciler reads through an informer cache and writes to the API server;
every update carries a resourceVersion and is refused when the object has
moved. An object's key is in the work queue at most once and never reconciled
twice at the same time. Owner references make the garbage collector delete
children; finalizers make an object wait for them.

| component | state | operations | hard behaviours | what makes it correct |
|---|---|---|---|---|
| **RepositoryReconciler**, default branch (`internal/controller/repository_controller.go`, `internal/repository/sync/github_sync.go`) | `status.lastDefaultBranchHeadSha` (the cursor), bootstrap-reset annotation, reset ID and applied ID, `BootstrapReady` condition, labels, finalizer | finalizer and labels, bootstrap at the head, one Branch per new commit, reset protocol, deletion | a crash or conflict between creating Branches and storing the cursor; pages; merges; force pushes; a reset cancelled half-way; stale caches | the cursor passes no commit without a Branch, moves forward, reaches the head; a reset is acknowledged only when applied and applied once; the finalizer outlives the Branches |
| **RepositoryReconciler**, branch heads (same files, `branch_head.go`) | Branch objects of refs and pull requests | snapshot of refs and open pull requests, create, replace, update, prune, retire legacy fork Branches | objects that are being deleted keep their name; two objects for one identity; a pull request that changes origin | heads do not mix; a served Branch is left alone; in the end one Branch per head; nothing of the default branch is pruned |
| **BranchReconciler** (`branch_controller.go`) | `last-sha` annotation, finalizer, the Workflows it owns | match templates with changed files, one Workflow per target, replace the Workflows of an older SHA, remove a default-branch Branch with nothing left to run, deletion | a fan-out that fails half-way; files, templates or SHA that are others at the retry; no periodic requeue | an annotated SHA is fanned out; the Branch of a commit that was fanned out goes exactly when its Workflows are done; it outlives them |
| **WorkflowReconciler** (`workflow_controller.go`) | `status.checkRunID`, `checkRunName`, `phase`, finalizer; the Job; the CheckRun on GitHub | CheckRun, Job, report, refusal, cancellation | a crash between CheckRun, its stored ID and the Job; Jobs that retry, expire or belong to somebody else; deletion while reporting | no Job without a stored CheckRun, one CheckRun per Workflow, success only for a completed Job, verdict reported, unfinished Job cancelled |
| **Webhook server** (`internal/webhook/webhook.go`) | none; annotates the Repository | verify, parse, answer, then annotate so that the Repository is reconciled | GitHub is answered before the work is done; lost, repeated and reordered deliveries (the 30-minute poll remains); several handlers and the controller write the same object | a delivery that meets no failed call leads to a sync without the poll, every push is synced in the end, nothing stored is taken back |
| **Template matching** (`branch_controller.go` 436-541) | none | globs, folder or file units | boundaries (root files, depth) | the targets cover exactly the matching files, each file of a template by one target |
| **GitHub client** (`internal/github`) | none | head, comparison, changed files, CheckRuns | 250 commits per comparison | -- |
| **credentials** (`internal/kubernetes`) | a Secret the Repository names | a client for a Branch, through its Repository and the Secret | the objects needed for a deletion may go before it | what a Workflow needs to cancel its CheckRun outlives it |
| Job defaults and injected environment, API types, managers and configuration | none | -- | a restart loses queue and timers | -- |

The components meet at the objects: a reconciler writes an object of the next
level and waits, in its deletion path, for the objects of that level; the next
one reads the object above for its GitHub client. `Cascade` models that, and
`Delivery` what lies between a push and the reconcile that syncs it.

`PROJECT.json` lists the components with their status and the 40 hazards with
the line where each one bites. Eight of them no property covers, since what one
would like to say does not hold of this code; section 5 says what happens
instead.

## 2. Plan

1. **M1 `RepositoryController`** -- the cursor and the reset protocol: the
   behaviour everything else depends on. *Done*, with proofs.
2. **M3 `BranchController`**, **M4 `WorkflowController`** -- the other two
   reconcilers with their work queues. *Done*, with proofs.
3. **M2 `BranchHeadSync`** -- branch heads and pull requests: snapshot,
   ensure, prune, legacy migration. *Done*, with proofs.
4. **M5 `Cascade`** -- the three deletion paths and their finalizers composed:
   nothing is stranded when a Repository goes. *Done*, with proofs.
5. **M6 `Delivery`** -- webhook, poll and work queue of the Repository: a push
   is synced although deliveries are lost. *Done*, with proofs.
6. **M7 `CommitFeed`** -- the abstract specification of M1: a cursor over a
   commit graph that passes no commit without a Branch. *Done*: the
   refinement is a run and a theorem.
7. **M8 `TemplateMatching`** -- `matchTemplates` and `workflowTargets`, used by
   M3. *Done*, with proofs against what a fan-out is for.
8. Left: an abstract specification of M4 (a verdict that moves from open to
   concluded), of which `VerdictStands` and `SuccessIsEarned` are the content;
   `isSameRepositoryPR` taken apart. Every invariant and action property of the
   passing runs is a theorem; the liveness properties stay with TLC.

The number of runs is kept small: a run checks every property that its bounds
and its environment make interesting.

## 3. Modules

Every reconciler module has the same layout: the API server's objects, the
informers' view of them, the reconcile in progress (`pc` names the call it
makes next; its locals follow), one action per call that reads or writes
outside the process, the environment, then the properties. `held` and
`fresh...` stand for a resourceVersion: a write is possible only while the
copy it is made from is current, and `Conflict` is what happens otherwise.
`Fault` is any other call that fails, and a restart of the process: the
reconcile ends there, and the next one starts from what is stored. With
`Lag`/`StaleCache` FALSE a write reaches the caches at once; with TRUE it does
when `CacheSync`, `SeeBranch`, `CacheWorkflow`, ... say so, object by object in
any order. A cache then jumps to the current state of the object; that it may
also stop at states in between is not modelled.

Names such as `AdvanceCursorEarly` or `SwallowError`, each with the comment
"Mutant of", are faulty variants of the definition that
follows them. No specification uses them; they serve to show that a property
can fail.

**`RepositoryController`** (M1). GitHub is a commit graph (`anc`), a head, and
the commits that were lost after a force push. `Begin` to `Acknowledge` follow
`Reconcile` and `syncFromGitHub`: `MintResetID`/`ClearResetID`/`KeepResetID`
are `ensureBootstrapResetID`, `Bootstrap` is the single status write of
`bootstrapDefaultBranchFromCurrentHead`, `Collect` is
`CollectDefaultBranchCommits` (an empty or lost base yields the head alone, as
does a base that is not behind it; otherwise the first page of
base...head), `SkipExisting`/`CreateBranch`/`AlreadyExists` are the loop of
`ensureDefaultBranchCommits`, `AdvanceCursor` the status write after it.
`DeleteBranches`, `WaitForBranches`, `RemoveFinalizer` are the deletion path.
`SyncHeads` stands for branch heads as one call. Commit numbers are the order
in which GitHub lists them; `created` and `rewritten` are history.

**`CommitFeed`** (M7) is what M1 promises, without API calls, caches, pages or
retries: a cursor that starts at a cutover, advances only over commits that
were delivered -- given a Branch -- unless history was rewritten, and jumps
only when a new reset is applied. `RepositoryController!Feed` instantiates it
with `past <- anc`, `cursor <- obj.cursor`, `applied <- obj.appliedID`,
`delivered <- created`; `FeedImplemented` is its specification.

**`BranchHeadSync`** (M2). A Branch is the spec it serves (`tag`, the number of
an external pull request in the annotation; `ref`; `pr`; `sha`) and whether it
is being deleted; its name follows from identity and SHA, as in
`createBranchResource`. `ListBranches` and `ListOpenPullRequests` are the two
calls of `FetchBranchHeadsFromGitHub`; the second completes the snapshot and
splits off legacy fork Branches, which `RetireLegacy` and `ConfirmRetired`
delete and look up again. `KeepBranch`, `UpdatePRNumber`, `DeleteOldSHA` and
`CreateBranch` are the outcomes of `ensureBranchResource`, `DeleteStale` the
pruning. Which pull requests are external is a constant (`Forks`), so
`isSameRepositoryPR` is not taken apart. The commits of the default branch are
reduced to one (`Tip`), created before and finished at any time.

**`TemplateMatching`** (M8). The functions from changed files to targets, as
set expressions; the slices and maps the code sorts and makes unique become
sets, so that the order of a fan-out is open. What a glob matches is a set of
names (`doublestar.Match` is a library), `path.Dir` a function of the name.
`CallsFor` and `LooksAfter` say what a fan-out is for without groups and
loops; `BranchController`'s properties are stated with them.

**`BranchController`** (M3). The subject of a Branch is drawn at the start: is
it a commit of the default branch, a ref or a pull request, and which files
does each commit change. A SHA is asked for its files and always answers the
same; a pull request is asked by number, and its present head answers, which
may have added files since or undone some: `ChangedFiles` allows any set of
`Pulls`, whatever the SHA of the Branch is. The list of the templates is read
anew at each attempt as well. `MatchChangedFiles` is the GitHub call with that
list and `matchTemplates`, because nothing is stored between them; `calls`
(history) keeps what the last fan-out was for. `TemplateListFails` is the
failure that stores a condition. The status (`workflows`, `changedFiles`,
conditions) is read by nobody and only its write is modelled. A Workflow may
become terminal, run again because its Job is gone, and become terminal again
(`WorkflowReruns`); `ended` (history) is that it once was.
`RepositoryReconciler` changes the SHA of a ref by replacing the object;
`MoveSHA` is the change in place, to a later commit, which this controller's
code, tests and documentation provide for. `MCBranch` gives the instances: a
file at the top and two in a folder, a template that runs by folder, and a list
of one that runs by file and one that runs once.

**`WorkflowController`** (M4). A Job is reduced to what
`determineWorkflowPhase` and the Job controller tell apart: an active pod, a
succeeded pod, a failed pod, a finished condition. `runs` are the CheckRuns on
GitHub; a completed one is named by its conclusion. `PersistRun`,
`PersistName`, `FailStatus` and `WritePhase` read the cache and write the
status, as `updateWorkflowStatusWithRetry` does.

**`Delivery`** (M6). Deliveries of a push are lost, repeated and reordered
(`sent`); `handler` are the requests the webhook server works on at the same
time, each answered before it reads the Repository (`ListRepositories` by
label, `GetRepository`, `UpdateAnnotation` with `UpdateConflict` as the
attempts of `retry.RetryOnConflict`). The controller is M1 reduced to what
wakes it and what it writes: finalizer, labels, cursor, `RequeueForPoll`
(`timer`), errors. `Restart` loses queue and timer.

**`Cascade`** (M5). Repository, Branches and Workflows are objects with one
status (created, live with finalizer, dying, gone), and each controller has one
worker (`pc`, `on`). The steps that add and remove finalizers, delete what is
owned and wait for it are written once, for all three; what the detailed
modules do in between is reduced to the steps that create, finish, delete and
cancel. A Workflow is not reconciled at all while a client cannot be had for an
existing Branch. Here caches are current, a CheckRun and its stored ID are one
step, and a refused Job is left out: M1, M3 and M4 have those.

**`RepositoryLiveness`, `BranchLiveness`, `WorkflowLiveness`** extend them with
a variable `calm`: disturbances come in any number and order until `calm` is
set at an arbitrary moment, and liveness is stated from then on.

## 4. Runs

| run | question | result |
|---|---|---|
| `repo_settles` | three commits, pages of one, a reset that may be cancelled and repeated, failing calls, deletion at any step | `AckOnlyIfApplied`, `CursorMarksProgress`, `RepoOutlivesBranches`, `TypeOK`; once calm `CatchesUp`, `FinalizesDeletion` |
| `repo_history` | force pushes, commits GitHub forgets, a reset, informers that lag: is every step one of `CommitFeed`? | yes: `FeedImplemented`; and `AppliedOnce` |
| `repo_replay` | are completed Branches never replayed? | no: counterexample to `NoReplay` |
| `repo_merge_livelock` | does the next reconcile process the remaining commits? | not across a merge: counterexample to `CatchesUp` |
| `heads_converge` | a ref, its pull request, and a fork that may use the same ref name, the same commit or the default branch's name; two changes, failures or incomplete answers anywhere | `Isolated`, `CommitBranchesKept`, `ServedHeadKept`, `LegacyNotAdopted`, `TypeOK`; in the end `HeadsConverge` |
| `br_fanout` | two SHAs, templates that run by folder, by file or once and are others at a retry, a pull request whose files are, and which opens and closes; failures and deletion anywhere | `FannedOut`, `MarkedRunsReplaced`, `BranchOutlivesWorkflows`, `DeletedWhenDone`, `TypeOK` |
| `br_lag` | informers that lag: is a wake-up lost? | no: `NothingForgotten` |
| `br_settles` | what happens in the end | `BranchSettles` |
| `wf_settles` | Jobs that retry, expire or are refused; restarts, deletion | `SuccessIsEarned`, `GitHubHearsFirst`, `CancelledBeforeGone`, `RunNeverReplaced`, `TypeOK`; once calm `VerdictReported`, `JobStarts`, `DeletionEnds` |
| `wf_lag` | informers that lag; Jobs that need several pods, Jobs of other controllers | `RunBeforeJob`, `NothingUnreported`, `VerdictStands` |
| `delivery` | two pushes, two handlers, lost, repeated and reordered deliveries, restarts of both processes, users who edit | `NoPushForgotten`, `NothingTakenBack`, `TypeOK`; once calm `PushSynced` |
| `cascade` | a Repository, a Branch and two Workflows, deletions at any level and time, failing calls, a Secret that may go | `NoOrphans`, `CancelledInTime`, `TypeOK`; once calls succeed `NothingStranded` |

**Bounds.** `PageSize` is 1 instead of 250: a page boundary then falls between
any two commits. Three commits give a bootstrap, a page, and a rest; four give
the merge whose sides do not fit a page. `repo_history` has two commits and one
reset, since lagging informers multiply the states: an old Repository, a
rewrite and a reset then meet; for merges, more commits and more resets
`FeedImplemented` and `AppliedOnce` are theorems. Two SHAs make one
replacement; the templates of `MCBranch` give fan-outs of none, one and two
targets. Two Workflows let a fan-out fail between its targets and be repeated
with the other list of templates, or a SHA be replaced; `br_settles` has three,
and one template list, so that a fan-out can also be repeated after the last
failure. `br_lag` has commits of one set of files and a pull request of two.
Three commits and two pushes leave two live Branches for one ref while an older
one is still being finalized; a second ref name lets a fork rename. Two
CheckRuns let a second one be created where the code allows it. In `delivery`
two handlers and two attempts let one give up on a conflict with the other; in
`cascade` two Workflows are needed for a Branch to wait for the second, and
more objects are covered by the theorems. Actions that would pass a bound are
disabled; the liveness modules keep enough in reserve (`Spare`) that what is
left after the last failure does not end at a bound.

**Deadlock** is checked in `heads_converge`, where the Repository is polled for
ever. It is not elsewhere: these systems come to rest. A Repository, Branch
or Workflow that is gone is reconciled no more, and an empty work queue waits
for an event. That they do not rest too early is what `NothingForgotten`,
`NothingUnreported`, `NoPushForgotten` and the liveness properties say.

**Fairness.** Weak fairness of `Reconcile`: controller-runtime hands every
queued key to a worker and requeues a key whose reconcile returned an error; a
call either returns or fails. The Repository is requeued after every
reconcile (error, 5 s, or the 30-minute poll) or has just been written; in
`Delivery` nothing of that is assumed but modelled, with weak fairness of the
timer, and of a handler that has accepted a request. Weak fairness of the
informers: a watch delivers, or is listed again. For the environment: in M3 a
deleted Workflow is finalized and a running one reaches a terminal phase
(`WorkflowLiveness!DeletionEnds`, `VerdictReported`), in M1 a deleted Branch is
finalized (`BranchSettles`), in M4 a pod starts and ends. In `Cascade`, where
one worker serves all objects of a kind, the beginning of a reconcile is
strongly fair for an object that is being deleted: its deletion, the error or
the 5 s of the wait put it in the queue, and the queue is in order. Nothing is
assumed of pushes, operators, webhooks or failures. `HeadsConverge` needs one
more strong assumption, on the choice of `existing[0]`: the informer's index is
a Go map and is listed in an order drawn anew each time. Without it the
property fails: of two live Branches of one ref, the one that matches may come
first for ever, and the other is dropped from the map and never pruned.

## 5. Findings and observations

Two documented statements that the code does not keep, each with a run that
shows it and an entry in `PROJECT.json`: completed commits replayed when the
cursor write fails (`repo_replay`), and paging that does not cross a merge
(`repo_merge_livelock`).

Met while modelling and not kept as runs. About stale reads:

- With `StaleCache = TRUE`, `RepoOutlivesBranches` fails, and with `Lag = TRUE`
  so do `BranchOutlivesWorkflows`, `DeletedWhenDone`, `FannedOut`,
  `MarkedRunsReplaced`, `GitHubHearsFirst` and `CancelledBeforeGone`: the lists
  that hold back a finalizer or decide a deletion are the informers'. The runs
  and theorems about them therefore assume informers that have caught up.
  A Repository that goes early takes the client of its Workflows with it, so
  that they are never finalized (the comment at `repository_controller.go:606`
  says "to avoid orphaned dependents").
- With `Lag = TRUE`, `RunNeverReplaced` fails: a retry that reads a Workflow
  before its stored CheckRun arrives creates a second one and stores it over
  the first.
- A Branch read late can delete the Workflows of a marked SHA and create them
  again.
- In a variant of `BranchHeadSync` with informers that lag, `ServedHeadKept`
  fails: a Branch taken over from a closed fork pull request is retired again
  if that pull request reopens while the cache still shows its number.

About fan-outs:

- A fan-out that fails at its second Workflow, or whose annotation write
  conflicts, is repeated from its first Workflow on, which runs twice:
  `last-sha` does not prevent duplicates in that case
  (`docs/controllers/branch-controller.md:100` says it does).
- A fan-out that fails half-way leaves Workflows without the annotation. If the
  templates that matched are removed before the retry, nothing matches and the
  Branch of a default-branch commit is deleted at once
  (`branch_controller.go:243-251`), its running Workflows with it;
  `docs/overview.md:38` says it is deleted when all owned Workflows are
  terminal. `DeletedWhenDone` is therefore about a Branch whose SHA was fanned
  out.
- A pull request is asked for its files by number (`branch_controller.go:199`).
  When a later push undoes what the SHA of the Branch changed, the SHA is marked
  with no Workflow for the file it changed; `FannedOut` is about the files of
  the answer.
- A pull request that is opened after its ref was pushed only updates the
  number of the Branch: the files of its earlier commits are never matched. A
  head that is forced back to a marked SHA, or a new base of a pull request,
  leaves the annotation as it is.
- The response of the Update that writes the annotation is decoded over the
  status set in memory just before it (`branch_controller.go:301`).
- `HeadsConverge` is what becomes of the comment "GitHub sync ensures one latest
  head per identity" (`repository_controller.go` 520): for a while there may be
  two live Branches of one ref, each with its runs. It happens when the head
  moves twice while the first Branch is being finalized and that one is listed
  first.
- A pull request of a fork whose SHA GitHub leaves out loses its Branch until
  the SHA is back; a Branch being finalized counts as present if the head moves
  back to its SHA, and is created again only at the next reconcile.

About Jobs and CheckRuns:

- With `Completions` or `Foreign`, `SuccessIsEarned` fails: one succeeded pod
  is taken for a success although the Job needs more, and a Job of another
  controller, refused when found through AlreadyExists, is reported by the next
  reconcile, which finds it through `Get`. When such a Job takes the name after
  the Workflow is gone, a reconcile that still has the Workflow in its cache
  can turn a success into a cancellation.
- With `Refusals = {"invalid"}`, `JobStarts` fails: the Job is refused, the
  failure status cannot be written either, and nil is returned.
- With `backoffLimit` above zero a Workflow is Failed from its first failed pod
  on although the Job starts another one, and the default-branch Branch may be
  deleted with it (`determineWorkflowPhase`, `allWorkflowsCompleted`).
- A CheckRun whose ID was never stored, or whose Workflow is deleted before its
  Job exists, or after a pod ended and before that was reported, stays open on
  GitHub.
- A missing WorkflowTemplate ends the reconcile without a requeue, and nobody
  watches templates. A Job that its TTL removes is run again.

About composition and delivery:

- WorkflowReconciler gets its GitHub client before it looks at the deletion
  timestamp. If the Secret is deleted with the Repository or before it, the
  Workflows, their Branch and the Repository stay for ever
  (`docs/controllers/workflow-controller.md:123` calls the cancellation
  "best-effort"); `NothingStranded` therefore asks for the Secret.
- Of two Repositories with the labels of one GitHub repository only the first
  one listed is annotated by the webhook, and labels match letter by letter;
  the poll finds the pushes of the others.

## 6. Proofs

All theorems hold for every value of the constants that satisfies the named
assumptions of the module; where informers have to be current the theorem reads
`~Lag => (Spec => ...)`. Every invariant is proved through an inductive `IInv`:
`Init => IInv`, and one lemma per conjunct that `[Next]_vars` preserves it, with
a step per action. Action properties follow from `IInv` and one step.

`RepositoryControllerProofs`, for every number of commits and resets, every
page size, with merges, rewrites and stale caches:

| theorem | property |
|---|---|
| `TypeCorrect` | `TypeOK` |
| `CommitsDelivered` | `FeedImplemented`: M1 implements `CommitFeed` |
| `AckMeansApplied` | `AckOnlyIfApplied` |
| `ResetsApplyOnce` | `AppliedOnce` |
| `FailuresKeepCutover` | `FailureKeepsCutover` (no run of its own) |
| `CleanupComplete` | `RepoOutlivesBranches`, when informers do not lag |

Assumed: `ConstantsAssumption` (the bounds are naturals, a page holds at least
one commit, the switches are Booleans). `IInv` adds what the reconcile knows at
each step: `CurrentInv`, a copy that is `held` is the stored object and a
`fresh` cache too; `HistoryInv`, ancestry is reflexive, transitive and only of
published commits; `PublishedInv`, the head, the cursor and every commit in a
local were published; `CreatedInv`, a commit that has or had a Branch, in the
cluster, in the cache or in the reconcile's list, is in `created`; `TodoInv`,
what is still to be created was published; `BatchInv`, between `Collect` and
`AdvanceCursor` the commits from the cursor to `last` are in `todo` or in
`created`; `ResetInv` and `IdentityInv`, from `FetchHead` on an acknowledgment
can follow only a cutover with the request's identity, identities are at most
`minted`, and an applied one is not newer than the requested one;
`CleanupInv`, without lag a Repository whose finalizer is going has no Branch.
The refinement sends `CreateBranch` to `Deliver`, `Bootstrap` to `Cutover`,
`AdvanceCursor` to `Advance` -- which needs `BatchInv`, `CreatedInv` and
`CurrentInv`, because the write succeeds only for a current copy -- what GitHub
does to `Publish`, and every other step to a stutter.

`RepositoryProgressProofs` goes on from there, for a default branch that is
fast-forwarded; after a force push it promises nothing:

| theorem | property |
|---|---|
| `CursorNeverGoesBack` | the first half of `CursorMarksProgress`, without merges; caches may lag |
| `NothingBehindCursor` | its second half, when informers do not lag; merges or not |
| `CursorIsProgress` | `CursorMarksProgress`, under both hypotheses |

`PInv` is `IInv` with `LostInv`, what GitHub forgot is not in the past of the
head; `LineInv`, without merges the past of a commit is a line, so that the
last commit of a page has the whole page behind it; `ForwardInv`, the cursor,
its copies, the head that was read and the commit about to be stored are behind
the head, in the order in which they were read, and nothing still to be created
is behind the cursor a reconcile began with; `CopyInv`, without lag that cursor
is the stored one. Neither hypothesis can be dropped: with a merge of four
commits TLC finds a page that ends on the side of the merge where the previous
one did not, so that the cursor moves to a commit that is no descendant; with a
lagging cache it finds a reconcile that creates again what another has passed.

`BranchHeadSyncProofs`, for every set of refs, of pull requests and of commits,
whatever names and commits the forks share with the repository:

| theorem | property |
|---|---|
| `TypeCorrect` | `TypeOK` |
| `HeadsIsolated` | `Isolated` |
| `CommitBranchesSafe` | `CommitBranchesKept` |
| `ServedHeadStays` | `ServedHeadKept` |
| `LegacyNeverAdopted` | `LegacyNotAdopted` |

Assumed: `ConstantsAssumption` (among others, numbers of pull requests are
positive, there are finitely many local ones, since the highest is looked for,
and no ref is a number). Its `IInv` says what a reconcile carries from one call
to the next: `PullInv`, the SHA of an open fork pull request is the fork's;
`HeadInv`, the heads still to be ensured, the one about to be created included,
have a SHA of where they come from and are not the default branch's;
`LegacyInv`, Branches to be retired are not the default branch's; `GenuineInv`,
every Branch is of where it claims to be from; `CommitInv`, the awaited commit
has a live Branch without annotation, so its name is nobody else's. `Isolated`
is not inductive because it says nothing of the heads an update or a creation
copies from; `CommitBranchesKept` is not because it says nothing of names.
The last two theorems compare what a reconcile has read with what is there when
it writes, and need more (`SInv`): `NameInv`, names are unique, in the API server
and in the lists; `RetireInv`, what is to be retired is a fork's and gone when
heads are ensured; `KnownInv`, a live Branch was listed, or nothing else of its
identity is left to look at; `ListedInv`, `SeenInv` and `FreshInv`, the answer of
`ListBranches`, the choice of legacy Branches and the heads of the snapshot are
the present ones as far as nothing moved since, and a head that has been ensured
has nothing left in the list. That GitHub changes only the heads its change is
about (`HeadsStay`) needs `HeadsNow` head by head (`Current`): of several pull
requests for a ref the highest counts, with and without its SHA.

`TemplateMatchingProofs`, for every set of templates and files:

| theorem | what it says |
|---|---|
| `FanOutCovers` | a file a template is to run for has a target of it |
| `FanOutSound` | every target looks after such a file |
| `FanOutOnce` | ... and no file has two targets of one template |

`BranchControllerProofs`, for every set of template lists, every assignment of
files to commits and pull requests, and any number of SHAs and Workflows:

| theorem | property |
|---|---|
| `TypeCorrect` | `TypeOK` |
| `FanOutComplete` | `FannedOut`, when informers do not lag |
| `FullReplacement` | `MarkedRunsReplaced`, likewise |
| `WorkflowsGoFirst` | `BranchOutlivesWorkflows`, likewise |
| `DeletionWaits` | `DeletedWhenDone`, likewise |
| `NoWakeUpLost` | `NothingForgotten`, with lag too |

`IInv`: `CacheInv`, caches are current; `CopyInv`, the copy is the Branch or an
older state of it, marked for no SHA it does not have; `FinalizerInv`, a
Workflow or a reconcile about to create one means that the finalizer is there;
`ReplaceInv`, once files are looked up the Workflows of older SHAs are dying;
`CoverInv`, in a fan-out every call it is for has its target in `todo` or a live
Workflow (from `FanOutCovers`); `EndInv`, a default-branch Branch that was fanned
out and is about to be deleted has no Workflow that never was terminal. `FannedOut` is about a Branch at rest and needs `CoverInv`
for the one that is being fanned out. `NoWakeUpLost` has an invariant of its own
(`WInv`), which holds with lag: `AwareInv`, a reconcile whose copy has been
overtaken is followed by another, because the change that overtook it is in the
queue or still to reach the cache; `KeptInv`, a finalizer once seen stays until
the Branch is gone; `WakeInv`, a Branch at rest was dealt with as far as the
cached Workflows tell.

`WorkflowControllerProofs`, for any number of CheckRuns:

| theorem | property |
|---|---|
| `TypeCorrect` | `TypeOK` |
| `RunComesFirst` | `RunBeforeJob`, with lag too |
| `NothingLost` | `NothingUnreported`, with lag too |
| `VerdictsStand` | `VerdictStands`, with lag too |
| `SuccessEarned` | `SuccessIsEarned`, without `Completions` and `Foreign` |
| `HeardFirst` | `GitHubHearsFirst`, when informers do not lag |
| `RunKept` | `RunNeverReplaced`, likewise |
| `CancelledFirst` | `CancelledBeforeGone`, likewise |

`IInv`: `PhaseInv`, `CurrentInv` and `JobInv` say what a reconcile and a Job
carry; `RunInv`, the steps from the stored ID to the Job come after it;
`PresenceInv`, a reconcile that serves a Workflow finds its finalizer, one that
cancels has seen it deleted; `CancelInv`, a cancelled CheckRun is of a Workflow
the cache shows as deleted, so no reconcile can report over it; `VerdictInv`, a
success shown is about the Job in the cache, which stays there until the
Workflow is gone; `SuccessInv`, whatever claims or could claim a success comes
from a completed Job; `ReportInv`, at each step of a reconcile either an event
is still to come, or what it will report is the Job as the cache has it;
`KeepInv`, without lag the CheckRun in hand is the stored one, and `HeardInv`, it
stays so until the reconcile ends, and shows the phase that is about to be stored.
`NothingUnreported` is `ReportInv` at rest; the rest of `ReportInv` is why no
fault, conflict or lost status write can be the last thing that happens.

`CascadeProofs`, for every number of Branches and Workflows:

| theorem | property |
|---|---|
| `TypeCorrect` | `TypeOK` |
| `OwnersOutlive` | `NoOrphans` |
| `CancellationsReported` | `CancelledInTime` |

`IInv`: `ControlInv`, what each worker knows of the object it is at, in
particular that one past its wait has nothing below it and nobody who creates
it; `OwnedInv`, what is stored has an owner with a finalizer; `JobInv`, a Job
comes after the finalizer, and a Workflow about to lose it has nothing to
cancel. `NoOrphans` alone is not inductive: it needs to know who may still
create.

`DeliveryProofs`, for any number of pushes, of copies of a delivery, of handlers
and of attempts:

| theorem | property |
|---|---|
| `TypeCorrect` | `TypeOK` |
| `DeliveredMeansSynced` | `NoPushForgotten` |
| `StoredIsKept` | `NothingTakenBack` |

Assumed: `ConstantsAssumption` (the bounds are naturals, a handler has at least one
attempt). `IInv`: `CopyInv`, a copy
that carries the current resourceVersion is the stored object, but for the
status, which the webhook server does not send; `CursorInv`, no cursor is ahead of
GitHub or of what is about to be stored; `AbsentInv`, before a Repository exists
nothing reconciles it; `LabelInv`, where labels are missing a reconcile that adds
them is to come -- the webhook server would not find the Repository; `PushInv`,
the latest push whose delivery met no failed call, and that of a handler whose
update is about to be refused, is `Taken` care of: synced, about to be stored, or
asked for by what is going on or to come. `NoPushForgotten` is `PushInv` at rest;
it is not inductive because the refusal of an update tells of somebody else's
write, whose reconcile may be anywhere.

Model-checked only, all liveness: `CatchesUp`, `FinalizesDeletion`,
`HeadsConverge`, `BranchSettles`, `VerdictReported`, `JobStarts`, `DeletionEnds`,
`PushSynced` and `NothingStranded` (liveness under fairness and ENABLED are
outside what the prover supports). No module uses a recursive operator.

## 7. Not modelled

- In `BranchController`: a `spec.sha` that is edited back to an earlier commit
  (`RepositoryReconciler` creates a new Branch in that case).
- `isSameRepositoryPR` (which pull requests are external is a constant);
  collisions of the truncated hashes in object names.
- Time: `RequeueAfter` is a reconcile that may start at any moment, or a timer
  that fires (`Delivery`); rate limits and back-off are fairness.
- Two replicas at once: leader election is assumed to exclude them.
- The retry loop of `RetryOnConflict` in the controllers: a write that conflicts
  until its retries are used up is `Conflict`; one that succeeds at a retry is
  the write. In `Delivery` the attempts are counted.
- In `Cascade`: informers that lag, the deletion of orphans by the garbage
  collector, refused Jobs, and a CheckRun whose ID is lost.
- The content of CheckRuns, conditions and logs, pod-security defaults, injected
  environment, signature check and parsing of a webhook, the formats of a
  Secret: nothing stored by them is read back by a decision.
