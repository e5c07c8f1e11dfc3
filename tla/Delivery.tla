------------------------------ MODULE Delivery ------------------------------
(***************************************************************************)
(* From a push to a sync: GitHub's webhook deliveries, the webhook server  *)
(* (internal/webhook/webhook.go, a process of its own that serves requests *)
(* concurrently and reads the API server without a cache), the informer    *)
(* and the work queue of the Repository controller, and its Reconcile      *)
(* reduced to what wakes it and what it writes (RepositoryController has   *)
(* the rest).  GitHub is answered before the Repository is annotated, so a *)
(* delivery that fails after that is not repeated; the poll remains.       *)
(***************************************************************************)
EXTENDS Naturals, FiniteSets

CONSTANTS
  MaxPush,      \* bound: pushes
  MaxEdits,     \* bound: edits of the Repository by its users
  MaxCopies,    \* bound: deliveries of one push
  Handlers,     \* requests the webhook server handles at the same time
  MaxAttempts   \* Steps of retry.DefaultRetry

ASSUME ConstantsAssumption ==
  /\ MaxPush \in Nat /\ MaxEdits \in Nat /\ MaxCopies \in Nat
  /\ MaxAttempts \in Nat \ {0}

Pushes == 1 .. MaxPush

(* labelled: the labels of ensureLabels; cursor: the last push synced.  The *)
(* sync-requested-at annotation is read by nobody and only moves the        *)
(* resourceVersion.                                                         *)
Repository == [present : BOOLEAN, finalizer : BOOLEAN, labelled : BOOLEAN,
               cursor : 0 .. MaxPush]

Handler == [step : {"idle", "list", "get", "update"}, push : 0 .. MaxPush,
            copy : Repository, held : BOOLEAN, attempts : 0 .. MaxAttempts]

VARIABLES
  (* GitHub *)
  head,     \* pushes so far
  sent,     \* sent[p]: deliveries of push p on their way
  (* the webhook server *)
  handler,  \* handler[h]: a request it is working on
  told,     \* last push whose delivery ended without a failed call (history)
  (* API server *)
  repo,     \* the Repository
  edits,    \* edits so far
  (* the controller manager *)
  cached,   \* the Repository as the cache holds it
  fresh,    \* cached carries the current resourceVersion
  queued,   \* the Repository is in the work queue
  timer,    \* the queue will add it again after an interval
  pc,       \* next call of the reconcile in progress
  copy,     \* the Repository it read
  held,     \* copy carries the current resourceVersion
  fetched,  \* the push it found on GitHub
  calm      \* nothing is pushed, edited, lost or failing any more (history)

github == <<head, sent>>
server == <<handler, told>>
object == <<repo, edits>>
informer == <<cached, fresh>>
reconcile == <<pc, copy, held, fetched>>
vars == <<head, sent, handler, told, repo, edits, cached, fresh, queued,
          timer, pc, copy, held, fetched, calm>>

Steps == {"idle", "finalizer", "labels", "fetch", "cursor", "error"}

NoRepository == [present |-> FALSE, finalizer |-> FALSE, labelled |-> FALSE,
                 cursor |-> 0]

Idle == [step |-> "idle", push |-> 0, copy |-> NoRepository,
         held |-> FALSE, attempts |-> 0]
-----------------------------------------------------------------------------
(* A stored object moves the resourceVersion: every other copy is old. *)
Store(o) == repo' = o /\ fresh' = FALSE

Latest(m, n) == IF m < n THEN n ELSE m

Released(H) == [h \in H |-> [handler[h] EXCEPT !.held = FALSE]]
-----------------------------------------------------------------------------
(* GitHub *)

Push ==
  /\ ~calm /\ head < MaxPush
  /\ head' = head + 1
  /\ \E n \in 0 .. MaxCopies : sent' = [sent EXCEPT ![head + 1] = n]
  /\ UNCHANGED <<server, object, informer, queued, timer, reconcile, calm>>
-----------------------------------------------------------------------------
(* The webhook server *)

(* handleGitHubWebhook: a delivery that is a push or a pull request event  *)
(* is answered, then worked on.                                            *)
Receive(h) ==
  /\ handler[h].step = "idle"
  /\ \E p \in Pushes :
       /\ sent[p] > 0
       /\ sent' = [sent EXCEPT ![p] = @ - 1]
       /\ handler' = [handler EXCEPT ![h] = [Idle EXCEPT !.step = "list",
                                                         !.push = p]]
  /\ UNCHANGED <<head, told, object, informer, queued, timer, reconcile, calm>>

(* The answer to GitHub tells nothing of what became of the work. *)
Finish(h) ==
  /\ handler' = [handler EXCEPT ![h] = Idle]
  /\ told' = Latest(told, handler[h].push)

(* Without a Repository of these labels there is nothing to do. *)
ListRepositories(h) ==
  /\ handler[h].step = "list"
  /\ IF repo.present /\ repo.labelled
     THEN handler' = [handler EXCEPT ![h].step = "get"] /\ UNCHANGED told
     ELSE Finish(h)
  /\ UNCHANGED <<github, object, informer, queued, timer, reconcile, calm>>

GetRepository(h) ==
  /\ handler[h].step = "get"
  /\ handler' = [handler EXCEPT ![h].step = "update", ![h].held = TRUE,
                                ![h].copy = [repo EXCEPT !.cursor = 0]]
  /\ UNCHANGED <<github, told, object, informer, queued, timer, reconcile,
                 calm>>

(* What an Update stores of a copy: metadata; the status has a subresource. *)
Metadata(o) == [o EXCEPT !.cursor = repo.cursor]

(* Mutant of UpdateAnnotation: whatever is stored by now is written over. *)
UpdateUnconditionally(h) ==
  /\ handler[h].step = "update"
  /\ Store(Metadata(handler[h].copy))
  /\ handler' = [Released(Handlers) EXCEPT ![h] = Idle]
  /\ told' = Latest(told, handler[h].push)
  /\ held' = FALSE
  /\ UNCHANGED <<github, edits, cached, queued, timer, pc, copy, fetched, calm>>

UpdateAnnotation(h) ==
  /\ handler[h].step = "update" /\ handler[h].held
  /\ Store(Metadata(handler[h].copy))
  /\ handler' = [Released(Handlers) EXCEPT ![h] = Idle]
  /\ told' = Latest(told, handler[h].push)
  /\ held' = FALSE
  /\ UNCHANGED <<github, edits, cached, queued, timer, pc, copy, fetched, calm>>

(* Mutant of UpdateConflict: tried again for ever. *)
RetryForever(h) ==
  /\ handler[h].step = "update" /\ ~handler[h].held
  /\ handler' = [handler EXCEPT ![h].step = "get", ![h].attempts = @ + 1,
                                ![h].copy = NoRepository]
  /\ UNCHANGED <<github, told, object, informer, queued, timer, reconcile,
                 calm>>

(* RetryOnConflict reads again, until its attempts are used up. *)
UpdateConflict(h) ==
  /\ handler[h].step = "update" /\ ~handler[h].held
  /\ IF handler[h].attempts + 1 < MaxAttempts
     THEN /\ handler' = [handler EXCEPT ![h].step = "get", ![h].attempts = @ + 1,
                                       ![h].copy = NoRepository]
          /\ UNCHANGED told
     ELSE Finish(h)
  /\ UNCHANGED <<github, object, informer, queued, timer, reconcile, calm>>

(* A call fails, or the server stops: only a line in the log is left. *)
HandlerFails(h) ==
  /\ ~calm /\ handler[h].step # "idle"
  /\ handler' = [handler EXCEPT ![h] = Idle]
  /\ UNCHANGED <<github, told, object, informer, queued, timer, reconcile, calm>>
-----------------------------------------------------------------------------
(* The users of the Repository *)

CreateRepository ==
  /\ ~calm /\ ~repo.present
  /\ Store([NoRepository EXCEPT !.present = TRUE])
  /\ handler' = Released(Handlers) /\ held' = FALSE
  /\ UNCHANGED <<github, told, edits, cached, queued, timer, pc, copy, fetched,
                 calm>>

(* The labels are taken off, or spec.owner or spec.name is another. *)
EditRepository ==
  /\ ~calm /\ repo.present /\ edits < MaxEdits
  /\ edits' = edits + 1
  /\ Store([repo EXCEPT !.labelled = FALSE])
  /\ handler' = Released(Handlers) /\ held' = FALSE
  /\ UNCHANGED <<github, told, cached, queued, timer, pc, copy, fetched, calm>>
-----------------------------------------------------------------------------
(* Informer and work queue *)

(* Mutant of CacheRepository: annotations and status do not count as a      *)
(* change (GenerationChangedPredicate).                                     *)
CacheGeneration ==
  /\ ~fresh
  /\ cached' = repo /\ fresh' = TRUE
  /\ queued' = (queued \/ cached.present # repo.present
                       \/ cached.labelled # repo.labelled
                       \/ cached.finalizer # repo.finalizer)
  /\ UNCHANGED <<github, server, object, timer, reconcile, calm>>

(* Every change of the Repository enqueues it, also while it is reconciled. *)
CacheRepository ==
  /\ ~fresh
  /\ cached' = repo /\ fresh' = TRUE /\ queued' = TRUE
  /\ UNCHANGED <<github, server, object, timer, reconcile, calm>>

TimerFires ==
  /\ timer /\ timer' = FALSE /\ queued' = TRUE
  /\ UNCHANGED <<github, server, object, informer, reconcile, calm>>
-----------------------------------------------------------------------------
(* Reconcile *)

Goto(step) ==
  pc' = step /\ copy' = NoRepository /\ held' = FALSE /\ fetched' = 0

Return == Goto("idle")

Begin ==
  /\ pc = "idle" /\ queued /\ queued' = FALSE
  /\ IF cached.present
     THEN /\ copy' = cached /\ held' = fresh
          /\ pc' = CASE ~cached.finalizer -> "finalizer"
                     [] cached.finalizer /\ ~cached.labelled -> "labels"
                     [] OTHER -> "fetch"
     ELSE UNCHANGED <<pc, copy, held>>
  /\ UNCHANGED <<github, server, object, informer, timer, fetched, calm>>

(* Both return without an interval: the event of the write is to come. *)
AddFinalizer ==
  /\ pc = "finalizer" /\ held
  /\ Store([copy EXCEPT !.finalizer = TRUE])
  /\ handler' = Released(Handlers)
  /\ Return
  /\ UNCHANGED <<github, told, edits, cached, queued, timer, calm>>

EnsureLabels ==
  /\ pc = "labels" /\ held
  /\ Store([copy EXCEPT !.labelled = TRUE])
  /\ handler' = Released(Handlers)
  /\ Return
  /\ UNCHANGED <<github, told, edits, cached, queued, timer, calm>>

(* syncFromGitHub asks GitHub, *)
FetchHead ==
  /\ pc = "fetch"
  /\ fetched' = head /\ pc' = "cursor"
  /\ UNCHANGED <<github, server, object, informer, queued, timer, copy, held,
                 calm>>

(* brings the Branches up to date and stores how far it came, *)
StoreCursor ==
  /\ pc = "cursor" /\ fetched # copy.cursor /\ held
  /\ Store([repo EXCEPT !.cursor = fetched])
  /\ handler' = Released(Handlers)
  /\ copy' = [copy EXCEPT !.cursor = fetched]
  /\ UNCHANGED <<github, told, edits, cached, queued, timer, pc, held, fetched,
                 calm>>

(* Mutant of RequeueForPoll: only events start another reconcile. *)
ReturnWithoutPoll ==
  /\ pc = "cursor" /\ fetched = copy.cursor
  /\ Return
  /\ UNCHANGED <<github, server, object, informer, queued, timer, calm>>

(* and asks for the next sync after repositorySyncInterval. *)
RequeueForPoll ==
  /\ pc = "cursor" /\ fetched = copy.cursor
  /\ timer' = TRUE
  /\ Return
  /\ UNCHANGED <<github, server, object, informer, queued, calm>>

Conflict ==
  /\ ~held
  /\ \/ pc \in {"finalizer", "labels"}
     \/ pc = "cursor" /\ fetched # copy.cursor
  /\ Goto("error")
  /\ UNCHANGED <<github, server, object, informer, queued, timer, calm>>

(* Any call fails. *)
Fault ==
  /\ ~calm /\ pc \notin {"idle", "error"}
  /\ Goto("error")
  /\ UNCHANGED <<github, server, object, informer, queued, timer, calm>>

ReturnError ==
  /\ pc = "error" /\ queued' = TRUE
  /\ Return
  /\ UNCHANGED <<github, server, object, informer, timer, calm>>

(* The manager stops, or another one becomes the leader: queue and timer   *)
(* are lost, and the list its informer starts with enqueues the Repository. *)
Restart ==
  /\ ~calm
  /\ cached' = repo /\ fresh' = TRUE
  /\ queued' = repo.present /\ timer' = FALSE
  /\ Return
  /\ UNCHANGED <<github, server, object, calm>>

CalmDown ==
  /\ ~calm /\ calm' = TRUE
  /\ UNCHANGED <<github, server, object, informer, queued, timer, reconcile>>
-----------------------------------------------------------------------------
Init ==
  /\ head = 0 /\ sent = [p \in Pushes |-> 0]
  /\ handler = [h \in Handlers |-> Idle] /\ told = 0
  /\ repo = NoRepository /\ edits = 0
  /\ cached = NoRepository /\ fresh = TRUE
  /\ queued = FALSE /\ timer = FALSE
  /\ pc = "idle" /\ copy = NoRepository /\ held = FALSE /\ fetched = 0
  /\ calm = FALSE

Handle(h) ==
  \/ Receive(h) \/ ListRepositories(h) \/ GetRepository(h)
  \/ UpdateAnnotation(h) \/ UpdateConflict(h)

Reconcile ==
  \/ Begin \/ AddFinalizer \/ EnsureLabels \/ FetchHead \/ StoreCursor
  \/ RequeueForPoll \/ Conflict \/ ReturnError

Next ==
  \/ Push \/ CreateRepository \/ EditRepository
  \/ \E h \in Handlers : Handle(h) \/ HandlerFails(h)
  \/ CacheRepository \/ TimerFires
  \/ Reconcile \/ Fault \/ Restart \/ CalmDown

(* A request that was accepted is worked on; the informer delivers; workers *)
(* take what is queued; an interval comes to its end.  Nothing is assumed   *)
(* of GitHub or of the users.                                               *)
Fairness ==
  /\ \A h \in Handlers : WF_vars(handler[h].step # "idle" /\ Handle(h))
  /\ WF_vars(CacheRepository) /\ WF_vars(TimerFires) /\ WF_vars(Reconcile)

Spec == Init /\ [][Next]_vars /\ Fairness
-----------------------------------------------------------------------------
(* Every variable has its type. *)
TypeOK ==
  /\ head \in 0 .. MaxPush /\ sent \in [Pushes -> 0 .. MaxCopies]
  /\ handler \in [Handlers -> Handler] /\ told \in 0 .. MaxPush
  /\ repo \in Repository /\ edits \in 0 .. MaxEdits
  /\ cached \in Repository /\ fresh \in BOOLEAN
  /\ queued \in BOOLEAN /\ timer \in BOOLEAN
  /\ pc \in Steps /\ copy \in Repository /\ held \in BOOLEAN
  /\ fetched \in 0 .. MaxPush /\ calm \in BOOLEAN

(* A delivery whose handling met no failed call needs no poll: when the     *)
(* controller has nothing left to do, its push is synced.  That holds for a *)
(* handler that found no labelled Repository, since the controller labels   *)
(* and then syncs it, and for one that gave up after conflicts, since       *)
(* whoever won them wakes the controller, too (webhook.go 158-212,          *)
(* repository_controller.go 114-133).                                       *)
Quiet == pc = "idle" /\ ~queued /\ fresh

NoPushForgotten == Quiet /\ repo.present => told <= repo.cursor

(* The webhook server takes nothing back that the controller stored since   *)
(* it read the Repository, or the controller something of the users' (line  *)
(* 187: "to avoid clobbering concurrent controller updates").               *)
NothingTakenBack ==
  [][/\ repo.finalizer => repo'.finalizer
     /\ repo.cursor <= repo'.cursor
     /\ repo.labelled /\ ~repo'.labelled => edits' # edits]_vars

(* Whatever was lost, each push is synced in the end: the poll is armed     *)
(* after every reconcile that does not ask for another one, through crashes *)
(* and the steps that only prepare the Repository (lines 65-70).            *)
PushSynced == calm /\ repo.present ~> [](repo.cursor = head)
=============================================================================
