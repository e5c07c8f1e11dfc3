--------------------------- MODULE BranchHeadSync ---------------------------
(***************************************************************************)
(* The part of RepositoryReconciler.Reconcile that keeps one Branch per    *)
(* local ref and per pull request of a fork: FetchBranchHeadsFromGitHub    *)
(* (internal/repository/sync/github_sync.go), syncBranchHeads and what it  *)
(* calls (internal/controller/repository_controller.go).  One action per   *)
(* call to GitHub or to the API server, so that GitHub and the             *)
(* BranchReconciler move between any two of them.  The rest of Reconcile   *)
(* is RepositoryController's subject; here it only creates the Branches of *)
(* default-branch commits, which head synchronisation must leave alone.    *)
(***************************************************************************)
EXTENDS Integers, FiniteSets, FiniteSetsExt

CONSTANTS
  Refs,        \* refs of the repository other than the default branch
  Base,        \* the default branch
  ForkRefs,    \* names forks give their refs, which may be any of these
  Locals,      \* numbers of pull requests from the repository itself
  Forks,       \* ... from a fork, or whose origin is not known
  LocalSHAs,   \* commits pushed to the repository
  ForkSHAs,    \* commits pushed to a fork; some may be in both
  Tip,         \* head of the default branch, which does not move here
  NoSHA,       \* no commit: an absent ref, an answer without SHA
  MaxUpsets    \* bound: changes on GitHub, failing calls, incomplete answers

ASSUME ConstantsAssumption ==
  /\ Base \notin Refs
  /\ \A ref \in Refs \cup ForkRefs \cup {Base} : ref \notin Locals \cup Forks
  /\ Locals \subseteq Nat \ {0} /\ Forks \subseteq Nat \ {0}
  /\ Locals \cap Forks = {} /\ IsFiniteSet(Locals)
  /\ Tip \in LocalSHAs /\ NoSHA \notin LocalSHAs \cup ForkSHAs
  /\ MaxUpsets \in Nat

NoPR == 0
SHAs == LocalSHAs \cup ForkSHAs
AllRefs == Refs \cup ForkRefs \cup {Base}
PRs == Locals \cup Forks

(* A head, and the spec of the Branch that serves it.  tag is the number    *)
(* of an external pull request, kept as an annotation; NoPR without one.    *)
Head == [tag : Forks \cup {NoPR}, ref : AllRefs, pr : PRs \cup {NoPR},
         sha : SHAs]

(* dying: deleted, but the BranchReconciler still has its finalizer on it.  *)
Branch == [tag : Forks \cup {NoPR}, ref : AllRefs, pr : PRs \cup {NoPR},
           sha : SHAs, dying : BOOLEAN]

NoHead == [tag |-> NoPR, ref |-> Base, pr |-> NoPR, sha |-> NoSHA]

Live(h) == [tag |-> h.tag, ref |-> h.ref, pr |-> h.pr, sha |-> h.sha,
            dying |-> FALSE]
HeadOf(b) == [tag |-> b.tag, ref |-> b.ref, pr |-> b.pr, sha |-> b.sha]

(* Mutant of Identity: pull requests of forks share the key of their ref.   *)
IdentityOfRef(h) == h.ref

(* BranchHead.Key and branchIdentity: "pr:<number>" or the ref.             *)
Identity(h) == IF h.tag # NoPR THEN h.tag ELSE h.ref

(* The object's name: <repo>-pr-<number>-<sha> or <repo>-<ref hash>-<sha>.  *)
(* Truncated hashes are taken not to collide.                               *)
Name(h) == <<Identity(h), h.sha>>

VARIABLES
  (* GitHub *)
  local,     \* head of every ref, NoSHA without one
  pull,      \* the pull requests
  (* API server *)
  branches,  \* the Branches
  awaited,   \* the Branch of the commit Tip is still wanted
  (* the reconcile in progress *)
  pc,        \* its next call, "idle" between two reconciles
  existing,  \* the Branches it listed and still has to look at
  listed,    \* the answer of ListBranches
  heads,     \* the heads it still has to ensure
  legacy,    \* Branches it still has to retire
  item,      \* what its next call is about
  pending,   \* a retired Branch is still there
  (* bookkeeping of the model *)
  upsets,    \* what MaxUpsets bounds, so far
  moved,     \* identities whose head changed since it began
  gap        \* forks without SHA in its snapshot

github == <<local, pull>>
locals == <<existing, listed, heads, legacy, item, pending>>
history == <<moved, gap>>
vars == <<local, pull, branches, awaited, upsets, pc, existing,
          listed, heads, legacy, item, pending, moved, gap>>

Steps == {"idle", "local", "pulls", "migrate", "confirm",
          "ensure", "create"}

Closed == [open |-> FALSE, ref |-> Base, sha |-> NoSHA]
Opened(ref, sha) == [open |-> TRUE, ref |-> ref, sha |-> sha]
OpenPRs == {p \in PRs : pull[p].open}

Unlisted == [ref \in AllRefs |-> NoSHA]
Names(bs) == {Name(b) : b \in bs}
-----------------------------------------------------------------------------
(* FetchBranchHeadsFromGitHub, given the answer of ListBranches, the pull   *)
(* requests GitHub has, and those whose SHA it left out.                    *)

(* The head of a pull request from the repository is the ref's.             *)
PullSHA(p) == IF p \in Forks THEN pull[p].sha ELSE local[pull[p].ref]

PullsOf(ref) == {p \in OpenPRs \cap Locals : pull[p].ref = ref}

ForkHeads(gaps) ==
  {[tag |-> p, ref |-> pull[p].ref, pr |-> p,
    sha |-> IF p \in gaps THEN NoSHA ELSE PullSHA(p)] : p \in OpenPRs \cap Forks}

(* Of several pull requests for one ref the highest number counts.          *)
LocalHead(answer, gaps, ref) ==
  IF PullsOf(ref) = {}
  THEN [tag |-> NoPR, ref |-> ref, pr |-> NoPR, sha |-> answer[ref]]
  ELSE LET p == Max(PullsOf(ref)) IN
       [tag |-> NoPR, ref |-> ref, pr |-> p,
        sha |-> IF p \in gaps THEN answer[ref] ELSE PullSHA(p)]

(* Mutant of FetchBranchHeads: a missing SHA is borrowed from the local ref *)
(* for pull requests of forks as well.                                      *)
BorrowLocalSHA(answer, gaps) ==
  LET lend(h) == IF h.sha = NoSHA THEN [h EXCEPT !.sha = answer[h.ref]] ELSE h
  IN  {h \in {lend(g) : g \in ForkHeads(gaps)} \cup
              {LocalHead(answer, gaps, ref) : ref \in AllRefs} : h.sha # NoSHA}

(* Mutant of FetchBranchHeads: heads without SHA are not left out.          *)
KeepIncompleteHeads(answer, gaps) ==
  ForkHeads(gaps) \cup {LocalHead(answer, gaps, ref) : ref \in AllRefs}

FetchBranchHeads(answer, gaps) ==
  {h \in ForkHeads(gaps) \cup {LocalHead(answer, gaps, ref) : ref \in AllRefs} :
     h.sha # NoSHA}

(* syncBranchHeads skips the heads whose ref is the default branch.         *)
Wanted(hs) == {h \in hs : h.ref # Base}

(* What head synchronisation should have a Branch for right now.            *)
HeadsNow == Wanted(FetchBranchHeads([local EXCEPT ![Base] = NoSHA], {}))

(* Fork Branches of earlier versions: no annotation, the fork's ref.        *)
IsLegacy(b) ==
  /\ b.tag = NoPR /\ b.ref # Base
  /\ b.pr \in OpenPRs \cap Forks /\ pull[b.pr].ref = b.ref
-----------------------------------------------------------------------------
(* Calls to the API server *)

(* r.Delete names the object and carries no precondition.  The object is    *)
(* gone at once unless the BranchReconciler has put its finalizer on it.    *)
Delete(name) ==
  LET hit == {b \in branches : Name(b) = name} IN
  \/ branches' = branches \ hit
  \/ branches' = (branches \ hit) \cup {[b EXCEPT !.dying = TRUE] : b \in hit}

DeleteUnlessDying(name) ==
  IF \E b \in branches : Name(b) = name /\ b.dying
  THEN UNCHANGED branches
  ELSE Delete(name)

Upset == upsets < MaxUpsets /\ upsets' = upsets + 1

Goto(step) == pc' = step

Forget ==
  /\ existing' = {} /\ listed' = Unlisted /\ heads' = {} /\ legacy' = {}
  /\ item' = NoHead /\ pending' = FALSE /\ moved' = {} /\ gap' = {}

(* The end of a reconcile, with an error, a requeue or neither.             *)
Return == Goto("idle") /\ Forget
-----------------------------------------------------------------------------
(* Reconcile *)

(* r.List of the Branches the Repository owns; the informer that answers is *)
(* taken to have caught up.                                                 *)
Begin ==
  /\ pc = "idle"
  /\ existing' = branches
  /\ Goto("local")
  /\ UNCHANGED <<github, branches, awaited, upsets, listed, heads,
                 legacy, item, pending, history>>

(* ensureDefaultBranchCommits, the cursor included: RepositoryController.   *)
CommitBranch ==
  LET commit == [tag |-> NoPR, ref |-> Base, pr |-> NoPR, sha |-> Tip] IN
  /\ pc = "local"
  /\ Name(commit) \notin Names(branches)
  /\ branches' = branches \cup {Live(commit)}
  /\ awaited' = TRUE
  /\ UNCHANGED <<github, upsets, pc, locals, history>>

ListBranches ==
  /\ pc = "local"
  /\ listed' = [local EXCEPT ![Base] = NoSHA]
  /\ Goto("pulls")
  /\ UNCHANGED <<github, branches, awaited, upsets, existing, heads,
                 legacy, item, pending, history>>

(* Mutant of ListOpenPullRequests: a fork without SHA is not noted in       *)
(* ExternalPRs.                                                             *)
OverlookIncompleteForks(gaps) ==
  /\ pc = "pulls"
  /\ IF gaps = {} THEN UNCHANGED upsets ELSE Upset
  /\ heads' = Wanted(FetchBranchHeads(listed, gaps))
  /\ legacy' = {b \in existing : IsLegacy(b) /\ b.pr \notin gaps}
  /\ existing' = {b \in existing : ~IsLegacy(b) \/ b.pr \in gaps}
  /\ listed' = Unlisted
  /\ gap' = gaps \cap Forks
  /\ Goto("migrate")
  /\ UNCHANGED <<github, branches, awaited, item, pending, moved>>

(* The snapshot is complete.  gaps: pull requests without a SHA.            *)
ListOpenPullRequests(gaps) ==
  /\ pc = "pulls"
  /\ IF gaps = {} THEN UNCHANGED upsets ELSE Upset
  /\ heads' = Wanted(FetchBranchHeads(listed, gaps))
  /\ legacy' = {b \in existing : IsLegacy(b)}
  /\ existing' = {b \in existing : ~IsLegacy(b)}
  /\ listed' = Unlisted
  /\ gap' = gaps \cap Forks
  /\ Goto("migrate")
  /\ UNCHANGED <<github, branches, awaited, item, pending, moved>>

RetireLegacy(b) ==
  /\ pc = "migrate"
  /\ IF b.dying THEN UNCHANGED branches
                ELSE DeleteUnlessDying(Name(b))
  /\ legacy' = legacy \ {b} /\ item' = HeadOf(b)
  /\ Goto("confirm")
  /\ UNCHANGED <<github, awaited, upsets, existing, listed, heads, pending,
                 history>>

(* r.Get; a Branch that is still finalizing, or a new one of that name.     *)
ConfirmRetired ==
  /\ pc = "confirm"
  /\ pending' = (pending \/ Name(item) \in Names(branches))
  /\ item' = NoHead
  /\ Goto("migrate")
  /\ UNCHANGED <<github, branches, awaited, upsets, existing, listed,
                 heads, legacy, history>>

(* errBranchMigrationPending: again in a second.                            *)
MigrationPending ==
  /\ pc = "migrate" /\ legacy = {} /\ pending
  /\ Return
  /\ UNCHANGED <<github, branches, awaited, upsets>>

Migrated ==
  /\ pc = "migrate" /\ legacy = {} /\ ~pending
  /\ Goto("ensure")
  /\ UNCHANGED <<github, branches, awaited, upsets, locals, history>>

(* ensureBranchResource, for the heads in any order (the code sorts them by *)
(* key, and keys are abstract here).  The cache lists objects in no         *)
(* particular order, so existing[0] is any of the identity's Branches.      *)
ExistingFor(h) == {b \in existing : Identity(b) = Identity(h)}

(* Mutant of Matches: a renamed ref is not noticed.                         *)
MatchesSHAOnly(b, h) == b.sha = h.sha

Matches(b, h) == b.sha = h.sha /\ b.ref = h.ref

Ensured(h) == heads' = heads \ {h} /\ existing' = existing \ ExistingFor(h)

KeepBranch(h, b) ==
  /\ pc = "ensure"
  /\ Matches(b, h) /\ b.pr = h.pr
  /\ Ensured(h)
  /\ UNCHANGED <<github, branches, awaited, upsets, pc, listed, legacy,
                 item, pending, history>>

UpdatePRNumber(h, b) ==
  /\ pc = "ensure"
  /\ Matches(b, h) /\ b.pr # h.pr
  /\ b \in branches
  /\ branches' = (branches \ {b}) \cup {[b EXCEPT !.pr = h.pr]}
  /\ Ensured(h)
  /\ UNCHANGED <<github, awaited, upsets, pc, listed, legacy, item, pending,
                 history>>

(* The update of a copy that is out of date is refused.                     *)
UpdateConflict(h, b) ==
  /\ pc = "ensure"
  /\ Matches(b, h) /\ b.pr # h.pr
  /\ b \notin branches
  /\ Return
  /\ UNCHANGED <<github, branches, awaited, upsets>>

DeleteOldSHA(h, b) ==
  /\ pc = "ensure"
  /\ ~Matches(b, h)
  /\ DeleteUnlessDying(Name(b))
  /\ Ensured(h) /\ item' = h
  /\ Goto("create")
  /\ UNCHANGED <<github, awaited, upsets, listed, legacy, pending, history>>

Creates(h) ==
  \/ pc = "create" /\ item = h
  \/ pc = "ensure" /\ h \in heads /\ ExistingFor(h) = {}

CreateBranch(h) ==
  /\ Creates(h)
  /\ Name(h) \notin Names(branches)
  /\ branches' = branches \cup {Live(h)}
  /\ Ensured(h) /\ item' = NoHead
  /\ Goto("ensure")
  /\ UNCHANGED <<github, awaited, upsets, listed, legacy, pending, history>>

(* AlreadyExists is an error like any other.                                *)
NameTaken(h) ==
  /\ Creates(h)
  /\ Name(h) \in Names(branches)
  /\ Return
  /\ UNCHANGED <<github, branches, awaited, upsets>>

(* Mutant of Stale: the default branch's Branches are left in the map.      *)
StaleOrDefault == existing

Stale == {b \in existing : Identity(b) # Base}

DeleteStale(b) ==
  /\ pc = "ensure" /\ heads = {}
  /\ DeleteUnlessDying(Name(b))
  /\ existing' = existing \ {b}
  /\ UNCHANGED <<github, awaited, upsets, pc, listed, heads, legacy, item,
                 pending, history>>

Synced ==
  /\ pc = "ensure" /\ heads = {} /\ Stale = {}
  /\ Return
  /\ UNCHANGED <<github, branches, awaited, upsets>>

(* Any other call that fails, or a restart of the process.                  *)
Fault ==
  /\ pc # "idle"
  /\ Upset
  /\ Return
  /\ UNCHANGED <<github, branches, awaited>>
-----------------------------------------------------------------------------
(* The BranchReconciler, GitHub *)

(* A deleted Branch loses its finalizer (BranchLiveness!BranchSettles).     *)
FinalizeBranch(b) ==
  /\ b.dying
  /\ branches' = branches \ {b}
  /\ UNCHANGED <<github, awaited, upsets, pc, locals, history>>

(* The BranchReconciler deletes the Branch of a commit that is done.        *)
CommitDone(b) ==
  /\ b.ref = Base /\ awaited
  /\ awaited' = FALSE
  /\ DeleteUnlessDying(Name(b))
  /\ UNCHANGED <<github, upsets, pc, locals, history>>

(* A change on GitHub, and the identities it concerns.                      *)
Edit(identities) ==
  /\ Upset
  /\ moved' = IF pc = "idle" THEN {} ELSE moved \cup identities
  /\ UNCHANGED <<branches, awaited, pc, locals, gap>>

Push(ref, sha) ==
  /\ sha # local[ref]
  /\ local' = [local EXCEPT ![ref] = sha]
  /\ UNCHANGED pull /\ Edit({ref})

(* GitHub closes the pull requests of a ref that is deleted.                *)
DeleteRef(ref) ==
  /\ local[ref] # NoSHA
  /\ local' = [local EXCEPT ![ref] = NoSHA]
  /\ pull' = [p \in PRs |-> IF p \in PullsOf(ref) THEN Closed ELSE pull[p]]
  /\ Edit({ref})

OpenLocalPR(p, ref) ==
  /\ ~pull[p].open /\ local[ref] # NoSHA
  /\ pull' = [pull EXCEPT ![p] = Opened(ref, NoSHA)]
  /\ UNCHANGED local /\ Edit({ref})

(* A fork opens a pull request, pushes to it or renames its ref.            *)
MoveForkPR(p, ref, sha) ==
  /\ pull[p] # Opened(ref, sha)
  /\ pull' = [pull EXCEPT ![p] = Opened(ref, sha)]
  /\ UNCHANGED local /\ Edit({p})

ClosePR(p) ==
  /\ pull[p].open
  /\ pull' = [pull EXCEPT ![p] = Closed]
  /\ UNCHANGED local /\ Edit({IF p \in Forks THEN p ELSE pull[p].ref})

-----------------------------------------------------------------------------
(* Branches that may be there when this version of the manager starts.      *)
Earlier ==
  {b \in Branch : b.tag = NoPR /\ b.ref # Base /\ ~b.dying /\
     \/ b.pr = NoPR /\ b.ref \in Refs /\ b.sha \in LocalSHAs
     \/ b.pr \in Forks /\ b.ref \in ForkRefs /\ b.sha \in ForkSHAs}

Init ==
  /\ \E heads0 \in [Refs -> LocalSHAs \cup {NoSHA}] :
       local = [ref \in AllRefs |-> IF ref = Base THEN Tip
                                    ELSE IF ref \in Refs THEN heads0[ref] ELSE NoSHA]
  /\ pull = [p \in PRs |-> Closed]
  /\ branches \in {{}} \cup {{b} : b \in Earlier}
  /\ awaited = FALSE /\ upsets = 0
  /\ pc = "idle" /\ existing = {} /\ listed = Unlisted /\ heads = {}
  /\ legacy = {} /\ item = NoHead /\ pending = FALSE /\ moved = {} /\ gap = {}

Reconcile ==
  \/ Begin \/ ListBranches
  \/ ListOpenPullRequests({})
  \/ \E b \in legacy : RetireLegacy(b)
  \/ ConfirmRetired \/ MigrationPending \/ Migrated
  \/ \E h \in heads : \E b \in ExistingFor(h) : KeepBranch(h, b)
  \/ \E h \in heads : \E b \in ExistingFor(h) : UpdatePRNumber(h, b)
  \/ \E h \in heads : \E b \in ExistingFor(h) : UpdateConflict(h, b)
  \/ \E h \in heads : \E b \in ExistingFor(h) : DeleteOldSHA(h, b)
  \/ \E h \in heads \cup {item} : CreateBranch(h)
  \/ \E h \in heads \cup {item} : NameTaken(h)
  \/ \E b \in Stale : DeleteStale(b)
  \/ Synced

Next ==
  \/ Reconcile
  \/ CommitBranch
  \/ \E gaps \in SUBSET OpenPRs : gaps # {} /\ ListOpenPullRequests(gaps)
  \/ Fault
  \/ \E b \in branches : FinalizeBranch(b)
  \/ \E b \in branches : CommitDone(b)
  \/ \E ref \in Refs, sha \in LocalSHAs : Push(ref, sha)
  \/ \E ref \in Refs : DeleteRef(ref)
  \/ \E p \in Locals, ref \in Refs \cup {Base} : OpenLocalPR(p, ref)
  \/ \E p \in Forks, ref \in ForkRefs, sha \in ForkSHAs : MoveForkPR(p, ref, sha)
  \/ \E p \in PRs : ClosePR(p)

Spec == Init /\ [][Next]_vars

(* A Repository that was reconciled is reconciled again; the informer       *)
(* delivers; a deleted Branch is finalized.  Strong fairness of the choice  *)
(* of existing[0]: the informer's index is a Go map, listed in an order     *)
(* drawn anew each time, so no Branch that may come first never does.       *)
ReplacesFor(id) ==
  \E h \in heads : Identity(h) = id /\
    \E b \in ExistingFor(h) : DeleteOldSHA(h, b)

FinalizesFor(id) == \E b \in branches : Identity(b) = id /\ FinalizeBranch(b)

Fairness ==
  /\ WF_vars(Reconcile)
  /\ \A id \in (AllRefs \cup Forks) \ {Base} :
       WF_vars(FinalizesFor(id)) /\ SF_vars(ReplacesFor(id))

FairSpec == Spec /\ Fairness
-----------------------------------------------------------------------------
TypeOK ==
  /\ local \in [AllRefs -> LocalSHAs \cup {NoSHA}]
  /\ pull \in [PRs -> [open : BOOLEAN, ref : AllRefs, sha : SHAs \cup {NoSHA}]]
  /\ upsets \in 0 .. MaxUpsets
  /\ branches \subseteq Branch
  /\ awaited \in BOOLEAN
  /\ pc \in Steps
  /\ existing \subseteq Branch /\ legacy \subseteq Branch
  /\ listed \in [AllRefs -> LocalSHAs \cup {NoSHA}]
  /\ heads \subseteq Head /\ item \in Head \cup {NoHead}
  /\ pending \in BOOLEAN
  /\ moved \subseteq AllRefs \cup Forks /\ gap \subseteq Forks

(* Whatever fork, ref or commit shares its name: a Branch for a pull        *)
(* request of a fork is for a commit of that fork and never for the default *)
(* branch; every other Branch, but for those of earlier versions, is for a  *)
(* commit of the repository (github_sync.go 158-160, the skip at 490).      *)
Isolated ==
  \A b \in branches :
    /\ b.tag # NoPR => b.sha \in ForkSHAs /\ b.ref # Base
    /\ b.tag = NoPR /\ b.pr \notin Forks => b.sha \in LocalSHAs

(* Head synchronisation deletes no Branch of a default-branch commit, even  *)
(* when a pull request comes from a ref of that name (line 502).            *)
CommitBranchesKept ==
  awaited => \E b \in branches : b.ref = Base /\ b.sha = Tip /\ ~b.dying

(* "Advancing or closing one fork does not replace another fork or a        *)
(* same-named local branch" (overview.md:22): a live Branch that serves a   *)
(* head stays while that head does not change, whatever other heads do, but *)
(* for the Branch of a fork whose SHA GitHub's answer left out.             *)
Serves(b, h) ==
  /\ ~b.dying /\ Name(b) = Name(h) /\ b.ref = h.ref
  /\ b.tag = NoPR => b.pr \notin Forks

ServedHeadKept ==
  [][\A h \in HeadsNow :
       Identity(h) \notin moved \cup gap /\ (\E b \in branches : Serves(b, h))
         => \E b \in branches' : Serves(b, h)]_vars

(* A fork's Branch of an earlier version is never turned into the Branch of *)
(* the local ref of the same name, with the fork's runs on it, even when    *)
(* the SHA of the pull request is missing (lines 457-487; branch_head.go    *)
(* 25-26): the name is free only once that object is gone.                  *)
LegacyNotAdopted ==
  [][\A b \in branches :
       IsLegacy(b) /\ b.pr \notin moved
         => ~\E c \in branches' : Name(c) = Name(b) /\ c.pr \notin Forks]_vars

(* "Non-default heads converge to one latest object per local ref or        *)
(* external PR" (repository-controller.md:135): once GitHub rests and calls *)
(* succeed, the Branches are exactly those of the heads, old ones, twins    *)
(* and those of earlier versions being gone.                                *)
Converged ==
  /\ {HeadOf(b) : b \in {c \in branches : c.ref # Base}} = HeadsNow
  /\ \A b \in branches : b.ref # Base => ~b.dying

HeadsConverge == <>[]Converged
=============================================================================
