------------------------ MODULE BranchHeadSyncProofs ------------------------
(***************************************************************************)
(* BranchHeadSync for every set of refs, pull requests and commits: the    *)
(* heads do not mix, and the Branches of the default branch are safe.      *)
(***************************************************************************)
EXTENDS BranchHeadSync, FiniteSetTheorems, TLAPS

(* A finite set of naturals has a greatest element: of the subsets without *)
(* one, a smallest would lose nothing but one element.                     *)
LEMMA MaxExists ==
  ASSUME NEW S \in SUBSET Nat, IsFiniteSet(S), S # {}
  PROVE  Max(S) \in S
<1> DEFINE HasMax(A) == \E x \in A : \A y \in A : x >= y
           Bad == {A \in SUBSET S : A # {} /\ ~HasMax(A)}
<1> HIDE DEF HasMax
<1>1. ASSUME Bad # {} PROVE FALSE
  <2>1. PICK A \in Bad : \A B \in Bad : <<B, A>> \notin StrictSubsetOrdering(S)
    <3>1. Bad \subseteq FiniteSubsetsOf(S)
      BY FS_Subset DEF FiniteSubsetsOf
    <3> QED BY <1>1, <3>1, FS_StrictSubsetOrderingWellFounded, WFMin
  <2>2. A \in SUBSET S /\ A # {} /\ ~HasMax(A)
    OBVIOUS
  <2>3. PICK x \in A : TRUE
    BY <2>2
  <2> DEFINE B == A \ {x}
  <2>4. HasMax(B) \/ B = {}
    <3>1. <<B, A>> \in StrictSubsetOrdering(S)
      BY <2>2, <2>3 DEF StrictSubsetOrdering
    <3> QED BY <2>1, <2>2, <3>1
  <2>5. CASE B = {}
    BY <2>2, <2>3, <2>5 DEF HasMax
  <2>6. CASE HasMax(B)
    <3>1. PICK y \in B : \A z \in B : y >= z
      BY <2>6 DEF HasMax
    <3>2. CASE x >= y
      BY <3>1, <3>2, <2>2, <2>3 DEF HasMax
    <3>3. CASE ~(x >= y)
      BY <3>1, <3>3, <2>2, <2>3 DEF HasMax
    <3> QED BY <3>2, <3>3
  <2> QED BY <2>4, <2>5, <2>6
<1>2. HasMax(S)
  BY <1>1
<1> QED BY <1>2 DEF Max, HasMax
-----------------------------------------------------------------------------
(* A head, or a Branch, is of where it claims to be from.                  *)
Genuine(h) ==
  IF h.tag = NoPR THEN h.pr \notin Forks => h.sha \in LocalSHAs
                  ELSE h.sha \in ForkSHAs /\ h.ref # Base

(* What a head to be ensured satisfies: it has a SHA, is not the default    *)
(* branch's, and, without annotation, comes from the repository.           *)
Proper(h) ==
  /\ h \in Head /\ h.ref # Base
  /\ h.sha \in IF h.tag = NoPR THEN LocalSHAs ELSE ForkSHAs

PullInv == \A p \in Forks : pull[p].open => pull[p].sha \in ForkSHAs

HeadInv == (\A h \in heads : Proper(h)) /\ (pc = "create" => Proper(item))

LegacyInv == \A b \in legacy : b.tag = NoPR /\ b.ref # Base

GenuineInv == \A b \in branches : Genuine(b)

(* The Branch of the default-branch commit has no annotation either, so its *)
(* name is nobody else's.                                                   *)
CommitInv ==
  awaited => \E b \in branches :
    b.tag = NoPR /\ b.ref = Base /\ b.sha = Tip /\ ~b.dying

IInv == TypeOK /\ PullInv /\ HeadInv /\ LegacyInv /\ GenuineInv /\ CommitInv
-----------------------------------------------------------------------------
(* Kubernetes names: two objects of one name have one identity.            *)
LEMMA NameIdentity ==
  ASSUME NEW b, NEW c, Name(b) = Name(c)
  PROVE  Identity(b) = Identity(c) /\ b.sha = c.sha
BY DEF Name

(* Keys of pull requests are not refs.                                      *)
LEMMA IdentityKind ==
  ASSUME NEW h \in Head \cup Branch
  PROVE  /\ Identity(h) \in AllRefs => h.tag = NoPR /\ Identity(h) = h.ref
         /\ Identity(h) \notin AllRefs => h.tag # NoPR /\ Identity(h) = h.tag
         /\ h.tag = NoPR => Identity(h) = h.ref /\ Identity(h) \in AllRefs
BY ConstantsAssumption DEF Identity, Head, Branch, AllRefs, PRs, NoPR

(* A proper head is never one of the default branch.                        *)
LEMMA ProperIdentity ==
  ASSUME NEW h, Proper(h)
  PROVE  Identity(h) # Base
BY ConstantsAssumption DEF Proper, Identity, Head, AllRefs, PRs, NoPR

(* A snapshot holds proper heads only.                                      *)
LEMMA FetchProper ==
  ASSUME TypeOK, PullInv, NEW gaps,
         NEW answer \in [AllRefs -> LocalSHAs \cup {NoSHA}]
  PROVE  \A h \in Wanted(FetchBranchHeads(answer, gaps)) : Proper(h)
<1> SUFFICES ASSUME NEW h \in Wanted(FetchBranchHeads(answer, gaps))
             PROVE  Proper(h)
  OBVIOUS
<1>1. h.ref # Base /\ h.sha # NoSHA
  BY DEF Wanted, FetchBranchHeads
<1>2. CASE h \in ForkHeads(gaps)
  <2>1. PICK p \in OpenPRs \cap Forks :
          h = [tag |-> p, ref |-> pull[p].ref, pr |-> p,
               sha |-> IF p \in gaps THEN NoSHA ELSE PullSHA(p)]
    BY <1>2 DEF ForkHeads
  <2>2. h.sha = pull[p].sha /\ pull[p].open /\ pull[p].ref \in AllRefs
    BY <1>1, <2>1 DEF PullSHA, OpenPRs, TypeOK, PRs
  <2>3. h.sha \in ForkSHAs /\ p # NoPR /\ p \in PRs
    BY <2>2, ConstantsAssumption DEF PullInv, NoPR, PRs
  <2> QED BY <1>1, <2>1, <2>2, <2>3 DEF Proper, Head, SHAs
<1>3. ASSUME NEW ref \in AllRefs, h = LocalHead(answer, gaps, ref)
      PROVE  Proper(h)
  <2>1. CASE PullsOf(ref) = {}
    BY <1>1, <1>3, <2>1 DEF LocalHead, Proper, Head, SHAs, NoPR
  <2>2. CASE PullsOf(ref) # {}
    <3> DEFINE p == Max(PullsOf(ref))
    <3>1. PullsOf(ref) \in SUBSET Nat /\ IsFiniteSet(PullsOf(ref))
      BY ConstantsAssumption, FS_Subset DEF PullsOf
    <3>2. p \in PullsOf(ref)
      BY <2>2, <3>1, MaxExists
    <3>3. p \in Locals /\ p \in PRs /\ p \notin Forks /\ pull[p].ref = ref
      BY <3>2, ConstantsAssumption DEF PullsOf, PRs
    <3>4. h = [tag |-> NoPR, ref |-> ref, pr |-> p,
               sha |-> IF p \in gaps THEN answer[ref] ELSE PullSHA(p)]
      BY <1>3, <2>2 DEF LocalHead
    <3>5. h.sha \in LocalSHAs
      BY <1>1, <3>3, <3>4 DEF PullSHA, TypeOK
    <3> HIDE DEF p
    <3> QED BY <1>1, <3>3, <3>4, <3>5 DEF Proper, Head, SHAs, NoPR
  <2> QED BY <2>1, <2>2
<1> QED BY <1>2, <1>3 DEF Wanted, FetchBranchHeads

(* Deleting an object leaves a subset, or marks it.                         *)
LEMMA DeleteEffect ==
  ASSUME TypeOK, NEW name, DeleteUnlessDying(name)
  PROVE  /\ branches' \subseteq Branch
         /\ \A b \in branches' : \E c \in branches :
              /\ b.tag = c.tag /\ b.ref = c.ref /\ b.pr = c.pr /\ b.sha = c.sha
         /\ \A b \in branches : Name(b) # name => b \in branches'
<1> DEFINE hit == {b \in branches : Name(b) = name}
           Marked == {[b EXCEPT !.dying = TRUE] : b \in hit}
<1>1. branches \subseteq Branch
  BY DEF TypeOK
<1>2. \A m \in Marked : m \in Branch /\ \E c \in branches :
        m.tag = c.tag /\ m.ref = c.ref /\ m.pr = c.pr /\ m.sha = c.sha
  BY <1>1 DEF Branch
<1>3. CASE UNCHANGED branches
  BY <1>1, <1>3
<1>4. CASE branches' = branches \ hit
  BY <1>1, <1>4
<1>5. CASE branches' = (branches \ hit) \cup Marked
  <2> HIDE DEF Marked
  <2> QED BY <1>1, <1>2, <1>5
<1> QED BY <1>3, <1>4, <1>5 DEF DeleteUnlessDying, Delete

(* ... so no Branch changes what it is for.                                 *)
LEMMA DeleteKeepsGenuine ==
  ASSUME TypeOK, GenuineInv, NEW name, DeleteUnlessDying(name)
  PROVE  GenuineInv'
BY DeleteEffect DEF GenuineInv, Genuine

(* Deleting another identity's Branch leaves the default branch's alone.    *)
LEMMA DeleteKeepsCommit ==
  ASSUME TypeOK, CommitInv, NEW c \in Branch, Identity(c) # Base,
         DeleteUnlessDying(Name(c)), UNCHANGED awaited
  PROVE  CommitInv'
<1>1. \A b \in branches : b.tag = NoPR /\ b.ref = Base => Name(b) # Name(c)
  BY NameIdentity DEF Identity
<1> QED BY <1>1, DeleteEffect DEF CommitInv
-----------------------------------------------------------------------------
(* A Branch created for a head, or for the commit, is genuine.              *)
LEMMA CreateKeeps ==
  ASSUME IInv, NEW h \in Head, Genuine(h), awaited' = awaited,
         branches' = branches \cup {Live(h)}
  PROVE  branches' \subseteq Branch /\ GenuineInv' /\ CommitInv'
<1>1. Live(h) \in Branch /\ Genuine(Live(h))
  BY DEF Live, Head, Branch, Genuine
<1>2. branches' \subseteq Branch
  BY <1>1 DEF IInv, TypeOK
<1>3. GenuineInv'
  BY <1>1 DEF IInv, GenuineInv, Genuine
<1>4. CommitInv'
  BY DEF IInv, CommitInv
<1> QED BY <1>2, <1>3, <1>4

(* A reconcile that ends forgets everything but what is stored.             *)
LEMMA ReturnKeeps ==
  ASSUME IInv, Return, UNCHANGED <<github, branches, awaited>>,
         upsets' \in 0 .. MaxUpsets
  PROVE  IInv'
<1>1. TypeOK'
  BY DEF IInv, TypeOK, Return, Goto, Forget, Steps, Unlisted, github
<1>2. PullInv' /\ GenuineInv' /\ CommitInv'
  BY DEF IInv, PullInv, GenuineInv, Genuine, CommitInv, github
<1>3. HeadInv' /\ LegacyInv'
  BY DEF HeadInv, LegacyInv, Return, Goto, Forget
<1> QED BY <1>1, <1>2, <1>3 DEF IInv

(* What GitHub changes is not what the API server stores.                   *)
LEMMA EditKeeps ==
  ASSUME IInv, NEW ids \in SUBSET (AllRefs \cup Forks), Edit(ids),
         local' \in [AllRefs -> LocalSHAs \cup {NoSHA}],
         pull' \in [PRs -> [open : BOOLEAN, ref : AllRefs, sha : SHAs \cup {NoSHA}]],
         PullInv'
  PROVE  IInv'
<1>1. upsets' \in 0 .. MaxUpsets
  BY ConstantsAssumption DEF IInv, TypeOK, Edit, Upset
<1>2. moved' \subseteq AllRefs \cup Forks
  BY DEF IInv, TypeOK, Edit
<1>3. TypeOK'
  BY <1>1, <1>2 DEF IInv, TypeOK, Edit, locals
<1>4. GenuineInv' /\ CommitInv'
  BY DEF IInv, GenuineInv, Genuine, CommitInv, Edit
<1>5. HeadInv' /\ LegacyInv'
  BY DEF IInv, HeadInv, LegacyInv, Edit, locals
<1> QED BY <1>3, <1>4, <1>5 DEF IInv

(* A delete by head synchronisation that leaves GitHub alone and keeps the  *)
(* reconcile's variables in order.                                          *)
LEMMA SyncDeleteKeeps ==
  ASSUME IInv, NEW c \in Branch, Identity(c) # Base,
         DeleteUnlessDying(Name(c)) \/ UNCHANGED branches,
         UNCHANGED <<github, awaited>>
  PROVE  branches' \subseteq Branch /\ GenuineInv' /\ CommitInv' /\ PullInv'
<1>1. PullInv'
  BY DEF IInv, PullInv, github
<1>2. CASE UNCHANGED branches
  BY <1>1, <1>2 DEF IInv, TypeOK, GenuineInv, Genuine, CommitInv
<1>3. CASE DeleteUnlessDying(Name(c))
  BY <1>1, <1>3, DeleteEffect, DeleteKeepsGenuine, DeleteKeepsCommit DEF IInv
<1> QED BY <1>2, <1>3
-----------------------------------------------------------------------------
(* The steps of a reconcile that only read.                                 *)
LEMMA ReadingKeeps ==
  ASSUME IInv,
         Begin \/ ListBranches \/ ConfirmRetired \/ Migrated
         \/ \E h \in heads : \E b \in ExistingFor(h) : KeepBranch(h, b)
  PROVE  IInv'
<1>1. /\ UNCHANGED <<github, branches, awaited, upsets, legacy, history>>
     /\ heads' \subseteq heads /\ pc' \in Steps \ {"create"}
     /\ existing' \subseteq existing \cup branches
     /\ item' \in {item, NoHead} /\ pending' \in BOOLEAN
     /\ listed' \in [AllRefs -> LocalSHAs \cup {NoSHA}]
  <2>1. CASE Begin
    BY <2>1 DEF Begin, Goto, Steps, history, IInv, TypeOK
  <2>2. CASE ListBranches
    BY <2>2 DEF ListBranches, Goto, Steps, history, IInv, TypeOK
  <2>3. CASE ConfirmRetired
    BY <2>3 DEF ConfirmRetired, Goto, Steps, history, IInv, TypeOK
  <2>4. CASE Migrated
    BY <2>4 DEF Migrated, Goto, Steps, history, locals, IInv, TypeOK
  <2>5. CASE \E h \in heads : \E b \in ExistingFor(h) : KeepBranch(h, b)
    BY <2>5 DEF KeepBranch, Ensured, Steps, history, IInv, TypeOK
  <2> QED BY <2>1, <2>2, <2>3, <2>4, <2>5
<1>2. TypeOK'
  BY <1>1 DEF IInv, TypeOK, github, history
<1>3. PullInv' /\ LegacyInv'
  BY <1>1 DEF IInv, PullInv, LegacyInv, github
<1>4. HeadInv'
  BY <1>1 DEF IInv, HeadInv
<1>5. GenuineInv' /\ CommitInv'
  BY <1>1 DEF IInv, GenuineInv, Genuine, CommitInv
<1> QED BY <1>2, <1>3, <1>4, <1>5 DEF IInv

(* A snapshot of GitHub, whatever is missing from it.                       *)
LEMMA SnapshotKeeps ==
  ASSUME IInv, NEW gaps, ListOpenPullRequests(gaps)
  PROVE  IInv'
<1> USE DEF ListOpenPullRequests
<1>1. heads' \subseteq Head /\ \A h \in heads' : Proper(h)
  BY FetchProper DEF IInv, TypeOK, Proper
<1>2. upsets' \in 0 .. MaxUpsets
  BY ConstantsAssumption DEF IInv, TypeOK, Upset
<1>3. TypeOK'
  BY <1>1, <1>2 DEF IInv, TypeOK, Goto, Steps, Unlisted, github
<1>4. HeadInv' /\ LegacyInv'
  BY <1>1 DEF HeadInv, LegacyInv, IsLegacy, Goto
<1>5. PullInv' /\ GenuineInv' /\ CommitInv'
  BY DEF IInv, PullInv, GenuineInv, Genuine, CommitInv, github
<1> QED BY <1>3, <1>4, <1>5 DEF IInv
-----------------------------------------------------------------------------
(* Retiring a Branch of an earlier version: not the default branch's.       *)
LEMMA RetireLegacyKeeps ==
  ASSUME IInv, NEW b \in legacy, RetireLegacy(b)
  PROVE  IInv'
<1> USE DEF RetireLegacy
<1>1. b \in Branch /\ b.tag = NoPR /\ b.ref # Base
  BY DEF IInv, TypeOK, LegacyInv
<1>2. Identity(b) # Base
  BY <1>1 DEF Identity
<1>3. branches' \subseteq Branch /\ GenuineInv' /\ CommitInv' /\ PullInv'
  BY <1>1, <1>2, SyncDeleteKeeps
<1>4. HeadOf(b) \in Head
  BY <1>1 DEF HeadOf, Branch, Head
<1>5. TypeOK'
  BY <1>3, <1>4 DEF IInv, TypeOK, Goto, Steps, github, history
<1>6. HeadInv' /\ LegacyInv'
  BY DEF IInv, HeadInv, LegacyInv, Goto
<1> QED BY <1>3, <1>5, <1>6 DEF IInv

(* Only a Branch of the head's own kind gets its pull request's number.     *)
LEMMA UpdatePRNumberKeeps ==
  ASSUME IInv, NEW h \in heads, NEW b \in ExistingFor(h), UpdatePRNumber(h, b)
  PROVE  IInv'
<1> USE DEF UpdatePRNumber
<1> DEFINE new == [b EXCEPT !.pr = h.pr]
<1>1. /\ b \in Branch /\ h \in Head /\ Proper(h)
      /\ Identity(b) = Identity(h) /\ b.sha = h.sha /\ b.ref = h.ref
  BY DEF IInv, TypeOK, HeadInv, ExistingFor, Matches
<1>2. /\ new \in Branch /\ new.tag = b.tag /\ new.ref = b.ref
      /\ new.sha = b.sha /\ new.dying = b.dying
  BY <1>1 DEF Branch, Head
<1>3. Genuine(new)
  <2>1. CASE b.tag = NoPR
    <3>1. h.tag = NoPR
      BY <1>1, <2>1, IdentityKind
    <3> QED BY <1>1, <1>2, <2>1, <3>1 DEF Proper, Genuine
  <2>2. CASE b.tag # NoPR
    BY <1>2, <2>2 DEF IInv, GenuineInv, Genuine
  <2> QED BY <2>1, <2>2
<1> HIDE DEF new
<1>4. branches' = (branches \ {b}) \cup {new}
  BY DEF new
<1>5. TypeOK'
  BY <1>2, <1>4 DEF IInv, TypeOK, Ensured, github, history
<1>6. GenuineInv'
  BY <1>3, <1>4 DEF IInv, GenuineInv, Genuine
<1>7. CommitInv'
  BY <1>1, <1>4 DEF IInv, CommitInv, Proper
<1>8. PullInv' /\ HeadInv' /\ LegacyInv'
  BY DEF IInv, PullInv, HeadInv, LegacyInv, Ensured, github
<1> QED BY <1>5, <1>6, <1>7, <1>8 DEF IInv

(* Replacing a Branch deletes one of the head's identity.                   *)
LEMMA DeleteOldSHAKeeps ==
  ASSUME IInv, NEW h \in heads, NEW b \in ExistingFor(h), DeleteOldSHA(h, b)
  PROVE  IInv'
<1> USE DEF DeleteOldSHA
<1>1. b \in Branch /\ h \in Head /\ Proper(h) /\ Identity(b) = Identity(h)
  BY DEF IInv, TypeOK, HeadInv, ExistingFor
<1>2. branches' \subseteq Branch /\ GenuineInv' /\ CommitInv' /\ PullInv'
  BY <1>1, ProperIdentity, SyncDeleteKeeps
<1>3. TypeOK'
  BY <1>1, <1>2 DEF IInv, TypeOK, Goto, Steps, Ensured, github, history
<1>4. HeadInv' /\ LegacyInv'
  BY <1>1 DEF IInv, HeadInv, LegacyInv, Goto, Ensured
<1> QED BY <1>2, <1>3, <1>4 DEF IInv

(* The Branch created is for a proper head, the one it was asked for.       *)
LEMMA CreateBranchKeeps ==
  ASSUME IInv, NEW h \in heads \cup {item}, CreateBranch(h)
  PROVE  IInv'
<1> USE DEF CreateBranch
<1>1. Proper(h)
  BY DEF IInv, HeadInv, Creates
<1>2. h \in Head /\ Genuine(h)
  BY <1>1 DEF Proper, Genuine
<1>3. branches' \subseteq Branch /\ GenuineInv' /\ CommitInv'
  BY <1>2, CreateKeeps
<1>4. TypeOK'
  BY <1>3 DEF IInv, TypeOK, Goto, Steps, Ensured, github, history
<1>5. PullInv' /\ HeadInv' /\ LegacyInv'
  BY DEF IInv, PullInv, HeadInv, LegacyInv, Goto, Ensured, github
<1> QED BY <1>3, <1>4, <1>5 DEF IInv

(* The default branch's Branches are not in the map that is cleared.        *)
LEMMA DeleteStaleKeeps ==
  ASSUME IInv, NEW b \in Stale, DeleteStale(b)
  PROVE  IInv'
<1> USE DEF DeleteStale
<1>1. b \in Branch /\ Identity(b) # Base
  BY DEF IInv, TypeOK, Stale
<1>2. branches' \subseteq Branch /\ GenuineInv' /\ CommitInv' /\ PullInv'
  BY <1>1, SyncDeleteKeeps
<1>3. TypeOK'
  BY <1>2 DEF IInv, TypeOK, github, history
<1>4. HeadInv' /\ LegacyInv'
  BY DEF IInv, HeadInv, LegacyInv
<1> QED BY <1>2, <1>3, <1>4 DEF IInv

(* A reconcile that ends: done, with a requeue, or with an error.           *)
LEMMA EndingKeeps ==
  ASSUME IInv,
         MigrationPending \/ Synced \/ Fault
         \/ (\E h \in heads : \E b \in ExistingFor(h) : UpdateConflict(h, b))
         \/ (\E h \in heads \cup {item} : NameTaken(h))
  PROVE  IInv'
<1>1. Return /\ UNCHANGED <<github, branches, awaited>> /\ (UNCHANGED upsets \/ Upset)
  BY DEF MigrationPending, Synced, Fault, UpdateConflict, NameTaken
<1>2. upsets' \in 0 .. MaxUpsets
  BY <1>1, ConstantsAssumption DEF IInv, TypeOK, Upset
<1> QED BY <1>1, <1>2, ReturnKeeps

(* Every step of a reconcile.                                               *)
LEMMA ReconcileKeeps ==
  ASSUME IInv, Reconcile
  PROVE  IInv'
BY ReadingKeeps, SnapshotKeeps, RetireLegacyKeeps, UpdatePRNumberKeeps,
   DeleteOldSHAKeeps, CreateBranchKeeps, DeleteStaleKeeps, EndingKeeps
   DEF Reconcile
-----------------------------------------------------------------------------
(* The Branch of the default-branch commit.                                 *)
LEMMA CommitBranchKeeps ==
  ASSUME IInv, CommitBranch
  PROVE  IInv'
<1> DEFINE commit == [tag |-> NoPR, ref |-> Base, pr |-> NoPR, sha |-> Tip]
<1>1. commit \in Head /\ Genuine(commit)
  BY ConstantsAssumption DEF Head, Genuine, AllRefs, SHAs
<1>2. Live(commit) \in Branch /\ Genuine(Live(commit))
  BY <1>1 DEF Live, Head, Branch, Genuine
<1>3. branches' = branches \cup {Live(commit)} /\ awaited' = TRUE
  BY DEF CommitBranch
<1>4. Live(commit).tag = NoPR /\ Live(commit).ref = Base
      /\ Live(commit).sha = Tip /\ ~Live(commit).dying
  BY DEF Live
<1>5. CommitInv'
  BY <1>3, <1>4 DEF CommitInv
<1> HIDE DEF commit
<1>6. TypeOK'
  BY <1>2, <1>3 DEF CommitBranch, IInv, TypeOK, github, locals, history
<1>7. GenuineInv'
  BY <1>2, <1>3 DEF IInv, GenuineInv, Genuine
<1>8. PullInv' /\ HeadInv' /\ LegacyInv'
  BY DEF CommitBranch, IInv, PullInv, HeadInv, LegacyInv, github, locals
<1> QED BY <1>5, <1>6, <1>7, <1>8 DEF IInv

(* What the BranchReconciler does to a Branch.                              *)
LEMMA BranchReconcilerKeeps ==
  ASSUME IInv, NEW b \in branches, FinalizeBranch(b) \/ CommitDone(b)
  PROVE  IInv'
<1>1. branches' \subseteq Branch /\ GenuineInv' /\ CommitInv' /\ awaited' \in BOOLEAN
  <2>1. CASE FinalizeBranch(b)
    BY <2>1 DEF FinalizeBranch, IInv, TypeOK, GenuineInv, Genuine, CommitInv
  <2>2. CASE CommitDone(b)
    BY <2>2, DeleteEffect, DeleteKeepsGenuine DEF CommitDone, IInv, CommitInv
  <2> QED BY <2>1, <2>2
<1>2. UNCHANGED <<github, upsets, pc, locals, history>>
  BY DEF FinalizeBranch, CommitDone
<1>3. TypeOK'
  BY <1>1, <1>2 DEF IInv, TypeOK, github, locals, history
<1>4. PullInv' /\ HeadInv' /\ LegacyInv'
  BY <1>2 DEF IInv, PullInv, HeadInv, LegacyInv, github, locals
<1> QED BY <1>1, <1>3, <1>4 DEF IInv

(* What happens on GitHub.                                                  *)
LEMMA GitHubKeeps ==
  ASSUME IInv,
         \/ \E ref \in Refs, sha \in LocalSHAs : Push(ref, sha)
         \/ \E ref \in Refs : DeleteRef(ref)
         \/ \E p \in Locals, ref \in Refs \cup {Base} : OpenLocalPR(p, ref)
         \/ \E p \in Forks, ref \in ForkRefs, sha \in ForkSHAs : MoveForkPR(p, ref, sha)
         \/ \E p \in PRs : ClosePR(p)
  PROVE  IInv'
<1> DEFINE Pull == [open : BOOLEAN, ref : AllRefs, sha : SHAs \cup {NoSHA}]
<1>0. /\ local \in [AllRefs -> LocalSHAs \cup {NoSHA}] /\ pull \in [PRs -> Pull]
      /\ PullInv
  BY DEF IInv, TypeOK
<1>a. Closed \in Pull
  BY DEF Closed, AllRefs
<1>b. \A ref \in AllRefs, sha \in SHAs \cup {NoSHA} : Opened(ref, sha) \in Pull
  BY DEF Opened
<1>1. ASSUME NEW ref \in Refs, NEW sha \in LocalSHAs, Push(ref, sha)
      PROVE  IInv'
  <2>1. ref \in AllRefs
    BY DEF AllRefs
  <2> QED BY <1>0, <1>1, <2>1, EditKeeps DEF Push, PullInv
<1>2. ASSUME NEW ref \in Refs, DeleteRef(ref)
      PROVE  IInv'
  <2>1. ref \in AllRefs
    BY DEF AllRefs
  <2>2. pull' \in [PRs -> Pull] /\ PullInv'
    <3> HIDE DEF Pull
    <3>1. pull' \in [PRs -> Pull]
      BY <1>0, <1>2, <1>a DEF DeleteRef
    <3>2. \A p \in Forks : pull'[p] = pull[p]
      BY <1>2, ConstantsAssumption DEF DeleteRef, PullsOf, PRs
    <3> QED BY <1>0, <3>1, <3>2 DEF PullInv
  <2> QED BY <1>0, <1>2, <2>1, <2>2, EditKeeps DEF DeleteRef
<1>3. ASSUME NEW p \in Locals, NEW ref \in Refs \cup {Base}, OpenLocalPR(p, ref)
      PROVE  IInv'
  <2>1. ref \in AllRefs /\ p \in PRs /\ p \notin Forks
    BY ConstantsAssumption DEF AllRefs, PRs
  <2>2. pull' \in [PRs -> Pull] /\ PullInv'
    BY <1>0, <1>3, <1>b, <2>1 DEF OpenLocalPR, PullInv
  <2> QED BY <1>0, <1>3, <2>1, <2>2, EditKeeps DEF OpenLocalPR
<1>4. ASSUME NEW p \in Forks, NEW ref \in ForkRefs, NEW sha \in ForkSHAs,
             MoveForkPR(p, ref, sha)
      PROVE  IInv'
  <2>1. ref \in AllRefs /\ p \in PRs /\ sha \in SHAs
    BY DEF AllRefs, PRs, SHAs
  <2>2. pull' \in [PRs -> Pull]
    BY <1>0, <1>4, <1>b, <2>1 DEF MoveForkPR
  <2>3. PullInv'
    BY <1>0, <1>4, <2>1 DEF MoveForkPR, PullInv, Opened, PRs
  <2> QED BY <1>0, <1>4, <2>1, <2>2, <2>3, EditKeeps DEF MoveForkPR
<1>5. ASSUME NEW p \in PRs, ClosePR(p)
      PROVE  IInv'
  <2>1. (IF p \in Forks THEN p ELSE pull[p].ref) \in AllRefs \cup Forks
    BY <1>0
  <2>2. pull' \in [PRs -> Pull]
    BY <1>0, <1>5, <1>a DEF ClosePR
  <2>3. PullInv'
    BY <1>0, <1>5 DEF ClosePR, PullInv, Closed, PRs
  <2> QED BY <1>0, <1>5, <2>1, <2>2, <2>3, EditKeeps DEF ClosePR
<1> QED BY <1>1, <1>2, <1>3, <1>4, <1>5
-----------------------------------------------------------------------------
(* The manager starts beside at most one Branch of an earlier version.      *)
LEMMA InitInv == Init => IInv
<1> SUFFICES ASSUME Init PROVE IInv
  OBVIOUS
<1>1. branches \subseteq Earlier
  BY DEF Init
<1>2. branches \subseteq Branch /\ GenuineInv
  BY <1>1 DEF Earlier, GenuineInv, Genuine, NoPR
<1>3. local \in [AllRefs -> LocalSHAs \cup {NoSHA}]
  BY ConstantsAssumption DEF Init
<1>4. pull \in [PRs -> [open : BOOLEAN, ref : AllRefs, sha : SHAs \cup {NoSHA}]]
  BY DEF Init, Closed, AllRefs
<1>5. TypeOK
  <2>1. /\ awaited = FALSE /\ upsets = 0 /\ pc = "idle" /\ existing = {}
        /\ heads = {} /\ legacy = {} /\ item = NoHead /\ pending = FALSE
        /\ moved = {} /\ gap = {}
    BY DEF Init
  <2>2. listed \in [AllRefs -> LocalSHAs \cup {NoSHA}]
    BY DEF Init, Unlisted
  <2>3. upsets \in 0 .. MaxUpsets
    BY <2>1, ConstantsAssumption
  <2> QED BY <1>2, <1>3, <1>4, <2>1, <2>2, <2>3 DEF TypeOK, Steps
<1>6. PullInv /\ HeadInv /\ LegacyInv /\ CommitInv
  BY DEF Init, PullInv, Closed, PRs, HeadInv, LegacyInv, CommitInv
<1> QED BY <1>2, <1>5, <1>6 DEF IInv

(* The invariant is inductive, one case per action.                         *)
LEMMA NextInv == IInv /\ [Next]_vars => IInv'
<1> SUFFICES ASSUME IInv, [Next]_vars PROVE IInv'
  OBVIOUS
<1>1. CASE Reconcile
  BY <1>1, ReconcileKeeps
<1>2. CASE CommitBranch
  BY <1>2, CommitBranchKeeps
<1>3. CASE \E gaps \in SUBSET OpenPRs : gaps # {} /\ ListOpenPullRequests(gaps)
  BY <1>3, SnapshotKeeps
<1>4. CASE Fault
  BY <1>4, EndingKeeps
<1>5. CASE \E b \in branches : FinalizeBranch(b) \/ CommitDone(b)
  BY <1>5, BranchReconcilerKeeps
<1>6. CASE \/ \E ref \in Refs, sha \in LocalSHAs : Push(ref, sha)
           \/ \E ref \in Refs : DeleteRef(ref)
           \/ \E p \in Locals, ref \in Refs \cup {Base} : OpenLocalPR(p, ref)
           \/ \E p \in Forks, ref \in ForkRefs, sha \in ForkSHAs : MoveForkPR(p, ref, sha)
           \/ \E p \in PRs : ClosePR(p)
  BY <1>6, GitHubKeeps
<1>7. CASE UNCHANGED vars
  BY <1>7 DEF vars, IInv, TypeOK, PullInv, HeadInv, LegacyInv, GenuineInv,
     Genuine, CommitInv
<1> QED BY <1>1, <1>2, <1>3, <1>4, <1>5, <1>6, <1>7 DEF Next

(* The strengthened invariant holds throughout.                             *)
LEMMA Invariance == Spec => []IInv
BY InitInv, NextInv, PTL DEF Spec

(* Every variable keeps its type, for any refs, pull requests and commits.  *)
THEOREM TypeCorrect == Spec => []TypeOK
<1>1. IInv => TypeOK
  BY DEF IInv
<1> QED BY <1>1, Invariance, PTL

(* Forks, the repository and the default branch never share a Branch,       *)
(* whatever names and commits they share: FetchBranchHeads never gives a    *)
(* fork's head the SHA of a ref, nor a ref's head that of a fork, and the   *)
(* annotation keeps their identities apart when a Branch is updated.        *)
THEOREM HeadsIsolated == Spec => []Isolated
<1>1. IInv => Isolated
  BY DEF IInv, GenuineInv, Genuine, Isolated
<1> QED BY <1>1, Invariance, PTL

(* No reconcile of the heads deletes the live Branch of a default-branch    *)
(* commit that is not done.                                                 *)
THEOREM CommitBranchesSafe == Spec => []CommitBranchesKept
<1>1. IInv => CommitBranchesKept
  BY DEF IInv, CommitInv, CommitBranchesKept
<1> QED BY <1>1, Invariance, PTL
-----------------------------------------------------------------------------
(* What a reconcile has read, compared with what is there now.             *)

(* Kubernetes names are unique, in the API server and in a list.           *)
NameInv ==
  /\ \A b, c \in branches : Name(b) = Name(c) => b = c
  /\ \A b, c \in existing \cup legacy : Name(b) = Name(c) => b = c

(* Branches to retire are those of forks, listed by the snapshot and none   *)
(* of them left when the heads are ensured.                                *)
RetireInv ==
  /\ \A l \in legacy : l.tag = NoPR /\ l.pr \in Forks
  /\ pc \notin {"migrate", "confirm"} => legacy = {}

(* A live Branch was listed, or is the only one of its identity that the    *)
(* reconcile has still to look at.                                         *)
KnownInv ==
  \A b \in branches : ~b.dying /\ b.ref # Base =>
    /\ pc \in {"local", "pulls", "migrate", "confirm"} => b \in existing \cup legacy
    /\ pc \in {"ensure", "create"} => b \in existing \/ ExistingFor(b) = {}

ListedInv ==
  pc = "pulls" => \A ref \in AllRefs \ (moved \cup {Base}) : listed[ref] = local[ref]

Snapped == pc \in {"migrate", "confirm", "ensure", "create"}

(* A fork's Branch of an earlier version is kept out of the way of the heads *)
(* unless its pull request changed since the snapshot.                     *)
SeenInv == Snapped => \A b \in existing : IsLegacy(b) => b.pr \in moved

(* The heads to be ensured are the present ones, as far as they did not     *)
(* change, and those that were ensured have nothing left to look at.       *)
FreshInv ==
  Snapped =>
    /\ \A h \in heads : Identity(h) \notin moved \cup gap => h \in HeadsNow
    /\ \A h \in HeadsNow : Identity(h) \notin moved \cup gap =>
         h \in heads \/ ExistingFor(h) = {}

ReadInv == NameInv /\ RetireInv /\ KnownInv /\ ListedInv /\ SeenInv /\ FreshInv

SInv == IInv /\ ReadInv

(* The head of a pull request of a fork, and of a ref, as it is now.        *)
ForkHead(p) == [tag |-> p, ref |-> pull[p].ref, pr |-> p, sha |-> pull[p].sha]

RefHead(ref) ==
  [tag |-> NoPR, ref |-> ref,
   pr |-> IF PullsOf(ref) = {} THEN NoPR ELSE Max(PullsOf(ref)), sha |-> local[ref]]

Current(h) ==
  /\ h.ref # Base /\ h.sha # NoSHA
  /\ \/ h.ref \in AllRefs /\ h = RefHead(h.ref)
     \/ h.tag \in OpenPRs \cap Forks /\ h = ForkHead(h.tag)
-----------------------------------------------------------------------------
(* The pull request that counts for a ref is one of the repository.         *)
LEMMA MaxPull ==
  ASSUME NEW ref, PullsOf(ref) # {}
  PROVE  /\ Max(PullsOf(ref)) \in Locals /\ Max(PullsOf(ref)) \notin Forks
         /\ pull[Max(PullsOf(ref))].ref = ref
<1>1. PullsOf(ref) \in SUBSET Nat /\ IsFiniteSet(PullsOf(ref))
  BY ConstantsAssumption, FS_Subset DEF PullsOf
<1>2. Max(PullsOf(ref)) \in PullsOf(ref)
  BY <1>1, MaxExists
<1> QED BY <1>2, ConstantsAssumption DEF PullsOf

(* An answer of ListBranches that is up to date for a ref gives its head,   *)
(* with or without the SHA of its pull request.                            *)
LEMMA LocalHeadIs ==
  ASSUME NEW answer, NEW gaps, NEW ref, answer[ref] = local[ref]
  PROVE  LocalHead(answer, gaps, ref) = RefHead(ref)
<1>1. CASE PullsOf(ref) = {}
  BY <1>1 DEF LocalHead, RefHead
<1>2. CASE PullsOf(ref) # {}
  <2> DEFINE p == Max(PullsOf(ref))
  <2>1. PullSHA(p) = local[ref]
    BY <1>2, MaxPull DEF PullSHA
  <2>2. LocalHead(answer, gaps, ref)
          = [tag |-> NoPR, ref |-> ref, pr |-> p,
             sha |-> IF p \in gaps THEN answer[ref] ELSE PullSHA(p)]
    BY <1>2 DEF LocalHead
  <2> HIDE DEF p
  <2> QED BY <1>2, <2>1, <2>2 DEF RefHead, p
<1> QED BY <1>1, <1>2

(* The tag and the ref of the heads of a snapshot.                          *)
LEMMA LocalHeadKey ==
  ASSUME NEW answer, NEW gaps, NEW ref
  PROVE  LocalHead(answer, gaps, ref).tag = NoPR /\ LocalHead(answer, gaps, ref).ref = ref
<1>1. CASE PullsOf(ref) = {}
  BY <1>1 DEF LocalHead
<1>2. CASE PullsOf(ref) # {}
  BY <1>2 DEF LocalHead
<1> QED BY <1>1, <1>2

(* A head whose ref was listed up to date, and whose SHA GitHub did not     *)
(* leave out, is in the snapshot if and only if it is a present one.        *)
LEMMA SnapshotIs ==
  ASSUME NEW answer, NEW gaps, NEW h,
         h.tag = NoPR /\ h.ref \in AllRefs \ {Base} => answer[h.ref] = local[h.ref],
         h.tag \notin gaps \cap Forks
  PROVE  h \in Wanted(FetchBranchHeads(answer, gaps)) <=> Current(h)
<1>0. NoPR \notin Forks
  BY ConstantsAssumption DEF NoPR
<1>1. ASSUME h \in Wanted(FetchBranchHeads(answer, gaps)) PROVE Current(h)
  <2>1. h.ref # Base /\ h.sha # NoSHA
    BY <1>1 DEF Wanted, FetchBranchHeads
  <2>2. CASE h \in ForkHeads(gaps)
    <3>1. PICK p \in OpenPRs \cap Forks :
            h = [tag |-> p, ref |-> pull[p].ref, pr |-> p,
                 sha |-> IF p \in gaps THEN NoSHA ELSE PullSHA(p)]
      BY <2>2 DEF ForkHeads
    <3>2. h.tag = p /\ h = ForkHead(p)
      BY <2>1, <3>1 DEF ForkHead, PullSHA
    <3> QED BY <2>1, <3>2 DEF Current
  <2>3. ASSUME NEW ref \in AllRefs, h = LocalHead(answer, gaps, ref) PROVE Current(h)
    <3>1. h.tag = NoPR /\ h.ref = ref
      BY <2>3, LocalHeadKey
    <3>2. h = RefHead(ref)
      BY <2>1, <2>3, <3>1, LocalHeadIs
    <3> QED BY <2>1, <3>1, <3>2 DEF Current
  <2> QED BY <1>1, <2>2, <2>3 DEF Wanted, FetchBranchHeads
<1>2. ASSUME Current(h) PROVE h \in Wanted(FetchBranchHeads(answer, gaps))
  <2>1. h.ref # Base /\ h.sha # NoSHA
    BY <1>2 DEF Current
  <2>2. CASE h.ref \in AllRefs /\ h = RefHead(h.ref)
    <3>1. h.tag = NoPR
      BY <2>2 DEF RefHead
    <3>2. h = LocalHead(answer, gaps, h.ref)
      BY <2>1, <2>2, <3>1, LocalHeadIs
    <3> QED BY <2>1, <2>2, <3>2 DEF Wanted, FetchBranchHeads
  <2>3. CASE h.tag \in OpenPRs \cap Forks /\ h = ForkHead(h.tag)
    <3> DEFINE p == h.tag
    <3>1. h = [tag |-> p, ref |-> pull[p].ref, pr |-> p,
               sha |-> IF p \in gaps THEN NoSHA ELSE PullSHA(p)]
      BY <2>3 DEF ForkHead, PullSHA
    <3>2. h \in ForkHeads(gaps)
      BY <2>3, <3>1 DEF ForkHeads
    <3> QED BY <2>1, <3>2 DEF Wanted, FetchBranchHeads
  <2> QED BY <1>2, <2>2, <2>3 DEF Current
<1> QED BY <1>1, <1>2

(* The present heads, one for each identity.                                *)
LEMMA HeadsNowAre ==
  ASSUME TypeOK, PullInv, NEW h
  PROVE  /\ h \in HeadsNow <=> Current(h)
         /\ h \in HeadsNow => Proper(h) /\ (h.tag = NoPR => h.pr \notin Forks)
<1> DEFINE answer == [local EXCEPT ![Base] = NoSHA]
<1>1. answer \in [AllRefs -> LocalSHAs \cup {NoSHA}]
  BY DEF TypeOK, AllRefs
<1>2. \A ref \in AllRefs \ {Base} : answer[ref] = local[ref]
  BY DEF TypeOK
<1> HIDE DEF answer
<1>3. h \in HeadsNow <=> Current(h)
  BY <1>2, SnapshotIs DEF HeadsNow, answer
<1>4. h \in HeadsNow => Proper(h)
  BY <1>1, FetchProper DEF HeadsNow, answer
<1>5. ASSUME Current(h), h.tag = NoPR PROVE h.pr \notin Forks
  <2>1. NoPR \notin Forks
    BY ConstantsAssumption DEF NoPR
  <2>2. h = RefHead(h.ref)
    BY <1>5, <2>1 DEF Current
  <2>3. h.pr = IF PullsOf(h.ref) = {} THEN NoPR ELSE Max(PullsOf(h.ref))
    BY <2>2 DEF RefHead
  <2> QED BY <2>1, <2>3, MaxPull
<1> QED BY <1>3, <1>4, <1>5

(* The same as a fact about every state, the next one included.             *)
OnlyCurrent == \A h : h \in HeadsNow <=> Current(h)

LEMMA HeadsAre == IInv => OnlyCurrent
BY HeadsNowAre DEF IInv, OnlyCurrent

LEMMA HeadsWillBe == IInv' => OnlyCurrent'
BY HeadsAre, PTL

(* Two present heads of one identity are one head.                          *)
LEMMA OneHeadEach ==
  ASSUME TypeOK, PullInv, NEW g \in HeadsNow, NEW h \in HeadsNow,
         Identity(g) = Identity(h)
  PROVE  g = h
<1>1. Current(g) /\ Current(h) /\ g \in Head /\ h \in Head
  BY HeadsNowAre DEF Proper
<1>2. NoPR \notin Forks
  BY ConstantsAssumption DEF NoPR
<1>3. CASE g.tag = NoPR
  <2>1. h.tag = NoPR /\ g.ref = h.ref
    BY <1>1, <1>3, IdentityKind
  <2> QED BY <1>1, <1>2, <1>3, <2>1 DEF Current
<1>4. CASE g.tag # NoPR
  <2>1. h.tag = g.tag
    BY <1>1, <1>4, IdentityKind
  <2> QED BY <1>1, <1>4, <2>1 DEF Current, RefHead
<1> QED BY <1>3, <1>4
-----------------------------------------------------------------------------
(* Only GitHub changes the present heads.                                   *)
LEMMA HeadsSame ==
  ASSUME UNCHANGED github
  PROVE  HeadsNow' = HeadsNow /\ \A b : IsLegacy(b)' <=> IsLegacy(b)
BY DEF github, HeadsNow, Wanted, FetchBranchHeads, ForkHeads, LocalHead, PullsOf,
   PullSHA, OpenPRs, IsLegacy

(* A reconcile that ends compares nothing any more.                         *)
LEMMA ReturnReads ==
  ASSUME SInv, Return, UNCHANGED branches
  PROVE  ReadInv'
BY DEF SInv, ReadInv, NameInv, RetireInv, KnownInv, ListedInv, SeenInv, FreshInv,
   Snapped, Return, Goto, Forget

(* Deleting an object leaves the names unique and nothing live of that name. *)
LEMMA DeleteNames ==
  ASSUME TypeOK, NameInv, NEW name, DeleteUnlessDying(name)
  PROVE  /\ \A b, c \in branches' : Name(b) = Name(c) => b = c
         /\ \A b \in branches' : ~b.dying => b \in branches /\ Name(b) # name
<1> DEFINE hit == {b \in branches : Name(b) = name}
           Marked == {[b EXCEPT !.dying = TRUE] : b \in hit}
<1>1. \A b, c \in branches : Name(b) = Name(c) => b = c
  BY DEF NameInv
<1>2. \A m \in Marked : m.dying /\ Name(m) = name
  BY DEF TypeOK, Branch, Name, Identity
<1>3. \A m, n \in Marked : m = n
  BY <1>1
<1>4. CASE UNCHANGED branches /\ \E b \in branches : Name(b) = name /\ b.dying
  BY <1>1, <1>4
<1>5. CASE branches' = branches \ hit
  BY <1>1, <1>5
<1>6. CASE branches' = (branches \ hit) \cup Marked
  <2>1. \A b \in branches' : b \in Marked \/ (b \in branches /\ Name(b) # name)
    BY <1>6
  <2> HIDE DEF Marked, hit
  <2> QED BY <1>1, <1>2, <1>3, <2>1
<1> QED BY <1>4, <1>5, <1>6 DEF DeleteUnlessDying, Delete

(* What stays of the lists once a head is ensured.                          *)
LEMMA EnsuredReads ==
  ASSUME ReadInv, NEW h, Ensured(h), pc' \in {"ensure", "create"},
         pc \in {"ensure", "create"}, UNCHANGED <<github, legacy, history>>
  PROVE  /\ \A b, c \in existing' \cup legacy' : Name(b) = Name(c) => b = c
         /\ RetireInv' /\ ListedInv' /\ SeenInv' /\ FreshInv'
         /\ \A b : b \in existing \/ ExistingFor(b) = {} \/ Identity(b) = Identity(h)
                     => b \in existing' \/ ExistingFor(b)' = {}
<1> USE DEF ReadInv, Ensured
<1>1. existing' \subseteq existing /\ legacy' = legacy
  OBVIOUS
<1>2. \A b \in existing' : Identity(b) # Identity(h)
  BY DEF ExistingFor
<1>3. \A b : ExistingFor(b) = {} \/ Identity(b) = Identity(h) => ExistingFor(b)' = {}
  BY <1>1, <1>2 DEF ExistingFor
<1>4. \A b \in existing : b \in existing' \/ Identity(b) = Identity(h)
  BY DEF ExistingFor
<1>5. RetireInv' /\ ListedInv'
  BY <1>1 DEF RetireInv, ListedInv
<1>6. SeenInv'
  BY <1>1, HeadsSame DEF SeenInv, Snapped, history
<1>7. FreshInv'
  <2>1. HeadsNow' = HeadsNow
    BY HeadsSame
  <2> QED BY <1>3, <2>1 DEF FreshInv, Snapped, history
<1> QED BY <1>1, <1>3, <1>4, <1>5, <1>6, <1>7 DEF NameInv
-----------------------------------------------------------------------------
(* A list holds all that is live, and no two of a name.                     *)
LEMMA BeginReads ==
  ASSUME SInv, Begin \/ ListBranches
  PROVE  ReadInv'
<1> USE DEF SInv, ReadInv, Goto
<1>1. CASE Begin
  BY <1>1 DEF Begin, NameInv, RetireInv, KnownInv, ListedInv, SeenInv, FreshInv, Snapped
<1>2. CASE ListBranches
  <2>1. NameInv' /\ RetireInv' /\ KnownInv'
    BY <1>2 DEF ListBranches, NameInv, RetireInv, KnownInv
  <2>2. ListedInv'
    BY <1>2 DEF ListBranches, ListedInv, IInv, TypeOK, github
  <2> QED BY <1>2, <2>1, <2>2 DEF ListBranches, SeenInv, FreshInv, Snapped
<1> QED BY <1>1, <1>2

(* The snapshot holds the present heads of all that did not change.         *)
LEMMA SnapshotReads ==
  ASSUME SInv, NEW gaps, ListOpenPullRequests(gaps)
  PROVE  ReadInv'
<1> USE DEF SInv, ReadInv, ListOpenPullRequests, Goto
<1>1. existing' \cup legacy' = existing /\ pc = "pulls" /\ pc' = "migrate"
  OBVIOUS
<1>2. NameInv' /\ KnownInv' /\ ListedInv'
  BY <1>1 DEF NameInv, KnownInv, ListedInv, RetireInv
<1>3. RetireInv'
  BY <1>1 DEF RetireInv, IsLegacy
<1>4. HeadsNow' = HeadsNow /\ \A b : IsLegacy(b)' <=> IsLegacy(b)
  BY HeadsSame
<1>5. SeenInv'
  BY <1>4 DEF SeenInv
<1>6. ASSUME NEW h \in Head \cup HeadsNow, Identity(h) \notin moved \cup gap'
      PROVE  h \in heads' <=> h \in HeadsNow
  <2>1. h \in Head
    BY HeadsNowAre DEF IInv, Proper
  <2>2. h.tag \notin gaps \cap Forks
    <3>1. NoPR \notin Forks
      BY ConstantsAssumption DEF NoPR
    <3> QED BY <1>6, <3>1 DEF Identity
  <2>3. h.tag = NoPR /\ h.ref \in AllRefs \ {Base} => listed[h.ref] = local[h.ref]
    BY <1>1, <1>6 DEF ListedInv, Identity
  <2> QED BY <2>2, <2>3, SnapshotIs, HeadsNowAre DEF IInv
<1>7. heads' \subseteq Head
  BY FetchProper DEF IInv, TypeOK, Proper
<1>8. FreshInv'
  <2>1. moved' = moved
    OBVIOUS
  <2> QED BY <1>4, <1>6, <1>7, <2>1 DEF FreshInv
<1> QED BY <1>2, <1>3, <1>5, <1>8

(* Retiring a Branch leaves no live one of its name.                        *)
LEMMA RetireReads ==
  ASSUME SInv, NEW l \in legacy, RetireLegacy(l)
  PROVE  ReadInv'
<1> USE DEF SInv, ReadInv, RetireLegacy, Goto
<1>1. /\ \A b, c \in branches' : Name(b) = Name(c) => b = c
      /\ \A b \in branches' : ~b.dying => b \in branches /\ b # l
  <2>1. CASE l.dying
    BY <2>1 DEF NameInv
  <2>2. CASE ~l.dying
    BY <2>2, DeleteNames DEF IInv
  <2> QED BY <2>1, <2>2
<1>2. NameInv' /\ KnownInv' /\ RetireInv' /\ ListedInv'
  BY <1>1 DEF NameInv, KnownInv, RetireInv, ListedInv
<1>3. HeadsNow' = HeadsNow /\ \A b : IsLegacy(b)' <=> IsLegacy(b)
  BY HeadsSame
<1>4. SeenInv' /\ FreshInv'
  BY <1>3 DEF SeenInv, FreshInv, Snapped, ExistingFor, history
<1> QED BY <1>2, <1>4

(* The list and the snapshot outlive the migration.                         *)
LEMMA MigrateReads ==
  ASSUME SInv, ConfirmRetired \/ Migrated
  PROVE  ReadInv'
<1> USE DEF SInv, ReadInv, ConfirmRetired, Migrated, Goto
<1>1. /\ UNCHANGED <<github, branches, existing, heads, legacy, history>>
      /\ \/ pc = "confirm" /\ pc' = "migrate"
         \/ pc = "migrate" /\ pc' = "ensure" /\ legacy = {}
  BY DEF locals
<1>2. HeadsNow' = HeadsNow /\ \A b : IsLegacy(b)' <=> IsLegacy(b)
  BY HeadsSame
<1>3. NameInv' /\ KnownInv' /\ RetireInv' /\ ListedInv'
  BY <1>1 DEF NameInv, KnownInv, RetireInv, ListedInv
<1>4. SeenInv' /\ FreshInv'
  BY <1>1, <1>2 DEF SeenInv, FreshInv, Snapped, ExistingFor, history
<1> QED BY <1>3, <1>4

(* A head that has its Branch is done with.                                 *)
LEMMA KeepReads ==
  ASSUME SInv, NEW h \in heads, NEW b \in ExistingFor(h), KeepBranch(h, b)
  PROVE  ReadInv'
<1> USE DEF SInv, ReadInv, KeepBranch
<1>1. KnownInv' /\ NameInv'
  BY EnsuredReads DEF KnownInv, NameInv, history
<1> QED BY <1>1, EnsuredReads

(* Another number of its pull request changes neither name nor identity.    *)
LEMMA UpdateReads ==
  ASSUME SInv, NEW h \in heads, NEW b \in ExistingFor(h), UpdatePRNumber(h, b)
  PROVE  ReadInv'
<1> USE DEF SInv, ReadInv, UpdatePRNumber
<1> DEFINE new == [b EXCEPT !.pr = h.pr]
<1>1. b \in branches /\ branches' = (branches \ {b}) \cup {new}
  OBVIOUS
<1>2. Name(new) = Name(b) /\ Identity(new) = Identity(h)
  BY DEF IInv, TypeOK, Branch, Name, Identity, ExistingFor
<1> HIDE DEF new
<1>3. NameInv'
  BY <1>1, <1>2, EnsuredReads DEF NameInv
<1>4. KnownInv'
  <2>1. \A c \in branches' : c = new \/ c \in branches
    BY <1>1
  <2> QED BY <1>2, <2>1, EnsuredReads DEF KnownInv
<1> QED BY <1>3, <1>4, EnsuredReads

(* A Branch that is replaced is no longer live.                             *)
LEMMA DeleteOldReads ==
  ASSUME SInv, NEW h \in heads, NEW b \in ExistingFor(h), DeleteOldSHA(h, b)
  PROVE  ReadInv'
<1> USE DEF SInv, ReadInv, DeleteOldSHA, Goto
<1>1. /\ \A c, d \in branches' : Name(c) = Name(d) => c = d
      /\ \A c \in branches' : ~c.dying => c \in branches
  BY DeleteNames DEF IInv
<1>2. KnownInv' /\ NameInv'
  BY <1>1, EnsuredReads DEF KnownInv, NameInv
<1> QED BY <1>2, EnsuredReads

(* A new Branch is the only one of its identity that was not looked at.     *)
LEMMA CreateReads ==
  ASSUME SInv, NEW h, CreateBranch(h)
  PROVE  ReadInv'
<1> USE DEF SInv, ReadInv, CreateBranch, Goto
<1>1. Name(Live(h)) = Name(h) /\ Identity(Live(h)) = Identity(h)
  BY DEF Live, Name, Identity
<1>2. \A b \in branches : Name(b) # Name(h)
  BY DEF Names
<1>3. pc \in {"ensure", "create"}
  BY DEF Creates
<1>4. NameInv'
  BY <1>1, <1>2, <1>3, EnsuredReads DEF NameInv
<1>5. KnownInv'
  <2>1. \A c \in branches' : c = Live(h) \/ c \in branches
    OBVIOUS
  <2> QED BY <1>1, <1>3, <2>1, EnsuredReads DEF KnownInv
<1> QED BY <1>3, <1>4, <1>5, EnsuredReads

(* A stale Branch goes from the list when it goes.                          *)
LEMMA StaleReads ==
  ASSUME SInv, NEW b \in Stale, DeleteStale(b)
  PROVE  ReadInv'
<1> USE DEF SInv, ReadInv, DeleteStale
<1>1. /\ \A c, d \in branches' : Name(c) = Name(d) => c = d
      /\ \A c \in branches' : ~c.dying => c \in branches /\ c # b
  BY DeleteNames DEF IInv
<1>2. \A h : ExistingFor(h) = {} => ExistingFor(h)' = {}
  BY DEF ExistingFor
<1>3. NameInv' /\ KnownInv' /\ RetireInv' /\ ListedInv'
  BY <1>1, <1>2 DEF NameInv, KnownInv, RetireInv, ListedInv
<1>4. HeadsNow' = HeadsNow /\ \A c : IsLegacy(c)' <=> IsLegacy(c)
  BY HeadsSame
<1>5. SeenInv' /\ FreshInv'
  BY <1>2, <1>4 DEF SeenInv, FreshInv, Snapped, history
<1> QED BY <1>3, <1>5

(* Every step of a reconcile.                                               *)
LEMMA ReconcileReads ==
  ASSUME SInv, Reconcile \/ Fault \/ (\E gaps : ListOpenPullRequests(gaps))
  PROVE  ReadInv'
<1>1. CASE \/ MigrationPending \/ Synced \/ Fault
           \/ (\E h \in heads : \E b \in ExistingFor(h) : UpdateConflict(h, b))
           \/ (\E h \in heads \cup {item} : NameTaken(h))
  BY <1>1, ReturnReads DEF MigrationPending, Synced, Fault, UpdateConflict, NameTaken
<1> QED
  BY <1>1, BeginReads, SnapshotReads, RetireReads, MigrateReads, KeepReads, UpdateReads,
     DeleteOldReads, CreateReads, StaleReads DEF Reconcile

(* The BranchReconciler, and the reconcile of the default branch, bring no  *)
(* Branch of another ref to life.                                          *)
LEMMA OthersRead ==
  ASSUME SInv, CommitBranch \/ \E b \in branches : FinalizeBranch(b) \/ CommitDone(b)
  PROVE  ReadInv'
<1> USE DEF SInv, ReadInv
<1>1. UNCHANGED <<github, pc, locals, history>>
  BY DEF CommitBranch, FinalizeBranch, CommitDone
<1>2. /\ \A b, c \in branches' : Name(b) = Name(c) => b = c
      /\ \A b \in branches' : ~b.dying /\ b.ref # Base => b \in branches
  <2>1. CASE CommitBranch
    <3> DEFINE commit == [tag |-> NoPR, ref |-> Base, pr |-> NoPR, sha |-> Tip]
    <3>1. Name(Live(commit)) = Name(commit) /\ Live(commit).ref = Base
      BY DEF Live, Name, Identity
    <3>2. /\ branches' = branches \cup {Live(commit)}
          /\ \A b \in branches : Name(b) # Name(commit)
      BY <2>1 DEF CommitBranch, Names
    <3> HIDE DEF commit
    <3> QED BY <3>1, <3>2 DEF NameInv
  <2>2. ASSUME NEW b \in branches, FinalizeBranch(b)
        PROVE  branches' \subseteq branches
    BY <2>2 DEF FinalizeBranch
  <2>3. ASSUME NEW b \in branches, CommitDone(b)
        PROVE  DeleteUnlessDying(Name(b))
    BY <2>3 DEF CommitDone
  <2> QED BY <2>1, <2>2, <2>3, DeleteNames DEF IInv, NameInv
<1>3. HeadsNow' = HeadsNow /\ \A b : IsLegacy(b)' <=> IsLegacy(b)
  BY <1>1, HeadsSame
<1>4. NameInv' /\ KnownInv' /\ RetireInv'
  BY <1>1, <1>2 DEF NameInv, KnownInv, RetireInv, ExistingFor, locals
<1>5. ListedInv' /\ SeenInv' /\ FreshInv'
  BY <1>1, <1>3 DEF ListedInv, SeenInv, FreshInv, Snapped, ExistingFor, locals, history, github
<1> QED BY <1>4, <1>5
-----------------------------------------------------------------------------
(* A change on GitHub concerns some identities, and only those.             *)
Concerns(ids) ==
  /\ Edit(ids)
  /\ \A ref \in AllRefs \ ids : local'[ref] = local[ref] /\ PullsOf(ref)' = PullsOf(ref)
  /\ \A p \in Forks \ ids : pull'[p] = pull[p]

LEMMA EditConcerns ==
  ASSUME TypeOK,
         \/ \E ref \in Refs, sha \in LocalSHAs : Push(ref, sha)
         \/ \E ref \in Refs : DeleteRef(ref)
         \/ \E p \in Locals, ref \in Refs \cup {Base} : OpenLocalPR(p, ref)
         \/ \E p \in Forks, ref \in ForkRefs, sha \in ForkSHAs : MoveForkPR(p, ref, sha)
         \/ \E p \in PRs : ClosePR(p)
  PROVE  \E ids : Concerns(ids)
<1>0. /\ local \in [AllRefs -> LocalSHAs \cup {NoSHA}] /\ DOMAIN pull = PRs
      /\ pull = [p \in PRs |-> pull[p]]
  BY DEF TypeOK
<1>a. \A p \in Locals : p \in PRs /\ p \notin Forks
  BY ConstantsAssumption DEF PRs
<1>1. ASSUME NEW ref \in Refs, NEW sha \in LocalSHAs, Push(ref, sha)
      PROVE  Concerns({ref})
  BY <1>0, <1>1 DEF Push, Concerns, PullsOf, OpenPRs
<1>2. ASSUME NEW ref \in Refs, DeleteRef(ref)
      PROVE  Concerns({ref})
  <2>1. \A p \in PRs : pull'[p] = IF p \in PullsOf(ref) THEN Closed ELSE pull[p]
    BY <1>2 DEF DeleteRef
  <2>2. \A p \in PRs : p \in PullsOf(ref) => pull[p].ref = ref /\ ~pull'[p].open /\ p \in Locals
    BY <2>1 DEF PullsOf, Closed
  <2>3. \A q \in AllRefs \ {ref} : PullsOf(q)' = PullsOf(q)
    BY <1>a, <2>1, <2>2 DEF PullsOf, OpenPRs
  <2>4. \A p \in Forks : pull'[p] = pull[p]
    BY <1>a, <2>1, <2>2 DEF PRs
  <2> QED BY <1>0, <1>2, <2>3, <2>4 DEF DeleteRef, Concerns
<1>3. ASSUME NEW p \in Locals, NEW ref \in Refs \cup {Base}, OpenLocalPR(p, ref)
      PROVE  Concerns({ref})
  <2>1. /\ pull'[p].ref = ref /\ ~pull[p].open
        /\ \A q \in PRs : q # p => pull'[q] = pull[q]
    BY <1>0, <1>3, <1>a DEF OpenLocalPR, Opened
  <2>2. \A r \in AllRefs \ {ref} : PullsOf(r)' = PullsOf(r)
    BY <2>1 DEF PullsOf, OpenPRs
  <2> QED BY <1>3, <1>a, <2>1, <2>2 DEF OpenLocalPR, Concerns, PRs
<1>4. ASSUME NEW p \in Forks, NEW ref \in ForkRefs, NEW sha \in ForkSHAs,
             MoveForkPR(p, ref, sha)
      PROVE  Concerns({p})
  <2>1. \A q \in PRs : q # p => pull'[q] = pull[q]
    BY <1>0, <1>4 DEF MoveForkPR
  <2>2. \A r \in AllRefs : PullsOf(r)' = PullsOf(r)
    BY <1>a, <2>1 DEF PullsOf, OpenPRs
  <2> QED BY <1>4, <2>1, <2>2 DEF MoveForkPR, Concerns, PRs
<1>5. ASSUME NEW p \in PRs, ClosePR(p)
      PROVE  Concerns({IF p \in Forks THEN p ELSE pull[p].ref})
  <2>1. /\ ~pull'[p].open /\ pull[p].open
        /\ \A q \in PRs : q # p => pull'[q] = pull[q]
    BY <1>0, <1>5 DEF ClosePR, Closed
  <2>2. \A r \in AllRefs : p \in Forks \/ r # pull[p].ref => PullsOf(r)' = PullsOf(r)
    BY <1>a, <2>1 DEF PullsOf, OpenPRs
  <2> QED BY <1>5, <2>1, <2>2 DEF ClosePR, Concerns, PRs
<1> QED BY <1>1, <1>2, <1>3, <1>4, <1>5

(* The heads it does not concern are the same as before.                    *)
LEMMA HeadsStay ==
  ASSUME IInv, IInv', NEW ids, Concerns(ids), NEW h, Identity(h) \notin ids
  PROVE  h \in HeadsNow' <=> h \in HeadsNow
<1>1. \A g : g \in HeadsNow <=> Current(g)
  BY HeadsNowAre DEF IInv
<1>2. h \in HeadsNow' <=> Current(h)'
  BY HeadsWillBe DEF OnlyCurrent
<1>3. NoPR \notin Forks
  BY ConstantsAssumption DEF NoPR
<1>4. CASE h.tag = NoPR
  <2>1. h.ref \in AllRefs => local'[h.ref] = local[h.ref] /\ PullsOf(h.ref)' = PullsOf(h.ref)
    BY <1>4 DEF Concerns, Identity
  <2> QED BY <1>1, <1>2, <1>3, <1>4, <2>1 DEF Current, RefHead
<1>5. CASE h.tag # NoPR
  <2>1. h.tag \in Forks => pull'[h.tag] = pull[h.tag]
    BY <1>5 DEF Concerns, Identity
  <2> QED BY <1>1, <1>2, <1>5, <2>1 DEF Current, RefHead, ForkHead, OpenPRs
<1> QED BY <1>4, <1>5

(* Whatever GitHub changes, a reconcile is told in the history.             *)
LEMMA GitHubReads ==
  ASSUME SInv, IInv', NEW ids, Concerns(ids)
  PROVE  ReadInv'
<1> USE DEF SInv, ReadInv
<1>1. /\ UNCHANGED <<branches, pc, existing, listed, heads, legacy, gap>>
      /\ pc # "idle" => moved' = moved \cup ids
  BY DEF Concerns, Edit, locals
<1>2. NameInv' /\ KnownInv' /\ RetireInv'
  BY <1>1 DEF NameInv, KnownInv, RetireInv, ExistingFor
<1>3. ListedInv'
  BY <1>1 DEF ListedInv, Concerns
<1>4. SeenInv'
  <2>1. \A b : b.pr \in Forks \ ids => (IsLegacy(b)' <=> IsLegacy(b))
    BY DEF Concerns, IsLegacy, OpenPRs
  <2>2. \A b : IsLegacy(b)' => b.pr \in Forks
    BY DEF IsLegacy
  <2> QED BY <1>1, <2>1, <2>2 DEF SeenInv, Snapped
<1>5. FreshInv'
  BY <1>1, HeadsStay DEF FreshInv, Snapped, ExistingFor
<1> QED BY <1>2, <1>3, <1>4, <1>5
-----------------------------------------------------------------------------
(* At first nothing has been read, and there is one Branch at most.         *)
LEMMA InitReads == Init => ReadInv
BY DEF Init, ReadInv, NameInv, RetireInv, KnownInv, ListedInv, SeenInv, FreshInv, Snapped

(* What a reconcile has read stays comparable with what is there.           *)
LEMMA NextReads == SInv /\ [Next]_vars => SInv'
<1> SUFFICES ASSUME SInv, [Next]_vars PROVE ReadInv'
  BY NextInv DEF SInv
<1>0. IInv /\ IInv'
  BY NextInv DEF SInv
<1>1. CASE \/ Reconcile \/ Fault
           \/ \E gaps \in SUBSET OpenPRs : gaps # {} /\ ListOpenPullRequests(gaps)
  BY <1>1, ReconcileReads
<1>2. CASE CommitBranch \/ \E b \in branches : FinalizeBranch(b) \/ CommitDone(b)
  BY <1>2, OthersRead
<1>3. CASE \/ \E ref \in Refs, sha \in LocalSHAs : Push(ref, sha)
           \/ \E ref \in Refs : DeleteRef(ref)
           \/ \E p \in Locals, ref \in Refs \cup {Base} : OpenLocalPR(p, ref)
           \/ \E p \in Forks, ref \in ForkRefs, sha \in ForkSHAs : MoveForkPR(p, ref, sha)
           \/ \E p \in PRs : ClosePR(p)
  <2>1. TypeOK
    BY <1>0 DEF IInv
  <2>2. PICK ids : Concerns(ids)
    BY <1>3, <2>1, EditConcerns
  <2> QED BY <1>0, <2>2, GitHubReads
<1>4. CASE UNCHANGED vars
  <2>1. /\ UNCHANGED <<branches, pc, existing, listed, local, heads, legacy, moved, gap>>
        /\ UNCHANGED github
    BY <1>4 DEF vars, github
  <2>2. HeadsNow' = HeadsNow /\ \A b : IsLegacy(b)' <=> IsLegacy(b)
    BY <2>1, HeadsSame
  <2> QED BY <2>1, <2>2 DEF SInv, ReadInv, NameInv, RetireInv, KnownInv, ListedInv,
       SeenInv, FreshInv, Snapped, ExistingFor
<1> QED BY <1>1, <1>2, <1>3, <1>4 DEF Next

LEMMA ReadInvariance == Spec => []SInv
<1>1. Init => SInv
  BY InitInv, InitReads DEF SInv
<1> QED BY <1>1, NextReads, PTL DEF Spec
-----------------------------------------------------------------------------
(* The Branches of the next state are those of this one, some of them       *)
(* marked or gone, but for what three actions write.                        *)
SameSpec(b, c) == b.tag = c.tag /\ b.ref = c.ref /\ b.pr = c.pr /\ b.sha = c.sha

LEMMA WrittenBranches ==
  ASSUME TypeOK, [Next]_vars
  PROVE  \/ \A c \in branches' : \E d \in branches : SameSpec(c, d)
         \/ CommitBranch
         \/ \E h \in heads \cup {item} : CreateBranch(h)
         \/ \E h \in heads : \E b \in ExistingFor(h) : UpdatePRNumber(h, b)
<1> DEFINE Only == \A c \in branches' : \E d \in branches : SameSpec(c, d)
<1>1. branches' \subseteq branches => Only
  BY DEF SameSpec
<1>2. ASSUME NEW name, DeleteUnlessDying(name) PROVE Only
  BY <1>2, DeleteEffect DEF SameSpec
<1> HIDE DEF Only
<1>3. ASSUME \/ UNCHANGED vars \/ Fault
             \/ \E gaps \in SUBSET OpenPRs : gaps # {} /\ ListOpenPullRequests(gaps)
             \/ \E b \in branches : FinalizeBranch(b)
      PROVE  Only
  BY <1>1, <1>3 DEF vars, Fault, ListOpenPullRequests, FinalizeBranch
<1>4. ASSUME \E b \in branches : CommitDone(b)
      PROVE  Only
  BY <1>2, <1>4 DEF CommitDone
<1>5. ASSUME \/ \E ref \in Refs, sha \in LocalSHAs : Push(ref, sha)
             \/ \E ref \in Refs : DeleteRef(ref)
             \/ \E p \in Locals, ref \in Refs \cup {Base} : OpenLocalPR(p, ref)
             \/ \E p \in Forks, ref \in ForkRefs, sha \in ForkSHAs : MoveForkPR(p, ref, sha)
             \/ \E p \in PRs : ClosePR(p)
      PROVE  Only
  BY <1>1, <1>5 DEF Push, DeleteRef, OpenLocalPR, MoveForkPR, ClosePR, Edit
<1>6. CASE Reconcile
  <2>1. ASSUME \/ Begin \/ ListBranches \/ ListOpenPullRequests({})
               \/ ConfirmRetired \/ MigrationPending \/ Migrated \/ Synced
               \/ (\E h \in heads : \E b \in ExistingFor(h) : KeepBranch(h, b))
               \/ (\E h \in heads : \E b \in ExistingFor(h) : UpdateConflict(h, b))
               \/ (\E h \in heads \cup {item} : NameTaken(h))
        PROVE  Only
    BY <1>1, <2>1 DEF Begin, ListBranches, ListOpenPullRequests, ConfirmRetired,
       MigrationPending, Migrated, Synced, KeepBranch, UpdateConflict, NameTaken
  <2>2. ASSUME \/ \E b \in legacy : RetireLegacy(b)
               \/ \E h \in heads : \E b \in ExistingFor(h) : DeleteOldSHA(h, b)
               \/ \E b \in Stale : DeleteStale(b)
        PROVE  Only
    <3>1. ASSUME NEW b, RetireLegacy(b) PROVE Only
      <4>1. UNCHANGED branches \/ DeleteUnlessDying(Name(b))
        BY <3>1 DEF RetireLegacy
      <4> QED BY <1>1, <1>2, <4>1
    <3>2. ASSUME NEW h, NEW b, DeleteOldSHA(h, b) PROVE Only
      <4>1. DeleteUnlessDying(Name(b))
        BY <3>2 DEF DeleteOldSHA
      <4> QED BY <1>2, <4>1
    <3>3. ASSUME NEW b, DeleteStale(b) PROVE Only
      <4>1. DeleteUnlessDying(Name(b))
        BY <3>3 DEF DeleteStale
      <4> QED BY <1>2, <4>1
    <3> QED BY <2>2, <3>1, <3>2, <3>3
  <2> QED BY <1>6, <2>1, <2>2 DEF Reconcile, Only
<1> QED BY <1>3, <1>4, <1>5, <1>6 DEF Next, Only

(* A fork's Branch of an earlier version never becomes a ref's: its name is *)
(* taken until it is gone, and the reconcile that would write the number of *)
(* a pull request into it has set it aside, unless the pull request changed *)
(* after the snapshot.                                                      *)
THEOREM LegacyNeverAdopted == Spec => LegacyNotAdopted
<1>1. SInv /\ [Next]_vars =>
        [\A b \in branches :
           IsLegacy(b) /\ b.pr \notin moved
             => ~\E c \in branches' : Name(c) = Name(b) /\ c.pr \notin Forks]_vars
  <2> SUFFICES ASSUME SInv, [Next]_vars, NEW b \in branches, IsLegacy(b),
                      b.pr \notin moved, NEW c \in branches', Name(c) = Name(b),
                      c.pr \notin Forks
               PROVE  FALSE
    OBVIOUS
  <2>0. TypeOK /\ NameInv /\ SeenInv
    BY DEF SInv, IInv, ReadInv
  <2>1. b.pr \in Forks /\ Identity(b) # Base
    BY DEF IsLegacy, Identity
  <2>2. CASE \A d \in branches' : \E e \in branches : SameSpec(d, e)
    <3>1. PICK e \in branches : SameSpec(c, e)
      BY <2>2
    <3>2. Name(e) = Name(b) /\ e.pr \notin Forks
      BY <3>1 DEF SameSpec, Name, Identity
    <3> QED BY <2>0, <2>1, <3>2 DEF NameInv
  <2>3. \A d \in branches : d.pr \notin Forks => Name(d) # Name(b)
    BY <2>0, <2>1 DEF NameInv
  <2>4. CASE CommitBranch
    <3> DEFINE commit == [tag |-> NoPR, ref |-> Base, pr |-> NoPR, sha |-> Tip]
    <3>1. Identity(Live(commit)) = Base /\ branches' = branches \cup {Live(commit)}
      BY <2>4 DEF CommitBranch, Live, Identity
    <3> HIDE DEF commit
    <3> QED BY <2>1, <2>3, <3>1 DEF Name
  <2>5. ASSUME NEW h \in heads \cup {item}, CreateBranch(h) PROVE FALSE
    <3>1. Name(Live(h)) = Name(h)
      BY DEF Live, Name, Identity
    <3>2. branches' = branches \cup {Live(h)} /\ Name(h) # Name(b)
      BY <2>5 DEF CreateBranch, Names
    <3> QED BY <2>3, <3>1, <3>2
  <2>6. ASSUME NEW h \in heads, NEW d \in ExistingFor(h), UpdatePRNumber(h, d) PROVE FALSE
    <3> DEFINE new == [d EXCEPT !.pr = h.pr]
    <3>1. /\ d \in branches /\ d \in existing /\ pc = "ensure"
          /\ branches' = (branches \ {d}) \cup {new}
      BY <2>6 DEF UpdatePRNumber, ExistingFor
    <3>2. Name(new) = Name(d)
      BY <2>0, <3>1 DEF TypeOK, Branch, Name, Identity
    <3> HIDE DEF new
    <3>3. b = d
      BY <2>0, <2>3, <3>1, <3>2 DEF NameInv
    <3> QED BY <2>0, <3>1, <3>3 DEF SeenInv, Snapped
  <2> QED BY <2>0, <2>2, <2>4, <2>5, <2>6, WrittenBranches
<1> QED BY <1>1, ReadInvariance, PTL DEF Spec, LegacyNotAdopted

(* A live Branch is written over or deleted by the reconcile of its head,   *)
(* the retirement of its name, or because no head has it.                   *)
LEMMA LostBranches ==
  ASSUME TypeOK, [Next]_vars, NEW b \in branches, b \notin branches'
  PROVE  \/ \E l \in legacy : pc = "migrate" /\ Name(l) = Name(b)
         \/ \E h \in heads : b \in ExistingFor(h) /\ UpdatePRNumber(h, b)
         \/ \E h \in heads : \E c \in ExistingFor(h) :
              DeleteOldSHA(h, c) /\ Name(c) = Name(b)
         \/ \E c \in Stale : DeleteStale(c) /\ Name(c) = Name(b)
         \/ b.dying
         \/ \E c \in branches : c.ref = Base /\ Name(c) = Name(b)
<1> DEFINE Lost == \/ \E l \in legacy : pc = "migrate" /\ Name(l) = Name(b)
                   \/ \E h \in heads : b \in ExistingFor(h) /\ UpdatePRNumber(h, b)
                   \/ \E h \in heads : \E c \in ExistingFor(h) :
                        DeleteOldSHA(h, c) /\ Name(c) = Name(b)
                   \/ \E c \in Stale : DeleteStale(c) /\ Name(c) = Name(b)
                   \/ b.dying
                   \/ \E c \in branches : c.ref = Base /\ Name(c) = Name(b)
<1>1. ASSUME NEW name, DeleteUnlessDying(name) PROVE Name(b) = name
  BY <1>1, DeleteEffect
<1>2. ASSUME NEW l \in legacy, RetireLegacy(l) PROVE Lost
  <2>1. pc = "migrate" /\ DeleteUnlessDying(Name(l))
    BY <1>2 DEF RetireLegacy
  <2> QED BY <1>1, <2>1
<1>3. ASSUME NEW h \in heads, NEW c \in ExistingFor(h), UpdatePRNumber(h, c) PROVE Lost
  <2>1. b = c
    BY <1>3 DEF UpdatePRNumber
  <2> QED BY <1>3, <2>1
<1>4. ASSUME NEW h \in heads, NEW c \in ExistingFor(h), DeleteOldSHA(h, c) PROVE Lost
  <2>1. DeleteUnlessDying(Name(c))
    BY <1>4 DEF DeleteOldSHA
  <2> QED BY <1>1, <1>4, <2>1
<1>5. ASSUME NEW c \in Stale, DeleteStale(c) PROVE Lost
  <2>1. DeleteUnlessDying(Name(c))
    BY <1>5 DEF DeleteStale
  <2> QED BY <1>1, <1>5, <2>1
<1>6. ASSUME NEW c \in branches, FinalizeBranch(c) PROVE Lost
  BY <1>6 DEF FinalizeBranch
<1>7. ASSUME NEW c \in branches, CommitDone(c) PROVE Lost
  <2>1. c.ref = Base /\ DeleteUnlessDying(Name(c))
    BY <1>7 DEF CommitDone
  <2> QED BY <1>1, <2>1
<1>8. ASSUME NEW h, CreateBranch(h) PROVE FALSE
  BY <1>8 DEF CreateBranch
<1> HIDE DEF Lost
<1>9. ASSUME \/ UNCHANGED vars \/ Fault \/ CommitBranch
             \/ \E gaps \in SUBSET OpenPRs : gaps # {} /\ ListOpenPullRequests(gaps)
      PROVE  Lost
  BY <1>9 DEF vars, Fault, CommitBranch, ListOpenPullRequests
<1>10. ASSUME \/ \E ref \in Refs, sha \in LocalSHAs : Push(ref, sha)
              \/ \E ref \in Refs : DeleteRef(ref)
              \/ \E p \in Locals, ref \in Refs \cup {Base} : OpenLocalPR(p, ref)
              \/ \E p \in Forks, ref \in ForkRefs, sha \in ForkSHAs : MoveForkPR(p, ref, sha)
              \/ \E p \in PRs : ClosePR(p)
       PROVE  Lost
  BY <1>10 DEF Push, DeleteRef, OpenLocalPR, MoveForkPR, ClosePR, Edit
<1>11. ASSUME Reconcile
       PROVE  Lost
  <2>1. ASSUME \/ Begin \/ ListBranches \/ ListOpenPullRequests({})
               \/ ConfirmRetired \/ MigrationPending \/ Migrated \/ Synced
               \/ (\E h \in heads : \E c \in ExistingFor(h) : KeepBranch(h, c))
               \/ (\E h \in heads : \E c \in ExistingFor(h) : UpdateConflict(h, c))
               \/ (\E h \in heads \cup {item} : NameTaken(h))
        PROVE  Lost
    BY <2>1 DEF Begin, ListBranches, ListOpenPullRequests, ConfirmRetired,
       MigrationPending, Migrated, Synced, KeepBranch, UpdateConflict, NameTaken
  <2> QED BY <1>2, <1>3, <1>4, <1>5, <1>8, <1>11, <2>1 DEF Reconcile
<1>12. Lost
  BY <1>6, <1>7, <1>9, <1>10, <1>11 DEF Next
<1> QED BY <1>12 DEF Lost

(* The Branch of a head that does not change stays, or another takes its    *)
(* place in the same step: the head the reconcile ensures for its identity  *)
(* is the present one, the Branch it looks at is this one and matches, and  *)
(* nothing of its identity is left when stale Branches are deleted.         *)
THEOREM ServedHeadStays == Spec => ServedHeadKept
<1>1. SInv /\ [Next]_vars =>
        [\A h \in HeadsNow :
           Identity(h) \notin moved \cup gap /\ (\E b \in branches : Serves(b, h))
             => \E b \in branches' : Serves(b, h)]_vars
  <2> SUFFICES ASSUME SInv, [Next]_vars, NEW h \in HeadsNow,
                      Identity(h) \notin moved \cup gap,
                      NEW b \in branches, Serves(b, h), b \notin branches'
               PROVE  \E c \in branches' : Serves(c, h)
    OBVIOUS
  <2>0. /\ TypeOK /\ PullInv /\ GenuineInv
        /\ NameInv /\ RetireInv /\ KnownInv /\ FreshInv
    BY DEF SInv, IInv, ReadInv
  <2>1. Proper(h) /\ (h.tag = NoPR => h.pr \notin Forks)
    BY <2>0, HeadsNowAre
  <2>2. /\ ~b.dying /\ b.ref = h.ref /\ b.sha = h.sha /\ b.ref # Base
        /\ Name(b) = Name(h) /\ Identity(b) = Identity(h) /\ b.tag = h.tag
        /\ Identity(h) # Base
    <3>1. b \in Branch /\ h \in Head /\ h.ref # Base
      BY <2>0, <2>1 DEF TypeOK, Proper
    <3>2. Identity(b) = Identity(h) /\ b.sha = h.sha
      BY NameIdentity DEF Serves
    <3>3. b.tag = h.tag
      BY <3>1, <3>2, IdentityKind
    <3> QED BY <2>1, <3>1, <3>2, <3>3, ProperIdentity DEF Serves
  <2>3. ASSUME NEW g \in heads, Identity(g) = Identity(b), pc = "ensure" PROVE g = h
    <3>1. g \in HeadsNow
      BY <2>0, <2>2, <2>3 DEF FreshInv, Snapped
    <3> QED BY <2>0, <2>2, <2>3, <3>1, OneHeadEach
  <2>4. ASSUME NEW l \in legacy, pc = "migrate", Name(l) = Name(b) PROVE FALSE
    <3>1. b \in existing \cup legacy
      BY <2>0, <2>2, <2>4 DEF KnownInv
    <3>2. b = l
      BY <2>0, <2>4, <3>1 DEF NameInv
    <3> QED BY <2>0, <3>2 DEF RetireInv, Serves
  <2>5. ASSUME NEW g \in heads, b \in ExistingFor(g), UpdatePRNumber(g, b)
        PROVE  \E c \in branches' : Serves(c, h)
    <3> DEFINE new == [b EXCEPT !.pr = g.pr]
    <3>1. new \in branches' /\ g = h
      BY <2>3, <2>5 DEF UpdatePRNumber, ExistingFor
    <3>2. b \in Branch
      BY <2>0 DEF TypeOK
    <3>3. new.tag = b.tag /\ new.ref = b.ref /\ new.sha = b.sha /\ new.dying = b.dying
      BY <3>2 DEF Branch
    <3>4. new.pr = h.pr
      BY <3>1, <3>2 DEF Branch
    <3> HIDE DEF new
    <3>5. Serves(new, h)
      BY <2>1, <2>2, <3>3, <3>4 DEF Serves, Name, Identity
    <3> QED BY <3>1, <3>5
  <2>6. ASSUME NEW g \in heads, NEW c \in ExistingFor(g), DeleteOldSHA(g, c),
               Name(c) = Name(b)
        PROVE  FALSE
    <3>1. /\ pc = "ensure" /\ ~Matches(c, g)
          /\ c \in existing /\ Identity(c) = Identity(g) /\ Identity(c) = Identity(b)
      BY <2>6, NameIdentity DEF DeleteOldSHA, ExistingFor
    <3>2. g = h
      BY <2>3, <3>1
    <3>3. b \in existing
      BY <2>0, <2>2, <3>1 DEF KnownInv, ExistingFor
    <3>4. b = c
      BY <2>0, <2>6, <3>1, <3>3 DEF NameInv
    <3> QED BY <2>2, <3>1, <3>2, <3>4 DEF Matches
  <2>7. ASSUME NEW c \in Stale, DeleteStale(c), Name(c) = Name(b) PROVE FALSE
    <3>1. pc = "ensure" /\ heads = {} /\ c \in existing /\ Identity(c) = Identity(h)
      BY <2>2, <2>7, NameIdentity DEF DeleteStale, Stale
    <3> QED BY <2>0, <3>1 DEF FreshInv, Snapped, ExistingFor
  <2>8. ASSUME NEW c \in branches, c.ref = Base, Name(c) = Name(b) PROVE FALSE
    <3>1. c.tag = NoPR
      BY <2>0, <2>8 DEF GenuineInv, Genuine
    <3>2. Identity(c) = Base /\ Identity(c) = Identity(h)
      BY <2>2, <2>8, <3>1, NameIdentity DEF Identity
    <3> QED BY <2>2, <3>2
  <2> QED BY <2>0, <2>2, <2>4, <2>5, <2>6, <2>7, <2>8, LostBranches
<1> QED BY <1>1, ReadInvariance, PTL DEF Spec, ServedHeadKept
=============================================================================
