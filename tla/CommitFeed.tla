----------------------------- MODULE CommitFeed -----------------------------
(***************************************************************************)
(* What RepositoryReconciler promises about the commits of the default     *)
(* branch (docs/controllers/repository-controller.md, comments of          *)
(* internal/repository/sync/github_sync.go): a cursor that starts at a     *)
(* cutover, moves again only behind the commits that were delivered -- got *)
(* a Branch of their own -- and jumps only when a new reset is applied.    *)
(* Nothing is said of API calls, caches, pages or retries.                 *)
(***************************************************************************)
EXTENDS Naturals

CONSTANTS Commits, NoSHA

VARIABLES
  past,      \* past[c]: c and its ancestors; {} until c is published
  lost,      \* commits a history rewrite has made unreachable
  cursor,    \* the stored default-branch SHA
  applied,   \* the last reset that was applied
  delivered  \* commits that were given a Branch

feed == <<past, lost, cursor, applied, delivered>>

Past(c) == IF c = NoSHA THEN {} ELSE past[c]

Init ==
  /\ past = [c \in Commits |-> {}] /\ lost = {}
  /\ cursor = NoSHA /\ applied = 0 /\ delivered = {}

(* GitHub moves on: what was published keeps its history, *)
Publish ==
  /\ \A c \in Commits : past[c] # {} => past'[c] = past[c]
  /\ lost \subseteq lost'
  /\ UNCHANGED <<cursor, applied, delivered>>

Deliver(c) ==
  /\ past[c] # {}
  /\ delivered' = delivered \cup {c}
  /\ UNCHANGED <<past, lost, cursor, applied>>

(* The first cutover, or the one of a reset that was not applied before. *)
Cutover(c) ==
  /\ past[c] # {}
  /\ cursor = NoSHA \/ applied' > applied
  /\ applied' >= applied
  /\ cursor' = c
  /\ UNCHANGED <<past, lost, delivered>>

(* The cursor never passes a commit that was not delivered, unless history *)
(* was rewritten so that nothing leads from the cursor to the new head.    *)
Advance(c) ==
  /\ c \in delivered
  /\ Past(c) \ Past(cursor) \subseteq delivered \/ cursor \in lost
  /\ cursor' = c
  /\ UNCHANGED <<past, lost, applied, delivered>>

Next ==
  \/ Publish
  \/ \E c \in Commits : Deliver(c) \/ Cutover(c) \/ Advance(c)

Spec == Init /\ [][Next]_feed
=============================================================================
