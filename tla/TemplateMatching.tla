-------------------------- MODULE TemplateMatching --------------------------
(***************************************************************************)
(* Which Workflows the changed files of a Branch call for: matchTemplates, *)
(* matchTemplate, workflowTargets and splitFolderLevel of                  *)
(* internal/controller/branch_controller.go.  The code works on slices and *)
(* maps that it sorts and makes unique; here they are sets, so that the    *)
(* order of the fan-out is left open.                                      *)
(***************************************************************************)
CONSTANTS
  Files,      \* names that commits change
  FolderOf,   \* FolderOf[f]: path.Dir of a name, Root for a file at the top
  Templates   \* names of WorkflowTemplates

Root == "."

ASSUME FolderAssumption == FolderOf = [f \in Files |-> FolderOf[f]]

(* A WorkflowMatch.  A glob is the set of the names doublestar.Match takes *)
(* it to match; an executionUnit left out is "".                           *)
Units == {"folder", "repository", "file"}
WorkflowMatch == [paths : SUBSET SUBSET Files, executionUnit : Units \cup {""}]

Paths == Files \cup {FolderOf[f] : f \in Files} \cup {Root}
Target == [template : Templates, path : Paths, executionUnit : Units]

MatchTemplate(match, changed) ==
  {file \in changed : \E pattern \in match.paths : file \in pattern}

(* Templates without a matching file get no group. *)
MatchTemplates(templates, changed) ==
  [t \in {t \in DOMAIN templates : MatchTemplate(templates[t], changed) # {}} |->
     [match |-> templates[t], files |-> MatchTemplate(templates[t], changed)]]

(* Files at the top are in no folder. *)
SplitFolderLevel(files) == {FolderOf[f] : f \in files} \ {Root}

NormalizeExecutionUnit(unit) ==
  IF unit \in {"repository", "file"} THEN unit ELSE "folder"

WorkflowPaths(unit, files) ==
  CASE unit = "repository" -> {Root}
    [] unit = "file"       -> files
    [] unit = "folder"     -> SplitFolderLevel(files)

WorkflowTargets(unit, files) ==
  {[path |-> p, executionUnit |-> NormalizeExecutionUnit(unit)] :
     p \in WorkflowPaths(NormalizeExecutionUnit(unit), files)}

(* The nested loop of Reconcile over the groups and their targets. *)
FanOut(groups) ==
  UNION {{[template |-> t, path |-> target.path,
           executionUnit |-> target.executionUnit] :
            target \in WorkflowTargets(groups[t].match.executionUnit,
                                       groups[t].files)} :
         t \in DOMAIN groups}
-----------------------------------------------------------------------------
(* What a fan-out is for, stated without groups and loops.  A template is  *)
(* to run for a changed file that one of its globs matches; in a file at   *)
(* the top only if it does not run by folder (branch-controller.md: "files *)
(* at repository root are ignored by folder split").                       *)
CallsFor(match, file) ==
  /\ \E pattern \in match.paths : file \in pattern
  /\ match.executionUnit \notin {"repository", "file"} => FolderOf[file] # Root

(* A target of the template looks after the file. *)
LooksAfter(match, target, file) ==
  target.path = CASE match.executionUnit = "repository" -> Root
                  [] match.executionUnit = "file"       -> file
                  [] OTHER                              -> FolderOf[file]
=============================================================================
