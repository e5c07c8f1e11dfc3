----------------------- MODULE TemplateMatchingProofs -----------------------
(***************************************************************************)
(* The targets of a fan-out are the ones its purpose asks for, whatever    *)
(* the files, the globs and the execution units are.                       *)
(***************************************************************************)
EXTENDS TemplateMatching, TLAPS

(* A group of matchTemplates holds the files of one template. *)
LEMMA GroupOf ==
  ASSUME NEW templates, NEW changed,
         NEW t \in DOMAIN MatchTemplates(templates, changed)
  PROVE  /\ t \in DOMAIN templates
         /\ MatchTemplates(templates, changed)[t].match = templates[t]
         /\ MatchTemplates(templates, changed)[t].files
              = MatchTemplate(templates[t], changed)
         /\ MatchTemplate(templates[t], changed) # {}
  BY DEF MatchTemplates

(* A target of the nested loop, taken apart. *)
LEMMA TargetOf ==
  ASSUME NEW templates, NEW changed,
         NEW x \in FanOut(MatchTemplates(templates, changed))
  PROVE  LET unit == NormalizeExecutionUnit(templates[x.template].executionUnit)
         IN  /\ x.template \in DOMAIN templates
             /\ x = [template |-> x.template, path |-> x.path,
                     executionUnit |-> unit]
             /\ x.path \in WorkflowPaths(unit,
                             MatchTemplate(templates[x.template], changed))
             /\ MatchTemplate(templates[x.template], changed) # {}
  <1> DEFINE groups == MatchTemplates(templates, changed)
  <1>1. PICK t \in DOMAIN groups :
          \E target \in WorkflowTargets(groups[t].match.executionUnit,
                                        groups[t].files) :
            x = [template |-> t, path |-> target.path,
                 executionUnit |-> target.executionUnit]
    BY DEF FanOut
  <1>2. PICK target \in WorkflowTargets(groups[t].match.executionUnit,
                                        groups[t].files) :
          x = [template |-> t, path |-> target.path,
               executionUnit |-> target.executionUnit]
    BY <1>1
  <1>3. x.template = t /\ x.path = target.path
        /\ x.executionUnit = target.executionUnit
    BY <1>2
  <1>4. /\ t \in DOMAIN templates /\ groups[t].match = templates[t]
        /\ groups[t].files = MatchTemplate(templates[t], changed)
        /\ MatchTemplate(templates[t], changed) # {}
    BY GroupOf
  <1>5. target \in WorkflowTargets(templates[t].executionUnit,
                                   MatchTemplate(templates[t], changed))
    BY <1>4
  <1>6. /\ target.executionUnit
             = NormalizeExecutionUnit(templates[t].executionUnit)
        /\ target.path \in WorkflowPaths(
             NormalizeExecutionUnit(templates[t].executionUnit),
             MatchTemplate(templates[t], changed))
    BY <1>5 DEF WorkflowTargets
  <1> QED
    BY <1>2, <1>3, <1>4, <1>6

(* A file the template is called for, as the code sees it. *)
LEMMA Matched ==
  ASSUME NEW match, NEW changed, NEW f \in changed, CallsFor(match, f)
  PROVE  f \in MatchTemplate(match, changed)
  BY DEF CallsFor, MatchTemplate

(* Every file that a template is called for has a target of that template  *)
(* that looks after it (matchTemplates, workflowTargets, lines 436-541).   *)
THEOREM FanOutCovers ==
  ASSUME NEW templates, NEW changed,
         NEW t \in DOMAIN templates, NEW f \in changed,
         CallsFor(templates[t], f)
  PROVE  \E x \in FanOut(MatchTemplates(templates, changed)) :
           x.template = t /\ LooksAfter(templates[t], x, f)
  <1> DEFINE groups == MatchTemplates(templates, changed)
             files  == MatchTemplate(templates[t], changed)
             unit   == NormalizeExecutionUnit(templates[t].executionUnit)
             path   == CASE unit = "repository" -> Root
                         [] unit = "file"       -> f
                         [] OTHER               -> FolderOf[f]
             target == [path |-> path, executionUnit |-> unit]
             x      == [template |-> t, path |-> path, executionUnit |-> unit]
  <1>1. f \in files
    BY Matched
  <1>2. t \in DOMAIN groups /\ groups[t].match = templates[t]
        /\ groups[t].files = files
    BY <1>1 DEF MatchTemplates
  <1>3. path \in WorkflowPaths(unit, files)
    BY <1>1 DEF WorkflowPaths, NormalizeExecutionUnit, SplitFolderLevel,
                CallsFor
  <1>4. target \in WorkflowTargets(groups[t].match.executionUnit,
                                   groups[t].files)
    BY <1>2, <1>3 DEF WorkflowTargets
  <1>5. x \in FanOut(groups)
    <2>1. x = [template |-> t, path |-> target.path,
               executionUnit |-> target.executionUnit]
      OBVIOUS
    <2> QED
      BY <1>2, <1>4, <2>1 DEF FanOut
  <1>6. LooksAfter(templates[t], x, f)
    BY DEF LooksAfter, NormalizeExecutionUnit
  <1> QED
    BY <1>5, <1>6

(* Every target looks after a changed file that its template is called for *)
(* (branch-controller.md: files at the repository root "do not create      *)
(* workflows" in folder mode).                                             *)
THEOREM FanOutSound ==
  ASSUME NEW templates, NEW changed,
         NEW x \in FanOut(MatchTemplates(templates, changed))
  PROVE  /\ x.template \in DOMAIN templates
         /\ \E f \in changed : /\ CallsFor(templates[x.template], f)
                               /\ LooksAfter(templates[x.template], x, f)
  <1> DEFINE match == templates[x.template]
             files == MatchTemplate(match, changed)
             unit  == NormalizeExecutionUnit(match.executionUnit)
  <1>1. /\ x.template \in DOMAIN templates
        /\ x.path \in WorkflowPaths(unit, files) /\ files # {}
    BY TargetOf
  <1>2. \A f \in files :
          f \in changed /\ \E pattern \in match.paths : f \in pattern
    BY DEF MatchTemplate
  <1>3. CASE unit = "repository"
    <2>1. PICK f \in files : TRUE
      BY <1>1
    <2>2. match.executionUnit = "repository" /\ x.path = Root
      BY <1>1, <1>3 DEF WorkflowPaths, NormalizeExecutionUnit
    <2>3. CallsFor(match, f) /\ LooksAfter(match, x, f)
      BY <1>2, <2>2 DEF CallsFor, LooksAfter
    <2> QED
      BY <1>1, <1>2, <2>3
  <1>4. CASE unit = "file"
    <2>1. match.executionUnit = "file" /\ x.path \in files
      BY <1>1, <1>4 DEF WorkflowPaths, NormalizeExecutionUnit
    <2>2. CallsFor(match, x.path) /\ LooksAfter(match, x, x.path)
      BY <1>2, <2>1 DEF CallsFor, LooksAfter
    <2> QED
      BY <1>1, <1>2, <2>1, <2>2
  <1>5. CASE unit = "folder"
    <2>1. PICK f \in files : x.path = FolderOf[f] /\ FolderOf[f] # Root
      BY <1>1, <1>5 DEF WorkflowPaths, SplitFolderLevel
    <2>2. match.executionUnit \notin {"repository", "file"}
      BY <1>5 DEF NormalizeExecutionUnit
    <2>3. CallsFor(match, f) /\ LooksAfter(match, x, f)
      BY <1>2, <2>1, <2>2 DEF CallsFor, LooksAfter
    <2> QED
      BY <1>1, <1>2, <2>3
  <1> QED
    BY <1>3, <1>4, <1>5 DEF NormalizeExecutionUnit

(* No file is looked after twice for the same template: overlapping globs  *)
(* and files that share a folder yield one target (splitFolderLevel,       *)
(* uniqueSortedStrings).                                                   *)
THEOREM FanOutOnce ==
  ASSUME NEW templates, NEW changed, NEW f \in changed,
         NEW x \in FanOut(MatchTemplates(templates, changed)),
         NEW y \in FanOut(MatchTemplates(templates, changed)),
         x.template = y.template,
         LooksAfter(templates[x.template], x, f),
         LooksAfter(templates[y.template], y, f)
  PROVE  x = y
  <1>1. x.path = y.path
    BY DEF LooksAfter
  <1>2. x = [template |-> x.template, path |-> x.path, executionUnit |->
               NormalizeExecutionUnit(templates[x.template].executionUnit)]
    BY TargetOf
  <1>3. y = [template |-> y.template, path |-> y.path, executionUnit |->
               NormalizeExecutionUnit(templates[y.template].executionUnit)]
    BY TargetOf
  <1> QED
    BY <1>1, <1>2, <1>3
=============================================================================
