------------------------------ MODULE MCBranch ------------------------------
(***************************************************************************)
(* Small instances of BranchController: a file at the top of the           *)
(* repository and two in one folder; a template that runs by folder, and a *)
(* list of one that runs by file and one that runs once.                   *)
(***************************************************************************)
EXTENDS BranchController, TLC

MCFiles == {"main", "a/x", "a/y"}
MCFolderOf == ("main" :> Root) @@ ("a/x" :> "a") @@ ("a/y" :> "a")
MCTemplates == {"plan", "lint", "test"}

Everything == {MCFiles}
InFolder == {{"a/x", "a/y"}}
OneFile == {{"a/x"}}

(* Matches the file at the top without a target for it. *)
ByFolder == "plan" :> [paths |-> Everything, executionUnit |-> ""]

(* Matches nothing at the top. *)
ByFile == ("lint" :> [paths |-> OneFile, executionUnit |-> "file"])
            @@ ("test" :> [paths |-> InFolder, executionUnit |-> "repository"])

MCTemplateLists == {ByFolder, ByFile}
MCChanges == {{"main"}, {"a/x", "a/y"}}
OneChange == {{"a/x", "a/y"}}

(* A pull request may undo what one of its commits changed. *)
MCPulls == {{}, MCFiles}
OneTemplateList == {ByFolder}
=============================================================================
