------------------------------ MODULE MCExecutor ------------------------------
(***************************************************************************)
(* Instances of Executor for TLC: the plans the planners emit, in their    *)
(* order of steps (crates/duet-ops/src: mover.rs plan_move, planner.rs     *)
(* plan_copy, deleter.rs plan_trash), over a few names.                    *)
(***************************************************************************)
EXTENDS Executor

Step(kind, src, dst, dep) ==
  [kind |-> kind, src |-> src, dst |-> dst, dep |-> dep, conflict |-> "none"]

MCPaths == {"d", "a", "b", "c", "D", "A", "B", "C", "A2", "B2", "C2", "D2"}

MCParent == [p \in MCPaths |-> CASE p \in {"a", "b", "c"} -> "d"
                                 [] p \in {"A", "B", "C", "A2", "B2", "C2"} -> "D"
                                 [] OTHER -> "none"]

MCAlternate == [p \in MCPaths |-> CASE p = "A" -> "A2" [] p = "B" -> "B2"
                                    [] p = "C" -> "C2" [] p = "D" -> "D2"
                                    [] OTHER -> p]

(* The source directory d with two files; what is in the way at the        *)
(* destination varies.                                                     *)
Disk(D, A, B) ==
  [p \in MCPaths |-> CASE p = "d" -> "dir" [] p = "a" -> "ca" [] p = "b" -> "cb"
                       [] p = "D" -> D [] p = "A" -> A [] p = "B" -> B
                       [] OTHER -> "none"]

Free == {Disk("dir", "none", "none")}
FreeOrTaken == {Disk("dir", A, "none") : A \in {"none", "old"}}
FirstTaken == {Disk("dir", "old", "none")}
(* a and c are one file.  At the destination: no parent, a file where the  *)
(* directory goes, or a directory with some of the names taken.            *)
Linked(D, A, C) ==
  [Disk(D, A, "none") EXCEPT !["c"] = "ca", !["C"] = C]
Merged == {[p \in MCPaths |-> "none"], Linked("old", "none", "none"),
           Linked("dir", "old", "old"), Linked("dir", "none", "dir")}

AnyDisk == {Disk("dir", A, B) : A \in {"none", "old", "dir"}, B \in {"none", "old"}}
             \cup {Disk("old", "none", "none")}

(* plan_move of a and b across devices, with and without verification.     *)
VerifiedMove ==
  <<Step("CopyFile", "a", "A", 0), Step("CopyFile", "b", "B", 0),
    Step("Verify", "a", "A", 1), Step("Remove", "none", "a", 3),
    Step("Verify", "b", "B", 2), Step("Remove", "none", "b", 5),
    Step("SetMeta", "none", "A", 1), Step("SetMeta", "none", "B", 2)>>

PlainMove ==
  <<Step("CopyFile", "a", "A", 0), Step("CopyFile", "b", "B", 0),
    Step("Remove", "none", "a", 1), Step("Remove", "none", "b", 2),
    Step("SetMeta", "none", "A", 1), Step("SetMeta", "none", "B", 2)>>

(* plan_move of the directory d, where c is a hard link of a.              *)
DirMove ==
  <<Step("CreateDir", "none", "D", 0),
    Step("CopyFile", "a", "A", 0), Step("CopyFile", "b", "B", 0),
    Step("Link", "A", "C", 2),
    Step("Remove", "none", "a", 2), Step("Remove", "none", "b", 3),
    Step("Remove", "none", "c", 4),
    Step("RemoveDir", "none", "d", 0),
    Step("SetMeta", "none", "D", 1)>>

(* plan_trash: the sidecar, then the rename that depends on it.            *)
TrashPlan ==
  <<Step("WriteTrashInfo", "none", "B", 0),
    [Step("Rename", "a", "A", 1) EXCEPT !.conflict = "Abort"]>>

Says(policies, scopes) == [policy : policies, all : scopes]
AllAnswers == Says(Policies, BOOLEAN)
SafeAnswers == Says({"Skip", "Overwrite", "AutoRename", "Abort"}, {FALSE})
ForAll == Says({"Skip", "Overwrite", "RenameTarget"}, {TRUE})

(* Every plan above keeps its sources until they are carried, its names    *)
(* apart and its sidecars beside what they describe; a move of plain files *)
(* removes only what a copy or its verification stands for.                *)
ASSUME PlansApart ==
  /\ SourcesLast /\ OwnNames /\ TakenStay /\ SidecarsOwn
  /\ Plan \in {VerifiedMove, PlainMove} => SourcesKept

===============================================================================
