------------------------------ MODULE MCPlanRuns ------------------------------
(***************************************************************************)
(* An instance of PlanRuns for TLC: a directory with a nested one, a file  *)
(* in each of them, and beside it a second name of one of those and a      *)
(* symbolic link.                                                          *)
(***************************************************************************)
EXTENDS PlanRuns

Node(kind, data, ino, nlink) ==
  [kind |-> kind, data |-> data, ino |-> ino, nlink |-> nlink]

D == <<"S", "d">>
E == <<"S", "d", "e">>
W == <<"S", "d", "e", "w">>
X == <<"S", "d", "x">>
Y == <<"S", "y">>
L == <<"S", "l">>

MCTree ==
  (D :> Node("dir", "none", "id", 1)) @@ (E :> Node("dir", "none", "ie", 1))
    @@ (W :> Node("file", "cw", "iw", 1)) @@ (X :> Node("file", "cx", "ix", 2))
    @@ (Y :> Node("file", "cx", "ix", 2)) @@ (L :> Node("symlink", "cl", "il", 1))
MCListing == (D :> <<"e", "x">>) @@ (E :> <<"w">>)
MCTops == <<D, L, Y>>
MCAlternate == [n \in {"d", "e", "w", "x", "y", "l"} |-> "other"]

Job(moves, near, verify, policy, taken, weather) ==
  [moves |-> moves, near |-> near, verify |-> verify, policy |-> policy,
   taken |-> taken, weather |-> weather]

Calm == {"fail", "cancel"}
InTheWay == {DestOf(Y)}

(* Moves without verification whose conflicts are not skipped may fail and *)
(* be cancelled, and copies with it too; any move that does not fail may   *)
(* die.                                                                    *)
MCJobs ==
  {Job(TRUE, {}, FALSE, "Skip", {}, Calm), Job(TRUE, {D, Y}, FALSE, "Overwrite", InTheWay, Calm),
   Job(TRUE, {}, FALSE, "Overwrite", InTheWay, Calm),
   Job(FALSE, {}, TRUE, "Skip", InTheWay, Calm), Job(FALSE, {}, TRUE, "Overwrite", {}, Calm)}
  \cup {Job(TRUE, {}, verify, policy, {}, {"crash"}) :
          verify \in BOOLEAN, policy \in {"Skip", "Overwrite", "AutoRename"}}

===============================================================================
