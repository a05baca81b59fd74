--------------------------- MODULE ExecutionControl ---------------------------
(***************************************************************************)
(* The control flag a running job is steered with: one atomic byte whose   *)
(* three values exclude each other (crates/duet-ops/src/executor.rs,       *)
(* struct ExecutionControl).  Each operator is the value the flag has      *)
(* after one call; pause and resume are compare-and-swap, so that neither  *)
(* of them can undo a cancel.                                              *)
(***************************************************************************)

ControlState == {"Running", "Paused", "Cancelled"}

AfterPause(c) == IF c = "Running" THEN "Paused" ELSE c

AfterResume(c) == IF c = "Paused" THEN "Running" ELSE c

AfterCancel(c) == "Cancelled"

===============================================================================
