--------------------------- MODULE MCConflictDialog ---------------------------
(***************************************************************************)
(* An instance of ConflictDialog for TLC: a job of two threads and one of  *)
(* a single thread.                                                        *)
(***************************************************************************)
EXTENDS ConflictDialog, TLC

CONSTANTS j1, j2

MCWidth == (j1 :> 2) @@ (j2 :> 1)

===============================================================================
