------------------------------ MODULE MCJobQueue ------------------------------
(***************************************************************************)
(* Instances of JobQueue for TLC.                                          *)
(***************************************************************************)
EXTENDS JobQueue, TLC

(* The step tasks of a job are interchangeable.                            *)
WorkerSymmetry == Permutations(Workers)

===============================================================================
