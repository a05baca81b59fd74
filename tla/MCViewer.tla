------------------------------- MODULE MCViewer --------------------------------
(***************************************************************************)
(* An instance of Viewer for TLC: a text file and a picture.               *)
(***************************************************************************)
EXTENDS Viewer, TLC

MCFiles == ("notes" :> "Text") @@ ("picture" :> "Image")

===============================================================================
