--------------------------- MODULE MCDirectorySizes ----------------------------
(***************************************************************************)
(* An instance of DirectorySizes for TLC: a root and a directory in it     *)
(* that may be at one of two names.                                        *)
(***************************************************************************)
EXTENDS DirectorySizes

MCFirst == {<<"r">>, <<"r", "a">>}
MCDirs == MCFirst \cup {<<"r", "x">>}

===============================================================================
