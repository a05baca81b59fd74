----------------------------- MODULE MCFileTable -----------------------------
(***************************************************************************)
(* An instance of FileTable for TLC: a root with a file and a directory *)
(* that holds a directory of its own name.                                 *)
(***************************************************************************)
EXTENDS FileTable

MCTree == (<< >> :> <<"a", "b">>) @@ (<<"b">> :> <<"b">>) @@ (<<"b", "b">> :> << >>)
MCRestored == {[dir |-> << >>, cursor |-> "b"], [dir |-> <<"b">>, cursor |-> "none"]}
MCHotlist == {<<"b", "b">>}
MCMatching == <<{"a", "b"}, {"b"}>>

===============================================================================
