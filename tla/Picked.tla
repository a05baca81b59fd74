-------------------------------- MODULE Picked --------------------------------
(***************************************************************************)
(* A sequence without some of its elements, as a filter leaves it.  It is  *)
(* SelectSeq by the positions that stay, and without its recursion, so     *)
(* that it can be reasoned about.                                          *)
(***************************************************************************)
EXTENDS Naturals, Sequences, FiniteSets

(* The k-th of some positions. *)
Nth(positions, k) ==
  CHOOSE i \in positions : Cardinality({j \in positions : j <= i}) = k

Picked(s, positions) ==
  [k \in 1..Cardinality(positions) |-> s[Nth(positions, k)]]

===============================================================================
