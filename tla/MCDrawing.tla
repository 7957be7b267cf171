------------------------------ MODULE MCDrawing ------------------------------
(* An instance of Drawing for TLC. *)
EXTENDS Drawing

CONSTANTS c1, c2

\* A stroke and a save.
OneSave == {[mode |-> "in turn", edits |-> 1, openings |-> 1, saves |-> 1]}
=============================================================================
