------------------------------ MODULE MCVoting ------------------------------
(* Instances of Voting for TLC. *)
EXTENDS Voting, TLC

CONSTANTS c1, c2, m1, m2

OneSlot == {c1}
TwoSlots == {c1, c2}
TwoMembers == {m1, m2}

\* Members and slots are interchangeable; series are ordered by their ids.
Symmetry == Permutations(Members) \cup Permutations(Slots)
=============================================================================
