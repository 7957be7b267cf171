---------------------------- MODULE MCPublication ----------------------------
(* Instances of Screens, and of Publication beneath it, for TLC. *)
EXTENDS Screens, TLC

CONSTANTS r1, g1, g2, a1, b1

ChapterOps == {"assign", "start", "submit", "review", "save", "retouch", "doc",
               "status", "editor", "board"}

\* The decisions of the editor and of the board are made on their pages.
PageOps == ChapterOps \ {"editor", "board"}

OneSlot == {r1}
OneRegion == {g1}
TwoRegions == {g1, g2}
OneAssistant == {a1}
OneBoard == {b1}

\* The regions are interchangeable.
Symmetry == Permutations(Regions)
=============================================================================
