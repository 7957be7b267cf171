---------------------------- MODULE MCProduction ----------------------------
(* Instances of Production for TLC. *)
EXTENDS Production, TLC

CONSTANTS r1, r2, g1, g2, a1, a2

AllOps == {"assign", "start", "submit", "review", "save", "retouch", "doc",
           "page", "region", "unregion", "status", "editor", "board"}

LiveOps == {"assign", "start", "submit", "review", "save", "doc"}

ConcurrentOps == {"assign", "start", "submit", "review", "save", "retouch", "doc", "unregion"}

OneSlot == {r1}
TwoSlots == {r1, r2}
OneRegion == {g1}
TwoRegions == {g1, g2}
OneAssistant == {a1}
TwoAssistants == {a1, a2}

\* Slots, regions and assistants are interchangeable.
Symmetry == Permutations(Reqs) \cup Permutations(Regions) \cup Permutations(Assistants)
=============================================================================
