------------------------------ MODULE MCOffices ------------------------------
(* An instance of DeskPages for TLC. *)
EXTENDS DeskPages, TLC

CONSTANTS c1, c2, m1, m2, m3, s1, s2, p1, p2, a1, t1, t2, u1, u2, u3, k1

\* Slots for requests in flight are interchangeable.
Symmetry == Permutations({c1, c2})

\* Three members of the board in turn, and at once; two of them with two imports in turn, and
\* with two series, so that an import leaves an older row of its week alone; one where
\* everything may go wrong.
ReaderCast ==
    {[mode |-> "in turn", board |-> {m1, m2, m3}, titles |-> {s1}, imports |-> 1],
     [mode |-> "in turn", board |-> {m1, m2}, titles |-> {s1}, imports |-> 2],
     [mode |-> "at once", board |-> {m1, m2, m3}, titles |-> {s1}, imports |-> 1],
     [mode |-> "at once", board |-> {m1, m2}, titles |-> {s1, s2}, imports |-> 1],
     [mode |-> "at worst", board |-> {m1}, titles |-> {s1}, imports |-> 2]}

\* Two disputes in turn; at once, two that are filed, and one that is also settled.
DisputeCast ==
    {[mode |-> "in turn", admins |-> {a1}, room |-> 2],
     [mode |-> "at once", admins |-> {}, room |-> 2],
     [mode |-> "at once", admins |-> {a1}, room |-> 1]}

\* A mangaka, an editor, and an account to come or an admin to be moved.
Roles(third) == u1 :> "MANGAKA" @@ u2 :> "TANTOU_EDITOR" @@ u3 :> third

OfficeCast ==
    {[mode |-> "in turn", role |-> Roles(Nobody), proposals |-> 1, clerks |-> {k1}],
     [mode |-> "at once", role |-> Roles("ADMIN"), proposals |-> 1, clerks |-> {k1}]}

\* Two tabs have the codes of a forgotten password, and one has those of a second factor.
SignInCast ==
    {[mode |-> "in turn", tabs |-> {t1, t2}, initial |-> TRUE, codes |-> FALSE],
     [mode |-> "in turn", tabs |-> {t1}, initial |-> TRUE, codes |-> TRUE],
     [mode |-> "at once", tabs |-> {t1}, initial |-> TRUE, codes |-> TRUE],
     [mode |-> "at once", tabs |-> {t1}, initial |-> FALSE, codes |-> FALSE]}

\* Long editing without saving, and short editing with it.
DrawingCast ==
    {[mode |-> "in turn", edits |-> 3, openings |-> 1, saves |-> 0],
     [mode |-> "in turn", edits |-> 2, openings |-> 1, saves |-> 1],
     [mode |-> "in turn", edits |-> 1, openings |-> 2, saves |-> 1],
     [mode |-> "at once", edits |-> 1, openings |-> 2, saves |-> 2]}
=============================================================================
