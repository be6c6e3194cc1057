-------------------------------- MODULE MCEcs --------------------------------
(***************************************************************************)
(* The instance of Ecs that TLC checks.  What one caller does to the store *)
(* hardly meets what another does, so each is explored by itself: one that *)
(* makes, permutes and destroys objects, one that also goes back, one that *)
(* keeps references, and two that load cards and use the slots in any      *)
(* order, the second over two games of a match.                            *)
(***************************************************************************)
EXTENDS Ecs

Objecting == [types |-> {"Zone"}, data |-> {"p", "q"}, cards |-> {}, slots |-> {}, refs |-> FALSE,
              living |-> 3, issues |-> 2, games |-> 1]
Saving == [types |-> {"Zone"}, data |-> {"p", "q"}, cards |-> {}, slots |-> {1}, refs |-> FALSE,
           living |-> 2, issues |-> 1, games |-> 1]
Referring == [types |-> {"Zone"}, data |-> {}, cards |-> {}, slots |-> {1}, refs |-> TRUE,
              living |-> 2, issues |-> 2, games |-> 1]
Loading == [types |-> {}, data |-> {}, cards |-> {"X", "Y"}, slots |-> {1, 2}, refs |-> FALSE,
            living |-> 2, issues |-> 1, games |-> 1]
Matching == [Loading EXCEPT !.living = 1, !.games = 2]

MCCallers == {Objecting, Saving, Referring, Loading, Matching}
=============================================================================
