------------------------------ MODULE MCRouting ------------------------------
(***************************************************************************)
(* Small dealerships for TLC: leads are numbered in order of creation and  *)
(* reps are rotated in the order of the roster.                            *)
(***************************************************************************)
EXTENDS Routing

CONSTANTS Ann, Bob

AllOrNone == {<<Ann, Bob>>, <<>>}
Team2 == {<<Ann, Bob>>}
Team1 == {<<Ann>>}
=============================================================================
