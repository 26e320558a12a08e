--------------------------- MODULE MCRoutingHistory ---------------------------
(***************************************************************************)
(* The dealership of MCRouting, watched.                                   *)
(***************************************************************************)
EXTENDS RoutingHistory

CONSTANTS Ann, Bob

Team2 == {<<Ann, Bob>>}
=============================================================================
