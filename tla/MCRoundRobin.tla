----------------------------- MODULE MCRoundRobin -----------------------------
(***************************************************************************)
(* A team of three, and the rosters its members' activity makes.           *)
(***************************************************************************)
EXTENDS RoundRobin

CONSTANTS Ann, Bob, Cid

AnyRoster == {<<Ann, Bob, Cid>>, <<Ann, Bob>>, <<Ann, Cid>>, <<Bob, Cid>>, <<Bob>>}
Everybody == {<<Ann, Bob, Cid>>}
=============================================================================
