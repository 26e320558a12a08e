------------------------------ MODULE MCFigures ------------------------------
(* A rep, two leads of different sources, days of two hours: the clocks go   *)
(* back on the second day, which has an hour more, and forward on the third. *)
EXTENDS Figures

CONSTANT Ann

TwoSources == [l \in Leads |-> IF l = 1 THEN "sms" ELSE "webform"]
ClocksChange == << <<0, 0>>, <<0, 1>>, <<1, 0>>, <<1, 0>>, <<1, 1>>, <<2, 1>>, <<3, 0>>, <<3, 1>> >>
=============================================================================
