---------------------------- MODULE MCDealership -----------------------------
(* Two representatives, a week of three days (one with odd hours, one closed). *)
EXTENDS Dealership

CONSTANTS r1, r2

MCAppointments == (0..1) \X {2, 3, 4, 5}

OpenFrom(o, c) == [open |-> o, close |-> c]

MCHoursOf ==
  [h \in 0..1 |-> [day \in Weekdays |-> CASE day = 0 -> OpenFrom(3, 7)
                                          [] day = 1 -> IF h = 0 THEN Closed ELSE OpenFrom(5, 2)
                                          [] day = 2 -> IF h = 0 THEN OpenFrom(2, 6) ELSE OpenFrom(0, 8)]]
=============================================================================
