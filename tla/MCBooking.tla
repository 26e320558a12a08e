------------------------------ MODULE MCBooking ------------------------------
(***************************************************************************)
(* A dealership of two reps: Ann, who can be reached at once, and Bob, who *)
(* connects to Telegram later, has an hour off, and may leave.             *)
(***************************************************************************)
EXTENDS Booking

CONSTANTS Ann, Bob

Works(chat, busy) == [status |-> "active", busy |-> busy, chat |-> chat]
Left              == [status |-> "gone", busy |-> {}, chat |-> FALSE]

AnnAndBob == {[r \in Reps |-> IF r = Ann THEN Works(TRUE, {}) ELSE b] :
                b \in {Works(FALSE, {}), Works(TRUE, Slots), Left}}

ToEngagedAndOn == {<<"AUTO_REPLIED", "ENGAGED">>, <<"ENGAGED", "LOST">>, <<"APPT_SET", "LOST">>}
=============================================================================
