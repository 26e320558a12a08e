------------------------------ MODULE MCAiTurn -------------------------------
(***************************************************************************)
(* A rep claims a lead that was handed over, and puts it back; a customer  *)
(* who is expected is lost.                                                *)
(***************************************************************************)
EXTENDS AiTurn

RepMoves == {<<"ASSIGNED", "CLAIMED">>, <<"CLAIMED", "ENGAGED">>, <<"APPT_SET", "LOST">>}
=============================================================================
