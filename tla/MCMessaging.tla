----------------------------- MODULE MCMessaging -----------------------------
(***************************************************************************)
(* One customer, two texts.                                                *)
(***************************************************************************)
EXTENDS Messaging

CONSTANTS t1, t2
=============================================================================
