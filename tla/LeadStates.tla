----------------------------- MODULE LeadStates -----------------------------
(***************************************************************************)
(* The states of a lead and the table of moves between them               *)
(* (app/engine/lifecycle.py).  Every other module takes them from here.    *)
(***************************************************************************)

LeadStates == {"NEW", "AUTO_REPLIED", "ASSIGNED", "CLAIMED", "ENGAGED",
               "APPT_SET", "SHOWED", "SOLD", "LOST", "ESCALATED", "OPTED_OUT"}

\* A row of the event stream whose payload has no "to" key.
NoState == "none"

(***************************************************************************)
(* TRANSITIONS[s] is the set of states the code lets follow s.             *)
(***************************************************************************)
TRANSITIONS ==
  [s \in LeadStates |->
     CASE s = "NEW"          -> {"AUTO_REPLIED", "OPTED_OUT"}
       [] s = "AUTO_REPLIED" -> {"ASSIGNED", "ENGAGED", "OPTED_OUT"}
       [] s = "ASSIGNED"     -> {"CLAIMED", "ESCALATED", "ENGAGED", "OPTED_OUT"}
       [] s = "ESCALATED"    -> {"ASSIGNED", "CLAIMED", "ENGAGED", "OPTED_OUT"}
       [] s = "CLAIMED"      -> {"ENGAGED", "APPT_SET", "LOST", "OPTED_OUT"}
       [] s = "ENGAGED"      -> {"APPT_SET", "ASSIGNED", "LOST", "OPTED_OUT"}
       [] s = "APPT_SET"     -> {"SHOWED", "LOST", "OPTED_OUT"}
       [] s = "SHOWED"       -> {"SOLD", "LOST"}
       [] s = "OPTED_OUT"    -> {"NEW"}
       [] OTHER              -> {}]

\* can_transition
CanTransition(current, target) == target \in TRANSITIONS[current]

\* The states in which the webhook no longer treats a lead as a conversation.
ClosedStates == {"SOLD", "LOST", "OPTED_OUT"}
=============================================================================
