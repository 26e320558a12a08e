--------------------------- MODULE LeadLifecycle ----------------------------
(***************************************************************************)
(* What the rest of the system is promised about a lead's state: it starts *)
(* where intake leaves it and moves only along the edges of the table of   *)
(* lifecycle.py, one edge at a time -- or along an edge of Races, the set  *)
(* of edges that writers who raced each other may draw.  With Races = {}   *)
(* this is the promise of the table's own comment ("the single source of   *)
(* truth for what can follow what").                                       *)
(***************************************************************************)
EXTENDS LeadStates

CONSTANTS Leads,  \* the leads of one dealer
          Races   \* pairs <<from, to>> allowed beside the table

VARIABLE state    \* state[l] is the state column of lead l

Init == state \in [Leads -> {"NEW", "AUTO_REPLIED", "ENGAGED"}]

\* lifecycle.transition: one lead, one edge.
Move(l, target) ==
  /\ \/ CanTransition(state[l], target)
     \/ <<state[l], target>> \in Races
  /\ state' = [state EXCEPT ![l] = target]

Next == \E l \in Leads, target \in LeadStates : Move(l, target)

Spec == Init /\ [][Next]_state
=============================================================================
