----------------------------- MODULE RoundRobin -----------------------------
(***************************************************************************)
(* Who gets the next lead (app/engine/router.py).  The dealer's row holds  *)
(* one pointer into the list of active reps.  Whoever draws a rep has      *)
(* loaded that row into its own session before: the event loop anew for    *)
(* every request, the e-mail poll once for a whole poll, in its thread.    *)
(* assign_lead locks the row with SELECT ... FOR UPDATE, but an object     *)
(* that a session holds already keeps the values it was loaded with        *)
(* (there is no populate_existing), so the pointer drawn from is the one   *)
(* of the load.                                                            *)
(***************************************************************************)
EXTENDS Naturals, Sequences, FiniteSets, Functions

CONSTANTS
  Reps,      \* names of reps
  Rosters,   \* the lists of active reps the dealer may have, never empty
  Sessions,  \* who draws: "loop", and "poll" for the e-mail poll
  Pickers,   \* what they call: "assign" (assign_lead), "slot" (a slot's rep)
  MaxGiven   \* bound of the model: leads a rep is given between roster changes

ASSUME RostersAssumption ==
  /\ Rosters # {}
  /\ \A r \in Rosters : r \in Seq(Reps) /\ r # <<>>
  /\ \A r \in Rosters : \A i, j \in DOMAIN r : r[i] = r[j] => i = j
ASSUME SessionsAssumption == Sessions \subseteq {"loop", "poll"}
ASSUME PickersAssumption == Pickers \subseteq {"assign", "slot"}
ASSUME MaxGivenAssumption == MaxGiven \in Nat

VARIABLES
  pointer,  \* Dealer.round_robin_pointer
  active,   \* the active reps of Dealer.config, in the order of sales_team
  copy,     \* copy[s]: the dealer as session s loaded it, or NotLoaded
  given,    \* given[r]: leads given to r since the roster last changed
  skipped,  \* skipped[r]: draws since then in which r might have been drawn, since r was
  alone     \* since then only assign_lead drew, and only for the event loop

vars == <<pointer, active, copy, given, skipped, alone>>

NotLoaded == [loaded |-> FALSE]
Loaded == [loaded : {TRUE}, pointer : Nat, active : Rosters]

TypeOK ==
  /\ pointer \in Nat
  /\ \E r \in Rosters : pointer < Len(r)
  /\ active \in Rosters
  /\ copy \in [Sessions -> {NotLoaded} \cup Loaded]
  /\ given \in [Reps -> Nat]
  /\ skipped \in [Reps -> Nat]
  /\ alone \in BOOLEAN

\* A dealer with its whole team, which has used its round-robin before: the
\* pointer is anywhere.
Init ==
  /\ active \in Rosters
  /\ \A r \in Rosters : Len(r) <= Len(active)
  /\ pointer \in 0..(Len(active) - 1)
  /\ copy = [s \in Sessions |-> NotLoaded]
  /\ given = [r \in Reps |-> 0]
  /\ skipped = [r \in Reps |-> 0]
  /\ alone = TRUE

\* A request, or a poll, loads the dealer.
Load(s) ==
  /\ ~copy[s].loaded
  /\ copy' = [copy EXCEPT ![s] = [loaded |-> TRUE, pointer |-> pointer, active |-> active]]
  /\ UNCHANGED <<pointer, active, given, skipped, alone>>

\* It ends.
Close(s) ==
  /\ copy[s].loaded
  /\ copy' = [copy EXCEPT ![s] = NotLoaded]
  /\ UNCHANGED <<pointer, active, given, skipped, alone>>

\* rep is drawn from candidates.
Give(rep, candidates) ==
  /\ given[rep] < MaxGiven
  /\ given' = [given EXCEPT ![rep] = @ + 1]
  /\ skipped' = [r \in Reps |-> IF r = rep THEN 0
                                ELSE skipped[r] + (IF r \in candidates THEN 1 ELSE 0)]

\* Mutated form of Advanced: the pointer wraps at the size of the team, not at
\* the number of reps it was an index among.
AdvancedInTeam(p, n) == (p + 1) % Cardinality(Reps)

\* Mutated form of Advanced: the pointer does not wrap.
AdvancedForever(p, n) == p + 1

\* next_rep: the pointer after a draw from n reps ...
Advanced(p, n) == (p + 1) % n

\* ... and the place of the rep that is drawn.
Place(p, n) == (p % n) + 1

\* The pointer is committed; the session's own copy follows.
MovePointer(s, p) ==
  /\ pointer' = p
  /\ copy' = [copy EXCEPT ![s].pointer = p]

\* assign_lead: draw from the active reps.
AssignLead(s) ==
  /\ "assign" \in Pickers
  /\ copy[s].loaded
  /\ LET team == copy[s].active
         p == copy[s].pointer
     IN  /\ Give(team[Place(p, Len(team))], Range(team))
         /\ MovePointer(s, Advanced(p, Len(team)))
  /\ alone' = (alone /\ s = "loop")
  /\ UNCHANGED active

\* find_available_rep_for_slot: next_rep over the reps free at a slot, in order.
\* The pointer it moves is the same one.
PickForSlot(s) ==
  /\ "slot" \in Pickers
  /\ copy[s].loaded
  /\ LET team == copy[s].active
         p == copy[s].pointer
     IN  \E free \in SUBSET DOMAIN team : \E i \in free :
           /\ Cardinality({j \in free : j <= i}) = Place(p, Cardinality(free))
           /\ Give(team[i], {team[j] : j \in free})
           /\ MovePointer(s, Advanced(p, Cardinality(free)))
  /\ alone' = FALSE
  /\ UNCHANGED active

\* A rep joins, or is (de)activated: a request of the event loop, which is not
\* in another request then.  The pointer stays.
ChangeRoster(r) ==
  /\ r # active
  /\ "loop" \in Sessions => ~copy["loop"].loaded
  /\ active' = r
  /\ given' = [rep \in Reps |-> 0]
  /\ skipped' = [rep \in Reps |-> 0]
  /\ alone' = TRUE
  /\ UNCHANGED <<pointer, copy>>

Next ==
  \/ \E s \in Sessions : Load(s) \/ Close(s) \/ AssignLead(s) \/ PickForSlot(s)
  \/ \E r \in Rosters : ChangeRoster(r)

Spec == Init /\ [][Next]_vars
-----------------------------------------------------------------------------
(***************************************************************************)
(* "fair distribution is the core promise" (router.py:57-58): between two  *)
(* changes of the roster no active rep is given two leads more than        *)
(* another, wherever the pointer stood when the roster changed.            *)
(***************************************************************************)
FairDistribution ==
  \A q, r \in Range(active) : given[q] <= given[r] + 1

(***************************************************************************)
(* "Among qualifying reps, uses round-robin (next_rep) for fairness"       *)
(* (router.py:269): a rep that could be drawn each time is drawn once      *)
(* every other rep of the roster has been.                                 *)
(***************************************************************************)
NobodyIsSkipped == \A r \in Range(active) : skipped[r] < Len(active)

(***************************************************************************)
(* Both hold from one change of the roster to the next as long as only     *)
(* requests of the event loop draw, and draw with assign_lead -- whatever  *)
(* was drawn, and out of which stale copy, before.                         *)
(***************************************************************************)
FairWhileAlone == alone => FairDistribution
TurnsWhileAlone == alone => NobodyIsSkipped
=============================================================================
