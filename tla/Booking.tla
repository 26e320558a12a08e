------------------------------- MODULE Booking -------------------------------
(***************************************************************************)
(* Appointments: the AI books them with a tool, the reps work through      *)
(* them, and a sweep asks what became of those that nobody marked.         *)
(*                                                                         *)
(* An AI turn runs on one of two threads: the event loop (the reply to a   *)
(* text, the first message to a web-form lead) or the e-mail poll (the     *)
(* first message to a lead from a listing site).  Each has a session whose *)
(* copy of the lead is as old as its last commit of that lead.  The        *)
(* no-show nudge is a scheduler job in a third thread.  A step is one      *)
(* commit, or a read that a later commit depends on.                       *)
(***************************************************************************)
EXTENDS LeadStates, Naturals, Sequences, FiniteSets

CONSTANTS
  Leads,        \* the leads of one dealer
  Reps,         \* names that are or were in sales_team
  NoRep,        \* assigned_rep IS NULL
  Slots,        \* the hours on offer, numbered in order of time
  Teams,        \* values of sales_team, see Member
  NudgeAfter,   \* slots that pass until the nudge asks (2 h)
  MaxAppts,     \* bound of the model: rows of the appointment table
  OtherMoves,   \* bound of the model: edges that the other handlers take
  MaxClock,     \* bound of the model: the last instant
  MaxCrashes    \* bound of the model: restarts of the server

ASSUME SlotsAssumption   == Slots \subseteq Nat \ {0}
ASSUME NoRepAssumption   == {NoRep, "nobody", "dealership"} \cap Reps = {}
\* A rep's entry: in the team or not, taking leads or not, the hours of the
\* unavailable windows, and whether a telegram_chat_id is on file.
Member == [status : {"active", "inactive", "gone"}, busy : SUBSET Slots, chat : BOOLEAN]
ASSUME TeamsAssumption   == Teams \subseteq [Reps -> Member]
ASSUME MovesAssumption   == \A m \in OtherMoves : CanTransition(m[1], m[2])
ASSUME BoundAssumption   == /\ NudgeAfter \in Nat /\ MaxAppts \in Nat
                            /\ MaxClock \in Nat /\ MaxCrashes \in Nat

VARIABLES
  state,        \* Lead.state
  assignedRep,  \* Lead.assigned_rep
  appts,        \* the appointment table, in order of insertion
  announced,    \* rows for which the "appointment" event was written
  team,         \* sales_team of Dealer.config
  nudged,       \* leads with a no_show_nudge event
  addressed,    \* whom the last message about a booking of the lead went to
  turn,         \* turn[p]: the AI turn, or the marking, that thread p is at
  sweep,        \* the no-show nudge sweep
  clock,        \* slots up to it are in the past
  crashes,      \* restarts so far
  excused,      \* history: leads whose rep a person changed, that a START made
                \*   NEW again, or that were booked for a rep who had left
  nudges        \* history: messages sent to ask about a lead

table == <<state, assignedRep, appts, announced, nudged, addressed>>
env   == <<team, clock, crashes>>
vars  == <<table, env, turn, sweep, excused, nudges>>

Threads  == {"loop", "poll"}
Statuses == {"set", "showed", "no_show"}
Row      == [lead : Leads, slot : Slots, status : Statuses]
Rows     == DOMAIN appts
NoSlot   == 0
NoTurn   == [step |-> "idle"]
Turn     == [step : {"commit", "move", "own", "tell", "showed"}, lead : Leads,
             seen : LeadStates, owner : Reps \cup {NoRep}, rep : Reps \cup {NoRep},
             slot : Slots \cup {NoSlot}, staff : SUBSET Reps]
NotSweeping == [stage |-> "idle", todo |-> {}, chats |-> {}, row |-> 0]

TypeOK ==
  /\ state \in [Leads -> LeadStates]
  /\ assignedRep \in [Leads -> Reps \cup {NoRep}]
  /\ appts \in Seq(Row)
  /\ announced \subseteq Rows
  /\ team \in Teams
  /\ nudged \subseteq Leads
  /\ addressed \in [Leads -> Reps \cup {"nobody", "dealership"}]
  /\ turn \in [Threads -> {NoTurn} \cup Turn]
  /\ sweep \in [stage : {"idle", "scan", "record"}, todo : SUBSET Rows, chats : SUBSET Reps,
                row : Nat]
  /\ sweep.stage = "record" => sweep.row \in Rows
  /\ clock \in Nat /\ crashes \in Nat
  /\ excused \subseteq Leads
  /\ nudges \in [Leads -> Nat]

Init ==
  /\ state \in [Leads -> {"AUTO_REPLIED", "ENGAGED"}]
  /\ assignedRep = [l \in Leads |-> NoRep]
  /\ appts = <<>> /\ announced = {}
  /\ team \in Teams
  /\ nudged = {}
  /\ addressed = [l \in Leads |-> "nobody"]
  /\ turn = [p \in Threads |-> NoTurn]
  /\ sweep = NotSweeping
  /\ clock = 0 /\ crashes = 0
  /\ excused = {}
  /\ nudges = [l \in Leads |-> 0]
-----------------------------------------------------------------------------
(* What book_appointment asks                                              *)

Active(a)  == appts[a].status = "set"
Past(s)    == s <= clock
Overdue(a) == appts[a].slot + NudgeAfter <= clock

Bookable == {"CLAIMED", "ENGAGED", "AUTO_REPLIED", "NEW"}

\* Mutated form of HasAppointment: rows are looked up for the lead, not the rep.
HasAppointmentOf(r, s) == \E a \in Rows : appts[a].slot = s /\ Active(a) /\ appts[a].lead = r

\* An appointment belongs to whoever owns its lead now.
HasAppointment(r, s) ==
  \E a \in Rows : appts[a].slot = s /\ Active(a) /\ assignedRep[appts[a].lead] = r

\* The reps in sales_team.
Staff == {r \in Reps : team[r].status # "gone"}

Free(r, s) == s \notin team[r].busy /\ ~HasAppointment(r, s)

(***************************************************************************)
(* The reps a booking may be for.  With a rep of its own the lead waits    *)
(* for that rep, whose absence from the team skips every check; without,   *)
(* any active rep who is free is picked (by rotation: module RoundRobin).  *)
(***************************************************************************)
Candidates(owner, s) ==
  IF owner # NoRep
  THEN IF team[owner].status = "gone" THEN {NoRep} ELSE {r \in {owner} : Free(r, s)}
  ELSE IF \A r \in Reps : team[r].status = "gone" THEN {NoRep}
       ELSE {r \in Reps : team[r].status = "active" /\ Free(r, s)}

-----------------------------------------------------------------------------
(* An AI turn                                                              *)

Goto(p, step) == turn' = [turn EXCEPT ![p].step = step]
LoopFree == turn["loop"] = NoTurn

(***************************************************************************)
(* The model calls the tool for slot s, offered or not.  What the checks   *)
(* read is as old as the turn: the lead, its rep, the team, the rows.      *)
(* Every refusal leaves no trace.  The poll's turns are first messages.    *)
(***************************************************************************)
Ask(p, l, s) ==
  /\ turn[p] = NoTurn
  /\ p = "poll" => state[l] = "AUTO_REPLIED"
  /\ ~Past(s)
  /\ state[l] \in Bookable
  /\ \E r \in Candidates(assignedRep[l], s) :
       /\ turn' = [turn EXCEPT ![p] = [step |-> "commit", lead |-> l, slot |-> s, seen |-> state[l],
                                       owner |-> assignedRep[l], rep |-> r, staff |-> Staff]]
       /\ excused' = IF assignedRep[l] # NoRep /\ r = NoRep THEN excused \cup {l} ELSE excused
  /\ UNCHANGED <<table, env, sweep, nudges>>

CommitRow(p) ==
  /\ turn[p].step = "commit"
  /\ Len(appts) < MaxAppts
  /\ appts' = Append(appts, [lead |-> turn[p].lead, slot |-> turn[p].slot, status |-> "set"])
  /\ Goto(p, "move")
  /\ UNCHANGED <<state, assignedRep, announced, nudged, addressed, env, sweep, excused, nudges>>

\* transition() to APPT_SET, and the copy of the lead reloaded.
CommitMove(p) ==
  /\ turn[p].step = "move"
  /\ CanTransition(turn[p].seen, "APPT_SET")
  /\ state' = [state EXCEPT ![turn[p].lead] = "APPT_SET"]
  /\ turn' = [turn EXCEPT ![p].step = "own", ![p].seen = "APPT_SET",
                          ![p].owner = assignedRep[turn[p].lead]]
  /\ UNCHANGED <<assignedRep, appts, announced, nudged, addressed, env, sweep, excused, nudges>>

\* transition() raises: the row stays, and the model is told the booking failed.
RejectMove(p) ==
  /\ turn[p].step = "move"
  /\ ~CanTransition(turn[p].seen, "APPT_SET")
  /\ turn' = [turn EXCEPT ![p] = NoTurn]
  /\ UNCHANGED <<table, env, sweep, excused, nudges>>

\* The event (for the newest row of this lead and slot) and, if the lead had no rep,
\* the rep found.
Announce(p) ==
  LET l == turn[p].lead
      mine == {a \in Rows : appts[a].lead = l /\ appts[a].slot = turn[p].slot}
  IN  /\ turn[p].step = "own"
      /\ announced' = announced \cup {a \in mine : \A b \in mine : b <= a}
      /\ assignedRep' = IF turn[p].rep = NoRep \/ turn[p].owner # NoRep THEN assignedRep
                        ELSE [assignedRep EXCEPT ![l] = turn[p].rep]
      /\ turn' = [turn EXCEPT ![p].step = "tell",
                              ![p].owner = IF @ = NoRep THEN turn[p].rep ELSE @]
      /\ UNCHANGED <<state, appts, nudged, addressed, env, sweep, excused, nudges>>

\* Mutated form of Addressee: a rep without Telegram is passed over.
AddresseeReachable(p) ==
  IF turn[p].owner \in {r \in turn[p].staff : team[r].chat} THEN turn[p].owner ELSE "dealership"

\* _notify_rep_via_chokepoint: the lead's rep, as far as this turn knows, or else the
\* dealership's own number.
Addressee(p) == IF turn[p].owner \in turn[p].staff THEN turn[p].owner ELSE "dealership"

\* Last of all the message, whether or not it arrives.
Tell(p) ==
  /\ turn[p].step = "tell"
  /\ addressed' = [addressed EXCEPT ![turn[p].lead] = Addressee(p)]
  /\ turn' = [turn EXCEPT ![p] = NoTurn]
  /\ UNCHANGED <<state, assignedRep, appts, announced, nudged, env, sweep, excused, nudges>>
-----------------------------------------------------------------------------
(* What people do                                                          *)

SetStatus(a, status) == appts' = [appts EXCEPT ![a].status = status]

\* mark_no_show: the lead stays as it is.
MarkNoShow(a) ==
  /\ SetStatus(a, "no_show")
  /\ UNCHANGED <<state, assignedRep, announced, nudged, addressed, env, turn, sweep, excused, nudges>>

\* mark_showed: the row, then the lead that the handler had loaded.
MarkShowed(a) ==
  /\ SetStatus(a, "showed")
  /\ turn' = [turn EXCEPT !["loop"] =
                [step |-> "showed", lead |-> appts[a].lead, seen |-> state[appts[a].lead],
                 owner |-> NoRep, rep |-> NoRep, slot |-> NoSlot, staff |-> {}]]
  /\ UNCHANGED <<state, assignedRep, announced, nudged, addressed, env, sweep, excused, nudges>>

LeadShowed ==
  /\ turn["loop"].step = "showed"
  /\ state' = IF turn["loop"].seen = "APPT_SET"
              THEN [state EXCEPT ![turn["loop"].lead] = "SHOWED"] ELSE state
  /\ turn' = [turn EXCEPT !["loop"] = NoTurn]
  /\ UNCHANGED <<assignedRep, appts, announced, nudged, addressed, env, sweep, excused, nudges>>

\* The dashboard's two buttons, on any row of the lead's page.
DashboardMarks(a) == LoopFree /\ (MarkShowed(a) \/ MarkNoShow(a))

Reachable == {r \in Reps : team[r].status # "gone" /\ team[r].chat}

\* The rows a rep's "showed" or "no show" in Telegram can be about.
Answerable(r) ==
  {a \in Rows : /\ Active(a) /\ Overdue(a) /\ assignedRep[appts[a].lead] = r
                /\ appts[a].lead \in nudged}

\* It is taken to be about the latest of them.
Answers(r, a) ==
  /\ r \in Reachable /\ LoopFree
  /\ a \in Answerable(r)
  /\ \A b \in Answerable(r) : appts[b].slot <= appts[a].slot
  /\ MarkShowed(a) \/ MarkNoShow(a)

\* reassign_lead, a lead typed in again by a rep, or a pass.  Bound: once a lead.
ChangeOwner(l, r) ==
  /\ LoopFree /\ l \notin excused
  /\ r # assignedRep[l] /\ team[r].status # "gone"
  /\ assignedRep' = [assignedRep EXCEPT ![l] = r]
  /\ excused' = excused \cup {l}
  /\ UNCHANGED <<state, appts, announced, nudged, addressed, env, turn, sweep, nudges>>

\* Every other handler moves a lead along the table; none of them looks at its
\* appointments.  After a START the lead may be booked once more.
OtherMove(l, from, to) ==
  /\ LoopFree
  /\ state[l] = from
  /\ state' = [state EXCEPT ![l] = to]
  /\ excused' = IF to = "NEW" THEN excused \cup {l} ELSE excused
  /\ UNCHANGED <<assignedRep, appts, announced, nudged, addressed, env, turn, sweep, nudges>>

\* The forms of the admin and the team page, the windows' endpoints, a window
\* confirmed by a rep, and /start in Telegram.
ChangeTeam(t) ==
  /\ LoopFree /\ t # team
  /\ team' = t
  /\ UNCHANGED <<table, clock, crashes, turn, sweep, excused, nudges>>
-----------------------------------------------------------------------------
(* The no-show nudge                                                       *)

\* The dealer's configuration and the overdue rows are read; both stay as they
\* were read for the whole sweep.
NudgeStart ==
  /\ sweep.stage = "idle"
  /\ sweep' = [stage |-> "scan", todo |-> {a \in Rows : Active(a) /\ Overdue(a)},
               chats |-> Reachable, row |-> 0]
  /\ sweep'.todo # {}
  /\ UNCHANGED <<table, env, turn, excused, nudges>>

\* Mutated form of Asked: the events are asked for this very row's lead only if
\* the row is the lead's newest.
AskedAboutNewest(a) ==
  appts[a].lead \in nudged /\ \A b \in Rows : appts[b].lead = appts[a].lead => b <= a

Asked(a) == appts[a].lead \in nudged

CanNudge(a) == ~Asked(a) /\ assignedRep[appts[a].lead] \in sweep.chats

\* Mutated form of NudgeSkips: a rep who cannot be reached counts as asked.
NudgeSkipsForGood(a) ==
  /\ sweep.stage = "scan" /\ a \in sweep.todo
  /\ ~CanNudge(a)
  /\ nudged' = nudged \cup {appts[a].lead}
  /\ sweep' = [sweep EXCEPT !.todo = @ \ {a}]
  /\ UNCHANGED <<state, assignedRep, appts, announced, addressed, env, turn, excused, nudges>>

NudgeSkips(a) ==
  /\ sweep.stage = "scan" /\ a \in sweep.todo
  /\ ~CanNudge(a)
  /\ sweep' = [sweep EXCEPT !.todo = @ \ {a}]
  /\ UNCHANGED <<table, env, turn, excused, nudges>>

\* The message goes out (whether Telegram takes it is not looked at) ...
NudgeSends(a) ==
  /\ sweep.stage = "scan" /\ a \in sweep.todo
  /\ CanNudge(a)
  /\ nudges' = [nudges EXCEPT ![appts[a].lead] = @ + 1]
  /\ sweep' = [sweep EXCEPT !.stage = "record", !.todo = @ \ {a}, !.row = a]
  /\ UNCHANGED <<table, env, turn, excused>>

\* ... and is then recorded, for the lead.
NudgeRecords ==
  /\ sweep.stage = "record"
  /\ nudged' = nudged \cup {appts[sweep.row].lead}
  /\ sweep' = [sweep EXCEPT !.stage = "scan", !.row = 0]
  /\ UNCHANGED <<state, assignedRep, appts, announced, addressed, env, turn, excused, nudges>>

NudgeEnd ==
  /\ sweep.stage = "scan" /\ sweep.todo = {}
  /\ sweep' = NotSweeping
  /\ UNCHANGED <<table, env, turn, excused, nudges>>
-----------------------------------------------------------------------------
Tick ==
  /\ clock < MaxClock
  /\ clock' = clock + 1
  /\ UNCHANGED <<table, team, crashes, turn, sweep, excused, nudges>>

\* A restart: what was running is gone, every commit stays.
Crash ==
  /\ crashes < MaxCrashes
  /\ crashes' = crashes + 1
  /\ turn' = [p \in Threads |-> NoTurn]
  /\ sweep' = NotSweeping
  /\ UNCHANGED <<table, team, clock, excused, nudges>>

TurnStep(p) ==
  \/ \E l \in Leads, s \in Slots : Ask(p, l, s)
  \/ CommitRow(p) \/ CommitMove(p) \/ RejectMove(p) \/ Announce(p) \/ Tell(p)

PeopleStep ==
  \/ \E a \in Rows : DashboardMarks(a) \/ \E r \in Reps : Answers(r, a)
  \/ LeadShowed
  \/ \E l \in Leads : \/ \E r \in Reps : ChangeOwner(l, r)
                      \/ \E m \in OtherMoves : OtherMove(l, m[1], m[2])
  \/ \E t \in Teams : ChangeTeam(t)

NudgeStep ==
  \/ NudgeStart \/ NudgeRecords \/ NudgeEnd
  \/ \E a \in Rows : NudgeSkips(a) \/ NudgeSends(a)

Next == (\E p \in Threads : TurnStep(p)) \/ PeopleStep \/ NudgeStep \/ Tick \/ Crash

Spec == Init /\ [][Next]_vars

\* The scheduler runs the sweep every 15 minutes, and a sweep works through its list.
FairSpec == Spec /\ WF_vars(NudgeStep)
-----------------------------------------------------------------------------
(* Properties                                                              *)

(***************************************************************************)
(* A rep is expected by two customers at one hour only because a person    *)
(* moved a lead (no handler that changes the rep looks at appointments),   *)
(* because the rep was off the team when one of them was booked, or after  *)
(* an opt-out and a START.  The bookings are those that went through: rows *)
(* of a booking that failed half-way do it too (AppointmentMeansApptSet).  *)
(***************************************************************************)
DoubleBookedOnlyByHand ==
  \A a, b \in announced :
    (/\ a # b /\ Active(a) /\ Active(b) /\ appts[a].slot = appts[b].slot
     /\ assignedRep[appts[a].lead] = assignedRep[appts[b].lead]
     /\ assignedRep[appts[a].lead] # NoRep)
      => {appts[a].lead, appts[b].lead} \cap excused # {}

(***************************************************************************)
(* The rep who was last told of a booking is the one who has the lead, and *)
(* the dealership is told only of leads that nobody has, unless a person   *)
(* moved the lead, its rep had left the team, or a START made it NEW again *)
(* -- whichever thread booked, and however old its copies were.            *)
(***************************************************************************)
OwnerIsTold ==
  \A l \in Leads \ excused :
    /\ addressed[l] \in Reps      => assignedRep[l] = addressed[l]
    /\ addressed[l] = "dealership" => assignedRep[l] = NoRep

(***************************************************************************)
(* "Did ... show for their appointment" is asked once about a lead, or     *)
(* once more for every restart between a message and its record.           *)
(***************************************************************************)
AskedOnce == \A l \in Leads : nudges[l] <= 1 + crashes

(***************************************************************************)
(* An appointment that nobody marks does not go unnoticed: while it is     *)
(* overdue and its rep can be reached, somebody is asked about its lead at *)
(* last, whoever was in the team when the sweep first saw it.              *)
(***************************************************************************)
Unnoticed(a) ==
  /\ a \in Rows /\ Active(a) /\ Overdue(a) /\ nudges[appts[a].lead] = 0
  /\ assignedRep[appts[a].lead] \in Reachable

OverdueIsAskedAbout == \A a \in 1..MaxAppts : Unnoticed(a) ~> ~Unnoticed(a)
-----------------------------------------------------------------------------
(* Claims of the code's comments that its behaviour contradicts            *)

(***************************************************************************)
(* "Lead must be CLAIMED, ENGAGED, AUTO_REPLIED, or NEW" to be booked      *)
(* (book_appointment.py:157): from the last two the row is committed and   *)
(* the transition then refused.                                            *)
(***************************************************************************)
AppointmentMeansApptSet ==
  [][\A p \in Threads : turn[p].step = "move" /\ turn'[p] = NoTurn /\ crashes' = crashes
                          => state[turn[p].lead] = "APPT_SET"]_vars
=============================================================================
