---------------------------- MODULE BookingProofs ----------------------------
(***************************************************************************)
(* What holds of the appointments for any leads, any slots, any teams, any *)
(* moves of the other handlers along the table, and any number of rows and *)
(* restarts.                                                               *)
(***************************************************************************)
EXTENDS Booking, TLAPS, SequenceTheorems

(***************************************************************************)
(* The inductive invariant.                                                *)
(***************************************************************************)

\* The table leads from these to APPT_SET in some number of moves.
BeforeBooking == {"NEW", "AUTO_REPLIED", "ASSIGNED", "ESCALATED", "CLAIMED", "ENGAGED"}

\* A first message is to an AUTO_REPLIED lead: its booking is rejected at the move.
PollRejects ==
  turn["poll"] # NoTurn => turn["poll"].step \in {"commit", "move"} /\ turn["poll"].seen = "AUTO_REPLIED"

\* Before its booking went through a lead has no announced row, and nobody was told.
Unbooked(l) == addressed[l] = "nobody" /\ \A a \in announced : appts[a].lead # l

BookedIsPast == \A l \in Leads \ excused : state[l] \in BeforeBooking => Unbooked(l)

\* What the event loop has read is so, until it is done with it.
LoopKnows ==
  LET t == turn["loop"]
  IN  t.step \in {"commit", "move", "own", "tell"} =>
        /\ t.owner = assignedRep[t.lead] /\ t.staff = Staff
        /\ t.step \in {"own", "tell"} => state[t.lead] = "APPT_SET"

\* The rep of a booking: the lead's own, or one of the staff who is free then.
RepIsFree ==
  LET t == turn["loop"]
  IN  t.step \in {"commit", "move", "own"} =>
        /\ t.lead \notin excused => Unbooked(t.lead) /\ (t.owner # NoRep => t.rep = t.owner)
        /\ t.rep # NoRep =>
             /\ t.rep \in Staff
             /\ \A a \in announced : Active(a) /\ appts[a].slot = t.slot => assignedRep[appts[a].lead] # t.rep

\* Whoever is about to be told is on the team, or nobody has the lead.
OwnerIsStaff ==
  LET t == turn["loop"]
  IN  t.step = "tell" /\ t.lead \notin excused => t.owner \in Staff \cup {NoRep}

\* A row that is about to be committed has a slot.
SlotIsOffered == \A p \in Threads : turn[p].step = "commit" => turn[p].slot \in Slots

\* Whether the sweep has sent, and not recorded, a message about lead l.
Recording(l) == sweep.stage = "record" /\ appts[sweep.row].lead = l

\* A message about a lead is recorded, about to be, or lost by a restart.
NudgesCounted ==
  \A l \in Leads : nudges[l] <= crashes + (IF l \in nudged \/ Recording(l) THEN 1 ELSE 0)

IInv == /\ TypeOK /\ PollRejects /\ BookedIsPast /\ LoopKnows /\ RepIsFree /\ OwnerIsStaff
        /\ SlotIsOffered /\ OwnerIsTold /\ DoubleBookedOnlyByHand /\ NudgesCounted
-----------------------------------------------------------------------------
(* The operators                                                           *)

\* A move along the table leads from states to states, and back to before a booking
\* only to NEW.
LEMMA TableMoves ==
  \A s \in LeadStates : \A t : CanTransition(s, t) =>
     t \in LeadStates /\ (s \notin BeforeBooking /\ t # "NEW" => t \notin BeforeBooking)
BY DEF CanTransition, TRANSITIONS, LeadStates, BeforeBooking

\* APPT_SET is not reached from AUTO_REPLIED.
LEMMA NotFromAutoReplied == ~CanTransition("AUTO_REPLIED", "APPT_SET")
BY DEF CanTransition, TRANSITIONS, LeadStates

(***************************************************************************)
(* A turn that has begun is a Turn record.                                 *)
(***************************************************************************)
LEMMA TurnRuns ==
  ASSUME TypeOK, NEW p \in Threads, turn[p].step # "idle"
  PROVE  /\ turn[p] \in Turn
         /\ turn[p].lead \in Leads /\ turn[p].seen \in LeadStates
         /\ turn[p].owner \in Reps \cup {NoRep} /\ turn[p].rep \in Reps \cup {NoRep}
         /\ turn[p].slot \in Slots \cup {NoSlot} /\ turn[p].staff \in SUBSET Reps
<1>1. turn[p] \in {NoTurn} \cup Turn
  BY DEF TypeOK
<1>2. turn[p] \in Turn
  BY <1>1 DEF NoTurn
<1>3. QED
  BY <1>2 DEF Turn

(***************************************************************************)
(* What becomes of one thread's turn leaves the other's alone.             *)
(***************************************************************************)
LEMMA TurnMoves ==
  ASSUME TypeOK, NEW p \in Threads, NEW x \in {NoTurn} \cup Turn, turn' = [turn EXCEPT ![p] = x]
  PROVE  /\ turn' \in [Threads -> {NoTurn} \cup Turn]
         /\ turn'[p] = x /\ \A q \in Threads \ {p} : turn'[q] = turn[q]
BY DEF TypeOK

\* The rows are numbered, and each is a Row.
LEMMA RowsAreRows ==
  ASSUME TypeOK
  PROVE  /\ Rows = 1..Len(appts) /\ Len(appts) \in Nat
         /\ \A a \in Rows : appts[a] \in Row /\ appts[a].lead \in Leads /\ a \in Nat
<1>1. appts \in Seq(Row)
  BY DEF TypeOK
<1>2. Rows = 1..Len(appts) /\ Len(appts) \in Nat /\ \A a \in Rows : appts[a] \in Row
  BY <1>1, ElementOfSeq, LenProperties DEF Rows
<1>3. QED
  BY <1>2 DEF Row

\* A booking adds a row and leaves the others as they are.
LEMMA RowsAppended ==
  ASSUME TypeOK, NEW r \in Row, appts' = Append(appts, r)
  PROVE  appts' \in Seq(Row) /\ Rows \subseteq Rows' /\ \A a \in Rows : appts'[a] = appts[a]
<1>1. appts \in Seq(Row)
  BY DEF TypeOK
<1>2. /\ appts' \in Seq(Row) /\ DOMAIN appts = 1..Len(appts) /\ Len(appts) \in Nat
      /\ DOMAIN appts' = 1..(Len(appts) + 1)
      /\ \A i \in 1..Len(appts) : appts'[i] = appts[i]
  BY <1>1, AppendProperties
<1>3. QED
  BY <1>2 DEF Rows

\* Marking a row changes its status.
LEMMA RowMarked ==
  ASSUME TypeOK, NEW a \in Rows, NEW st \in Statuses \ {"set"}, SetStatus(a, st)
  PROVE  /\ appts' \in Seq(Row) /\ Rows' = Rows
         /\ \A b \in Rows : /\ appts'[b].lead = appts[b].lead /\ appts'[b].slot = appts[b].slot
                            /\ Active(b)' => Active(b)
<1>1. appts \in Seq(Row) /\ appts[a] \in Row /\ a \in 1..Len(appts)
  BY RowsAreRows DEF TypeOK
<1>2. [appts[a] EXCEPT !.status = st] \in Row
  BY <1>1 DEF Row, Statuses
<1>3. appts' = [appts EXCEPT ![a] = [appts[a] EXCEPT !.status = st]]
  BY <1>1 DEF SetStatus
<1>4. appts' \in Seq(Row)
  BY <1>1, <1>2, <1>3, ExceptSeq
<1>5. Rows' = Rows /\ \A b \in Rows : b # a => appts'[b] = appts[b]
  BY <1>3 DEF Rows
<1>6. appts'[a] = [appts[a] EXCEPT !.status = st]
  BY <1>3 DEF Rows
<1>7. appts'[a].lead = appts[a].lead /\ appts'[a].slot = appts[a].slot /\ appts'[a].status = st
  BY <1>1, <1>6 DEF Row
<1>8. QED
  BY <1>4, <1>5, <1>7 DEF Active

(***************************************************************************)
(* Whoever a booking may be for is the lead's own rep, or somebody of the  *)
(* staff, and has no other appointment then.                               *)
(***************************************************************************)
LEMMA CandidateIsFree ==
  ASSUME TypeOK, NEW owner \in Reps \cup {NoRep}, NEW s, NEW r \in Candidates(owner, s)
  PROVE  /\ r \in Reps \cup {NoRep}
         /\ owner # NoRep => r \in {owner, NoRep}
         /\ r # NoRep => r \in Staff /\ ~HasAppointment(r, s)
<1>1. CASE owner # NoRep
  BY <1>1 DEF Candidates, Free, Staff
<1>2. CASE owner = NoRep
  BY <1>2 DEF Candidates, Free, Staff, TypeOK
<1>3. QED
  BY <1>1, <1>2
-----------------------------------------------------------------------------
(* What a step does not touch stays so                                     *)

\* The rows that were announced keep their lead and slot, and none becomes active again.
RowsKept ==
  \A a \in announced : /\ appts'[a].lead = appts[a].lead /\ appts'[a].slot = appts[a].slot
                       /\ Active(a)' => Active(a)

(***************************************************************************)
(* The leads' parts of the invariant outlive new rows, marked rows, more   *)
(* excuses and moves other than back to before a booking.                  *)
(***************************************************************************)
LEMMA LeadsFrame ==
  ASSUME IInv, RowsKept, UNCHANGED <<assignedRep, announced, addressed>>,
         excused \subseteq excused',
         \A l \in Leads \ excused' : state'[l] \in BeforeBooking => state[l] \in BeforeBooking
  PROVE  BookedIsPast' /\ OwnerIsTold' /\ DoubleBookedOnlyByHand'
<1>1. BookedIsPast'
  BY DEF IInv, BookedIsPast, Unbooked, RowsKept
<1>2. OwnerIsTold'
  BY DEF IInv, OwnerIsTold
<1>3. DoubleBookedOnlyByHand'
  <2>1. SUFFICES ASSUME NEW a \in announced, NEW b \in announced, a # b, Active(a)', Active(b)',
                        appts'[a].slot = appts'[b].slot,
                        assignedRep[appts'[a].lead] = assignedRep[appts'[b].lead],
                        assignedRep[appts'[a].lead] # NoRep
                 PROVE  {appts'[a].lead, appts'[b].lead} \cap excused' # {}
    BY DEF DoubleBookedOnlyByHand
  <2>2. /\ Active(a) /\ Active(b) /\ appts[a].slot = appts[b].slot
        /\ appts'[a].lead = appts[a].lead /\ appts'[b].lead = appts[b].lead
    BY <2>1 DEF RowsKept
  <2>3. {appts[a].lead, appts[b].lead} \cap excused # {}
    BY <2>1, <2>2 DEF IInv, DoubleBookedOnlyByHand
  <2>4. QED
    BY <2>2, <2>3
<1>4. QED
  BY <1>1, <1>2, <1>3

(***************************************************************************)
(* So do those about what the event loop is at, while it does nothing.     *)
(***************************************************************************)
LEMMA LoopFrame ==
  ASSUME IInv, RowsKept, UNCHANGED <<state, assignedRep, announced, addressed, team>>,
         excused \subseteq excused', turn'["loop"] = turn["loop"]
  PROVE  LoopKnows' /\ RepIsFree' /\ OwnerIsStaff'
<1>1. Staff' = Staff
  BY DEF Staff
<1>2. LoopKnows'
  BY <1>1 DEF IInv, LoopKnows
<1>3. RepIsFree'
  BY <1>1 DEF IInv, RepIsFree, Unbooked, RowsKept
<1>4. OwnerIsStaff'
  BY <1>1 DEF IInv, OwnerIsStaff
<1>5. QED
  BY <1>2, <1>3, <1>4

\* Nothing is known, and nothing can be wrong, while the event loop is at no turn.
LEMMA LoopIdle ==
  ASSUME turn'["loop"].step \in {"idle", "showed"}
  PROVE  LoopKnows' /\ RepIsFree' /\ OwnerIsStaff'
BY DEF LoopKnows, RepIsFree, OwnerIsStaff

\* The count of messages looks at the leads of rows only.
LEMMA NudgesFrame ==
  ASSUME IInv, UNCHANGED <<nudges, nudged, crashes, sweep>>,
         \A a \in Rows : appts'[a].lead = appts[a].lead
  PROVE  NudgesCounted'
<1>1. \A l : Recording(l)' = Recording(l)
  BY DEF IInv, TypeOK, Recording
<1>2. QED
  BY <1>1 DEF IInv, NudgesCounted
-----------------------------------------------------------------------------
(* An AI turn                                                              *)

\* A turn of the poll has the poll's fate, whatever the event loop is at.
LEMMA PollFrame ==
  ASSUME IInv, turn'["poll"] = turn["poll"]
  PROVE  PollRejects'
BY DEF IInv, PollRejects

(***************************************************************************)
(* A turn begins with what the tables hold.                                *)
(***************************************************************************)
LEMMA AskKeeps ==
  ASSUME IInv, NEW p \in Threads, NEW l \in Leads, NEW s \in Slots, Ask(p, l, s)
  PROVE  IInv'
<1>1. TypeOK /\ state[l] \in LeadStates /\ assignedRep[l] \in Reps \cup {NoRep} /\ Staff \in SUBSET Reps
  BY DEF IInv, TypeOK, Staff
<1>2. PICK r \in Candidates(assignedRep[l], s) :
        /\ turn' = [turn EXCEPT ![p] = [step |-> "commit", lead |-> l, slot |-> s, seen |-> state[l],
                                        owner |-> assignedRep[l], rep |-> r, staff |-> Staff]]
        /\ excused' = IF assignedRep[l] # NoRep /\ r = NoRep THEN excused \cup {l} ELSE excused
  BY DEF Ask
<1>3. /\ r \in Reps \cup {NoRep}
      /\ assignedRep[l] # NoRep => r \in {assignedRep[l], NoRep}
      /\ r # NoRep => r \in Staff /\ ~HasAppointment(r, s)
  BY <1>1, CandidateIsFree
<1>4. /\ state[l] \in Bookable /\ (p = "poll" => state[l] = "AUTO_REPLIED")
      /\ UNCHANGED <<table, env, sweep, nudges>>
  BY DEF Ask
<1>5. UNCHANGED <<state, assignedRep, appts, announced, nudged, addressed, team, clock, crashes, sweep, nudges>>
  BY <1>4 DEF table, env
<1>6. excused \subseteq excused' /\ excused' \subseteq Leads
  BY <1>1, <1>2 DEF TypeOK
<1>7. /\ turn' \in [Threads -> {NoTurn} \cup Turn]
      /\ turn'[p].step = "commit" /\ turn'[p].lead = l /\ turn'[p].slot = s /\ turn'[p].seen = state[l]
      /\ turn'[p].owner = assignedRep[l] /\ turn'[p].rep = r /\ turn'[p].staff = Staff
      /\ \A q \in Threads \ {p} : turn'[q] = turn[q]
  <2> DEFINE x == [step |-> "commit", lead |-> l, slot |-> s, seen |-> state[l],
                   owner |-> assignedRep[l], rep |-> r, staff |-> Staff]
  <2>1. x \in Turn
    BY <1>1, <1>3 DEF Turn
  <2>2. turn' = [turn EXCEPT ![p] = x]
    BY <1>2
  <2>3. /\ turn' \in [Threads -> {NoTurn} \cup Turn] /\ turn'[p] = x
        /\ \A q \in Threads \ {p} : turn'[q] = turn[q]
    <3> HIDE DEF x
    <3>1. QED
      BY <1>1, <2>1, <2>2, TurnMoves
  <2>4. QED
    BY <2>3
<1>8. TypeOK'
  BY <1>1, <1>5, <1>6, <1>7 DEF TypeOK, Rows
<1>9. RowsKept /\ \A a \in Rows : appts'[a].lead = appts[a].lead
  BY <1>5 DEF RowsKept, Active
<1>10. BookedIsPast' /\ OwnerIsTold' /\ DoubleBookedOnlyByHand' /\ NudgesCounted'
  BY <1>5, <1>6, <1>9, LeadsFrame, NudgesFrame
<1>11. PollRejects' /\ LoopKnows' /\ RepIsFree' /\ OwnerIsStaff'
  <2>1. CASE p = "poll"
    <3>1. turn'["loop"] = turn["loop"]
      BY <1>7, <2>1 DEF Threads
    <3>2. PollRejects'
      BY <1>4, <1>7, <2>1 DEF PollRejects
    <3>3. QED
      BY <1>5, <1>6, <1>9, <3>1, <3>2, LoopFrame
  <2>2. CASE p = "loop"
    <3>1. turn'["poll"] = turn["poll"]
      BY <1>7, <2>2 DEF Threads
    <3>2. Staff' = Staff
      BY <1>5 DEF Staff
    <3>3. LoopKnows' /\ OwnerIsStaff'
      BY <1>5, <1>7, <2>2, <3>2 DEF LoopKnows, OwnerIsStaff
    <3>4. l \notin excused' => Unbooked(l)' /\ (assignedRep[l] # NoRep => r = assignedRep[l])
      <4>1. state[l] \in BeforeBooking
        BY <1>4 DEF Bookable, BeforeBooking
      <4>2. l \notin excused => Unbooked(l)
        BY <4>1 DEF IInv, BookedIsPast
      <4>3. Unbooked(l)' = Unbooked(l)
        BY <1>5 DEF Unbooked
      <4>4. QED
        BY <1>2, <1>3, <1>6, <4>2, <4>3
    <3>5. r # NoRep => /\ r \in Staff'
                       /\ \A a \in announced' : Active(a)' /\ appts'[a].slot = s => assignedRep'[appts'[a].lead] # r
      <4>1. announced \subseteq Rows
        BY <1>1 DEF TypeOK
      <4>2. QED
        BY <1>3, <1>5, <3>2, <4>1 DEF HasAppointment, Active
    <3>6. RepIsFree'
      BY <1>7, <2>2, <3>4, <3>5 DEF RepIsFree
    <3>7. QED
      BY <3>1, <3>3, <3>6, PollFrame
  <2>3. QED
    BY <2>1, <2>2 DEF Threads
<1>12. SlotIsOffered'
  BY <1>7 DEF IInv, SlotIsOffered
<1>13. QED
  BY <1>8, <1>10, <1>11, <1>12 DEF IInv

\* The row is committed, whichever thread it is.
LEMMA CommitRowKeeps ==
  ASSUME IInv, NEW p \in Threads, CommitRow(p)
  PROVE  IInv'
<1>1. /\ turn[p].step = "commit" /\ turn' = [turn EXCEPT ![p].step = "move"]
      /\ appts' = Append(appts, [lead |-> turn[p].lead, slot |-> turn[p].slot, status |-> "set"])
      /\ UNCHANGED <<state, assignedRep, announced, nudged, addressed, env, sweep, excused, nudges>>
  BY DEF CommitRow, Goto
<1>2. UNCHANGED <<team, clock, crashes>>
  BY <1>1 DEF env
<1>3. TypeOK /\ turn[p] \in Turn /\ turn[p].lead \in Leads
  BY <1>1, TurnRuns DEF IInv
<1>4. /\ turn' \in [Threads -> {NoTurn} \cup Turn]
      /\ turn'[p] = [turn[p] EXCEPT !.step = "move"] /\ \A q \in Threads \ {p} : turn'[q] = turn[q]
  <2>1. [turn[p] EXCEPT !.step = "move"] \in Turn
    BY <1>3 DEF Turn
  <2>2. turn' = [turn EXCEPT ![p] = [turn[p] EXCEPT !.step = "move"]]
    BY <1>1
  <2>3. QED
    BY <1>3, <2>1, <2>2, TurnMoves
<1>5. /\ turn'[p].step = "move" /\ turn'[p].lead = turn[p].lead /\ turn'[p].seen = turn[p].seen
      /\ turn'[p].owner = turn[p].owner /\ turn'[p].rep = turn[p].rep /\ turn'[p].slot = turn[p].slot
      /\ turn'[p].staff = turn[p].staff
  BY <1>3, <1>4 DEF Turn
<1>6. /\ appts' \in Seq(Row) /\ Rows \subseteq Rows' /\ \A a \in Rows : appts'[a] = appts[a]
  <2>1. turn[p].slot \in Slots
    BY <1>1 DEF IInv, SlotIsOffered
  <2>2. [lead |-> turn[p].lead, slot |-> turn[p].slot, status |-> "set"] \in Row
    BY <1>3, <2>1 DEF Row, Statuses
  <2>3. QED
    BY <1>1, <1>3, <2>2, RowsAppended
<1>7. TypeOK'
  BY <1>1, <1>2, <1>3, <1>4, <1>6 DEF TypeOK
<1>8. RowsKept
  BY <1>3, <1>6 DEF RowsKept, Active, TypeOK
<1>9. BookedIsPast' /\ OwnerIsTold' /\ DoubleBookedOnlyByHand' /\ NudgesCounted'
  BY <1>1, <1>2, <1>6, <1>8, LeadsFrame, NudgesFrame
<1>10. PollRejects' /\ LoopKnows' /\ RepIsFree' /\ OwnerIsStaff'
  <2>1. CASE p = "poll"
    <3>1. turn'["loop"] = turn["loop"]
      BY <1>4, <2>1 DEF Threads
    <3>2. PollRejects'
      BY <1>1, <1>5, <2>1 DEF IInv, PollRejects, NoTurn
    <3>3. QED
      BY <1>1, <1>2, <1>8, <3>1, <3>2, LoopFrame
  <2>2. CASE p = "loop"
    <3>1. turn'["poll"] = turn["poll"]
      BY <1>4, <2>2 DEF Threads
    <3>2. Staff' = Staff
      BY <1>2 DEF Staff
    <3>3. LoopKnows' /\ OwnerIsStaff'
      BY <1>1, <1>5, <2>2, <3>2 DEF IInv, LoopKnows, OwnerIsStaff
    <3>4. \A l : Unbooked(l) => Unbooked(l)'
      BY <1>1, <1>8 DEF Unbooked, RowsKept
    <3>5. \A a \in announced : Active(a)' /\ appts'[a].slot = turn[p].slot =>
            Active(a) /\ appts[a].slot = turn[p].slot /\ appts'[a].lead = appts[a].lead
      BY <1>8 DEF RowsKept
    <3>6. RepIsFree'
      <4>1. /\ turn["loop"].lead \notin excused =>
                 Unbooked(turn["loop"].lead) /\ (turn["loop"].owner # NoRep => turn["loop"].rep = turn["loop"].owner)
            /\ turn["loop"].rep # NoRep =>
                 /\ turn["loop"].rep \in Staff
                 /\ \A a \in announced : Active(a) /\ appts[a].slot = turn["loop"].slot =>
                                        assignedRep[appts[a].lead] # turn["loop"].rep
        BY <1>1, <2>2 DEF IInv, RepIsFree
      <4>2. UNCHANGED <<excused, announced, assignedRep>>
        BY <1>1
      <4>3. turn'["loop"].rep # NoRep =>
              \A a \in announced' : Active(a)' /\ appts'[a].slot = turn'["loop"].slot =>
                                    assignedRep'[appts'[a].lead] # turn'["loop"].rep
        BY <1>5, <2>2, <3>5, <4>1, <4>2
      <4>4. QED
        BY <1>5, <2>2, <3>2, <3>4, <4>1, <4>2, <4>3 DEF RepIsFree
    <3>7. QED
      BY <3>1, <3>3, <3>6, PollFrame
  <2>3. QED
    BY <2>1, <2>2 DEF Threads
<1>11. SlotIsOffered'
  BY <1>4, <1>5 DEF IInv, SlotIsOffered
<1>12. QED
  BY <1>7, <1>9, <1>10, <1>11 DEF IInv

\* The poll's booking ends here; the event loop's can too.
LEMMA RejectMoveKeeps ==
  ASSUME IInv, NEW p \in Threads, RejectMove(p)
  PROVE  IInv'
<1>1. turn' = [turn EXCEPT ![p] = NoTurn] /\ UNCHANGED <<table, env, sweep, excused, nudges>>
  BY DEF RejectMove
<1>2. UNCHANGED <<state, assignedRep, appts, announced, nudged, addressed, team, clock, crashes, sweep, excused,
                  nudges>>
  BY <1>1 DEF table, env
<1>3. /\ turn' \in [Threads -> {NoTurn} \cup Turn] /\ turn'[p] = NoTurn
      /\ \A q \in Threads \ {p} : turn'[q] = turn[q]
  BY <1>1, TurnMoves DEF IInv
<1>4. TypeOK'
  BY <1>2, <1>3 DEF IInv, TypeOK, Rows
<1>5. RowsKept /\ \A a \in Rows : appts'[a].lead = appts[a].lead
  BY <1>2 DEF RowsKept, Active
<1>6. BookedIsPast' /\ OwnerIsTold' /\ DoubleBookedOnlyByHand' /\ NudgesCounted'
  BY <1>2, <1>5, LeadsFrame, NudgesFrame
<1>7. PollRejects' /\ LoopKnows' /\ RepIsFree' /\ OwnerIsStaff'
  <2>1. CASE p = "poll"
    BY <1>2, <1>3, <1>5, <2>1, LoopFrame DEF Threads, PollRejects
  <2>2. CASE p = "loop"
    BY <1>3, <2>2, LoopIdle, PollFrame DEF Threads, NoTurn
  <2>3. QED
    BY <2>1, <2>2 DEF Threads
<1>8. SlotIsOffered'
  BY <1>3 DEF IInv, SlotIsOffered, NoTurn
<1>9. QED
  BY <1>4, <1>6, <1>7, <1>8 DEF IInv

\* Only a booking of the event loop goes through.
LEMMA OnlyTheLoopBooks ==
  ASSUME IInv, NEW p \in Threads, CommitMove(p) \/ Announce(p) \/ Tell(p)
  PROVE  p = "loop"
<1>1. CASE p = "poll"
  <2>1. turn["poll"].step \in {"move", "own", "tell"}
    BY <1>1 DEF CommitMove, Announce, Tell
  <2>2. turn["poll"].step \in {"commit", "move"} /\ turn["poll"].seen = "AUTO_REPLIED"
    BY <2>1 DEF IInv, PollRejects, NoTurn
  <2>3. CanTransition("AUTO_REPLIED", "APPT_SET")
    BY <1>1, <2>1, <2>2 DEF CommitMove, Announce, Tell
  <2>4. QED
    BY <2>3, NotFromAutoReplied
<1>2. QED
  BY <1>1 DEF Threads

(***************************************************************************)
(* The lead moves to APPT_SET, and its copy is reloaded.                   *)
(***************************************************************************)
LEMMA CommitMoveKeeps ==
  ASSUME IInv, NEW p \in Threads, CommitMove(p)
  PROVE  IInv'
<1> DEFINE t == turn["loop"]
           u == [t EXCEPT !.step = "own", !.seen = "APPT_SET", !.owner = assignedRep[t.lead]]
<1>1. p = "loop"
  BY OnlyTheLoopBooks
<1>2. /\ t.step = "move" /\ state' = [state EXCEPT ![t.lead] = "APPT_SET"]
      /\ turn' = [turn EXCEPT !["loop"] = u]
      /\ UNCHANGED <<assignedRep, appts, announced, nudged, addressed, env, sweep, excused, nudges>>
  BY <1>1 DEF CommitMove
<1>3. UNCHANGED <<team, clock, crashes>>
  BY <1>2 DEF env
<1>4. /\ TypeOK /\ t \in Turn /\ t.lead \in Leads /\ state \in [Leads -> LeadStates]
      /\ assignedRep[t.lead] \in Reps \cup {NoRep} /\ "APPT_SET" \in LeadStates
  BY <1>2, TurnRuns DEF IInv, TypeOK, Threads, LeadStates
<1>5. /\ u \in Turn /\ u.step = "own" /\ u.lead = t.lead /\ u.owner = assignedRep[t.lead]
      /\ u.rep = t.rep /\ u.slot = t.slot /\ u.staff = t.staff
  BY <1>4 DEF Turn
<1>6. turn' \in [Threads -> {NoTurn} \cup Turn] /\ turn'["loop"] = u /\ turn'["poll"] = turn["poll"]
  <2> HIDE DEF u
  <2>1. QED
    BY <1>2, <1>4, <1>5, TurnMoves DEF Threads
<1>7. /\ state' \in [Leads -> LeadStates] /\ state'[t.lead] = "APPT_SET"
      /\ \A l \in Leads \ {t.lead} : state'[l] = state[l]
  BY <1>2, <1>4
<1> HIDE DEF u
<1>8. TypeOK'
  BY <1>2, <1>3, <1>4, <1>6, <1>7 DEF TypeOK, Rows
<1>9. RowsKept /\ \A a \in Rows : appts'[a].lead = appts[a].lead
  BY <1>2 DEF RowsKept, Active
<1>10. BookedIsPast' /\ OwnerIsTold' /\ DoubleBookedOnlyByHand' /\ NudgesCounted'
  <2>1. \A l \in Leads \ excused' : state'[l] \in BeforeBooking => state[l] \in BeforeBooking
    BY <1>7 DEF BeforeBooking
  <2>2. QED
    BY <1>2, <1>3, <1>9, <2>1, LeadsFrame, NudgesFrame
<1>11. PollRejects' /\ SlotIsOffered'
  BY <1>5, <1>6, PollFrame DEF IInv, SlotIsOffered, Threads
<1>12. Staff' = Staff
  BY <1>3 DEF Staff
<1>13. LoopKnows' /\ OwnerIsStaff'
  BY <1>2, <1>5, <1>6, <1>7, <1>12 DEF IInv, LoopKnows, OwnerIsStaff
<1>14. RepIsFree'
  <2>1. u.owner = t.owner
    BY <1>2, <1>5 DEF IInv, LoopKnows
  <2>2. QED
    BY <1>2, <1>5, <1>6, <1>12, <2>1 DEF IInv, RepIsFree, Unbooked, Active
<1>15. QED
  BY <1>8, <1>10, <1>11, <1>13, <1>14 DEF IInv

(***************************************************************************)
(* The booking is announced, and a lead without a rep has one: a lead that *)
(* had no announced row, and a rep who had none for that slot.             *)
(***************************************************************************)
LEMMA AnnounceKeeps ==
  ASSUME IInv, NEW p \in Threads, Announce(p)
  PROVE  IInv'
<1> DEFINE t == turn["loop"]
           u == [t EXCEPT !.step = "tell", !.owner = IF @ = NoRep THEN t.rep ELSE @]
           mine == {a \in Rows : appts[a].lead = t.lead /\ appts[a].slot = t.slot}
           newest == {a \in mine : \A b \in mine : b <= a}
<1>1. p = "loop"
  BY OnlyTheLoopBooks
<1>2. /\ t.step = "own" /\ announced' = announced \cup newest
      /\ assignedRep' = IF t.rep = NoRep \/ t.owner # NoRep THEN assignedRep
                        ELSE [assignedRep EXCEPT ![t.lead] = t.rep]
      /\ turn' = [turn EXCEPT !["loop"] = u]
      /\ UNCHANGED <<state, appts, nudged, addressed, env, sweep, excused, nudges>>
  BY <1>1 DEF Announce
<1>3. UNCHANGED <<team, clock, crashes>>
  BY <1>2 DEF env
<1>4. /\ TypeOK /\ t \in Turn /\ t.lead \in Leads /\ assignedRep \in [Leads -> Reps \cup {NoRep}]
      /\ t.owner \in Reps \cup {NoRep} /\ t.rep \in Reps \cup {NoRep} /\ announced \subseteq Rows
  BY <1>2, TurnRuns DEF IInv, TypeOK, Threads
<1>5. /\ u \in Turn /\ u.step = "tell" /\ u.lead = t.lead /\ u.rep = t.rep /\ u.staff = t.staff
      /\ u.owner = IF t.owner = NoRep THEN t.rep ELSE t.owner
  BY <1>4 DEF Turn
<1>6. turn' \in [Threads -> {NoTurn} \cup Turn] /\ turn'["loop"] = u /\ turn'["poll"] = turn["poll"]
  <2> HIDE DEF u
  <2>1. QED
    BY <1>2, <1>4, <1>5, TurnMoves DEF Threads
<1>7. /\ newest \subseteq Rows /\ \A a \in newest : appts[a].lead = t.lead /\ appts[a].slot = t.slot
      /\ \A a, b \in newest : a = b
  BY <1>4, RowsAreRows
<1> HIDE DEF u, newest, mine
<1>8. /\ t.owner = assignedRep[t.lead] /\ t.staff = Staff /\ state[t.lead] = "APPT_SET"
      /\ t.lead \notin excused => Unbooked(t.lead) /\ (t.owner # NoRep => t.rep = t.owner)
      /\ t.rep # NoRep =>
           /\ t.rep \in Staff
           /\ \A a \in announced : Active(a) /\ appts[a].slot = t.slot => assignedRep[appts[a].lead] # t.rep
  BY <1>2 DEF IInv, LoopKnows, RepIsFree
<1>9. /\ assignedRep' \in [Leads -> Reps \cup {NoRep}] /\ u.owner = assignedRep'[t.lead]
      /\ \A l \in Leads \ {t.lead} : assignedRep'[l] = assignedRep[l]
      /\ assignedRep'[t.lead] = IF t.owner = NoRep THEN t.rep ELSE t.owner
  BY <1>2, <1>4, <1>5, <1>8
<1>10. TypeOK'
  <2>1. announced' \subseteq Rows'
    BY <1>2, <1>4, <1>7 DEF Rows
  <2>2. QED
    BY <1>2, <1>3, <1>4, <1>6, <1>9, <2>1 DEF TypeOK, Rows
<1>11. Staff' = Staff
  BY <1>3 DEF Staff
<1>12. PollRejects' /\ SlotIsOffered' /\ NudgesCounted'
  BY <1>2, <1>3, <1>5, <1>6, PollFrame, NudgesFrame DEF IInv, SlotIsOffered, Threads
<1>13. BookedIsPast'
  BY <1>2, <1>7, <1>8 DEF IInv, BookedIsPast, Unbooked, BeforeBooking
<1>14. LoopKnows' /\ RepIsFree' /\ OwnerIsStaff'
  <2>1. LoopKnows'
    BY <1>2, <1>5, <1>6, <1>8, <1>9, <1>11 DEF LoopKnows
  <2>2. RepIsFree'
    BY <1>5, <1>6 DEF RepIsFree
  <2>3. OwnerIsStaff'
    BY <1>2, <1>4, <1>5, <1>6, <1>8, <1>11 DEF OwnerIsStaff
  <2>4. QED
    BY <2>1, <2>2, <2>3
<1>15. OwnerIsTold'
  BY <1>2, <1>4, <1>8, <1>9, NoRepAssumption DEF IInv, OwnerIsTold, Unbooked
<1>16. DoubleBookedOnlyByHand'
  <2>1. SUFFICES ASSUME NEW a \in announced', NEW b \in announced', a # b, Active(a), Active(b),
                        appts[a].slot = appts[b].slot,
                        assignedRep'[appts[a].lead] = assignedRep'[appts[b].lead],
                        assignedRep'[appts[a].lead] # NoRep,
                        appts[a].lead \notin excused, appts[b].lead \notin excused
                 PROVE  FALSE
    BY <1>2 DEF DoubleBookedOnlyByHand, Active
  <2>2. appts[a].lead \in Leads /\ appts[b].lead \in Leads
    BY <1>2, <1>4, <1>7, RowsAreRows
  <2>3. \A c \in announced : t.lead \notin excused => appts[c].lead # t.lead
    BY <1>8 DEF Unbooked
  \* Of the new row and an announced one: the rep was free.
  <2>4. ASSUME NEW c \in newest, NEW d \in announced, Active(d), appts[c].slot = appts[d].slot,
               assignedRep'[appts[c].lead] = assignedRep'[appts[d].lead],
               assignedRep'[appts[c].lead] # NoRep, appts[c].lead \notin excused, appts[d].lead \in Leads
        PROVE  FALSE
    <3>1. appts[c].lead = t.lead /\ appts[c].slot = t.slot /\ t.lead \notin excused
      BY <1>7, <2>4
    <3>2. assignedRep'[t.lead] = t.rep /\ t.rep # NoRep
      BY <1>8, <1>9, <2>4, <3>1
    <3>3. assignedRep'[appts[d].lead] = assignedRep[appts[d].lead]
      BY <1>9, <2>3, <2>4, <3>1
    <3>4. QED
      BY <1>8, <2>4, <3>1, <3>2, <3>3
  <2>5. CASE a \in newest /\ b \in newest
    BY <1>7, <2>1, <2>5
  <2>6. CASE a \in newest /\ b \in announced
    BY <2>1, <2>2, <2>4, <2>6
  <2>7. CASE a \in announced /\ b \in newest
    BY <2>1, <2>2, <2>4, <2>7
  <2>8. CASE a \in announced /\ b \in announced
    <3>1. /\ assignedRep'[appts[a].lead] = assignedRep[appts[a].lead]
          /\ assignedRep'[appts[b].lead] = assignedRep[appts[b].lead]
      BY <1>9, <2>1, <2>2, <2>3, <2>8
    <3>2. {appts[a].lead, appts[b].lead} \cap excused # {}
      BY <2>1, <2>8, <3>1 DEF IInv, DoubleBookedOnlyByHand
    <3>3. QED
      BY <2>1, <3>2
  <2>9. QED
    BY <1>2, <2>5, <2>6, <2>7, <2>8
<1>17. QED
  BY <1>10, <1>12, <1>13, <1>14, <1>15, <1>16 DEF IInv

(***************************************************************************)
(* The one who is told has the lead.                                       *)
(***************************************************************************)
LEMMA TellKeeps ==
  ASSUME IInv, NEW p \in Threads, Tell(p)
  PROVE  IInv'
<1> DEFINE t == turn["loop"]
<1>1. p = "loop"
  BY OnlyTheLoopBooks
<1>2. /\ t.step = "tell" /\ addressed' = [addressed EXCEPT ![t.lead] = Addressee("loop")]
      /\ turn' = [turn EXCEPT !["loop"] = NoTurn]
      /\ UNCHANGED <<state, assignedRep, appts, announced, nudged, env, sweep, excused, nudges>>
  BY <1>1 DEF Tell
<1>3. UNCHANGED <<team, clock, crashes>>
  BY <1>2 DEF env
<1>4. /\ TypeOK /\ t.lead \in Leads /\ addressed \in [Leads -> Reps \cup {"nobody", "dealership"}]
      /\ t.owner \in Reps \cup {NoRep} /\ t.staff \in SUBSET Reps
  BY <1>2, TurnRuns DEF IInv, TypeOK, Threads
<1>5. turn' \in [Threads -> {NoTurn} \cup Turn] /\ turn'["loop"] = NoTurn /\ turn'["poll"] = turn["poll"]
  BY <1>2, <1>4, TurnMoves DEF Threads
<1>6. /\ addressed' \in [Leads -> Reps \cup {"nobody", "dealership"}]
      /\ addressed'[t.lead] = IF t.owner \in t.staff THEN t.owner ELSE "dealership"
      /\ \A l \in Leads \ {t.lead} : addressed'[l] = addressed[l]
  BY <1>2, <1>4 DEF Addressee
<1>7. /\ t.owner = assignedRep[t.lead] /\ t.staff = Staff /\ state[t.lead] = "APPT_SET"
      /\ t.lead \notin excused => t.owner \in Staff \cup {NoRep}
  BY <1>2 DEF IInv, LoopKnows, OwnerIsStaff
<1>8. TypeOK'
  BY <1>2, <1>3, <1>4, <1>5, <1>6 DEF TypeOK, Rows
<1>9. PollRejects' /\ SlotIsOffered' /\ NudgesCounted' /\ LoopKnows' /\ RepIsFree' /\ OwnerIsStaff'
  <2>1. turn'["loop"].step = "idle"
    BY <1>5 DEF NoTurn
  <2>2. QED
    BY <1>2, <1>3, <1>5, <2>1, PollFrame, LoopIdle, NudgesFrame DEF IInv, SlotIsOffered, Threads
<1>10. BookedIsPast'
  BY <1>2, <1>6, <1>7 DEF IInv, BookedIsPast, Unbooked, BeforeBooking
<1>11. OwnerIsTold'
  BY <1>2, <1>4, <1>6, <1>7, NoRepAssumption DEF IInv, OwnerIsTold
<1>12. DoubleBookedOnlyByHand'
  BY <1>2 DEF IInv, DoubleBookedOnlyByHand, Active
<1>13. QED
  BY <1>8, <1>9, <1>10, <1>11, <1>12 DEF IInv
-----------------------------------------------------------------------------
(* What people do                                                          *)

\* The dashboard's buttons and a rep's answer mark a row while the event loop is free.
LEMMA MarkKeeps ==
  ASSUME IInv, NEW c \in Rows, LoopFree, MarkShowed(c) \/ MarkNoShow(c)
  PROVE  IInv'
<1>1. /\ SetStatus(c, "showed") \/ SetStatus(c, "no_show")
      /\ UNCHANGED <<state, assignedRep, announced, nudged, addressed, env, sweep, excused, nudges>>
  BY DEF MarkShowed, MarkNoShow
<1>2. UNCHANGED <<team, clock, crashes>>
  BY <1>1 DEF env
<1>3. TypeOK /\ appts[c].lead \in Leads /\ state[appts[c].lead] \in LeadStates
  BY RowsAreRows DEF IInv, TypeOK
<1>4. /\ appts' \in Seq(Row) /\ Rows' = Rows
      /\ \A b \in Rows : appts'[b].lead = appts[b].lead
      /\ RowsKept
  <2>1. "showed" \in Statuses \ {"set"} /\ "no_show" \in Statuses \ {"set"}
    BY DEF Statuses
  <2>2. /\ appts' \in Seq(Row) /\ Rows' = Rows
        /\ \A b \in Rows : /\ appts'[b].lead = appts[b].lead /\ appts'[b].slot = appts[b].slot
                           /\ Active(b)' => Active(b)
    BY <1>1, <1>3, <2>1, RowMarked
  <2>3. announced \subseteq Rows
    BY <1>3 DEF TypeOK
  <2>4. QED
    BY <2>2, <2>3 DEF RowsKept
<1>5. /\ turn' \in [Threads -> {NoTurn} \cup Turn] /\ turn'["poll"] = turn["poll"]
      /\ turn'["loop"].step \in {"idle", "showed"}
  <2>1. CASE MarkShowed(c)
    <3> DEFINE x == [step |-> "showed", lead |-> appts[c].lead, seen |-> state[appts[c].lead],
                     owner |-> NoRep, rep |-> NoRep, slot |-> NoSlot, staff |-> {}]
    <3>1. x \in Turn /\ x.step = "showed"
      BY <1>3 DEF Turn
    <3>2. turn' = [turn EXCEPT !["loop"] = x]
      BY <2>1 DEF MarkShowed
    <3> HIDE DEF x
    <3>3. QED
      BY <1>3, <3>1, <3>2, TurnMoves DEF Threads
  <2>2. CASE MarkNoShow(c)
    BY <1>3, <2>2 DEF MarkNoShow, LoopFree, NoTurn, TypeOK
  <2>3. QED
    BY <2>1, <2>2
<1>6. TypeOK'
  BY <1>1, <1>2, <1>3, <1>4, <1>5 DEF TypeOK
<1>7. BookedIsPast' /\ OwnerIsTold' /\ DoubleBookedOnlyByHand' /\ NudgesCounted'
  <2>1. UNCHANGED <<state, assignedRep, announced, addressed, nudges, nudged, crashes, sweep>>
    BY <1>1, <1>2
  <2>2. excused' = excused /\ \A l : state'[l] \in BeforeBooking => state[l] \in BeforeBooking
    BY <1>1
  <2>3. QED
    BY <1>4, <2>1, <2>2, LeadsFrame, NudgesFrame
<1>8. PollRejects' /\ SlotIsOffered' /\ LoopKnows' /\ RepIsFree' /\ OwnerIsStaff'
  BY <1>5, PollFrame, LoopIdle DEF IInv, SlotIsOffered, Threads
<1>9. QED
  BY <1>6, <1>7, <1>8 DEF IInv

\* The lead of a row marked "showed" follows.
LEMMA LeadShowedKeeps ==
  ASSUME IInv, LeadShowed
  PROVE  IInv'
<1>1. /\ turn["loop"].step = "showed" /\ turn' = [turn EXCEPT !["loop"] = NoTurn]
      /\ state' = state \/ state' = [state EXCEPT ![turn["loop"].lead] = "SHOWED"]
      /\ UNCHANGED <<assignedRep, appts, announced, nudged, addressed, env, sweep, excused, nudges>>
  BY DEF LeadShowed
<1>2. UNCHANGED <<team, clock, crashes>>
  BY <1>1 DEF env
<1>3. /\ TypeOK /\ turn["loop"].lead \in Leads /\ state \in [Leads -> LeadStates]
      /\ "SHOWED" \in LeadStates
  BY <1>1, TurnRuns DEF IInv, TypeOK, Threads, LeadStates
<1>4. /\ state' \in [Leads -> LeadStates]
      /\ \A l \in Leads \ excused' : state'[l] \in BeforeBooking => state[l] \in BeforeBooking
  BY <1>1, <1>3 DEF BeforeBooking
<1>5. turn' \in [Threads -> {NoTurn} \cup Turn] /\ turn'["loop"] = NoTurn /\ turn'["poll"] = turn["poll"]
  BY <1>1, <1>3, TurnMoves DEF Threads
<1>6. TypeOK'
  BY <1>1, <1>2, <1>3, <1>4, <1>5 DEF TypeOK, Rows
<1>7. RowsKept /\ \A a \in Rows : appts'[a].lead = appts[a].lead
  BY <1>1 DEF RowsKept, Active
<1>8. BookedIsPast' /\ OwnerIsTold' /\ DoubleBookedOnlyByHand' /\ NudgesCounted'
  BY <1>1, <1>2, <1>4, <1>7, LeadsFrame, NudgesFrame
<1>9. PollRejects' /\ SlotIsOffered' /\ LoopKnows' /\ RepIsFree' /\ OwnerIsStaff'
  <2>1. turn'["loop"].step = "idle"
    BY <1>5 DEF NoTurn
  <2>2. QED
    BY <1>5, <2>1, PollFrame, LoopIdle DEF IInv, SlotIsOffered, Threads
<1>10. QED
  BY <1>6, <1>8, <1>9 DEF IInv

\* A person gives the lead to somebody else: that lead is excused.
LEMMA ChangeOwnerKeeps ==
  ASSUME IInv, NEW l \in Leads, NEW r \in Reps, ChangeOwner(l, r)
  PROVE  IInv'
<1>1. /\ LoopFree /\ assignedRep' = [assignedRep EXCEPT ![l] = r] /\ excused' = excused \cup {l}
      /\ UNCHANGED <<state, appts, announced, nudged, addressed, env, turn, sweep, nudges>>
  BY DEF ChangeOwner
<1>2. UNCHANGED <<team, clock, crashes>>
  BY <1>1 DEF env
<1>3. TypeOK /\ assignedRep \in [Leads -> Reps \cup {NoRep}] /\ announced \subseteq Rows
  BY DEF IInv, TypeOK
<1>4. /\ assignedRep' \in [Leads -> Reps \cup {NoRep}]
      /\ \A m \in Leads \ {l} : assignedRep'[m] = assignedRep[m]
  BY <1>1, <1>3
<1>5. TypeOK'
  BY <1>1, <1>2, <1>3, <1>4 DEF TypeOK, Rows
<1>6. BookedIsPast' /\ OwnerIsTold'
  BY <1>1, <1>4 DEF IInv, BookedIsPast, Unbooked, OwnerIsTold
<1>7. DoubleBookedOnlyByHand'
  <2>1. SUFFICES ASSUME NEW a \in announced, NEW b \in announced, a # b, Active(a), Active(b),
                        appts[a].slot = appts[b].slot,
                        assignedRep'[appts[a].lead] = assignedRep'[appts[b].lead],
                        assignedRep'[appts[a].lead] # NoRep,
                        appts[a].lead \notin excused', appts[b].lead \notin excused'
                 PROVE  FALSE
    BY <1>1 DEF DoubleBookedOnlyByHand, Active
  <2>2. appts[a].lead \in Leads \ {l} /\ appts[b].lead \in Leads \ {l}
    BY <1>1, <1>3, <2>1, RowsAreRows
  <2>3. {appts[a].lead, appts[b].lead} \cap excused # {}
    BY <1>4, <2>1, <2>2 DEF IInv, DoubleBookedOnlyByHand
  <2>4. QED
    BY <1>1, <2>1, <2>3
<1>8. NudgesCounted'
  BY <1>1, <1>2, NudgesFrame
<1>9. PollRejects' /\ SlotIsOffered' /\ LoopKnows' /\ RepIsFree' /\ OwnerIsStaff'
  BY <1>1, PollFrame, LoopIdle DEF IInv, SlotIsOffered, Threads, LoopFree, NoTurn
<1>10. QED
  BY <1>5, <1>6, <1>7, <1>8, <1>9 DEF IInv

\* Any other handler moves the lead: back to before a booking only by a START.
LEMMA OtherMoveKeeps ==
  ASSUME IInv, NEW l \in Leads, NEW m \in OtherMoves, OtherMove(l, m[1], m[2])
  PROVE  IInv'
<1>1. /\ LoopFree /\ state[l] = m[1] /\ state' = [state EXCEPT ![l] = m[2]]
      /\ excused' = IF m[2] = "NEW" THEN excused \cup {l} ELSE excused
      /\ UNCHANGED <<assignedRep, appts, announced, nudged, addressed, env, turn, sweep, nudges>>
  BY DEF OtherMove
<1>2. UNCHANGED <<team, clock, crashes>>
  BY <1>1 DEF env
<1>3. TypeOK /\ state \in [Leads -> LeadStates] /\ excused \subseteq Leads
  BY DEF IInv, TypeOK
<1>4. m[2] \in LeadStates /\ (m[2] \in BeforeBooking => state[l] \in BeforeBooking \/ m[2] = "NEW")
  <2>1. m[1] \in LeadStates /\ CanTransition(m[1], m[2])
    BY <1>1, <1>3, MovesAssumption
  <2>2. m[2] \in LeadStates /\ (m[1] \notin BeforeBooking /\ m[2] # "NEW" => m[2] \notin BeforeBooking)
    BY <2>1, TableMoves
  <2>3. QED
    BY <1>1, <2>2
<1>5. /\ state' \in [Leads -> LeadStates] /\ excused' \subseteq Leads /\ excused \subseteq excused'
      /\ \A k \in Leads \ excused' : state'[k] \in BeforeBooking => state[k] \in BeforeBooking
  <2>1. state'[l] = m[2] /\ \A k \in Leads \ {l} : state'[k] = state[k]
    BY <1>1, <1>3
  <2>2. l \notin excused' => m[2] # "NEW"
    BY <1>1
  <2>3. state' \in [Leads -> LeadStates]
    BY <1>1, <1>3, <1>4
  <2>4. excused' \subseteq Leads /\ excused \subseteq excused'
    BY <1>1, <1>3
  <2>5. QED
    BY <1>4, <2>1, <2>2, <2>3, <2>4
<1>6. TypeOK'
  BY <1>1, <1>2, <1>3, <1>5 DEF TypeOK, Rows
<1>7. RowsKept /\ \A a \in Rows : appts'[a].lead = appts[a].lead
  BY <1>1 DEF RowsKept, Active
<1>8. BookedIsPast' /\ OwnerIsTold' /\ DoubleBookedOnlyByHand' /\ NudgesCounted'
  BY <1>1, <1>2, <1>5, <1>7, LeadsFrame, NudgesFrame
<1>9. PollRejects' /\ SlotIsOffered' /\ LoopKnows' /\ RepIsFree' /\ OwnerIsStaff'
  BY <1>1, PollFrame, LoopIdle DEF IInv, SlotIsOffered, Threads, LoopFree, NoTurn
<1>10. QED
  BY <1>6, <1>8, <1>9 DEF IInv

\* The team changes while the event loop is free.
LEMMA ChangeTeamKeeps ==
  ASSUME IInv, NEW t \in Teams, ChangeTeam(t)
  PROVE  IInv'
<1>1. /\ LoopFree /\ team' = t
      /\ UNCHANGED <<state, assignedRep, appts, announced, nudged, addressed, clock, crashes, turn, sweep,
                     excused, nudges>>
  BY DEF ChangeTeam, table
<1>2. TypeOK'
  BY <1>1 DEF IInv, TypeOK, Rows
<1>3. RowsKept /\ \A a \in Rows : appts'[a].lead = appts[a].lead
  BY <1>1 DEF RowsKept, Active
<1>4. BookedIsPast' /\ OwnerIsTold' /\ DoubleBookedOnlyByHand' /\ NudgesCounted'
  BY <1>1, <1>3, LeadsFrame, NudgesFrame
<1>5. PollRejects' /\ SlotIsOffered' /\ LoopKnows' /\ RepIsFree' /\ OwnerIsStaff'
  BY <1>1, PollFrame, LoopIdle DEF IInv, SlotIsOffered, Threads, LoopFree, NoTurn
<1>6. QED
  BY <1>2, <1>4, <1>5 DEF IInv
-----------------------------------------------------------------------------
(* The no-show nudge, the clock and the restarts                           *)

(***************************************************************************)
(* A step that changes neither a lead nor a row nor a turn.                *)
(***************************************************************************)
LEMMA QuietKeeps ==
  ASSUME IInv, UNCHANGED <<state, assignedRep, appts, announced, addressed, team, turn, excused>>,
         TypeOK', NudgesCounted'
  PROVE  IInv'
<1>1. RowsKept
  BY DEF RowsKept, Active
<1>2. BookedIsPast' /\ OwnerIsTold' /\ DoubleBookedOnlyByHand'
  BY <1>1, LeadsFrame
<1>3. LoopKnows' /\ RepIsFree' /\ OwnerIsStaff'
  BY <1>1, LoopFrame
<1>4. PollRejects' /\ SlotIsOffered'
  BY PollFrame DEF IInv, SlotIsOffered
<1>5. QED
  BY <1>2, <1>3, <1>4 DEF IInv

\* Every step of the sweep.
LEMMA NudgeKeeps ==
  ASSUME IInv, NudgeStep
  PROVE  IInv'
<1>1. UNCHANGED <<state, assignedRep, appts, announced, addressed, team, clock, crashes, turn, excused>>
  BY DEF NudgeStep, NudgeStart, NudgeRecords, NudgeEnd, NudgeSkips, NudgeSends, table, env
<1>2. /\ TypeOK /\ nudges \in [Leads -> Nat] /\ crashes \in Nat /\ nudged \subseteq Leads
      /\ sweep \in [stage : {"idle", "scan", "record"}, todo : SUBSET Rows, chats : SUBSET Reps, row : Nat]
      /\ \A a \in Rows : appts[a].lead \in Leads /\ a \in Nat
  BY RowsAreRows DEF IInv, TypeOK
<1>3. TypeOK' /\ NudgesCounted'
  <2>1. CASE NudgeStart
    <3>1. /\ sweep.stage = "idle"
          /\ sweep' = [stage |-> "scan", todo |-> {a \in Rows : Active(a) /\ Overdue(a)},
                      chats |-> Reachable, row |-> 0]
          /\ UNCHANGED <<nudged, nudges>>
      BY <2>1 DEF NudgeStart, table
    <3>2. /\ sweep' \in [stage : {"idle", "scan", "record"}, todo : SUBSET Rows, chats : SUBSET Reps, row : Nat]
          /\ sweep'.stage = "scan"
      BY <3>1 DEF Reachable
    <3>3. TypeOK'
      BY <1>1, <1>2, <3>1, <3>2 DEF TypeOK, Rows
    <3>4. NudgesCounted'
      BY <1>1, <3>1, <3>2 DEF IInv, NudgesCounted, Recording
    <3>5. QED
      BY <3>3, <3>4
  <2>2. CASE NudgeRecords
    <3>1. /\ sweep.stage = "record" /\ nudged' = nudged \cup {appts[sweep.row].lead}
          /\ sweep' = [sweep EXCEPT !.stage = "scan", !.row = 0] /\ UNCHANGED nudges
      BY <2>2 DEF NudgeRecords
    <3>2. sweep.row \in Rows /\ nudged' \subseteq Leads
      BY <1>2, <3>1 DEF TypeOK
    <3>3. /\ sweep' \in [stage : {"idle", "scan", "record"}, todo : SUBSET Rows, chats : SUBSET Reps, row : Nat]
          /\ sweep'.stage = "scan"
      BY <1>2, <3>1
    <3>4. TypeOK'
      BY <1>1, <1>2, <3>1, <3>2, <3>3 DEF TypeOK, Rows
    <3>5. NudgesCounted'
      BY <1>1, <3>1, <3>3 DEF IInv, NudgesCounted, Recording
    <3>6. QED
      BY <3>4, <3>5
  <2>3. CASE NudgeEnd
    <3>1. sweep.stage = "scan" /\ sweep' = NotSweeping /\ UNCHANGED <<nudged, nudges>>
      BY <2>3 DEF NudgeEnd, table
    <3>2. /\ sweep' \in [stage : {"idle", "scan", "record"}, todo : SUBSET Rows, chats : SUBSET Reps, row : Nat]
          /\ sweep'.stage = "idle"
      BY <3>1 DEF NotSweeping
    <3>3. TypeOK'
      BY <1>1, <1>2, <3>1, <3>2 DEF TypeOK, Rows
    <3>4. NudgesCounted'
      BY <1>1, <3>1, <3>2 DEF IInv, NudgesCounted, Recording
    <3>5. QED
      BY <3>3, <3>4
  <2>4. ASSUME NEW a \in Rows, NudgeSkips(a)
        PROVE  TypeOK' /\ NudgesCounted'
    <3>1. /\ sweep.stage = "scan" /\ sweep' = [sweep EXCEPT !.todo = @ \ {a}]
          /\ UNCHANGED <<nudged, nudges>>
      BY <2>4 DEF NudgeSkips, table
    <3>2. /\ sweep' \in [stage : {"idle", "scan", "record"}, todo : SUBSET Rows, chats : SUBSET Reps, row : Nat]
          /\ sweep'.stage = "scan"
      BY <1>2, <3>1
    <3>3. TypeOK'
      BY <1>1, <1>2, <3>1, <3>2 DEF TypeOK, Rows
    <3>4. NudgesCounted'
      BY <1>1, <3>1, <3>2 DEF IInv, NudgesCounted, Recording
    <3>5. QED
      BY <3>3, <3>4
  <2>5. ASSUME NEW a \in Rows, NudgeSends(a)
        PROVE  TypeOK' /\ NudgesCounted'
    <3>1. /\ sweep.stage = "scan" /\ sweep' = [sweep EXCEPT !.stage = "record", !.todo = @ \ {a}, !.row = a]
          /\ appts[a].lead \notin nudged /\ nudges' = [nudges EXCEPT ![appts[a].lead] = @ + 1]
          /\ UNCHANGED nudged
      BY <2>5 DEF NudgeSends, CanNudge, Asked, table
    <3>2. /\ sweep' \in [stage : {"idle", "scan", "record"}, todo : SUBSET Rows, chats : SUBSET Reps, row : Nat]
          /\ sweep'.stage = "record" /\ sweep'.row = a
      BY <1>2, <3>1
    <3>3. /\ nudges' \in [Leads -> Nat] /\ nudges'[appts[a].lead] = nudges[appts[a].lead] + 1
          /\ \A l \in Leads \ {appts[a].lead} : nudges'[l] = nudges[l]
      BY <1>2, <3>1
    <3>4. TypeOK'
      BY <1>1, <1>2, <3>1, <3>2, <3>3 DEF TypeOK, Rows
    <3>5. NudgesCounted'
      <4>1. \A l \in Leads : ~Recording(l)
        BY <3>1 DEF Recording
      <4>2. \A l \in Leads : Recording(l)' <=> l = appts[a].lead
        BY <1>1, <3>2 DEF Recording
      <4>3. nudges[appts[a].lead] <= crashes
        BY <1>2, <3>1, <4>1 DEF IInv, NudgesCounted
      <4>4. nudges'[appts[a].lead] <= crashes + 1
        BY <1>2, <3>3, <4>3
      <4>5. QED
        BY <1>1, <3>1, <3>3, <4>1, <4>2, <4>4 DEF IInv, NudgesCounted
    <3>6. QED
      BY <3>4, <3>5
  <2>6. QED
    BY <2>1, <2>2, <2>3, <2>4, <2>5 DEF NudgeStep
<1>4. QED
  BY <1>1, <1>3, QuietKeeps

\* Time passes.
LEMMA TickKeeps ==
  ASSUME IInv, Tick
  PROVE  IInv'
<1>1. /\ clock' = clock + 1
      /\ UNCHANGED <<state, assignedRep, appts, announced, nudged, addressed, team, crashes, turn, sweep,
                     excused, nudges>>
  BY DEF Tick, table
<1>2. clock' \in Nat
  BY <1>1 DEF IInv, TypeOK
<1>3. TypeOK'
  BY <1>1, <1>2 DEF IInv, TypeOK, Rows
<1>4. QED
  BY <1>1, <1>3, QuietKeeps, NudgesFrame

\* A restart loses what was under way, a message's record with it.
LEMMA CrashKeeps ==
  ASSUME IInv, Crash
  PROVE  IInv'
<1>1. /\ crashes' = crashes + 1 /\ turn' = [p \in Threads |-> NoTurn] /\ sweep' = NotSweeping
      /\ UNCHANGED <<state, assignedRep, appts, announced, nudged, addressed, team, clock, excused, nudges>>
  BY DEF Crash, table
<1>2. crashes \in Nat /\ nudges \in [Leads -> Nat]
  BY DEF IInv, TypeOK
<1>3. /\ sweep' \in [stage : {"idle", "scan", "record"}, todo : SUBSET Rows, chats : SUBSET Reps, row : Nat]
      /\ sweep'.stage = "idle" /\ crashes' \in Nat
  BY <1>1, <1>2 DEF NotSweeping
<1>4. turn' \in [Threads -> {NoTurn} \cup Turn] /\ \A p \in Threads : turn'[p] = NoTurn
  BY <1>1
<1>5. TypeOK'
  BY <1>1, <1>3, <1>4 DEF IInv, TypeOK, Rows
<1>6. NudgesCounted'
  <2>1. SUFFICES ASSUME NEW l \in Leads
                 PROVE  nudges'[l] <= crashes'
    BY <1>2, <1>1, <1>3 DEF NudgesCounted, Recording
  <2>2. nudges[l] <= crashes + 1 /\ nudges[l] \in Nat
    BY <1>2 DEF IInv, NudgesCounted
  <2>3. QED
    BY <1>1, <2>2
<1>7. RowsKept
  BY <1>1 DEF RowsKept, Active
<1>8. BookedIsPast' /\ OwnerIsTold' /\ DoubleBookedOnlyByHand'
  BY <1>1, <1>7, LeadsFrame
<1>9. PollRejects' /\ SlotIsOffered' /\ LoopKnows' /\ RepIsFree' /\ OwnerIsStaff'
  BY <1>4, LoopIdle DEF PollRejects, SlotIsOffered, Threads, NoTurn
<1>10. QED
  BY <1>5, <1>6, <1>8, <1>9 DEF IInv
-----------------------------------------------------------------------------
(* The theorems                                                            *)

\* Before anything is booked.
LEMMA InitHolds ==
  ASSUME Init
  PROVE  IInv
<1>1. /\ state \in [Leads -> LeadStates] /\ appts = <<>> /\ announced = {} /\ excused = {}
      /\ turn \in [Threads -> {NoTurn} \cup Turn] /\ \A p \in Threads : turn[p].step = "idle" /\ turn[p] = NoTurn
      /\ addressed = [l \in Leads |-> "nobody"] /\ nudges = [l \in Leads |-> 0] /\ crashes = 0
      /\ Rows = {} /\ appts \in Seq(Row)
  BY DEF Init, LeadStates, NoTurn, Rows
<1>2. /\ sweep \in [stage : {"idle", "scan", "record"}, todo : SUBSET Rows, chats : SUBSET Reps, row : Nat]
      /\ sweep.stage = "idle"
  BY DEF Init, NotSweeping
<1>3. TypeOK
  BY <1>1, <1>2 DEF Init, TypeOK
<1>4. BookedIsPast /\ DoubleBookedOnlyByHand /\ NudgesCounted
  BY <1>1 DEF BookedIsPast, Unbooked, DoubleBookedOnlyByHand, NudgesCounted
<1>5. OwnerIsTold
  BY <1>1, NoRepAssumption DEF OwnerIsTold
<1>6. PollRejects /\ SlotIsOffered /\ LoopKnows /\ RepIsFree /\ OwnerIsStaff
  BY <1>1 DEF PollRejects, SlotIsOffered, LoopKnows, RepIsFree, OwnerIsStaff, Threads
<1>7. QED
  BY <1>3, <1>4, <1>5, <1>6 DEF IInv

\* Whatever happens next.
LEMMA NextKeeps ==
  ASSUME IInv, [Next]_vars
  PROVE  IInv'
<1>1. ASSUME NEW p \in Threads, TurnStep(p)
      PROVE  IInv'
  BY <1>1, AskKeeps, CommitRowKeeps, CommitMoveKeeps, RejectMoveKeeps, AnnounceKeeps, TellKeeps DEF TurnStep
<1>2. CASE PeopleStep
  <2>1. ASSUME NEW a \in Rows, DashboardMarks(a) \/ \E r \in Reps : Answers(r, a)
        PROVE  IInv'
    BY <2>1, MarkKeeps DEF DashboardMarks, Answers
  <2>2. QED
    BY <1>2, <2>1, LeadShowedKeeps, ChangeOwnerKeeps, OtherMoveKeeps, ChangeTeamKeeps DEF PeopleStep
<1>3. CASE UNCHANGED vars
  <2>1. UNCHANGED <<state, assignedRep, appts, announced, nudged, addressed, team, clock, crashes, turn, sweep,
                    excused, nudges>>
    BY <1>3 DEF vars, table, env
  <2>2. TypeOK'
    BY <2>1 DEF IInv, TypeOK, Rows
  <2>3. QED
    BY <2>1, <2>2, QuietKeeps, NudgesFrame
<1>4. QED
  BY <1>1, <1>2, <1>3, NudgeKeeps, TickKeeps, CrashKeeps DEF Next

\* The invariant holds in every state.
LEMMA Invariance == Spec => []IInv
<1>1. Init => IInv
  BY InitHolds
<1>2. IInv /\ [Next]_vars => IInv'
  BY NextKeeps
<1>3. QED
  BY <1>1, <1>2, PTL DEF Spec

(***************************************************************************)
(* The state has its types.                                                *)
(***************************************************************************)
THEOREM TypeCorrect == Spec => []TypeOK
<1>1. IInv => TypeOK
  BY DEF IInv
<1>2. QED
  BY <1>1, Invariance, PTL

(***************************************************************************)
(* book_appointment gives a rep's slot to two customers only if a person   *)
(* moved a lead, the rep was off the team, or a START came in between.     *)
(***************************************************************************)
THEOREM DoubleBooked == Spec => []DoubleBookedOnlyByHand
<1>1. IInv => DoubleBookedOnlyByHand
  BY DEF IInv
<1>2. QED
  BY <1>1, Invariance, PTL

(***************************************************************************)
(* _notify_rep_of_appointment tells the rep who has the lead, with the     *)
(* same exceptions.                                                        *)
(***************************************************************************)
THEOREM Told == Spec => []OwnerIsTold
<1>1. IInv => OwnerIsTold
  BY DEF IInv
<1>2. QED
  BY <1>1, Invariance, PTL

(***************************************************************************)
(* The no-show nudge asks once about a lead, and once more at most for     *)
(* every restart.                                                          *)
(***************************************************************************)
THEOREM Nudged == Spec => []AskedOnce
<1>1. IInv => AskedOnce
  <2>1. SUFFICES ASSUME IInv, NEW l \in Leads
                 PROVE  nudges[l] <= 1 + crashes
    BY DEF AskedOnce
  <2>2. nudges[l] \in Nat /\ crashes \in Nat
    BY <2>1 DEF IInv, TypeOK
  <2>3. QED
    BY <2>1, <2>2 DEF IInv, NudgesCounted
<1>2. QED
  BY <1>1, Invariance, PTL
=============================================================================
