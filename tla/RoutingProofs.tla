---------------------------- MODULE RoutingProofs ----------------------------
(***************************************************************************)
(* What holds of Routing for any leads, any team, any bounds: its type     *)
(* invariant, the agreement of the event stream with the lead table, the   *)
(* sweep's decision, the lifecycle it implements, and, of the module that  *)
(* watches it, that passing ends and that a ping keeps its timeout.        *)
(***************************************************************************)
EXTENDS RoutingHistory, TLAPS, FiniteSetTheorems

(***************************************************************************)
(* The table leads from states to states.                                  *)
(***************************************************************************)
LEMMA TableType ==
  \A s \in LeadStates : \A t : CanTransition(s, t) => t \in LeadStates
BY DEF CanTransition, TRANSITIONS, LeadStates

(***************************************************************************)
(* A handler that is not idle is a Handler record.                         *)
(***************************************************************************)
LEMMA HandlerRuns ==
  ASSUME TypeOK, loop.step \in LoopSteps
  PROVE  /\ loop \in Handler
         /\ loop.lead \in Leads /\ loop.rep \in Reps \cup {NoRep}
         /\ loop.to \in LeadStates \cup {NoState} /\ loop.seen \in LeadStates
BY DEF TypeOK, Handler, Idle, LoopSteps, MoveSteps

(***************************************************************************)
(* Moving the pointer on among at most all active reps keeps it a place in *)
(* some roster.                                                            *)
(***************************************************************************)
LEMMA PointerMoves ==
  ASSUME pointer \in Nat, active \in Rosters, NEW n \in Nat \ {0}, n <= Len(active),
         AdvancePointer(n)
  PROVE  pointer' \in Nat /\ \E r \in Rosters : pointer' < Len(r)
<1>1. Len(active) \in Nat
  BY RostersAssumption
<1>2. pointer' \in Nat /\ pointer' < Len(active)
  BY <1>1 DEF AdvancePointer
<1>3. QED
  BY <1>2

(***************************************************************************)
(* A set of free reps is no larger than the list of active reps.           *)
(***************************************************************************)
LEMMA FreeReps ==
  ASSUME active \in Rosters, NEW free \in SUBSET (DOMAIN active), free # {}
  PROVE  Cardinality(free) \in Nat \ {0} /\ Cardinality(free) <= Len(active)
<1>1. DOMAIN active = 1..Len(active) /\ Len(active) \in Nat
  BY RostersAssumption
<1>2. IsFiniteSet(1..Len(active)) /\ Cardinality(1..Len(active)) = Len(active)
  <2>1. 1 \in Int /\ Len(active) \in Int
    BY <1>1
  <2>2. /\ IsFiniteSet(1..Len(active))
        /\ Cardinality(1..Len(active)) = IF 1 > Len(active) THEN 0 ELSE Len(active) - 1 + 1
    BY <2>1, FS_Interval, Zenon
  <2>3. (IF 1 > Len(active) THEN 0 ELSE Len(active) - 1 + 1) = Len(active)
    BY <1>1
  <2>4. QED
    BY <2>2, <2>3
<1>3. IsFiniteSet(free) /\ Cardinality(free) <= Len(active)
  BY <1>1, <1>2, FS_Subset
<1>4. QED
  BY <1>3, FS_CardinalityType, FS_EmptySet
-----------------------------------------------------------------------------
(***************************************************************************)
(* The commits that the handlers share are type correct.                   *)
(***************************************************************************)
LEMMA NotifyType ==
  ASSUME TypeOK, NEW l \in Leads, NEW rep \in Reps, Notify(l, rep)
  PROVE  buttons' \in [Leads -> SUBSET Reps]
BY DEF TypeOK, Notify

\* An appended event names a state, or none.
LEMMA AppendEventType ==
  ASSUME TypeOK, NEW l \in Leads, NEW to \in LeadStates \cup {NoState}, AppendEvent(l, to)
  PROVE  lastTo' \in [Leads -> LeadStates \cup {NoState}] /\ overdue' \subseteq Leads
BY DEF TypeOK, AppendEvent

\* A state written with its event is type correct.
LEMMA WriteStateType ==
  ASSUME TypeOK, NEW l \in Leads, NEW to \in LeadStates, WriteState(l, to)
  PROVE  /\ state' \in [Leads -> LeadStates]
         /\ lastTo' \in [Leads -> LeadStates \cup {NoState}] /\ overdue' \subseteq Leads
BY AppendEventType DEF TypeOK, WriteState

(***************************************************************************)
(* Beginning a handler is type correct.                                    *)
(***************************************************************************)
LEMMA BeginType ==
  ASSUME TypeOK, NEW step \in LoopSteps, NEW l \in Leads, NEW rep \in Reps \cup {NoRep},
         NEW to \in LeadStates \cup {NoState}, Begin(step, l, rep, to)
  PROVE  loop' \in Handler /\ loop'.step = step
<1>1. state[l] \in LeadStates
  BY DEF TypeOK
<1>2. QED
  BY <1>1 DEF Begin, Handler

(***************************************************************************)
(* Handlers begin type correct.                                            *)
(***************************************************************************)
LEMMA BeginsType ==
  ASSUME TypeOK, NEW l \in Leads, Begins(l)
  PROVE  TypeOK'
<1> USE DEF LoopSteps, MoveSteps
<1>1. ASSUME NEW step \in {"claim", "move", "status", "mark", "pass"}, NEW rep \in Reps \cup {NoRep},
             NEW to \in LeadStates \cup {NoState}, Begin(step, l, rep, to), ReadOnly
      PROVE  TypeOK'
  <2>1. loop' \in Handler /\ loop'.step = step
    BY <1>1, BeginType
  <2>2. QED
    BY <1>1, <2>1 DEF TypeOK, ReadOnly, db
<1>2. CASE CustomerText(l)
  BY <1>1, <1>2 DEF CustomerText, LeadStates
<1>3. CASE CustomerStop(l)
  BY <1>1, <1>3 DEF CustomerStop, LeadStates
<1>4. CASE CustomerStart(l)
  BY <1>1, <1>4 DEF CustomerStart, LeadStates
<1>5. CASE AiHandoff(l)
  BY <1>1, <1>5 DEF AiHandoff, LeadStates
<1>6. CASE AiBooks(l)
  <2>1. CASE Begin("book", l, NoRep, "APPT_SET") /\ UNCHANGED pointer
    <3>1. loop' \in Handler /\ loop'.step = "book"
      BY <2>1, BeginType DEF LeadStates
    <3>2. QED
      BY <1>6, <2>1, <3>1 DEF TypeOK, AiBooks
  <2>2. ASSUME NEW free \in SUBSET (DOMAIN active), NEW i \in free,
               AdvancePointer(Cardinality(free)), Begin("book", l, active[i], "APPT_SET")
        PROVE  TypeOK'
    <3>1. active[i] \in Reps
      BY RostersAssumption DEF TypeOK
    <3>2. loop' \in Handler /\ loop'.step = "book"
      BY <2>2, <3>1, BeginType DEF LeadStates
    <3>3. Cardinality(free) \in Nat \ {0} /\ Cardinality(free) <= Len(active)
      BY FreeReps DEF TypeOK
    <3>4. pointer' \in Nat /\ \E r \in Rosters : pointer' < Len(r)
      BY <2>2, <3>3, PointerMoves DEF TypeOK
    <3>5. QED
      BY <1>6, <3>2, <3>4 DEF TypeOK, AiBooks
  <2>3. QED
    BY <1>6, <2>1, <2>2 DEF AiBooks
<1>7. ASSUME NEW target \in LeadStates, SetStatus(l, target) \/ MarkClosed(l, target)
      PROVE  TypeOK'
  BY <1>1, <1>7 DEF SetStatus, MarkClosed
<1>8. CASE MarkShowed(l)
  BY <1>1, <1>8 DEF MarkShowed, LeadStates
<1>9. ASSUME NEW rep \in Reps, Reassign(l, rep)
      PROVE  TypeOK'
  <2>1. AppendEvent(l, NoState) /\ Notify(l, rep)
    BY <1>9 DEF Reassign
  <2>2. /\ lastTo' \in [Leads -> LeadStates \cup {NoState}] /\ overdue' \subseteq Leads
        /\ buttons' \in [Leads -> SUBSET Reps]
    BY <2>1, AppendEventType, NotifyType
  <2>3. assignedRep' \in [Leads -> Reps \cup {NoRep}]
    BY <1>9 DEF TypeOK, Reassign
  <2>4. QED
    BY <1>9, <2>2, <2>3 DEF TypeOK, Reassign
<1>10. ASSUME NEW rep \in Reps, Adopt(l, rep)
       PROVE  TypeOK'
  BY <1>10 DEF TypeOK, Adopt
<1>11. ASSUME NEW rep \in Reps, Claim(l, rep)
       PROVE  TypeOK'
  BY <1>1, <1>11 DEF Claim, LeadStates
<1>12. ASSUME NEW rep \in Reps, Pass(l, rep)
       PROVE  TypeOK'
  BY <1>1, <1>12 DEF Pass
<1>13. QED
  BY <1>2, <1>3, <1>4, <1>5, <1>6, <1>7, <1>8, <1>9, <1>10, <1>11, <1>12
     DEF Begins, TextsOne, TextsTwo, PressesClaim, PressesPass

(***************************************************************************)
(* The running handler, the sweep and a restart are type correct.          *)
(***************************************************************************)
LEMMA LoopStepType ==
  ASSUME TypeOK, LoopStep
  PROVE  TypeOK'
<1> USE DEF LoopSteps, MoveSteps
<1>1. ASSUME loop.step \in LoopSteps
      PROVE  /\ loop \in Handler
             /\ loop.lead \in Leads /\ loop.rep \in Reps \cup {NoRep}
             /\ loop.to \in LeadStates \cup {NoState} /\ loop.seen \in LeadStates
  BY <1>1, HandlerRuns
<1>2. CASE CommitMove
  <2>1. loop.to \in LeadStates
    BY <1>1, <1>2, TableType DEF CommitMove, EdgeIsLegal
  <2>2. /\ state' \in [Leads -> LeadStates]
        /\ lastTo' \in [Leads -> LeadStates \cup {NoState}] /\ overdue' \subseteq Leads
    BY <1>1, <1>2, <2>1, WriteStateType DEF CommitMove
  <2>3. /\ loop' \in {Idle} \cup Handler
        /\ loop'.step \in {"own", "assign", "ping"} => loop'.rep \in Reps
    BY <1>1, <1>2 DEF CommitMove, AfterMove, Handler, Idle
  <2>4. QED
    BY <1>2, <2>2, <2>3 DEF TypeOK, CommitMove
<1>3. CASE RejectMove
  BY <1>3 DEF TypeOK, RejectMove, Idle, db
<1>4. CASE LogAction
  <2>1. lastTo' \in [Leads -> LeadStates \cup {NoState}] /\ overdue' \subseteq Leads
    BY <1>1, <1>4, AppendEventType DEF LogAction
  <2>2. QED
    BY <1>4, <2>1 DEF TypeOK, LogAction, Idle
<1>5. CASE TakeOwner
  BY <1>1, <1>5 DEF TypeOK, TakeOwner, Idle
<1>6. CASE PassToManager
  <2>1. CASE CanTransition(loop.seen, "ESCALATED") /\ CountPass /\ WriteState(loop.lead, "ESCALATED")
    <3>1. /\ state' \in [Leads -> LeadStates]
          /\ lastTo' \in [Leads -> LeadStates \cup {NoState}] /\ overdue' \subseteq Leads
      BY <1>1, <1>6, <2>1, WriteStateType DEF PassToManager, LeadStates
    <3>2. passCount' \in [Leads -> Nat]
      BY <1>1, <1>6, <2>1 DEF TypeOK, CountPass, PassToManager
    <3>3. QED
      BY <1>6, <3>1, <3>2 DEF TypeOK, PassToManager, Idle
  <2>2. CASE UNCHANGED <<state, passCount, lastTo, overdue>>
    BY <1>6, <2>2 DEF TypeOK, PassToManager, Idle
  <2>3. QED
    BY <1>6, <2>1, <2>2 DEF PassToManager
<1>7. CASE PassToNext
  <2>1. passCount' \in [Leads -> Nat]
    BY <1>1, <1>7 DEF TypeOK, CountPass, PassToNext
  <2>2. pointer \in Nat /\ active \in Rosters /\ active \in Seq(Reps) /\ Len(active) \in Nat \ {0}
    BY <1>7, RostersAssumption DEF TypeOK, PassToNext
  <2>3. pointer' \in Nat /\ \E r \in Rosters : pointer' < Len(r)
    BY <1>7, <2>2, PointerMoves DEF PassToNext
  <2>4. pointer % Len(active) \in 0..(Len(active) - 1)
    BY <2>2
  <2>5. NextRep \in Reps
    BY <2>2, <2>4 DEF NextRep
  <2>6. loop' \in Handler /\ loop'.rep \in Reps
    BY <1>1, <1>7, <2>5 DEF PassToNext, Handler
  <2>7. QED
    BY <1>7, <2>1, <2>3, <2>6 DEF TypeOK, PassToNext
<1>8. CASE PassToNobody
  <2>1. passCount' \in [Leads -> Nat]
    BY <1>1, <1>8 DEF TypeOK, CountPass, PassToNobody
  <2>2. QED
    BY <1>8, <2>1 DEF TypeOK, PassToNobody, Idle
<1>9. CASE AssignRep
  <2>1. assignedRep' \in [Leads -> Reps \cup {NoRep}]
    BY <1>1, <1>9 DEF TypeOK, AssignRep
  <2>2. state[loop.lead] \in LeadStates
    BY <1>1, <1>9 DEF TypeOK, AssignRep
  <2>3. loop' \in Handler /\ loop'.rep \in Reps
    BY <1>1, <1>9, <2>2 DEF TypeOK, AssignRep, Handler
  <2>4. QED
    BY <1>9, <2>1, <2>3 DEF TypeOK, AssignRep
<1>10. CASE PingRep
  <2>1. "ASSIGNED" \in LeadStates
    BY DEF LeadStates
  <2>2. /\ state' \in [Leads -> LeadStates]
        /\ lastTo' \in [Leads -> LeadStates \cup {NoState}] /\ overdue' \subseteq Leads
    BY <1>1, <1>10, <2>1, WriteStateType, AppendEventType DEF TypeOK, PingRep, RestartTimer
  <2>3. buttons' \in [Leads -> SUBSET Reps]
    <3>1. loop.rep \in Reps
      BY <1>10 DEF TypeOK, PingRep
    <3>2. QED
      BY <1>1, <1>10, <3>1, NotifyType DEF TypeOK, PingRep
  <2>4. QED
    BY <1>10, <2>2, <2>3 DEF TypeOK, PingRep, Idle
<1>11. QED
  BY <1>2, <1>3, <1>4, <1>5, <1>6, <1>7, <1>8, <1>9, <1>10 DEF LoopStep

\* So is the sweep.
LEMMA SweepStepType ==
  ASSUME TypeOK, SweepStep
  PROVE  TypeOK'
<1>1. CASE SweepStart
  BY <1>1 DEF TypeOK, SweepStart, Unclaimed, db
<1>2. CASE SweepEnd
  BY <1>2 DEF TypeOK, SweepEnd, NotSweeping, db
<1>3. ASSUME NEW l \in Leads, SweepPicks(l) \/ SweepSkips(l)
      PROVE  TypeOK'
  BY <1>3 DEF TypeOK, SweepPicks, SweepSkips, db
<1>4. ASSUME NEW l \in Leads, SweepEscalates(l)
      PROVE  TypeOK'
  <2>1. /\ state' \in [Leads -> LeadStates]
        /\ lastTo' \in [Leads -> LeadStates \cup {NoState}] /\ overdue' \subseteq Leads
    BY <1>4, WriteStateType DEF SweepEscalates, LeadStates
  <2>2. QED
    BY <1>4, <2>1 DEF TypeOK, SweepEscalates
<1>5. QED
  BY <1>1, <1>2, <1>3, <1>4 DEF SweepStep

\* So is every step.
LEMMA NextType ==
  ASSUME TypeOK, [Next]_vars
  PROVE  TypeOK'
<1>1. ASSUME NEW l \in Leads, Begins(l)
      PROVE  TypeOK'
  BY <1>1, BeginsType
<1>2. CASE LoopStep
  BY <1>2, LoopStepType
<1>3. CASE SweepStep
  BY <1>3, SweepStepType
<1>4. ASSUME NEW l \in Leads, Tick(l)
      PROVE  TypeOK'
  BY <1>4 DEF TypeOK, Tick
<1>5. CASE Crash
  BY <1>5 DEF TypeOK, Crash, NotSweeping, Idle, db
<1>6. ASSUME NEW r \in Rosters, ChangeRoster(r)
      PROVE  TypeOK'
  BY <1>6 DEF TypeOK, ChangeRoster
<1>7. CASE UNCHANGED vars
  BY <1>7 DEF TypeOK, vars, db
<1>8. QED
  BY <1>1, <1>2, <1>3, <1>4, <1>5, <1>6, <1>7 DEF Next

(***************************************************************************)
(* Every variable keeps its type; the pointer stays a place in one of the  *)
(* dealer's rosters, whoever moved it and however many reps were free.     *)
(***************************************************************************)
THEOREM TypeCorrect == Spec => []TypeOK
<1>1. Init => TypeOK
  BY RostersAssumption, BoundAssumption
     DEF Init, TypeOK, Idle, NotSweeping, LeadStates
<1>2. QED
  BY <1>1, NextType, PTL DEF Spec
-----------------------------------------------------------------------------
(***************************************************************************)
(* The inductive invariant.                                                *)
(***************************************************************************)

\* What a step must leave alone, or restore.
Agreement == AuditTrailAgrees /\ ReadsHold /\ LogsAgree /\ SweepListHolds

(***************************************************************************)
(* A handler that begins has just read its lead.                           *)
(***************************************************************************)
LEMMA BeginAgrees ==
  ASSUME IInv, NEW step \in MoveSteps \cup {"pass"}, NEW l \in Leads, NEW rep, NEW to,
         Begin(step, l, rep, to), UNCHANGED <<state, lastTo, overdue, sweep>>
  PROVE  Agreement'
BY DEF IInv, Agreement, AuditTrailAgrees, ReadsHold, LogsAgree, SweepListHolds,
       Begin, MoveSteps

(***************************************************************************)
(* A state that is written with its event agrees with the event, whoever   *)
(* writes it, and takes its lead off what the sweep may pick.              *)
(***************************************************************************)
LEMMA WriteStateAgrees ==
  ASSUME IInv, NEW l \in Leads, NEW to \in LeadStates, WriteState(l, to),
         sweep'.todo = sweep.todo, sweep'.stage = "idle" => sweep.stage = "idle"
  PROVE  AuditTrailAgrees' /\ SweepListHolds'
<1>1. AuditTrailAgrees'
  BY DEF IInv, TypeOK, AuditTrailAgrees, WriteState, AppendEvent
<1>2. SweepListHolds'
  BY DEF IInv, TypeOK, SweepListHolds, WriteState, AppendEvent
<1>3. QED
  BY <1>1, <1>2

\* No handler disturbs the agreement by beginning.
LEMMA BeginsAgree ==
  ASSUME IInv, NEW l \in Leads, Begins(l)
  PROVE  Agreement'
<1>1. ASSUME NEW step \in MoveSteps \cup {"pass"}, NEW rep, NEW to,
             Begin(step, l, rep, to), ReadOnly
      PROVE  Agreement'
  BY <1>1, BeginAgrees DEF ReadOnly, db
<1>2. CASE CustomerText(l) \/ CustomerStop(l) \/ CustomerStart(l) \/ AiHandoff(l) \/ MarkShowed(l)
  BY <1>1, <1>2
     DEF CustomerText, CustomerStop, CustomerStart, AiHandoff, MarkShowed, MoveSteps
<1>3. CASE AiBooks(l)
  <2>1. \E rep : Begin("book", l, rep, "APPT_SET")
    BY <1>3 DEF AiBooks
  <2>2. QED
    BY <1>3, <2>1, BeginAgrees DEF AiBooks, MoveSteps
<1>4. ASSUME NEW target \in LeadStates, SetStatus(l, target) \/ MarkClosed(l, target)
      PROVE  Agreement'
  BY <1>1, <1>4 DEF SetStatus, MarkClosed, MoveSteps
<1>5. ASSUME NEW rep \in Reps, Reassign(l, rep)
      PROVE  Agreement'
  BY <1>5 DEF IInv, TypeOK, Agreement, AuditTrailAgrees, ReadsHold, LogsAgree,
              SweepListHolds, Reassign, AppendEvent, Idle, MoveSteps
<1>6. ASSUME NEW rep \in Reps, Adopt(l, rep)
      PROVE  Agreement'
  BY <1>6 DEF IInv, Agreement, AuditTrailAgrees, ReadsHold, LogsAgree, SweepListHolds, Adopt
<1>7. ASSUME NEW rep \in Reps, Claim(l, rep) \/ Pass(l, rep)
      PROVE  Agreement'
  BY <1>1, <1>7 DEF Claim, Pass, MoveSteps
<1>8. QED
  BY <1>2, <1>3, <1>4, <1>5, <1>6, <1>7
     DEF Begins, TextsOne, TextsTwo, PressesClaim, PressesPass

\* No commit of a handler does.
LEMMA LoopStepAgrees ==
  ASSUME IInv, LoopStep
  PROVE  Agreement'
<1> USE DEF MoveSteps, LoopSteps
<1>1. ASSUME loop.step \in LoopSteps
      PROVE  /\ loop \in Handler
             /\ loop.lead \in Leads /\ loop.seen \in LeadStates
             /\ loop.to \in LeadStates \cup {NoState}
  BY <1>1, HandlerRuns DEF IInv
<1>2. CASE CommitMove
  <2>1. loop.to \in LeadStates /\ loop.lead \in Leads /\ WriteState(loop.lead, loop.to)
    BY <1>1, <1>2, TableType DEF CommitMove, EdgeIsLegal
  <2>2. AuditTrailAgrees' /\ SweepListHolds'
    BY <1>2, <2>1, WriteStateAgrees DEF CommitMove
  <2>3. ReadsHold' /\ LogsAgree'
    BY <1>1, <1>2, <2>1
       DEF IInv, TypeOK, ReadsHold, LogsAgree, CommitMove, AfterMove, WriteState, Handler, Idle
  <2>4. QED
    BY <2>2, <2>3 DEF Agreement
<1>3. CASE RejectMove \/ TakeOwner \/ PassToNobody
  BY <1>3 DEF IInv, Agreement, AuditTrailAgrees, ReadsHold, LogsAgree, SweepListHolds,
              RejectMove, TakeOwner, PassToNobody, Idle, db
<1>4. CASE LogAction
  BY <1>1, <1>4 DEF IInv, TypeOK, Agreement, AuditTrailAgrees, ReadsHold, LogsAgree,
                    SweepListHolds, LogAction, AppendEvent, Idle
<1>5. CASE PassToManager
  <2>1. CASE WriteState(loop.lead, "ESCALATED")
    <3>1. AuditTrailAgrees' /\ SweepListHolds'
      BY <1>1, <1>5, <2>1, WriteStateAgrees DEF PassToManager, LeadStates
    <3>2. QED
      BY <1>5, <3>1 DEF Agreement, ReadsHold, LogsAgree, PassToManager, Idle
  <2>2. CASE UNCHANGED <<state, passCount, lastTo, overdue>>
    BY <1>5, <2>2 DEF IInv, Agreement, AuditTrailAgrees, ReadsHold, LogsAgree, SweepListHolds,
                      PassToManager, Idle
  <2>3. QED
    BY <1>5, <2>1, <2>2 DEF PassToManager
<1>6. CASE PassToNext \/ AssignRep
  BY <1>1, <1>6 DEF IInv, Agreement, AuditTrailAgrees, ReadsHold, LogsAgree, SweepListHolds,
                    PassToNext, AssignRep, Handler
<1>7. CASE PingRep
  <2>1. CASE loop.seen = "ASSIGNED" /\ RestartTimer(loop.lead) /\ UNCHANGED state
    BY <1>1, <1>7, <2>1
       DEF IInv, TypeOK, Agreement, AuditTrailAgrees, ReadsHold, LogsAgree, SweepListHolds,
           PingRep, RestartTimer, AppendEvent, Idle
  <2>2. CASE WriteState(loop.lead, "ASSIGNED")
    <3>1. AuditTrailAgrees' /\ SweepListHolds'
      BY <1>1, <1>7, <2>2, WriteStateAgrees DEF PingRep, LeadStates
    <3>2. QED
      BY <1>7, <3>1 DEF Agreement, ReadsHold, LogsAgree, PingRep, Idle
  <2>3. CASE UNCHANGED <<state, lastTo, overdue>>
    BY <1>7, <2>3 DEF IInv, Agreement, AuditTrailAgrees, ReadsHold, LogsAgree, SweepListHolds,
                      PingRep, Idle
  <2>4. QED
    BY <1>7, <2>1, <2>2, <2>3 DEF PingRep
<1>8. QED
  BY <1>2, <1>3, <1>4, <1>5, <1>6, <1>7 DEF LoopStep

\* Nor does the sweep: it names the state it writes.
LEMMA SweepStepAgrees ==
  ASSUME IInv, SweepStep
  PROVE  Agreement'
<1>1. CASE SweepStart \/ SweepEnd
  BY <1>1 DEF IInv, Agreement, AuditTrailAgrees, ReadsHold, LogsAgree, SweepListHolds,
              SweepStart, SweepEnd, Unclaimed, NotSweeping, db
<1>2. ASSUME NEW l \in Leads, SweepPicks(l) \/ SweepSkips(l)
      PROVE  Agreement'
  BY <1>2 DEF IInv, TypeOK, Agreement, AuditTrailAgrees, ReadsHold, LogsAgree, SweepListHolds,
              SweepPicks, SweepSkips, db
<1>3. ASSUME NEW l \in Leads, SweepEscalates(l)
      PROVE  Agreement'
  <2>1. WriteState(l, "ESCALATED") /\ "ESCALATED" \in LeadStates
    BY <1>3 DEF SweepEscalates, LeadStates
  <2>2. sweep'.todo = sweep.todo /\ sweep'.stage = "scan"
    BY <1>3 DEF SweepEscalates, IInv, TypeOK
  <2>3. AuditTrailAgrees' /\ SweepListHolds'
    BY <2>1, <2>2, WriteStateAgrees
  <2>4. ReadsHold' /\ LogsAgree'
    BY <1>3, <2>1 DEF IInv, TypeOK, ReadsHold, LogsAgree, SweepEscalates, WriteState
  <2>5. QED
    BY <2>3, <2>4 DEF Agreement
<1>4. QED
  BY <1>1, <1>2, <1>3 DEF SweepStep

\* Every step keeps the invariant.
LEMMA NextAgrees ==
  ASSUME IInv, [Next]_vars
  PROVE  IInv'
<1>1. TypeOK'
  BY NextType DEF IInv
<1>2. Agreement'
  <2>1. ASSUME NEW l \in Leads, Begins(l)
        PROVE  Agreement'
    BY <2>1, BeginsAgree
  <2>2. CASE LoopStep
    BY <2>2, LoopStepAgrees
  <2>3. CASE SweepStep
    BY <2>3, SweepStepAgrees
  <2>4. ASSUME NEW l \in Leads, Tick(l)
        PROVE  Agreement'
    BY <2>4 DEF IInv, Agreement, AuditTrailAgrees, ReadsHold, LogsAgree, SweepListHolds, Tick
  <2>5. CASE Crash
    BY <2>5 DEF IInv, Agreement, AuditTrailAgrees, ReadsHold, LogsAgree, SweepListHolds,
                Crash, Idle, NotSweeping, MoveSteps, db
  <2>6. ASSUME NEW r \in Rosters, ChangeRoster(r)
        PROVE  Agreement'
    BY <2>6 DEF IInv, Agreement, AuditTrailAgrees, ReadsHold, LogsAgree, SweepListHolds,
                ChangeRoster
  <2>7. CASE UNCHANGED vars
    BY <2>7 DEF IInv, Agreement, AuditTrailAgrees, ReadsHold, LogsAgree, SweepListHolds, vars, db
  <2>8. QED
    BY <2>1, <2>2, <2>3, <2>4, <2>5, <2>6, <2>7 DEF Next
<1>3. QED
  BY <1>1, <1>2 DEF IInv, Agreement

\* Intake leaves leads and events in agreement.
LEMMA InitAgrees == Init => IInv
<1> SUFFICES ASSUME Init PROVE IInv
  OBVIOUS
<1>1. TypeOK
  BY RostersAssumption, BoundAssumption DEF Init, TypeOK, Idle, NotSweeping, LeadStates
<1>2. AuditTrailAgrees
  BY DEF Init, AuditTrailAgrees, Fresh
<1>3. QED
  BY <1>1, <1>2 DEF Init, IInv, ReadsHold, LogsAgree, SweepListHolds, Idle, NotSweeping, MoveSteps

\* The invariant always holds.
LEMMA Invariance == Spec => []IInv
BY InitAgrees, NextAgrees, PTL DEF Spec

(***************************************************************************)
(* The event stream agrees with the lead table, for any number of leads    *)
(* and reps, with handlers, the sweep and restarts in any order.           *)
(***************************************************************************)
THEOREM AuditTrail == Spec => []AuditTrailAgrees
<1>1. IInv => AuditTrailAgrees
  BY DEF IInv
<1>2. QED
  BY <1>1, Invariance, PTL

(***************************************************************************)
(* Whatever the sweep decides to escalate waits for its rep at that        *)
(* moment, however stale the list is that it works through.                *)
(***************************************************************************)
THEOREM PicksWaiting == Spec => PicksOnlyWaitingLeads
<1>1. IInv /\ [Next]_vars => [\A l \in Leads : SweepPicks(l) => state[l] = "ASSIGNED"]_vars
  BY DEF IInv, SweepListHolds, SweepPicks, ClaimTimedOut
<1>2. QED
  BY <1>1, Invariance, PTL DEF Spec, PicksOnlyWaitingLeads
-----------------------------------------------------------------------------
(***************************************************************************)
(* The lifecycle is implemented.                                           *)
(***************************************************************************)

(***************************************************************************)
(* An edge the code finds legal is one of the table, and one judged by a   *)
(* state the sweep has overwritten begins at ESCALATED.                    *)
(***************************************************************************)
LEMMA WriteIsMove ==
  ASSUME TypeOK, NEW l \in Leads, NEW seen \in LeadStates, NEW to \in LeadStates,
         CanTransition(seen, to), state[l] \in {seen, "ESCALATED"}, WriteState(l, to)
  PROVE  Lifecycle!Next
<1>1. state' = [state EXCEPT ![l] = to]
  BY DEF WriteState
<1>2. Lifecycle!CanTransition(state[l], to) \/ <<state[l], to>> \in RacyEdges
  <2>1. CASE state[l] = seen
    BY <2>1 DEF CanTransition, TRANSITIONS, LeadStates,
                Lifecycle!CanTransition, Lifecycle!TRANSITIONS, Lifecycle!LeadStates
  <2>2. CASE state[l] = "ESCALATED"
    BY <2>2 DEF RacyEdges
  <2>3. QED
    BY <2>1, <2>2
<1>3. Lifecycle!Move(l, to)
  BY <1>1, <1>2 DEF Lifecycle!Move
<1>4. QED
  BY <1>3 DEF Lifecycle!Next, Lifecycle!LeadStates, LeadStates

\* Every step moves one lead along one edge, or none.
LEMMA NextMoves ==
  ASSUME IInv, [Next]_vars
  PROVE  [Lifecycle!Next]_state
<1> USE DEF MoveSteps, LoopSteps
<1>1. ASSUME loop.step \in LoopSteps
      PROVE  /\ loop.lead \in Leads /\ loop.seen \in LeadStates
             /\ loop.step \in MoveSteps \cup {"pass", "ping"} =>
                  state[loop.lead] \in {loop.seen, "ESCALATED"}
  BY <1>1, HandlerRuns DEF IInv, ReadsHold
<1>2. ASSUME NEW l \in Leads, Begins(l)
      PROVE  UNCHANGED state
  BY <1>2 DEF Begins, ReadOnly, db, CustomerText, CustomerStop, CustomerStart, AiHandoff, AiBooks,
              SetStatus, MarkClosed, MarkShowed, Reassign, Adopt, TextsOne, TextsTwo,
              PressesClaim, PressesPass, Claim, Pass
<1>3. CASE CommitMove
  <2>1. loop.to \in LeadStates
    BY <1>1, <1>3, TableType DEF CommitMove, EdgeIsLegal
  <2>2. QED
    BY <1>1, <1>3, <2>1, WriteIsMove DEF IInv, CommitMove, EdgeIsLegal
<1>4. CASE RejectMove \/ LogAction \/ TakeOwner \/ PassToNext \/ PassToNobody \/ AssignRep
  BY <1>4 DEF RejectMove, LogAction, TakeOwner, PassToNext, PassToNobody, AssignRep, db
<1>5. CASE PassToManager
  BY <1>1, <1>5, WriteIsMove DEF IInv, PassToManager, LeadStates
<1>6. CASE PingRep
  BY <1>1, <1>6, WriteIsMove DEF IInv, PingRep, LeadStates
<1>7. ASSUME NEW l \in Leads, SweepEscalates(l)
      PROVE  Lifecycle!Next
  <2>1. state[l] \in LeadStates /\ state' = [state EXCEPT ![l] = "ESCALATED"]
    BY <1>7 DEF IInv, TypeOK, SweepEscalates, WriteState
  <2>2. Lifecycle!Move(l, "ESCALATED")
    BY <2>1 DEF Lifecycle!Move, RacyEdges
  <2>3. QED
    BY <2>2 DEF Lifecycle!Next, Lifecycle!LeadStates
<1>8. CASE SweepStart \/ SweepEnd \/ (\E l \in Leads : SweepPicks(l) \/ SweepSkips(l))
  BY <1>8 DEF SweepStart, SweepEnd, SweepPicks, SweepSkips, db
<1>9. CASE (\E r \in Rosters : ChangeRoster(r)) \/ (\E l \in Leads : Tick(l)) \/ Crash \/ UNCHANGED vars
  BY <1>9 DEF ChangeRoster, Tick, Crash, vars, db
<1>10. QED
  BY <1>2, <1>3, <1>4, <1>5, <1>6, <1>7, <1>8, <1>9 DEF Next, LoopStep, SweepStep

(***************************************************************************)
(* Handlers, sweep and restarts together implement the lifecycle: a lead   *)
(* leaves the table of lifecycle.py only by way of ESCALATED.              *)
(***************************************************************************)
THEOREM Implementation == Spec => LifecycleImplemented
<1>1. Init => Lifecycle!Init
  BY DEF Init, Lifecycle!Init
<1>2. QED
  BY <1>1, Invariance, NextMoves, PTL DEF Spec, LifecycleImplemented, Lifecycle!Spec
-----------------------------------------------------------------------------
(***************************************************************************)
(* Where reps answer by text.                                              *)
(***************************************************************************)

\* Nobody has buttons, and a lead that is being passed waits for a rep.
PassedLeadWaits ==
  /\ Channels \subseteq {"text"}
  /\ \A l \in Leads : buttons[l] = {}
  /\ loop.step = "pass" => loop.seen \in {"ASSIGNED", "ESCALATED"}
  /\ loop.step \in {"pass", "assign", "ping"} => state[loop.lead] \in {"ASSIGNED", "ESCALATED"}
  /\ loop.step = "ping" => loop.seen \in {"ASSIGNED", "ESCALATED"}

\* A handler that begins passes, if anything, a lead that waits.
LEMMA TextBegins ==
  ASSUME IInv, PassedLeadWaits, NEW l \in Leads, Begins(l)
  PROVE  PassedLeadWaits'
<1> USE DEF MoveSteps
<1>1. ASSUME NEW step \in MoveSteps, NEW rep, NEW to, Begin(step, l, rep, to), UNCHANGED buttons
      PROVE  PassedLeadWaits'
  BY <1>1 DEF PassedLeadWaits, Begin
<1>2. ASSUME NEW rep \in Reps, TextsTwo(l, rep)
      PROVE  PassedLeadWaits'
  <2>1. state[l] \in {"ASSIGNED", "ESCALATED"}
    BY <1>2 DEF TextsTwo, Picks, Pending
  <2>2. QED
    BY <1>2, <2>1 DEF PassedLeadWaits, TextsTwo, Pass, Begin, ReadOnly, db
<1>3. ASSUME NEW rep \in Reps, PressesPass(l, rep) \/ PressesClaim(l, rep)
      PROVE  FALSE
  BY <1>3 DEF PassedLeadWaits, PressesPass, PressesClaim
<1>4. ASSUME NEW rep \in Reps, TextsOne(l, rep)
      PROVE  PassedLeadWaits'
  BY <1>1, <1>4 DEF TextsOne, Claim, ReadOnly
<1>5. ASSUME NEW rep \in Reps, Reassign(l, rep) \/ Adopt(l, rep)
      PROVE  PassedLeadWaits'
  BY <1>5 DEF PassedLeadWaits, Reassign, Adopt, Notify, Idle
<1>6. CASE CustomerText(l) \/ CustomerStop(l) \/ CustomerStart(l) \/ AiHandoff(l) \/ MarkShowed(l)
  BY <1>1, <1>6
     DEF CustomerText, CustomerStop, CustomerStart, AiHandoff, MarkShowed, ReadOnly
<1>7. CASE AiBooks(l)
  BY <1>1, <1>7 DEF AiBooks
<1>8. ASSUME NEW target \in LeadStates, SetStatus(l, target) \/ MarkClosed(l, target)
      PROVE  PassedLeadWaits'
  BY <1>1, <1>8 DEF SetStatus, MarkClosed, ReadOnly
<1>9. QED
  BY <1>2, <1>3, <1>4, <1>5, <1>6, <1>7, <1>8 DEF Begins

\* While a lead is being passed nobody but the sweep writes it.
LEMMA TextSteps ==
  ASSUME IInv, PassedLeadWaits, [Next]_vars
  PROVE  PassedLeadWaits'
<1> USE DEF MoveSteps, LoopSteps
<1>1. ASSUME NEW l \in Leads, Begins(l)
      PROVE  PassedLeadWaits'
  BY <1>1, TextBegins
<1>2. CASE LoopStep
  <2>1. CASE CommitMove
    BY <2>1 DEF PassedLeadWaits, CommitMove, AfterMove, Idle
  <2>2. CASE RejectMove \/ LogAction \/ TakeOwner \/ PassToManager \/ PassToNobody
    BY <2>2 DEF PassedLeadWaits, RejectMove, LogAction, TakeOwner, PassToManager, PassToNobody, Idle
  <2>3. CASE PassToNext \/ AssignRep
    <3>1. loop \in Handler
      BY <2>3, HandlerRuns DEF IInv, PassToNext, AssignRep
    <3>2. QED
      BY <2>3, <3>1 DEF PassedLeadWaits, PassToNext, AssignRep, Handler
  <2>4. CASE PingRep
    BY <2>4 DEF PassedLeadWaits, PingRep, Notify, Idle
  <2>5. QED
    BY <1>2, <2>1, <2>2, <2>3, <2>4 DEF LoopStep
<1>3. CASE SweepStep
  <2>1. ASSUME NEW l \in Leads, SweepEscalates(l)
        PROVE  PassedLeadWaits'
    <3>1. state' = [state EXCEPT ![l] = "ESCALATED"] /\ DOMAIN state = Leads
      BY <2>1 DEF IInv, TypeOK, SweepEscalates, WriteState
    <3>2. \A m : state'[m] = state[m] \/ state'[m] = "ESCALATED"
      BY <3>1
    <3>3. QED
      BY <2>1, <3>2 DEF PassedLeadWaits, SweepEscalates
  <2>2. QED
    BY <1>3, <2>1 DEF PassedLeadWaits, SweepStep, SweepStart, SweepEnd, SweepPicks, SweepSkips, db
<1>4. CASE (\E r \in Rosters : ChangeRoster(r)) \/ (\E l \in Leads : Tick(l)) \/ Crash \/ UNCHANGED vars
  BY <1>4 DEF PassedLeadWaits, ChangeRoster, Tick, Crash, Idle, vars, db
<1>5. QED
  BY <1>1, <1>2, <1>3, <1>4 DEF Next

(***************************************************************************)
(* A dealer whose reps answer by SMS or WhatsApp only never gives a lead   *)
(* to a rep who is then not told.                                          *)
(***************************************************************************)
THEOREM TextedPasses ==
  Channels \subseteq {"text"} /\ Spec => PassReachesNewRep
<1>1. Channels \subseteq {"text"} /\ Init => PassedLeadWaits
  BY DEF Init, PassedLeadWaits, Idle
<1>2. IInv /\ PassedLeadWaits /\ [Next]_vars => PassedLeadWaits'
  BY TextSteps
<1>3. PassedLeadWaits /\ [Next]_vars =>
        [PingRep => loop.seen = "ASSIGNED" \/ CanTransition(loop.seen, "ASSIGNED")]_vars
  BY DEF PassedLeadWaits, PingRep, CanTransition, TRANSITIONS, LeadStates
<1>4. QED
  BY <1>1, <1>2, <1>3, Invariance, PTL DEF Spec, PassReachesNewRep
-----------------------------------------------------------------------------
(***************************************************************************)
(* A lead's history, for any leads, any team and any limit: passing it     *)
(* around ends, and a pinged rep keeps the whole timeout.                  *)
(***************************************************************************)
HistoryType ==
  /\ pings \in [Leads -> Nat]
  /\ window \subseteq Leads

\* handle_pass has drawn another rep for l, who is still to be pinged.
UnderWay(l) == loop.step \in {"assign", "ping"} /\ loop.lead = l

\* A rep is pinged after the pass is counted, once for each count at most ...
PingsCounted ==
  \A l \in Leads : /\ pings[l] <= passCount[l]
                   /\ UnderWay(l) => pings[l] + 1 <= passCount[l]

\* ... and nobody is drawn when the count would reach the limit.
DrawnBelowLimit ==
  \A l \in Leads : UnderWay(l) => pings[l] + 1 < MaxPassCount

\* The event that started a rep's window is younger than the timeout.
WindowIsFresh == window \cap overdue = {}

HistoryInv ==
  IInv /\ HistoryType /\ PingsCounted /\ PingsBounded /\ DrawnBelowLimit /\ WindowIsFresh
-----------------------------------------------------------------------------
(***************************************************************************)
(* Watching changes nothing: every step is one of Routing's.               *)
(***************************************************************************)
LEMMA HistoryWatches ==
  ASSUME [HistoryNext]_<<vars, history>>
  PROVE  [Next]_vars
BY DEF HistoryNext

\* The history keeps its type.
LEMMA HistoryKeepsType ==
  ASSUME HistoryType, [HistoryNext]_<<vars, history>>
  PROVE  HistoryType'
<1>1. CASE HistoryNext
  <2>1. /\ pings' = [l \in Leads |-> pings[l] + (IF Pings(l) THEN 1 ELSE 0)]
        /\ window' \subseteq Leads
    BY <1>1 DEF HistoryNext
  <2>2. \A l \in Leads : pings[l] + (IF Pings(l) THEN 1 ELSE 0) \in Nat
    BY DEF HistoryType
  <2>3. QED
    BY <2>1, <2>2 DEF HistoryType
<1>2. CASE UNCHANGED <<vars, history>>
  BY <1>2 DEF HistoryType, history
<1>3. QED
  BY <1>1, <1>2
-----------------------------------------------------------------------------
(***************************************************************************)
(* A handler that begins neither counts a pass nor draws a rep, and makes  *)
(* no event older.                                                         *)
(***************************************************************************)
LEMMA BeginsCountNothing ==
  ASSUME NEW m \in Leads, Begins(m)
  PROVE  /\ UNCHANGED passCount
         /\ overdue' \subseteq overdue
         /\ loop' = loop \/ loop'.step \notin {"assign", "ping"}
<1> USE DEF MoveSteps
<1>1. ASSUME NEW step \in MoveSteps \cup {"pass"}, NEW rep, NEW to, Begin(step, m, rep, to)
      PROVE  loop'.step \notin {"assign", "ping"}
  BY <1>1 DEF Begin
<1>2. CASE CustomerText(m) \/ CustomerStop(m) \/ CustomerStart(m) \/ AiHandoff(m) \/ MarkShowed(m)
  BY <1>1, <1>2
     DEF CustomerText, CustomerStop, CustomerStart, AiHandoff, MarkShowed, ReadOnly, db
<1>3. CASE AiBooks(m)
  BY <1>1, <1>3 DEF AiBooks
<1>4. ASSUME NEW target \in LeadStates, SetStatus(m, target) \/ MarkClosed(m, target)
      PROVE  /\ UNCHANGED <<passCount, overdue>>
             /\ loop'.step \notin {"assign", "ping"}
  BY <1>1, <1>4 DEF SetStatus, MarkClosed, ReadOnly, db
<1>5. ASSUME NEW rep \in Reps, Reassign(m, rep) \/ Adopt(m, rep)
      PROVE  UNCHANGED <<passCount, loop>> /\ overdue' \subseteq overdue
  BY <1>5 DEF Reassign, Adopt, AppendEvent
<1>6. ASSUME NEW rep \in Reps, Claim(m, rep) \/ Pass(m, rep)
      PROVE  /\ UNCHANGED <<passCount, overdue>>
             /\ loop'.step \notin {"assign", "ping"}
  BY <1>1, <1>6 DEF Claim, Pass, ReadOnly, db
<1>7. QED
  BY <1>2, <1>3, <1>4, <1>5, <1>6
     DEF Begins, TextsOne, TextsTwo, PressesClaim, PressesPass

(***************************************************************************)
(* How a step touches the count of a lead and the pass that is under way:  *)
(* the count never falls, a pass gets under way by being counted below the *)
(* limit, and pinging the rep ends it.                                     *)
(***************************************************************************)
LEMMA PassesMove ==
  ASSUME IInv, [Next]_vars, NEW l \in Leads
  PROVE  /\ passCount'[l] >= passCount[l]
         /\ UnderWay(l)' => \/ UnderWay(l)
                            \/ /\ passCount'[l] = passCount[l] + 1
                               /\ passCount[l] + 1 < MaxPassCount
         /\ Pings(l) => UnderWay(l) /\ ~UnderWay(l)'
<1> USE DEF LoopSteps, MoveSteps
<1>0. passCount[l] \in Nat /\ MaxPassCount \in Nat
  BY BoundAssumption DEF IInv, TypeOK
<1>1. Pings(l) => UnderWay(l) /\ ~UnderWay(l)'
  BY DEF Pings, PingRep, UnderWay, Idle
<1>2. ASSUME UNCHANGED passCount, loop' = loop \/ loop'.step \notin {"assign", "ping"}
      PROVE  passCount'[l] >= passCount[l] /\ (UnderWay(l)' => UnderWay(l))
  BY <1>0, <1>2 DEF UnderWay
<1>3. ASSUME NEW m \in Leads, Begins(m)
      PROVE  UNCHANGED passCount /\ (loop' = loop \/ loop'.step \notin {"assign", "ping"})
  BY <1>3, BeginsCountNothing
<1>4. CASE CommitMove \/ RejectMove \/ LogAction \/ TakeOwner \/ PingRep
  <2>1. UNCHANGED passCount
    BY <1>4 DEF CommitMove, RejectMove, LogAction, TakeOwner, PingRep, db
  <2>2. CASE CommitMove
    <3>1. loop \in Handler
      BY <2>2, HandlerRuns DEF IInv, CommitMove
    <3>2. loop'.step \notin {"assign", "ping"}
      BY <2>2, <3>1 DEF CommitMove, AfterMove, Handler, Idle
    <3>3. QED
      BY <1>1, <1>2, <2>1, <3>2
  <2>3. CASE ~CommitMove
    <3>1. loop' = Idle
      BY <1>4, <2>3 DEF RejectMove, LogAction, TakeOwner, PingRep
    <3>2. QED
      BY <1>1, <1>2, <2>1, <3>1 DEF Idle
  <2>4. QED
    BY <2>2, <2>3
<1>5. ASSUME CountPass, loop.step = "pass"
      PROVE  passCount'[l] = passCount[l] + (IF l = loop.lead THEN 1 ELSE 0)
  BY <1>0, <1>5 DEF CountPass, IInv, TypeOK
<1>6. CASE PassToManager \/ PassToNobody
  BY <1>0, <1>1, <1>2, <1>5, <1>6 DEF PassToManager, PassToNobody, UnderWay, Idle
<1>7. CASE PassToNext
  <2>1. loop' = [loop EXCEPT !.step = "assign", !.rep = NextRep] /\ CountPass
        /\ ~(passCount[loop.lead] + 1 >= MaxPassCount) /\ loop.step = "pass"
    BY <1>7 DEF PassToNext, TooManyPasses
  <2>2. loop \in Handler
    BY <2>1, HandlerRuns DEF IInv
  <2>3. loop'.lead = loop.lead
    BY <2>1, <2>2 DEF Handler
  <2>4. QED
    BY <1>0, <1>1, <1>5, <2>1, <2>3 DEF UnderWay
<1>8. CASE AssignRep
  <2>1. loop' = [loop EXCEPT !.step = "ping", !.seen = state[loop.lead]]
        /\ UNCHANGED passCount /\ loop.step = "assign"
    BY <1>8 DEF AssignRep
  <2>2. loop \in Handler
    BY <2>1, HandlerRuns DEF IInv
  <2>3. loop'.lead = loop.lead
    BY <2>1, <2>2 DEF Handler
  <2>4. QED
    BY <1>0, <1>1, <2>1, <2>3 DEF UnderWay
<1>9. CASE SweepStep \/ Crash \/ UNCHANGED vars
  BY <1>1, <1>2, <1>9 DEF SweepStep, SweepStart, SweepEnd, SweepPicks, SweepSkips, SweepEscalates,
                          Crash, Idle, vars, db
<1>10. CASE (\E r \in Rosters : ChangeRoster(r)) \/ (\E m \in Leads : Tick(m))
  BY <1>1, <1>2, <1>10 DEF ChangeRoster, Tick
<1>11. QED
  BY <1>1, <1>2, <1>3, <1>4, <1>6, <1>7, <1>8, <1>9, <1>10 DEF Next, LoopStep

\* Counted passes bound the pings.
LEMMA PingsStayBounded ==
  ASSUME HistoryInv, [HistoryNext]_<<vars, history>>
  PROVE  PingsCounted' /\ PingsBounded' /\ DrawnBelowLimit'
<1> SUFFICES ASSUME NEW l \in Leads
             PROVE  /\ pings'[l] <= passCount'[l]
                    /\ UnderWay(l)' => pings'[l] + 1 <= passCount'[l]
                    /\ pings'[l] < MaxPassCount
                    /\ UnderWay(l)' => pings'[l] + 1 < MaxPassCount
  BY DEF PingsCounted, PingsBounded, DrawnBelowLimit, UnderWay
<1>1. /\ passCount'[l] >= passCount[l]
      /\ UnderWay(l)' => \/ UnderWay(l)
                         \/ /\ passCount'[l] = passCount[l] + 1
                            /\ passCount[l] + 1 < MaxPassCount
      /\ Pings(l) => UnderWay(l) /\ ~UnderWay(l)'
  BY HistoryWatches, PassesMove DEF HistoryInv
<1>2. \/ pings'[l] = pings[l] + 1 /\ Pings(l)
      \/ pings'[l] = pings[l]
  <2>1. CASE HistoryNext
    BY <2>1 DEF HistoryNext, HistoryInv, HistoryType
  <2>2. CASE UNCHANGED <<vars, history>>
    BY <2>2 DEF history
  <2>3. QED
    BY <2>1, <2>2
<1>3. /\ pings[l] \in Nat /\ passCount[l] \in Nat /\ MaxPassCount \in Nat
      /\ passCount'[l] \in Nat
  <2>1. TypeOK'
    BY HistoryWatches, NextAgrees DEF HistoryInv, IInv
  <2>2. QED
    BY <2>1, BoundAssumption DEF HistoryInv, HistoryType, IInv, TypeOK
<1>4. /\ pings[l] <= passCount[l] /\ pings[l] < MaxPassCount
      /\ UnderWay(l) => pings[l] + 1 <= passCount[l] /\ pings[l] + 1 < MaxPassCount
  BY DEF HistoryInv, PingsCounted, PingsBounded, DrawnBelowLimit
<1>5. QED
  BY <1>1, <1>2, <1>3, <1>4
-----------------------------------------------------------------------------
(***************************************************************************)
(* Only time makes an event overdue, and a ping appends a fresh one.       *)
(***************************************************************************)
LEMMA EventsAge ==
  ASSUME IInv, [Next]_vars, NEW l \in Leads, l \in overdue'
  PROVE  ~Pings(l) /\ (l \in overdue \/ Tick(l))
<1>1. ~Pings(l)
  BY DEF Pings, PingRep, RestartTimer, WriteState, AppendEvent
<1>2. ASSUME NEW m, NEW to, AppendEvent(m, to)
      PROVE  overdue' \subseteq overdue
  BY <1>2 DEF AppendEvent
<1>3. ASSUME NEW m \in Leads, Begins(m)
      PROVE  overdue' \subseteq overdue
  BY <1>3, BeginsCountNothing
<1>4. ASSUME LoopStep
      PROVE  overdue' \subseteq overdue
  <2>1. CASE CommitMove \/ LogAction
    BY <1>2, <2>1 DEF CommitMove, LogAction, WriteState
  <2>2. CASE PassToManager \/ PingRep
    BY <1>2, <2>2 DEF PassToManager, PingRep, RestartTimer, WriteState
  <2>3. CASE RejectMove \/ TakeOwner \/ PassToNext \/ PassToNobody \/ AssignRep
    BY <2>3 DEF RejectMove, TakeOwner, PassToNext, PassToNobody, AssignRep, db
  <2>4. QED
    BY <1>4, <2>1, <2>2, <2>3 DEF LoopStep
<1>5. ASSUME SweepStep
      PROVE  overdue' \subseteq overdue
  BY <1>2, <1>5 DEF SweepStep, SweepStart, SweepEnd, SweepPicks, SweepSkips, SweepEscalates,
                    WriteState, db
<1>6. ASSUME (\E r \in Rosters : ChangeRoster(r)) \/ Crash \/ UNCHANGED vars
      PROVE  overdue' = overdue
  BY <1>6 DEF ChangeRoster, Crash, vars, db
<1>7. ASSUME NEW m \in Leads, Tick(m)
      PROVE  l \in overdue \/ Tick(l)
  <2>1. l \in overdue \/ l = m
    BY <1>7 DEF Tick
  <2>2. QED
    BY <1>7, <2>1
<1>8. QED
  BY <1>1, <1>3, <1>4, <1>5, <1>6, <1>7 DEF Next

\* A window ends when its event becomes overdue, not later.
LEMMA WindowStaysFresh ==
  ASSUME HistoryInv, [HistoryNext]_<<vars, history>>
  PROVE  WindowIsFresh'
<1>1. CASE HistoryNext
  <2>1. SUFFICES ASSUME NEW l \in window', l \in overdue'
                 PROVE  FALSE
    BY DEF WindowIsFresh
  <2>2. l \in Leads /\ (Pings(l) \/ (l \in window /\ ~Tick(l)))
    BY <1>1, <2>1 DEF HistoryNext
  <2>3. ~Pings(l) /\ (l \in overdue \/ Tick(l))
    BY <2>1, <2>2, HistoryWatches, EventsAge DEF HistoryInv
  <2>4. QED
    BY <2>2, <2>3 DEF HistoryInv, WindowIsFresh
<1>2. CASE UNCHANGED <<vars, history>>
  BY <1>2 DEF HistoryInv, WindowIsFresh, vars, db, history
<1>3. QED
  BY <1>1, <1>2
-----------------------------------------------------------------------------
\* Nothing has been passed, and nobody pinged.
LEMMA HistoryBegins == HistoryInit => HistoryInv
<1> SUFFICES ASSUME HistoryInit PROVE HistoryInv
  OBVIOUS
<1>1. IInv
  BY InitAgrees DEF HistoryInit
<1>2. HistoryType /\ WindowIsFresh
  BY DEF HistoryInit, HistoryType, WindowIsFresh
<1>3. PingsCounted /\ PingsBounded /\ DrawnBelowLimit
  BY PassesAssumption, BoundAssumption
     DEF HistoryInit, Init, Idle, UnderWay, PingsCounted, PingsBounded, DrawnBelowLimit
<1>4. QED
  BY <1>1, <1>2, <1>3 DEF HistoryInv

\* Every step keeps the invariant.
LEMMA HistoryHolds ==
  ASSUME HistoryInv, [HistoryNext]_<<vars, history>>
  PROVE  HistoryInv'
<1>1. IInv'
  BY HistoryWatches, NextAgrees DEF HistoryInv
<1>2. HistoryType'
  BY HistoryKeepsType DEF HistoryInv
<1>3. QED
  BY <1>1, <1>2, PingsStayBounded, WindowStaysFresh DEF HistoryInv

\* The invariant always holds.
LEMMA HistoryInvariance == HistorySpec => []HistoryInv
BY HistoryBegins, HistoryHolds, PTL DEF HistorySpec

(***************************************************************************)
(* However a lead is claimed, reassigned, adopted, reopened or escalated   *)
(* between its passes, handle_pass pings fewer than max_pass_count reps    *)
(* about it.                                                               *)
(***************************************************************************)
THEOREM PassingEnds == HistorySpec => []PingsBounded
<1>1. HistoryInv => PingsBounded
  BY DEF HistoryInv
<1>2. QED
  BY <1>1, HistoryInvariance, PTL

(***************************************************************************)
(* A sweep that decides a claim timed out never decides so of a rep whom   *)
(* handle_pass pinged less than claim_timeout_min ago.                     *)
(***************************************************************************)
THEOREM FullWindow == HistorySpec => RepGetsFullWindow
<1>1. HistoryInv /\ [HistoryNext]_<<vars, history>>
        => [\A l \in Leads : SweepPicks(l) => l \notin window]_<<vars, history>>
  BY DEF HistoryInv, WindowIsFresh, SweepPicks, ClaimTimedOut
<1>2. QED
  BY <1>1, HistoryInvariance, PTL DEF HistorySpec, RepGetsFullWindow
=============================================================================
