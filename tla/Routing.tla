------------------------------- MODULE Routing -------------------------------
(***************************************************************************)
(* Who is handed a lead, who claims it, who passes it on, and what happens *)
(* when nobody does.                                                       *)
(*                                                                         *)
(* Two processes write the lead table:                                     *)
(*                                                                         *)
(*  - the event loop.  Webhook and dashboard handlers are async functions  *)
(*    that never await after they have parsed their input, and the AI turn *)
(*    of a text message is one background task on the same loop, so they   *)
(*    run one at a time.  Variable loop is the handler that is running: it *)
(*    remembers the state it read (seen) and which commit comes next;      *)
(*                                                                         *)
(*  - the escalation sweep, a job of the BackgroundScheduler that runs in  *)
(*    a thread of its own with its own session.  Variable sweep is where   *)
(*    it is.  Sessions do not expire objects on commit (app/db.py:87), so  *)
(*    the leads it listed keep, in its identity map, the state they had    *)
(*    when they were listed.                                               *)
(*                                                                         *)
(* A step of the model is one database commit (or one read that a later    *)
(* commit depends on); the two processes interleave between steps, and the *)
(* server may be restarted between any two of them.                        *)
(***************************************************************************)
EXTENDS LeadStates, Naturals, Sequences, FiniteSets

CONSTANTS
  Leads,           \* lead ids, in order of creation
  Reps,            \* names in the dealer's sales_team
  NoRep,           \* assigned_rep IS NULL
  Rosters,         \* the lists of active reps the dealer may have
  MaxPassCount,    \* max_pass_count of handle_pass (3)
  EngagementMode,  \* ai.engagement_mode of the dealer
  Channels,        \* how reps answer: by "text" (SMS, WhatsApp), by Telegram "button"
  PassBound,       \* bound of the model: no rep passes a lead passed so often
  MaxCrashes       \* bound of the model: restarts of the server

ASSUME LeadsAssumption  == Leads \subseteq Nat
ASSUME NoRepAssumption  == NoRep \notin Reps
ASSUME RostersAssumption == Rosters \subseteq Seq(Reps)
ASSUME ModeAssumption   == EngagementMode \in {"full_auto", "qualify_only", "greeting_only"}
ASSUME ChannelAssumption == Channels \subseteq {"text", "button"}
ASSUME BoundAssumption  == MaxPassCount \in Nat /\ PassBound \in Nat /\ MaxCrashes \in Nat

VARIABLES
  state,        \* Lead.state
  assignedRep,  \* Lead.assigned_rep
  passCount,    \* Lead.pass_count
  lastTo,       \* payload "to" of the lead's newest state_change event
  overdue,      \* leads whose newest state_change event is older than claim_timeout_min
  pointer,      \* Dealer.round_robin_pointer
  active,       \* the active reps of Dealer.config, in the order of sales_team
  buttons,      \* buttons[l]: reps whose Telegram shows the claim and pass buttons of l
  loop,         \* the handler running on the event loop
  sweep,        \* the escalation sweep
  crashes       \* restarts so far

db   == <<state, assignedRep, passCount, lastTo, overdue, pointer, active>>
vars == <<db, buttons, loop, sweep, crashes>>

-----------------------------------------------------------------------------
(* The running handler and the sweep                                       *)

Idle == [step |-> "idle"]

\* Steps a handler can be about to take.  "claim" ... "book" are about to call
\* transition(); "log" appends the dashboard's own state_change event after it,
\* "own" gives a booked lead its rep; "pass", "assign" and "ping" are the
\* commits of handle_pass.
MoveSteps == {"claim", "move", "status", "mark", "book"}
LoopSteps == MoveSteps \cup {"log", "own", "pass", "assign", "ping"}

Handler == [step : LoopSteps, lead : Leads, rep : Reps \cup {NoRep},
            to : LeadStates \cup {NoState}, seen : LeadStates]

\* stage "scan": the leads in todo were listed and are still to be looked at;
\* "escalate": the lead in target passed the event check.
NotSweeping == [stage |-> "idle", todo |-> {}, target |-> {}]

TypeOK ==
  /\ state \in [Leads -> LeadStates]
  /\ assignedRep \in [Leads -> Reps \cup {NoRep}]
  /\ passCount \in [Leads -> Nat]
  /\ lastTo \in [Leads -> LeadStates \cup {NoState}]
  /\ overdue \subseteq Leads
  /\ pointer \in Nat
  /\ buttons \in [Leads -> SUBSET Reps]
  /\ pointer = 0 \/ \E r \in Rosters : pointer < Len(r)
  /\ active \in Rosters
  /\ loop \in {Idle} \cup Handler
  /\ loop.step \in {"own", "assign", "ping"} => loop.rep \in Reps
  /\ sweep \in [stage : {"idle", "scan", "escalate"}, todo : SUBSET Leads,
                target : SUBSET Leads]
  /\ crashes \in Nat

(***************************************************************************)
(* Leads as intake leaves them: NEW when it was interrupted (or when the   *)
(* e-mail path failed after assigning a rep), AUTO_REPLIED after a missed  *)
(* call (written without an event) or an interrupted AI turn, ENGAGED when *)
(* it went through -- with the rep's name if a rep typed the lead in.      *)
(***************************************************************************)
Fresh(l) ==
  \/ state[l] = "NEW" /\ lastTo[l] = NoState
  \/ state[l] = "AUTO_REPLIED" /\ assignedRep[l] = NoRep /\ lastTo[l] \in {NoState, "AUTO_REPLIED"}
  \/ state[l] = "ENGAGED" /\ lastTo[l] = "ENGAGED"

Init ==
  /\ state \in [Leads -> {"NEW", "AUTO_REPLIED", "ENGAGED"}]
  /\ assignedRep \in [Leads -> Reps \cup {NoRep}]
  /\ lastTo \in [Leads -> {NoState, "AUTO_REPLIED", "ENGAGED"}]
  /\ \A l \in Leads : Fresh(l)
  /\ passCount = [l \in Leads |-> 0]
  /\ overdue = {}
  /\ pointer = 0
  /\ active \in Rosters
  /\ buttons = [l \in Leads |-> {}]
  /\ loop = Idle
  /\ sweep = NotSweeping
  /\ crashes = 0
-----------------------------------------------------------------------------
(* Commits shared by the handlers                                          *)

\* A state_change event is appended: it is the newest, and its age starts.
AppendEvent(l, to) ==
  /\ lastTo' = [lastTo EXCEPT ![l] = to]
  /\ overdue' = overdue \ {l}

\* Mutated form of WriteState: the row is written, the event forgotten.
WriteStateSilently(l, to) ==
  /\ state' = [state EXCEPT ![l] = to]
  /\ UNCHANGED <<lastTo, overdue>>

\* What transition() commits once the edge has been validated.
WriteState(l, to) ==
  /\ state' = [state EXCEPT ![l] = to]
  /\ AppendEvent(l, to)

\* next_rep: the rep at the pointer, and the pointer moved on.
NextRep == active[(pointer % Len(active)) + 1]

\* Mutated form of AdvancePointer: no wrap-around.
AdvancePointerNoWrap(n) == pointer' = pointer + 1

AdvancePointer(n) == pointer' = (pointer + 1) % n

\* notify_rep with a claim or "cover me" message.  By Telegram it carries the two
\* buttons; it may fail, and a rep without Telegram gets plain text.
Notify(l, rep) ==
  \/ "button" \in Channels /\ buttons' = [buttons EXCEPT ![l] = @ \cup {rep}]
  \/ UNCHANGED buttons

\* A handler has read its lead and is about to take step.
Begin(step, l, rep, to) ==
  /\ loop = Idle
  /\ loop' = [step |-> step, lead |-> l, rep |-> rep, to |-> to, seen |-> state[l]]

ReadOnly == UNCHANGED <<db, buttons, sweep, crashes>>
-----------------------------------------------------------------------------
(* Handlers: the customer and the AI                                       *)

\* An inbound text moves a lead that only had the auto-reply to ENGAGED.
CustomerText(l) ==
  /\ state[l] = "AUTO_REPLIED"
  /\ Begin("move", l, NoRep, "ENGAGED")
  /\ ReadOnly

\* STOP (or a phrase that means it).
CustomerStop(l) ==
  /\ state[l] \notin ClosedStates
  /\ Begin("move", l, NoRep, "OPTED_OUT")
  /\ ReadOnly

\* START: an opted-out lead starts again.
CustomerStart(l) ==
  /\ state[l] = "OPTED_OUT"
  /\ Begin("move", l, NoRep, "NEW")
  /\ ReadOnly

(***************************************************************************)
(* The AI hands the conversation to a human: after enough turns with an    *)
(* ENGAGED lead, or, in greeting_only mode, at the first message whatever  *)
(* the state of the lead.  Nobody is assigned or pinged.                   *)
(***************************************************************************)
AiHandoff(l) ==
  /\ state[l] = "ENGAGED" \/ EngagementMode = "greeting_only"
  /\ Begin("move", l, NoRep, "ASSIGNED")
  /\ ReadOnly

(***************************************************************************)
(* The AI's book_appointment tool.  A lead without a rep gets one of the   *)
(* reps free at the slot: next_rep over the free ones, its pointer         *)
(* committed before the appointment is.  (The appointment itself is not    *)
(* part of this module.)                                                   *)
(***************************************************************************)
AiBooks(l) ==
  /\ state[l] \in {"CLAIMED", "ENGAGED", "AUTO_REPLIED", "NEW"}
  /\ \/ /\ assignedRep[l] # NoRep \/ active = <<>>
        /\ Begin("book", l, NoRep, "APPT_SET")
        /\ UNCHANGED pointer
     \/ /\ assignedRep[l] = NoRep
        /\ \E free \in SUBSET (DOMAIN active) : \E i \in free :
             /\ Cardinality({j \in free : j < i}) = pointer % Cardinality(free)
             /\ AdvancePointer(Cardinality(free))
             /\ Begin("book", l, active[i], "APPT_SET")
  /\ UNCHANGED <<state, assignedRep, passCount, lastTo, overdue, buttons, sweep, active, crashes>>

-----------------------------------------------------------------------------
(* Handlers: the dashboard                                                 *)

\* update_lead_status: any status of the form's list.
SetStatus(l, target) ==
  /\ Begin("status", l, NoRep, target)
  /\ ReadOnly

\* mark_lead_sold and mark_lead_lost.
MarkClosed(l, target) ==
  /\ target \in {"SOLD", "LOST"}
  /\ Begin("mark", l, NoRep, target)
  /\ ReadOnly

\* lead_mark_showed: the lead moves only if it has an appointment set.
MarkShowed(l) ==
  /\ state[l] = "APPT_SET"
  /\ Begin("move", l, NoRep, "SHOWED")
  /\ ReadOnly

\* reassign_lead: a new owner and an event without "to", in one commit; the new
\* owner is sent a "cover me" message.
Reassign(l, rep) ==
  /\ loop = Idle
  /\ assignedRep' = [assignedRep EXCEPT ![l] = rep]
  /\ AppendEvent(l, NoState)
  /\ Notify(l, rep)
  /\ UNCHANGED <<state, passCount, pointer, loop, sweep, active, crashes>>

\* A rep enters a lead that intake recognises as this one (create_lead, or
\* "new lead ..." in Telegram): the rep becomes its owner, without an event.
Adopt(l, rep) ==
  /\ loop = Idle
  /\ assignedRep' = [assignedRep EXCEPT ![l] = rep]
  /\ UNCHANGED <<state, passCount, lastTo, overdue, pointer, buttons, loop, sweep, active, crashes>>

\* dealer_edit, add_team_member: a rep joins, leaves, or is (de)activated.  The
\* pointer and the leads stay as they are.
ChangeRoster(r) ==
  /\ loop = Idle
  /\ active' = r
  /\ UNCHANGED <<state, assignedRep, passCount, lastTo, overdue, pointer, buttons, loop, sweep, crashes>>
-----------------------------------------------------------------------------
(* Handlers: the reps                                                      *)

Claim(l, rep) ==
  /\ assignedRep[l] \in {NoRep, rep}
  /\ Begin("claim", l, rep, "CLAIMED")
  /\ ReadOnly

Pass(l, rep) ==
  /\ passCount[l] < PassBound
  /\ Begin("pass", l, rep, NoState)
  /\ ReadOnly

\* Mutated form of Pending: the state of the rep's own leads is not asked.
PendingAnyState(rep) ==
  LET mine == {l \in Leads : assignedRep[l] = rep}
  IN  IF mine # {} THEN mine ELSE {l \in Leads : state[l] = "ESCALATED"}

\* The lead that "1" or "2" by SMS or WhatsApp is about: the newest ASSIGNED
\* lead of that rep, or else the newest ESCALATED lead, whoever it belongs to.
Pending(rep) ==
  LET mine == {l \in Leads : state[l] = "ASSIGNED" /\ assignedRep[l] = rep}
  IN  IF mine # {} THEN mine ELSE {l \in Leads : state[l] = "ESCALATED"}

Picks(rep, l) == l \in Pending(rep) /\ \A m \in Pending(rep) : m <= l

TextsOne(l, rep) == "text" \in Channels /\ Picks(rep, l) /\ Claim(l, rep)
TextsTwo(l, rep) == "text" \in Channels /\ Picks(rep, l) /\ Pass(l, rep)

\* The buttons name the lead, and stay there: a rep may press them long after the
\* message came, whatever has become of the lead.
PressesClaim(l, rep) == rep \in buttons[l] /\ Claim(l, rep)
PressesPass(l, rep)  == rep \in buttons[l] /\ Pass(l, rep)
-----------------------------------------------------------------------------
(* The commits of the running handler                                      *)

\* What a handler does once its transition is committed: two dashboard
\* handlers append an event of their own, a booking hands over the lead.
AfterMove ==
  CASE loop.step = "status" -> [loop EXCEPT !.step = "log"]
    [] loop.step = "mark"   -> [loop EXCEPT !.step = "log", !.to = NoState]
    [] loop.step = "book" /\ loop.rep # NoRep -> [loop EXCEPT !.step = "own"]
    [] OTHER -> Idle

\* Mutated form of EdgeIsLegal: the check of transition() is left out.
EdgeUnchecked == TRUE

EdgeIsLegal == CanTransition(loop.seen, loop.to)

\* transition(): the edge is judged by the state the handler read.
CommitMove ==
  /\ loop.step \in MoveSteps
  /\ EdgeIsLegal
  /\ WriteState(loop.lead, loop.to)
  /\ loop' = AfterMove
  /\ UNCHANGED <<assignedRep, passCount, pointer, buttons, sweep, active, crashes>>

\* ValueError: nothing is written.
RejectMove ==
  /\ loop.step \in MoveSteps
  /\ ~EdgeIsLegal
  /\ loop' = Idle
  /\ UNCHANGED <<db, buttons, sweep, crashes>>

\* The second event of update_lead_status ("to" again) or mark_lead_* (no "to").
LogAction ==
  /\ loop.step = "log"
  /\ AppendEvent(loop.lead, loop.to)
  /\ loop' = Idle
  /\ UNCHANGED <<state, assignedRep, passCount, pointer, buttons, sweep, active, crashes>>

\* book_appointment, last commit: the rep it picked owns the lead.
TakeOwner ==
  /\ loop.step = "own"
  /\ assignedRep' = [assignedRep EXCEPT ![loop.lead] = loop.rep]
  /\ loop' = Idle
  /\ UNCHANGED <<state, passCount, lastTo, overdue, pointer, buttons, sweep, active, crashes>>

\* Mutated form of TooManyPasses: one pass more.
TooManyPassesLater(n) == n > MaxPassCount

TooManyPasses(n) == n >= MaxPassCount

CountPass == passCount' = [passCount EXCEPT ![loop.lead] = @ + 1]

\* handle_pass, too often: the manager's.  If the edge is illegal the count is
\* rolled back with the rest.
PassToManager ==
  /\ loop.step = "pass"
  /\ TooManyPasses(passCount[loop.lead] + 1)
  /\ \/ /\ CanTransition(loop.seen, "ESCALATED")
        /\ CountPass
        /\ WriteState(loop.lead, "ESCALATED")
     \/ /\ ~CanTransition(loop.seen, "ESCALATED")
        /\ UNCHANGED <<state, passCount, lastTo, overdue>>
  /\ loop' = Idle
  /\ UNCHANGED <<assignedRep, pointer, buttons, sweep, active, crashes>>

\* handle_pass, otherwise: assign_lead draws the next rep; count and pointer
\* are committed together.
PassToNext ==
  /\ loop.step = "pass"
  /\ ~TooManyPasses(passCount[loop.lead] + 1)
  /\ active # <<>>
  /\ CountPass
  /\ AdvancePointer(Len(active))
  /\ loop' = [loop EXCEPT !.step = "assign", !.rep = NextRep]
  /\ UNCHANGED <<state, assignedRep, lastTo, overdue, buttons, sweep, active, crashes>>

\* Nobody is active: assign_lead returns without a commit.  The Telegram
\* handler commits the count, the SMS and WhatsApp handlers drop it.
PassToNobody ==
  /\ loop.step = "pass"
  /\ ~TooManyPasses(passCount[loop.lead] + 1)
  /\ active = <<>>
  /\ CountPass \/ UNCHANGED passCount
  /\ loop' = Idle
  /\ UNCHANGED <<state, assignedRep, lastTo, overdue, pointer, buttons, sweep, active, crashes>>

\* assign_lead: the new owner is committed and the lead read again.
AssignRep ==
  /\ loop.step = "assign"
  /\ assignedRep' = [assignedRep EXCEPT ![loop.lead] = loop.rep]
  /\ loop' = [loop EXCEPT !.step = "ping", !.seen = state[loop.lead]]
  /\ UNCHANGED <<state, passCount, lastTo, overdue, pointer, buttons, sweep, active, crashes>>

\* Mutated form of RestartTimer: the first rep's event is left to run out.
KeepTimer(l) == UNCHANGED <<lastTo, overdue>>

\* A lead that is ASSIGNED already gets an event of its own, so that the new
\* rep has the whole timeout.
RestartTimer(l) == AppendEvent(l, "ASSIGNED")

\* assign_lead, last commit before the ping.  From CLAIMED, APPT_SET, ... the
\* transition raises, and the owner stays changed.
PingRep ==
  /\ loop.step = "ping"
  /\ \/ /\ loop.seen = "ASSIGNED"
        /\ RestartTimer(loop.lead)
        /\ UNCHANGED state
        /\ Notify(loop.lead, loop.rep)
     \/ /\ CanTransition(loop.seen, "ASSIGNED")
        /\ WriteState(loop.lead, "ASSIGNED")
        /\ Notify(loop.lead, loop.rep)
     \/ /\ loop.seen # "ASSIGNED"
        /\ ~CanTransition(loop.seen, "ASSIGNED")
        /\ UNCHANGED <<state, lastTo, overdue, buttons>>
  /\ loop' = Idle
  /\ UNCHANGED <<assignedRep, passCount, pointer, sweep, active, crashes>>
-----------------------------------------------------------------------------
(* The escalation sweep                                                    *)

\* claim_timeout_min passes since the newest state_change event of l.  A sweep
\* takes the time once, when it starts: what ages meanwhile is not overdue to it.
Tick(l) ==
  /\ sweep.stage = "idle"
  /\ l \notin overdue
  /\ overdue' = overdue \cup {l}
  /\ UNCHANGED <<state, assignedRep, passCount, lastTo, pointer, buttons, loop, sweep, active, crashes>>

\* Mutated form of Unclaimed: only leads that some rep was given.
UnclaimedByARep == {l \in Leads : state[l] = "ASSIGNED" /\ assignedRep[l] # NoRep}

Unclaimed == {l \in Leads : state[l] = "ASSIGNED"}

SweepStart ==
  /\ sweep.stage = "idle"
  /\ sweep' = [stage |-> "scan", todo |-> Unclaimed, target |-> {}]
  /\ UNCHANGED <<db, buttons, loop, crashes>>

\* The newest state_change event says ASSIGNED and is older than the cutoff.
ClaimTimedOut(l) == l \in overdue /\ lastTo[l] = "ASSIGNED"

SweepPicks(l) ==
  /\ sweep.stage = "scan" /\ l \in sweep.todo
  /\ ClaimTimedOut(l)
  /\ sweep' = [stage |-> "escalate", todo |-> sweep.todo \ {l}, target |-> {l}]
  /\ UNCHANGED <<db, buttons, loop, crashes>>

SweepSkips(l) ==
  /\ sweep.stage = "scan" /\ l \in sweep.todo
  /\ ~ClaimTimedOut(l)
  /\ sweep' = [sweep EXCEPT !.todo = @ \ {l}]
  /\ UNCHANGED <<db, buttons, loop, crashes>>

\* on_claim_timeout.  Its "reload" is answered from the identity map of the
\* session, where the lead is ASSIGNED as when it was listed: the check always
\* passes and the write goes through, whatever the row says by now.
SweepEscalates(l) ==
  /\ sweep.stage = "escalate" /\ l \in sweep.target
  /\ WriteState(l, "ESCALATED")
  /\ sweep' = [sweep EXCEPT !.stage = "scan", !.target = {}]
  /\ UNCHANGED <<assignedRep, passCount, pointer, buttons, loop, active, crashes>>

SweepEnd ==
  /\ sweep.stage = "scan" /\ sweep.todo = {}
  /\ sweep' = NotSweeping
  /\ UNCHANGED <<db, buttons, loop, crashes>>
-----------------------------------------------------------------------------
\* The server is restarted: what was not committed is lost.
Crash ==
  /\ crashes < MaxCrashes
  /\ crashes' = crashes + 1
  /\ loop' = Idle
  /\ sweep' = NotSweeping
  /\ UNCHANGED <<db, buttons>>

Begins(l) ==
  \/ CustomerText(l) \/ CustomerStop(l) \/ CustomerStart(l)
  \/ AiHandoff(l) \/ AiBooks(l)
  \/ \E target \in LeadStates : SetStatus(l, target) \/ MarkClosed(l, target)
  \/ MarkShowed(l)
  \/ \E rep \in Reps : Reassign(l, rep) \/ Adopt(l, rep)
  \/ \E rep \in Reps : TextsOne(l, rep) \/ TextsTwo(l, rep)
  \/ \E rep \in Reps : PressesClaim(l, rep) \/ PressesPass(l, rep)

LoopStep ==
  \/ CommitMove \/ RejectMove \/ LogAction \/ TakeOwner
  \/ PassToManager \/ PassToNext \/ PassToNobody \/ AssignRep \/ PingRep

SweepStep ==
  \/ SweepStart \/ SweepEnd
  \/ \E l \in Leads : SweepPicks(l) \/ SweepSkips(l) \/ SweepEscalates(l)

Next ==
  \/ \E l \in Leads : Begins(l)
  \/ \E r \in Rosters : ChangeRoster(r)
  \/ LoopStep
  \/ SweepStep
  \/ \E l \in Leads : Tick(l)
  \/ Crash

Spec == Init /\ [][Next]_vars

\* A handler that runs finishes, the sweep is run every minute, and time
\* passes.  (Time passes while sweeps run, too; strong fairness stands for an
\* event ageing between two of them.)  Nobody is obliged to text or to click.
Fairness ==
  /\ WF_vars(LoopStep)
  /\ WF_vars(SweepStep)
  /\ \A l \in Leads : SF_vars(Tick(l))

FairSpec == Spec /\ Fairness
-----------------------------------------------------------------------------
(* Correctness                                                             *)

(***************************************************************************)
(* The event stream never names a state the lead is not in, except that a  *)
(* lead may be ESCALATED while the newest event names the state a handler  *)
(* gave it: the stream is what the sweep decides by.                       *)
(***************************************************************************)
AuditTrailAgrees ==
  \A l \in Leads : state[l] = "ESCALATED" \/ lastTo[l] \in {NoState, state[l]}

(***************************************************************************)
(* Why it does: what a handler has read, or is about to log, is still true *)
(* of the lead unless the sweep escalated it; and a lead on the sweep's    *)
(* list whose newest event is overdue is as it was when it was listed.     *)
(***************************************************************************)
ReadsHold ==
  loop.step \in MoveSteps \cup {"pass", "ping"} =>
    state[loop.lead] \in {loop.seen, "ESCALATED"}

LogsAgree ==
  loop.step = "log" => state[loop.lead] = "ESCALATED" \/ loop.to \in {NoState, state[loop.lead]}

SweepListHolds ==
  /\ sweep.stage = "idle" => sweep.todo = {}
  /\ \A l \in sweep.todo : l \in overdue => state[l] = "ASSIGNED"

IInv == TypeOK /\ AuditTrailAgrees /\ ReadsHold /\ LogsAgree /\ SweepListHolds

(***************************************************************************)
(* When the sweep decides that a claim timed out, nobody has claimed the   *)
(* lead: the event it reads has been fresh since any handler's last word,  *)
(* although the list it works through may be stale.                        *)
(***************************************************************************)
PicksOnlyWaitingLeads ==
  [][\A l \in Leads : SweepPicks(l) => state[l] = "ASSIGNED"]_vars

(***************************************************************************)
(* Every write of a state, by whichever process, moves the lead along the  *)
(* table, unless a handler and the sweep raced: then ESCALATED is one end  *)
(* of the edge.                                                            *)
(***************************************************************************)
RacyEdges == {<<s, "ESCALATED">> : s \in LeadStates} \cup {<<"ESCALATED", s>> : s \in LeadStates}

Lifecycle == INSTANCE LeadLifecycle WITH Races <- RacyEdges

LifecycleImplemented == Lifecycle!Spec

(***************************************************************************)
(* A rep who is pinged either answers or loses the lead: a lead whose      *)
(* newest event says ASSIGNED does not stay so, however often it is passed *)
(* on, and through restarts.                                               *)
(***************************************************************************)
UnclaimedLeadIsEscalated ==
  \A l \in Leads : (state[l] = "ASSIGNED" /\ lastTo[l] = "ASSIGNED")
                     ~> ~(state[l] = "ASSIGNED" /\ lastTo[l] = "ASSIGNED")

(***************************************************************************)
(* A pass that gives the lead to another rep also pings that rep: "New rep *)
(* receives a claim notification" (docs/PHASE1_TEST_PLAN.md:62).  True of  *)
(* reps who answer by text, who can only pass a lead that waits.           *)
(***************************************************************************)
PassReachesNewRep ==
  [][PingRep => loop.seen = "ASSIGNED" \/ CanTransition(loop.seen, "ASSIGNED")]_vars
-----------------------------------------------------------------------------
(* Claims of the code's comments that its behaviour contradicts            *)

(***************************************************************************)
(* "Only escalate if still ASSIGNED" (escalation.py:40).                   *)
(***************************************************************************)
EscalatesOnlyIfStillAssigned ==
  [][\A l \in Leads : SweepEscalates(l) => state[l] = "ASSIGNED"]_vars

(***************************************************************************)
(* The sweep "finds ASSIGNED leads past their dealer's claim_timeout_min,  *)
(* and calls on_claim_timeout" (scheduler.py:31-32).                       *)
(***************************************************************************)
AssignedLeadIsEscalated ==
  \A l \in Leads : state[l] = "ASSIGNED" ~> state[l] # "ASSIGNED"

(***************************************************************************)
(* "Lead claimed! ... is yours" (main.py:653).                             *)
(***************************************************************************)
ClaimedLeadIsYours ==
  [][CommitMove /\ loop.step = "claim" => assignedRep'[loop.lead] = loop.rep]_vars

(***************************************************************************)
(* "Find the most recent ASSIGNED or ESCALATED lead for this rep"          *)
(* (main.py:616).                                                          *)
(***************************************************************************)
PassesOwnLead ==
  [][\A l \in Leads, rep \in Reps : TextsTwo(l, rep) => assignedRep[l] \in {NoRep, rep}]_vars
=============================================================================
