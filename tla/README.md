# Speed-to-Lead v5: a specification

Speed-to-Lead answers the leads of car dealerships: it takes a lead in (web
form, text, missed call, e-mail), lets an AI talk to the customer and book
appointments, hands the lead to a sales rep in rotation, and escalates it when
nobody claims it. This directory holds TLA+ models of the program's parts, the
TLC runs that check them on small dealerships, and TLAPS proofs of what holds for
every dealership. Paths like `app/engine/router.py` are relative to
`src/`.

## 1. The system

One `uvicorn` process (`Procfile`) runs a FastAPI application and, in the same
process, an APScheduler `BackgroundScheduler` (`app/main.py:39-56`).

* **The event loop.** Webhook and dashboard handlers are `async def`, but after
  parsing their input they call blocking code and never await: one handler runs
  at a time. The AI's answer to a text is a background task of the same loop
  (`main.py:812-826`), so it does not interleave with handlers either, but it
  does run *after* the webhook has answered the provider.
* **Scheduler jobs** (`scheduler.py:642-731`) run in threads, each with its own
  database session: the escalation sweep (1 min), e-mail poll, stuck-lead sweep
  and org flush (5 min), morning queue and no-show nudge (15 min), daily digest
  (hourly), inventory sync (3 h).
* **The database** (Postgres, READ COMMITTED) is the only shared state. Sessions
  do not expire objects on commit (`db.py:83,87`), so an object a session has
  loaded keeps its values until it is refreshed, whatever other sessions commit.
  Code that looks like a re-read (`session.get`, `SELECT ... FOR UPDATE`) may be
  answered from that copy.

### Inventory

| Component | State it keeps | Operations | What makes it correct | Module |
|---|---|---|---|---|
| Lead lifecycle (`engine/lifecycle.py`) | `Lead.state`, the `LeadEvent` stream | `transition` | every write follows an edge of the table; the stream tells the lead's state | `LeadStates`, `LeadLifecycle` |
| Routing (`engine/router.py`, handlers in `main.py`, `dashboard`) | `assigned_rep`, `pass_count`, round-robin pointer, Telegram buttons | `assign_lead`, `handle_claim`, `handle_pass`, reassign, status, sold/lost, showed | a lead handed over is pinged; passing ends; a claim makes an owner | `Routing` |
| Escalation sweep (`scheduler.py:36-106`, `engine/escalation.py`) | its session's copies | list, check the newest event, escalate | no unclaimed lead is forgotten, no claimed one is taken | `Routing` |
| Round-robin (`router.py:20-35, 256-324`) | pointer, roster in the dealer's JSON config | `next_rep`, slot picker, roster edits | fair turns | `RoundRobin` |
| Intake (`tools/route_lead.py`, `adapters/intake`, `detect_missed_call.py`) | leads, consent rows, messages | `ingest_lead`, e-mail poll, e-mail without phone, missed call, deletions | one lead per customer and day; the customer's last word counts | `Intake`, `EmailParsers` |
| Consent and sending (`tools/send_sms.py`, `main.py`) | `ConsentLog`, `Message` | STOP, START, `send_sms` | nothing is sent to who opted out | `Consent`, `Intake`, `Messaging` |
| SMS webhook, replies, morning queue (`main.py`, `scheduler.py:545`) | messages, background tasks, `morning_queue` and `morning_sent` events | receive, answer, queue, flush, a rep's text | each text answered once; nobody woken; the queue is flushed | `Messaging` |
| AI engine (`engine/conversation.py`) | none of its own | `handle_turn`, its hop loop, tools | turns end, bookings claimed were made | `AiTurn` |
| Appointments (`tools/book_appointment.py`, `scheduler.py:737`) | `Appointment`, `no_show_nudge` events | book, announce, showed, no-show, nudge | one customer per rep and hour; the owner is told; a no-show is asked about | `Booking` |
| Opening hours (`tools/check_availability.py`) | none | slots on offer | what is offered is open and free | `Availability` |
| Dealer settings (`dashboard`, `admin`, `main.py:200-260`, `config.py`) | `Dealer.config` | settings forms, team endpoints, Telegram link, admin page, onboarding, restart | what was set stays | `Dealership` |
| Telegram free text (`telegram_free_text.py`) | confirmation cache in memory | new lead, availability, no-show reply | what is confirmed is stored, once | `Intake`, `Dealership`, `Booking` |
| Inventory (`sync_inventory.py`, `check_inventory.py`, upload) | `Vehicle` | upload, status, sync, search | the AI offers what is listed | `Inventory` |
| Pages, badges, digest, stuck-lead sweep (`dashboard`, `admin`, `scheduler.py`) | none | count, list, send | figures agree; each lead in one digest | `Figures` |
| Rep notification (`tools/notify_rep.py`, `transports`) | messages, buttons | `notify_rep` | - | in `Routing`, `Booking`: whom, not how |
| Login, PINs, rate limits (`dashboard`, `admin`) | sessions, counters in memory | login, logout | access per rep and dealer | not modelled |
| Org flush, follow-up, delivery reports (`scheduler.py`, `main.py`) | - | - | - | not modelled |

Hard behaviour: the sweep and the e-mail poll interleave with handlers and work
from stale copies; one handler makes several commits and may be cut off between
them by a restart or an exception; reps answer late, by text that names no lead
or by buttons that never expire; timers restart; a shared pointer is used by two
algorithms with different moduli; the provider delivers a text again; one JSON
column holds all of a dealer's settings and is written as a whole by whoever
changes a part. `PROJECT.json` lists the hazards line by line
with the properties that watch them.

## 2. What is modelled

| Module | Models | Kind |
|---|---|---|
| `LeadStates` | the states, `TRANSITIONS`, `can_transition` | definitions |
| `LeadLifecycle` | the promise about `Lead.state`: one lead, one edge at a time (plus a set `Races` of excused edges) | abstract specification |
| `Routing` | the lead rows, events, pointer, buttons; the event loop; the escalation sweep; restarts | system |
| `RoutingHistory` | `Routing` with history variables about pings and passes | system, watched |
| `RoundRobin` | pointer, roster, the sessions' copies of both | system |
| `Consent` | the consent log and what the code reads from it | definitions |
| `EmailParsers` | the five parsers and the order they are asked in | definitions |
| `Intake` | one customer becoming a lead, on two threads; opt-outs, deletions, failures | system |
| `Messaging` | texts, redelivery, background replies, the morning queue, a rep's texts | system |
| `AiTurn` | engagement modes, the hop loop, retries, forced bookings, leaked calls | system |
| `Booking` | appointments on two threads, the no-show nudge, what people do to both | system |
| `Availability` | `check_availability` and the definition it must agree with | definitions |
| `Dealership` | the writers of `Dealer.config`, with the copies they hold | system |
| `Inventory` | the car table under uploads, buttons and feeds | system |
| `Figures` | the lead table, what pages count of it, the digest | system |
| `RoutingProofs` | theorems about `Routing` and `RoutingHistory` | proofs |
| `RoundRobinProofs`, `AiTurnProofs`, `MessagingProofs`, `BookingProofs`, `IntakeProofs`, `DealershipProofs`, `FiguresProofs` | theorems about the module they are named for; `DealershipProofs` also about `Availability` and `Inventory`, which share its lemmas on lists | proofs |
| `MC...` | the small dealerships | TLC |

`Routing` and `Intake` both implement `LeadLifecycle` (each with its own
`Races`), which is how they are composed: each takes the other's steps into
account as edges of the table (`OtherMoves`), and so do `Booking` and `AiTurn`.

Operators named "mutated form of ..." are variants of the definition they
precede, with a bug one could plausibly make there; substituted for it they make
TLC find the violation that `PROJECT.json` names under `mutants`. They are used
nowhere else.

### Routing

A step is one commit, or one read that a later commit depends on.

* `state`, `assignedRep`, `passCount` are the columns of `Lead`; `pointer` and
  `active` the pointer and the active part of `sales_team` of `Dealer`.
* The event stream is reduced to what the sweep reads: `lastTo[l]`, the `"to"` of
  the lead's newest `state_change` event (`NoState` when the payload has none),
  and `overdue`, the leads whose newest event is older than `claim_timeout_min`.
* `buttons[l]` are the reps who have a Telegram message with buttons about `l`.
  Nothing removes them.
* `loop` is the handler that runs: its next commit (`step`), the lead, the rep or
  target state, and `seen`, the state its session read. `Begins(l)` starts a
  handler (it happens only when the loop is idle); `LoopStep` is its next commit.
  `transition` (`lifecycle.py:36-82`) is `CommitMove` or `RejectMove`, judged by
  `seen`. A pass is `PassToManager`, or `PassToNext`, `AssignRep`, `PingRep`, the
  three commits of `assign_lead`, or `PassToNobody`.
* `sweep` is the escalation sweep: `SweepStart` lists the ASSIGNED leads,
  `SweepPicks` / `SweepSkips` look at a lead's newest event, `SweepEscalates` is
  `on_claim_timeout`. Its test of the lead's state is answered from the listing,
  so in the model, as in the code, it writes unconditionally.
* `Tick(l)` lets a lead's event age past the timeout. It happens between sweeps
  because a sweep takes the time once, at its start (`scheduler.py:45`).
* `Crash` is a restart: both processes are back at the start, rows stay, and so
  do the messages on the reps' phones.

What the handlers' inputs are abstracted to: which lead, which rep, which target
state. An SMS and a WhatsApp answer are one action (the two handlers choose the
lead and call the same functions). `Adopt` is a rep typing in a lead that intake
recognises as an existing one. A booking draws a rep free at the slot as an
arbitrary non-empty set of active reps of which one is at the pointer.

`Init` is any mixture of leads as intake leaves them (`Fresh`), so intake's own
commits are not steps here; nor are deletion and the reset of a "dry run" lead
(only with outbound sending disabled), which are `Intake`'s. The statements about
`Routing` are about leads once they are in.

### RoundRobin

`copy[s]` is the dealer as a session loaded it: the event loop loads it anew for
every request, the e-mail poll once for a whole poll (`scheduler.py:745`). A draw
uses and advances the copy and commits the pointer; `SELECT ... FOR UPDATE`
(`router.py:60`) does not refresh a loaded object. `given` and `skipped` count
since the roster last changed, and `alone` remembers whether since then only
`assign_lead` drew, and only for the event loop; the three only watch. A poll
assigns leads one after another from one copy; the loop's copy does not outlive
a request, and roster edits are requests. `reset_all_data`, which sets the
pointer to 0 with everything deleted, is left out.

### Consent, Intake and EmailParsers

One customer, with a telephone number and an address. `leads` is the lead table
as far as the intake tells rows apart, `log` the consent log in order of
`created_at`. `ingest[p]` is the lead that thread `p` (the event loop or the
e-mail poll) is taking in and the next commit of `ingest_lead`: `Begin` looks for
duplicates (and starts a dry-run lead over), then `Create`, `LogConsent`,
`AutoReplied`, `Reply`, and `Engage` or, when the AI raised, `DeleteUnanswered`.
A thread's copy of its lead is as old as its own last commit, so that it writes
AUTO_REPLIED and ENGAGED whatever others have done since. `TextStop`/`LeadOptsOut`
and `TextStart`/`LeadOptsIn` are the two commits of a keyword; `MissedCall`,
`MailFromLead`, `DeleteLead`, `CleanupTestLeads` and `ResetAllData` are whole
handlers. What a mail yields is asked of `ParseEmail`: a mail is the set of its
labels, a parser the sets it knows, reads and needs.

Abstracted: names, vehicles, texts of messages; quiet hours (they decide only
whether a reply is a dry run, which is left open); a lead counts as less than a
day old until nothing is in progress. Left out: copies that stay from one mail of
a poll to the next, and that a poll whose write failed loses its remaining mails
(in the model, every mail is a poll of its own).

### Messaging

One customer and a lead. `Delivered` and `DeliveredAgain` are the webhook with its
idempotency check; `Converse` stores the text and leaves a task, `FromStranger`
goes through intake, `Keyword` writes the log and leaves the lead to the next
commit. A task is `TaskStarts` (the AI's answer, and whether the footer is added),
`TaskChecks` (`send_sms` asks for an opt-out), `TaskSends`, `TaskRecords`. A rep's
text on the dashboard and the morning sweep are cut at the same places. `Hour` is
time: the clock of the dealer wraps at `HoursPerDay`, and with it the quiet hours.
A restart empties `tasks`: rows and events stay.

A step cannot be longer than an hour, so `Hour` waits for a message that passed
the checks, and for one sweep in every hour (they run every 15 minutes). WhatsApp
and Telegram have the same handlers for customers' texts and are not told apart.

### AiTurn

One lead and one turn at a time. `turn` is the state of `handle_turn`: what the
awaited answer of the provider is for, hops, attempts, requests made, tools to
run. `Retry`, `Fail`, `AnswersWithTools`, `AnswersWithText` are what the provider
may do; `Finish` is the code after an answer in text (the guard that forces a
booking, the recovery of a leaked tool call). The model behind the provider may
say anything, but a forced `tool_choice` is obeyed. A text is one of "plain",
"claims" (a booking), "leaked" (a tool call), "fallback". The lead's moves in the
modes that hand over are those of `handle_turn` and of `ingest_lead` after it.

### Booking

`appts` is the appointment table, `turn[p]` the booking thread `p` is in. `Ask`
is `book_appointment` up to its first commit: its checks read the lead, the team
and the rows; then `CommitRow`, `CommitMove` or `RejectMove` (`transition`),
`Announce` (the event, and the rep if the lead had none) and `Tell`, the message:
`addressed` is whom the last one went to. `sweep` is the no-show nudge, with the
rows and the configuration as its session read them. `team` is `sales_team`: per
rep the status, busy hours and whether Telegram is linked. `PeopleStep` holds the
buttons, the Telegram answers, changes of owner and of the team.

`excused` records leads whose owner a person changed, that were booked for a rep
who had left the team, or that a START made NEW again (the customer may then book
a second appointment while the first one stands); `nudges` counts messages. Both
only watch. Which of the free reps is drawn is left open (it is `RoundRobin`'s).

### Availability and Dealership

`Availability` has no state: `Slots` is `check_availability`, `FreeTimes` what it
should answer by the opening hours alone. Minutes are units of which a day has
`DayLen`.

`Dealership` is one dealer row: `config` has six settings of two values each and
the team. A form handler is two steps, `Load` and `Save`, because it loads the row
and then awaits its body; handlers with parameters are one step. The page of the
administrator posts back the team it showed. `kept` is the configuration as the
handlers have set it if none of them loses another's writing; what a form missed
because it was open already is excused (`missed`). `Restart` is
`_auto_provision_dealers`. `OfferedIsOpen` joins the two modules: the hours that
are stored are those the tool is asked about.

### Inventory

`cars` in order of `id`, with stock number, VIN and status. `Upload` is a file up
to its first commit, `RemoveOthers` the rest of a full upload, `Sync` the upserts
of a feed and the marking of what it does not name as sold. `Resolves` is the car a
lead names (by stock number, then VIN; its web address is left out), `Offered` what
a search finds. Other columns, and the words a customer searches by, are left out.

### Figures

`row` is the lead table (state, rep, created, updated), `Wall` what the dealer's
wall clock shows at each instant: it repeats an hour and skips one. The pages are
operators of the table, one for each page, each with the states and limits of its
own code. `Tick` is an hour, in which the digest job runs if the server is up.

## 3. The runs

| Run | What it asks | States |
|---|---|---|
| `routing_one_lead` | one lead, two reps who may both be inactive, `greeting_only` hand-offs, text and buttons, limit 2 passes, one restart; fairness | 1.1 M |
| `routing_two_leads` | two leads compete for the newest-lead rule of texts and for one sweep's list | 4.8 M |
| `history` | pings, timer windows and passes of one lead | 1.4 M |
| `round_robin` | rosters of one to three reps, both sessions, both pickers, the pointer anywhere | 0.2 M |
| `booking_two_leads` | two leads, two reps, one hour, both threads, a restart | 3.9 M |
| `booking_no_shows` | one lead booked up to twice for an hour that passes, two reps, a restart; fairness | 0.75 M |
| `intake` | one customer, two leads, two forms and two mails, two keywords, one day, restart or deletion | 3.3 M |
| `messaging` | two texts, one delivered again, days of four hours of which two are quiet, a STOP by e-mail, a rep's text, a restart; fairness | 1.1 M |
| `ai_turn` | all modes, three texts, two hops, one retry; fairness | small |
| `dealership` | two reps, two values per setting, two forms at a time, three requests | 2.2 M |
| `inventory` | two stock numbers, three VINs, three cars, files of two rows, one restart | small |
| `figures` | two leads, days of two hours with both changes of the clocks | 1.4 M |

**Routing**

* `TypeOK` - types; the non-trivial part is that the pointer is always below the
  length of *some* roster, whoever wrote it last and modulo what.
* `AuditTrailAgrees` - the newest event never names a state the lead is not in,
  except that the lead may be ESCALATED meanwhile. The sweep decides by this
  stream, so it is what keeps it from escalating claimed leads by design.
* `LifecycleImplemented` - the refinement `LeadLifecycle`: all writers together
  move a lead only along the table, or along an edge with ESCALATED at one end.
  The excuse is needed: those edges are what a race of a handler and the sweep
  draws (CLAIMED -> ESCALATED, ESCALATED -> APPT_SET, ...). Without races
  (`Races = {}`) the promise is the table's; the code does not keep that one.
* `UnclaimedLeadIsEscalated` - liveness: a lead whose newest event says ASSIGNED
  does not stay so, however it is passed on, and through a restart.
* `PicksOnlyWaitingLeads` - when the sweep decides that a lead timed out, it is
  ASSIGNED at that moment, though the sweep's list may be old.
* `PassReachesNewRep` - with reps who answer by text, a pass that changes the
  owner pings the new one.
* `RepGetsFullWindow`, `PingsBounded` - each pinged rep has the whole timeout;
  fewer than `max_pass_count` reps are pinged by passing, whatever happens to the
  lead between the passes.
* `FairWhileAlone`, `TurnsWhileAlone` - from one roster change to the next no
  rep is two leads ahead of another and none is passed over for a whole round,
  provided the event loop draws alone and by `assign_lead`.

**Booking**

* `DoubleBookedOnlyByHand` - no rep is expected by two customers at one hour,
  though two threads check and then commit, unless a person moved a lead or the
  rep was off the team. It speaks of bookings that went through: the row that a
  refused `transition` leaves behind (`AppointmentMeansApptSet`) can clash too.
* `OwnerIsTold` - the rep who is told of a booking is who has the lead, though the
  thread's copies are as old as the turn; the dealership's own number is told only
  of a lead nobody has.
* `AskedOnce`, `OverdueIsAskedAbout` - the rep is asked once what became of a
  lead's appointment (once more per restart between message and record), and is
  asked at last, also if Telegram was not linked when the sweep first saw it.

**Intake**

* `LastWordCounts` - the customer's last keyword by text is what `send_sms` will
  see, whichever rows a failing AI, a dry run or a deletion has removed since.
* `DuplicatesOnlyByRace` - two leads of a customer within a day come from
  different threads, or the later one is a missed call (which looks only for
  calls).
* `EmailStaysOut` - no lead is made of an address with an opt-out on record, also
  when the opt-out falls between the check and the row.
* `LifecycleImplemented` - keywords, mails, calls and deletions follow the table;
  `ingest_lead` alone may write AUTO_REPLIED, ENGAGED or NEW over anything, from a
  copy that was overtaken.
* `NumberIsRead` is an assumption of `MCIntake`, which TLC evaluates over all
  2^11 sets of labels: whichever parser takes a mail, a number after "Phone:" and
  an address after "Email:" are read, and another label's number is lost only in
  the cases it names.

**Messaging**

* `AnsweredOnce`, `FirstTouchOnce`, `FooterOnce` - each goes out once, however
  often a text is delivered (the last two: once more per restart between a message
  and its record).
* `NoAnswerAfterStop` - nothing is sent after a STOP by text, not even the answer
  to an earlier text; a STOP by e-mail, written by another thread, may fall
  between a check and its message.
* `NobodyWoken` - no first text and no rep's text in quiet hours.
* `StoredIsAnswered`, `QueueIsFlushed` - liveness: a stored text's task is carried
  through unless the server restarts; a queued first text is flushed before it is
  too old.

**AiTurn** `RequestsBounded`, `TurnEnds` - whatever the model answers, a turn ends
and makes at most (retries + 1) (hops + 4) requests; `ClaimIsBacked` - no reply on
a turn about booking claims one nobody tried, but for a text written after a
leaked call; `BookedOnce` - the tool books a lead once.

**Dealership** `StoredIsKept` - what was stored is there until a restart, or a form
or page that was open before, takes it away; `OfferedIsOpen` - for whatever hours
are stored, and every weekday, time and set of appointments, `check_availability`
answers with the earliest free times (or raises, in the last slot of a day).

**Inventory** `StockNamesOneCar`, `OfferedIsListed`, `SyncIsIdempotent` - a stock
number names one car though three writers look for it by different keys; after a
full upload a search finds nothing that was not in it or put back since, also if it
was cut off between its commits; a second sync with the same data changes nothing,
for feeds whose rows have both keys and share none.

**Figures** `FiguresAgree` - what one page adds up is what another shows, for the
manager and each rep; `BadgesAgree` - lists do not contradict the badges beside
them; `DigestCountsOnce` - each lead is in one digest, also across a change of the
clocks.

### What fails

The repository's documents, comments and docstrings say things that the code does
not do; the `findings` of `PROJECT.json` quote both. Ten of them are stated as
properties with a configuration that shows the violation in a few steps
(`tlc -config X.cfg` on the module named):

| Configuration (module) | Property | What TLC shows |
|---|---|---|
| `Routing_StaleSweep` (`MCRouting`) | `EscalatesOnlyIfStillAssigned` | a lead claimed between the sweep's listing and its write becomes ESCALATED: the "still ASSIGNED" test sees the session's old copy |
| `Routing_Reassigned` | `AssignedLeadIsEscalated` | the dashboard's reassign event has no `"to"`, and the sweep never looks past the newest event: the lead waits for ever |
| `Routing_LateButton` | `PassReachesNewRep` | Pass on an old button: owner changed and committed, then `transition` raises; nobody is pinged |
| `Routing_Ownerless` | `ClaimedLeadIsYours` | "is yours", but `assigned_rep` stays NULL |
| `Routing_OthersLead` | `PassesOwnLead` | "2" passes another rep's ESCALATED lead |
| `History_Passes` (`MCRoutingHistory`) | `ManagerAfterConsecutivePasses` | "consecutive" passes include those before a claim |
| `RoundRobin_Race` (`MCRoundRobin`) | `FairDistribution` | two sessions draw the same rep in spite of the row lock |
| `RoundRobin_Slots` | `NobodyIsSkipped` | a free rep is passed over again and again when bookings draw |
| `Messaging_Redelivery` (`MCMessaging`) | `LastKeywordCounts` | a START delivered again undoes a later STOP |
| `AiTurn_Greeting` (`MCAiTurn`) | `OneGreeting` | a form's lead is greeted twice, and then answered as in full auto |

Stated in the modules without a configuration: `Booking!AppointmentMeansApptSet`,
`Intake!EmailOptOutHonored`, `EmailParsers!CarGurusIsAsked`.

### Bounds

`PassBound` stops reps from passing a lead for ever (so that `passCount` is
finite): it lies above `MaxPassCount` in the runs about passing, so the limit is
reached and passed (`routing_two_leads` is about which lead is meant and stops at
one pass). `MaxPassCount` is 2 instead of 3, which leaves one pass that
goes on to another rep and one that does not. Two reps are enough for "mine and
another's", two leads for "the newest one" and for a sweep that works through a
list; `routing_two_leads` therefore has one rep, who is their owner or is not.
`MaxGiven` 3 lets a rep be two ahead (the violation) with a draw to spare, and
three reps give subsets of two free ones, whose modulus differs from the team's.

`MaxCrashes` is 1 everywhere: a restart keeps nothing but the rows, so a second
one starts from a state like the first's. In `Booking`, two rows are one for each
of two leads or two in a row for one lead; `DoubleBookedOnlyByHand` needs one
hour, so the clock stands still in that run and ticks in the other. In `Intake`,
`MaxBreaks` 1 gives one day, one restart, one deletion of everything or one move
by another handler; two keywords are a STOP and a START in either order, and two
leads the least for a duplicate. In `Messaging` two texts are an answer under way
and another text, four hours a day with a quiet hour before and one after midnight,
and `QueueAge` a whole day, as in the code (24 h); `Messaging_Redelivery` needs
no more. `AiTurn` has two hops instead of the code's limit, so that the last one
is reached. `Dealership` allows two forms that hold copies at a time and three
requests that change something: a form, a writer it misses, and a third. In
`Figures`, `PageLimit` 2 is as many leads as there are: pages may be full.
No run uses symmetry or a state constraint.

In the modules added to `Routing` and `RoundRobin` the counters just named let
the model come to a stop when they are used up, and some systems may stop by
themselves (a turn that has ended, a customer who is silent), so their runs do
not check for deadlock; that work begun is finished is what the liveness
properties say. `Routing`'s and `RoundRobin`'s runs do check it.

### Fairness

* `Routing`: `WF(LoopStep)`, a handler that runs has no wait in it and finishes;
  `WF(SweepStep)`, the job is scheduled every minute, in this process and after a
  restart; `SF(Tick(l))`, time passes - strong, because sweeps, between which
  alone `Tick` is enabled, come and go.
* `Booking`: `WF(NudgeStep)`, every 15 minutes, over a finite list.
* `Messaging`: `WF(LoopStep)`, the event loop gets to its tasks, which webhooks do
  not starve (asyncio takes callbacks in order); `WF(SweepStep)`, as above;
  `WF(Hour)`, time passes.
* `AiTurn`: `WF(TurnStep)`, a request is answered or times out (the client has a
  timeout), and the thread goes on.

Nothing is assumed of customers, reps and managers: they may never do anything.

## 4. The proofs

TLAPS checks eight modules of theorems, without assumptions other than those on
constants: any sets of leads, reps, texts and slots (finite ones in `Figures`, which
adds up over them), any set of rosters (lists of
reps; for `RoundRobin` not empty and without repetition), any engagement mode,
any opening hours within a day, any wall clock, files and feeds of any length, any
limits. Each inductive invariant was first
checked by TLC on the instance of the run that checks the property.

| Theorem | Says |
|---|---|
| `RoutingProofs!TypeCorrect` | `Spec => []TypeOK` |
| `RoutingProofs!AuditTrail` | `Spec => []AuditTrailAgrees` |
| `RoutingProofs!PicksWaiting` | `Spec => PicksOnlyWaitingLeads` |
| `RoutingProofs!Implementation` | `Spec => LifecycleImplemented` |
| `RoutingProofs!TextedPasses` | `Channels \subseteq {"text"} /\ Spec => PassReachesNewRep` |
| `RoutingProofs!PassingEnds` | `HistorySpec => []PingsBounded` |
| `RoutingProofs!FullWindow` | `HistorySpec => RepGetsFullWindow` |
| `RoundRobinProofs!TypeCorrect` | `Spec => []TypeOK` |
| `RoundRobinProofs!Fairness` | `Spec => []FairWhileAlone` |
| `RoundRobinProofs!Turns` | `Spec => []TurnsWhileAlone` |
| `IntakeProofs!TypeCorrect` | `Spec => []TypeOK` |
| `IntakeProofs!LastWord` | `Spec => []LastWordCounts` |
| `IntakeProofs!Duplicates` | `Spec => []DuplicatesOnlyByRace` |
| `IntakeProofs!EmailOut` | `Spec => EmailStaysOut` |
| `IntakeProofs!Implementation` | `Spec => LifecycleImplemented` |
| `MessagingProofs!TypeCorrect` | `Spec => []TypeOK` |
| `MessagingProofs!FirstTouch` | `Spec => []FirstTouchOnce` |
| `MessagingProofs!Awake` | `Spec => []NobodyWoken` |
| `MessagingProofs!Answered` | `Spec => []AnsweredOnce` |
| `MessagingProofs!Footer` | `Spec => []FooterOnce` |
| `MessagingProofs!Stopped` | `Spec => NoAnswerAfterStop` |
| `AiTurnProofs!TypeCorrect` | `Spec => []TypeOK` |
| `AiTurnProofs!Requests` | `Spec => []RequestsBounded` |
| `AiTurnProofs!Claims` | `Spec => []ClaimIsBacked` |
| `AiTurnProofs!Booked` | `Spec => []BookedOnce` |
| `BookingProofs!TypeCorrect` | `Spec => []TypeOK` |
| `BookingProofs!DoubleBooked` | `Spec => []DoubleBookedOnlyByHand` |
| `BookingProofs!Told` | `Spec => []OwnerIsTold` |
| `BookingProofs!Nudged` | `Spec => []AskedOnce` |
| `DealershipProofs!TypeCorrect` | `Spec => []TypeOK` |
| `DealershipProofs!Kept` | `Spec => []StoredIsKept` |
| `DealershipProofs!DayIsRight` | for all hours, days and instants, `DaySlots` lists the day's part of `FreeTimes`, in order |
| `DealershipProofs!SlotsAreRight` | for all hours, days, instants and appointments, `Slots` lists the earliest of `FreeTimes`, in order, as many as it may |
| `DealershipProofs!OfferedAreOpen` | `Spec => []OfferedIsOpen` |
| `DealershipProofs!InventoryType` | `InventorySpec => []InventoryTypeOK` |
| `DealershipProofs!OneCar` | `InventorySpec => []StockNamesOneCar` |
| `DealershipProofs!OnlyListed` | `InventorySpec => []OfferedIsListed` |
| `DealershipProofs!SyncTwice` | `InventorySpec => []SyncIsIdempotent` |
| `FiguresProofs!CountedByOneDigest` | `Spec => []DigestCountsOnce` |
| `FiguresProofs!Badges` | `Spec => []BadgesAgree` |
| `FiguresProofs!PagesAgree` | `Spec => []FiguresAgree` |

**Routing.** `AuditTrailAgrees` is not inductive: that a commit keeps it depends
on what the handler read before. The invariant `IInv` adds three facts.
`ReadsHold`: while a handler runs, the lead is in the state it read, or the
sweep has escalated it - handlers exclude each other, so nobody else could have
written. `LogsAgree`: the same for the state a dashboard handler is about to log
a second time. `SweepListHolds`: a lead on the sweep's list whose newest event
is overdue is still ASSIGNED - a handler that moved it would have appended a
fresh event, and no event ages while a sweep runs. From `IInv`, `PicksWaiting`
is one case of the step; `Implementation` maps every commit to `Move` or to a
stutter, with the edge `<<seen, to>>` in the table and the lead in `seen` or in
ESCALATED. `TextedPasses` has its own invariant: without buttons a pass begins
only with a lead that waits, so what `PingRep` reads again is ASSIGNED or
ESCALATED. For the history properties the step of `HistorySpec` is a step of
`Routing` that is watched: a ping comes after the pass is counted
(`PingsCounted`), nobody is drawn when the count would reach the limit
(`DrawnBelowLimit`, which needs `MaxPassCount > 0`), and the event that opened a
rep's window is young (`WindowIsFresh`).

**RoundRobin.** While `alone` holds, a loaded copy of the event loop equals the
row (`CopyHolds`). Every rep has been given `k` or `k + 1` leads, those between
the position where the round started and the pointer being one ahead (`Even`),
and for every rep the draws that passed it over and the draws still before its
turn are together fewer than the roster is long (`TurnComes`); all of it modulo the length of the roster, starting wherever the
pointer was left, even beyond the roster's end.

**Intake.** That the last keyword counts is a fact about a list from which rows
disappear: a deletion takes all rows of some leads out of the middle of the log.
Keyword rows carry no lead, so they survive (`Stands`: such a row says it, and
none after it takes it back). What a deletion does to a list is proved once for
any list and any set of leads: the rows kept have ranks in their order, counted
by `Cardinality` and compared with the theorems on injections
(`Consent!WithoutLeads` is defined by these ranks and not with `SelectSeq`, about
whose recursion nothing can be proved). `Duplicates` needs `LookHolds`: a thread
that is about to create a lead has looked, and what has come since the other
thread made, whose source differs (`OffersHold`). `EmailOut` needs that no row
re-grants an address (`AddressStaysOut`), so that the poll's check still holds
when its row is written. `Implementation` gives each step its lead: of the steps
that write a state, all but three targets are edges of the table, and those three
are the named `Races`; it needs a type of the threads' records that is exact
(`RowSteps`, `Offers`, `Jobs` in `TypeOK`).

**Messaging.** Each property is about something done twice, and its invariant
says what lies between the two halves: a first text that was sent and not
recorded (`QueuedCounted`), a footer without its row (`FootersCounted`), a task
for a stored text that has no answer yet, no two for one (`TasksAreNew`); a
restart in between is counted by `crashes`. `AwakeNow` and `CheckHolds` say that
what was checked is still so when the text goes out: the sweep's check and its
send are within one hour, and the event loop handles no STOP between check and
send. `NobodyWoken` is proved for quiet hours that wrap around midnight.

**AiTurn.** Requests are counted by the reason of the one awaited: `Prior` is how
many were answered before a first one, one after a hop, a forced booking, the
final one, or the clean-up after a leaked call (`RequestsCounted`); `ReasonsHold`
says which may follow which, and the bound is `(MaxHops + 4) * (MaxRetries + 1)`.
`BookedOnce` needs that the table does not lead back to APPT_SET from where a
booking leaves the lead (`BookedIsPast`); a START may make such a lead NEW, and
then it may book again, so the moves of other handlers exclude this
(`MovesAssumption`): the property is about the time between two STARTs.

**Booking.** What a thread has read before its commits is true for the event
loop, which nobody interrupts (`LoopKnows`), and not for the poll's thread, whose
leads have not been announced and whose moves are rejected (`PollRejects`). A lead
that is not `excused` and not yet booked has no announced row (`BookedIsPast`), so
the rep of a new booking can only collide with other leads' rows, which were
looked at (`RepIsFree`). The proof failed at first for a lead that books, opts
out and comes back by a START: it books again while its first row stands. The
instance of the run has no START; the model now counts such a lead as `excused`,
as it is the customer's own doing. `AskedOnce` follows from counting the messages
sent and not recorded (`NudgesCounted`).

**Dealership and Availability.** An open form or the admin's page agrees with the
column in every section it did not miss (`FormsAgree`, `PageAgrees`), so writing
it back overwrites nothing else. The number of a rep's windows is bounded by the
requests so far, in the column and in every copy (`WindowsCounted`). `DayIsRight`
is about division: the first slot is the next point of the grid, rounded up from
opening or from now (`Rounding`), the grid of a day is `first + k * Step` below
closing, and every open time on the grid is one of these, closed and reversed
hours included. `SlotsAreRight` joins the days: a list in order of one set followed
by a list in order of another whose times are all later is one of both (`Joins`),
leaving out what is taken keeps the order (`Adds`), and in a list in order each time
has as many earlier ones as stand before it (`Ranks`). `OfferedIsOpen` follows for
whatever hours `TypeCorrect` allows to be stored. `HoursAssumption` has them lie
within a day: the settings form takes free text, and at times past midnight the tool
raises.

**Inventory.** `IInventory` says that each car has a stock number, no two the same,
and what `OfferedIsListed` says. It speaks of tables after a whole file; that it
holds there follows from what one row does to any table (`Takes`: it adds no second
car with a number, and shows no number but its own), carried along the rows by
`FoldIsChain`. For `SyncTwice`: after a pass each record of the feed is what one car
says, word for word (`FeedIsStored`: no other record has either of its keys, so none
has overwritten that car), marking leaves these cars alone, and a pass over a table
that says it all changes nothing (`StoredFeedIsNoOp`).

**Figures.** `DigestCountsOnce` says nothing of a day on which its hour did not
come exactly once; the invariant says for each lead of the table that it has been
counted if and only if the hour has come on the day it is due
(`CountedIfCame`), and, whatever the hour, not before that day
(`NotYetCounted`), which is what remains true when a manager changes the hour.
It rests on `DaysAssumption`: the clocks are changed after midnight, so that a
day does not come back. Without it a lead created in the repeated end of a day
could be due on a day whose digest has gone out. `Badges` needs that a list that
is not full shows all its rows, by the oldest row it would leave out
(`NotFullShowsAll`). `PagesAgree` is about sums: leads sorted by what they are (state,
source, rep) and counted kind by kind are counted once each (`SumOfKinds`); each page
then needs only that its lists of states cover the states it counts, and that a
table within `PageLimit` is shown whole (`PageHasRoom`).

**Lists and sums.** `FoldLeft` and `SumFunction` of the community modules expand to a
`CHOOSE` of a recursive function. Induction over data is out of the provers' reach,
but not these facts: that such a function exists, and that a property of its first
value which every step keeps is one of the last, are both shown by the least number
of places at which they would fail (`SmallestMember`, `UpTo`). `FoldIsDefined` and
`FoldIsChain` (the values a fold leads through, one for each place), proved once,
serve the upload, the feed, the days joined and the times left out.

## 5. Only model-checked

* **Liveness** (`UnclaimedLeadIsEscalated`, `OverdueIsAskedAbout`,
  `StoredIsAnswered`, `QueueIsFlushed`, `TurnEnds`): fairness and `ENABLED` are
  out of the prover's reach.
* **The parsers**: `EmailParsers` is evaluated over every set of labels.
* **What fails**, of course: the properties of the findings.

Every invariant and every action property of the passing runs is proved; the type
invariants of `Intake`, `Booking`, `AiTurn`, `Figures` and `Inventory` are proved but
are not runs' properties.

## 6. Not modelled

* **Login, sessions, PINs, rate limits**: access control; nothing in the lead
  pipeline depends on it, and its counters live in one process's memory.
* **Org flush, follow-up, delivery reports**: the org flush imports a module that
  does not exist, the follow-up job has no caller, and a delivery report
  overwrites a column nobody reads.
* **Prompts, wording, templates, HTTP**: `AiTurn` lets the model say anything;
  what the prompt makes it say is not a matter of states. Transports may fail, in
  the models, and nothing else.
* **Pages**: response times, the appointments page, charts and a lead's own page
  are reads without a promise about each other.
* **Feeds and search words**: fetching, mapping of columns and matching of words;
  the scheduled sync raises before it does anything (a finding).
* **The connection pool**: a step of a model always finds its session.
* **Between modules**: `Routing` has no deletion and `Intake` no sweep, so what a
  deletion does to a running sweep is not covered; after a failed write the
  session of a poll or sweep is unusable to its end, of which only the first loss
  is modelled.
* `v4 archived` (an older version of the program), `demo`, `landing`, `skills`,
  `scripts` and the documents are not part of the program that runs.
