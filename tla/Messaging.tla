----------------------------- MODULE Messaging ------------------------------
(***************************************************************************)
(* The texts between one customer and the dealership: the SMS webhook and  *)
(* the background task that answers what it stored, the provider that      *)
(* delivers a text again, the keywords STOP and START, the first text,     *)
(* which after hours is queued for the morning sweep, and the texts that a *)
(* rep writes on the dashboard.                                            *)
(*                                                                         *)
(* Webhooks and background tasks run on the event loop, one at a time.     *)
(* The morning sweep and the e-mail poll are jobs in threads of their own. *)
(* send_sms looks for an opt-out, then sends, then records the row; a step *)
(* is one of these.  How leads come to be is module Intake's.              *)
(***************************************************************************)
EXTENDS Naturals, Sequences

CONSTANTS
  Texts,         \* MessageSids of the customer's texts
  NoText,
  HoursPerDay,
  QuietStart,    \* compliance.quiet_hours, which wrap around midnight
  QuietEnd,
  QueueAge,      \* hours after which the sweep no longer looks at the queue (24)
  MaxCopies,     \* bound of the model: texts delivered again
  MaxMailStops,  \* bound of the model: opt-outs by e-mail
  MaxWrites,     \* bound of the model: texts by the rep
  MaxCrashes     \* bound of the model: restarts of the server

ASSUME NoTextAssumption == NoText \notin Texts
ASSUME HoursAssumption  == /\ HoursPerDay \in Nat \ {0} /\ QueueAge \in Nat
                           /\ QuietStart \in 0..HoursPerDay - 1 /\ QuietEnd \in 0..HoursPerDay - 1
                           /\ QuietEnd < QuietStart
ASSUME BoundAssumption  == /\ MaxCopies \in Nat /\ MaxMailStops \in Nat
                           /\ MaxWrites \in Nat /\ MaxCrashes \in Nat

VARIABLES
  kind,       \* kind[t]: what text t says; "none" before it is sent
  copies,     \* texts delivered again
  lead,       \* the lead: none yet, open, or OPTED_OUT
  optedOut,   \* the consent log says so (module Consent)
  stored,     \* texts with a row, found again by their sid
  tasks,      \* background tasks that have not begun, in order of creation
  loop,       \* what the event loop is at
  outbound,   \* the lead has an outbound row for the customer
  writes,     \* texts by the rep
  queue,      \* the queued first text: none, queued, or flushed (morning_sent)
  age,        \* hours since it was queued
  sweep,      \* what the morning sweep is at
  hour,       \* of the dealer's clock
  swept,      \* the sweep has run within this hour
  mailStops,  \* opt-outs by e-mail
  crashes,    \* restarts so far
  done,       \* history: texts whose task was carried through
  answers,    \* history: answers to each text that went out
  touches,    \* history: first texts that the sweep sent
  woken,      \* history: a first text or a rep's went out during quiet hours
  footers,    \* history: answers that went out with the opt-out footer
  lastWord    \* history: the last keyword that the customer sent

inbox   == <<kind, copies, stored, tasks, lastWord>>
consent == <<lead, optedOut, mailStops>>
replies == <<loop, done, answers, footers, writes>>
morning == <<queue, age, sweep, touches>>
time    == <<hour, swept, crashes>>
vars    == <<inbox, consent, replies, morning, time, outbound, woken>>

Idle  == [step |-> "idle", text |-> NoText, footer |-> FALSE]
Steps == {"idle", "check", "send", "row", "out", "in", "rep sends", "rep row"}
Kinds == {"words", "stop", "start"}

TypeOK ==
  /\ kind \in [Texts -> Kinds \cup {"none"}] /\ writes \in 0..MaxWrites
  /\ copies \in 0..MaxCopies /\ crashes \in 0..MaxCrashes /\ mailStops \in 0..MaxMailStops
  /\ lead \in {"none", "open", "out"}
  /\ stored \subseteq Texts /\ tasks \in Seq(Texts) /\ done \subseteq stored
  /\ loop \in [step : Steps, text : Texts \cup {NoText}, footer : BOOLEAN]
  /\ sweep \in {"idle", "look", "check", "send", "record"}
  /\ queue \in {"none", "queued", "flushed"} /\ age \in 0..QueueAge + 1
  /\ hour \in 0..HoursPerDay - 1
  /\ {optedOut, outbound, swept, woken} \subseteq BOOLEAN
  /\ answers \in [Texts -> Nat] /\ touches \in Nat /\ footers \in Nat
  /\ lastWord \in {"none", "stop", "start"}

Init ==
  /\ kind = [t \in Texts |-> "none"] /\ copies = 0
  /\ lead = "none" /\ optedOut = FALSE /\ mailStops = 0
  /\ stored = {} /\ tasks = <<>> /\ loop = Idle /\ outbound = FALSE /\ writes = 0
  /\ queue = "none" /\ age = 0 /\ sweep = "idle"
  /\ hour \in 0..HoursPerDay - 1 /\ swept = FALSE /\ crashes = 0
  /\ done = {} /\ answers = [t \in Texts |-> 0]
  /\ touches = 0 /\ woken = FALSE /\ footers = 0 /\ lastWord = "none"
-----------------------------------------------------------------------------
(* The first text                                                          *)

\* Mutated form of Quiet: the window is taken not to wrap.
QuietUnwrapped(h) == QuietStart <= h /\ h < QuietEnd

\* _is_quiet_hours, for a window that wraps around midnight.
Quiet(h) == h >= QuietStart \/ h < QuietEnd

\* What is_after_hours defers is what send_sms would suppress.
AfterHours == Quiet(hour)

QueueMorningFollowup == queue' = "queued"

LoopFree == loop = Idle

(***************************************************************************)
(* A lead comes in by a form or a missed call: it gets its first text, or  *)
(* after hours the text is queued.  The text of a form says how to opt     *)
(* out; it goes through send_sms, which records a row also if it           *)
(* suppresses.  (A missed call's row has no recipient_role.)               *)
(***************************************************************************)
LeadArrives ==
  /\ LoopFree /\ lead = "none"
  /\ lead' = "open"
  /\ IF AfterHours
     THEN QueueMorningFollowup /\ UNCHANGED <<outbound, woken>>
     ELSE /\ outbound' \in BOOLEAN
          /\ woken' = (woken \/ hour \notin QuietEnd..QuietStart - 1)
          /\ UNCHANGED queue
  /\ UNCHANGED <<inbox, optedOut, mailStops, replies, age, sweep, touches, time>>
-----------------------------------------------------------------------------
(* The SMS webhook                                                         *)

\* Mutated form of Duplicate: rows are not looked for.
DuplicateNever(t) == FALSE

\* _idempotency_check
Duplicate(t) == t \in stored

\* The customer has a lead that is not closed: the text is stored, a task will answer.
Converse(t) ==
  /\ kind'[t] = "words" /\ lead = "open"
  /\ stored' = stored \cup {t}
  /\ tasks' = Append(tasks, t)
  /\ UNCHANGED <<consent, queue, outbound, loop>>

\* Nobody known, or nobody any more: ingest_lead, and TwiML that repeats the last
\* outbound row.  After hours the first text waits all the same.  (Whether ingest_lead
\* finds the closed lead again or makes another: module Intake.)
FromStranger(t) ==
  /\ kind'[t] = "words" /\ lead # "open"
  /\ IF lead = "none" THEN /\ lead' = "open"
                           /\ IF AfterHours THEN QueueMorningFollowup ELSE UNCHANGED queue
                           /\ outbound' = ~AfterHours
     ELSE UNCHANGED <<lead, queue, outbound>>
  /\ UNCHANGED <<stored, tasks, optedOut, mailStops, loop>>

\* STOP and START: the row of the log first, the lead next.  START is ignored unless
\* the customer is opted out.
Keyword(t) ==
  /\ kind'[t] \in {"stop", "start"}
  /\ optedOut' = (kind'[t] = "stop")
  /\ IF kind'[t] = "start" /\ ~optedOut THEN UNCHANGED loop
     ELSE loop' = [Idle EXCEPT !.step = IF kind'[t] = "stop" THEN "out" ELSE "in"]
  /\ UNCHANGED <<stored, tasks, lead, mailStops, queue, outbound>>

Receive(t) ==
  /\ LoopFree
  /\ IF Duplicate(t) THEN UNCHANGED <<stored, tasks, consent, loop, queue, outbound>>
     ELSE Converse(t) \/ FromStranger(t) \/ Keyword(t)
  /\ UNCHANGED <<done, answers, footers, writes, age, sweep, touches, time, woken>>

Delivered(t, k) ==
  /\ kind[t] = "none"
  /\ kind' = [kind EXCEPT ![t] = k]
  /\ lastWord' = IF k = "words" THEN lastWord ELSE k
  /\ Receive(t)
  /\ UNCHANGED copies

\* The provider saw no answer in time, or an error, and posts the text again.
DeliveredAgain(t) ==
  /\ kind[t] # "none" /\ copies < MaxCopies
  /\ copies' = copies + 1
  /\ UNCHANGED <<kind, lastWord>>
  /\ Receive(t)

LeadOptsOut ==
  /\ loop.step = "out"
  /\ lead' = IF lead = "open" THEN "out" ELSE lead
  /\ loop' = Idle
  /\ UNCHANGED <<inbox, optedOut, mailStops, done, answers, footers, writes, morning, time, outbound, woken>>

LeadOptsIn ==
  /\ loop.step = "in"
  /\ lead' = IF lead = "out" THEN "open" ELSE lead
  /\ loop' = Idle
  /\ UNCHANGED <<inbox, optedOut, mailStops, done, answers, footers, writes, morning, time, outbound, woken>>

\* A STOP by e-mail, in the poll's thread (for a lead whose address is known).
MailStop ==
  /\ lead = "open" /\ mailStops < MaxMailStops
  /\ optedOut' = TRUE /\ lead' = "out" /\ mailStops' = mailStops + 1
  /\ UNCHANGED <<inbox, replies, morning, time, outbound, woken>>
-----------------------------------------------------------------------------
(* The background task                                                     *)

\* Mutated form of TaskStarts: the set of tasks is emptied.
TaskStartsAlone ==
  /\ LoopFree /\ tasks # <<>>
  /\ loop' = [step |-> "check", text |-> Head(tasks), footer |-> ~outbound]
  /\ tasks' = <<>>
  /\ UNCHANGED <<kind, copies, stored, lastWord, consent, done, answers, footers, writes, morning, time,
                 outbound, woken>>

\* handle_turn answers, and the footer is added unless there is an outbound row.
TaskStarts ==
  /\ LoopFree /\ tasks # <<>>
  /\ loop' = [step |-> "check", text |-> Head(tasks), footer |-> ~outbound]
  /\ tasks' = Tail(tasks)
  /\ UNCHANGED <<kind, copies, stored, lastWord, consent, done, answers, footers, writes, morning, time,
                 outbound, woken>>

\* Mutated form of TaskChecks: the state of the lead is trusted.
TaskChecksLead ==
  /\ loop.step = "check"
  /\ loop' = [loop EXCEPT !.step = "send"]
  /\ UNCHANGED <<inbox, consent, done, answers, footers, writes, morning, time, outbound, woken>>

\* send_sms: opted out, only a row is left.  Quiet hours do not count for an answer.
TaskChecks ==
  /\ loop.step = "check"
  /\ loop' = [loop EXCEPT !.step = IF optedOut THEN "row" ELSE "send"]
  /\ UNCHANGED <<inbox, consent, done, answers, footers, writes, morning, time, outbound, woken>>

TaskSends ==
  /\ loop.step = "send"
  /\ loop' = [loop EXCEPT !.step = "row"]
  /\ answers' = [answers EXCEPT ![loop.text] = @ + 1]
  /\ footers' = IF loop.footer THEN footers + 1 ELSE footers
  /\ UNCHANGED <<inbox, consent, done, writes, morning, time, outbound, woken>>

\* The provider refuses, or the turn has raised an exception: no row.
TaskFailsToSend ==
  /\ loop.step = "send"
  /\ loop' = Idle
  /\ done' = done \cup {loop.text}
  /\ UNCHANGED <<inbox, consent, answers, footers, writes, morning, time, outbound, woken>>

\* Mutated form of TaskRecords: the row does not say who the message was for.
TaskRecordsNoRole ==
  /\ loop.step = "row"
  /\ loop' = Idle
  /\ done' = done \cup {loop.text}
  /\ UNCHANGED <<inbox, consent, answers, footers, writes, morning, time, outbound, woken>>

TaskRecords ==
  /\ loop.step = "row"
  /\ loop' = Idle
  /\ done' = done \cup {loop.text}
  /\ outbound' = TRUE
  /\ UNCHANGED <<inbox, consent, answers, footers, writes, morning, time, woken>>
-----------------------------------------------------------------------------
(* A rep writes on the dashboard                                           *)

(***************************************************************************)
(* send_lead_message.  The row that is committed first does not say who it *)
(* is for (the text is stored twice); send_sms, on the event loop as well, *)
(* asks for opt-outs and quiet hours and leaves the row that does.         *)
(***************************************************************************)
RepWrites ==
  /\ LoopFree /\ lead # "none" /\ writes < MaxWrites
  /\ writes' = writes + 1
  /\ loop' = [Idle EXCEPT !.step = IF optedOut \/ Quiet(hour) THEN "rep row" ELSE "rep sends"]
  /\ UNCHANGED <<inbox, consent, done, answers, footers, morning, time, outbound, woken>>

\* Unless the provider refuses: then there is no row.
RepSends ==
  /\ loop.step = "rep sends"
  /\ \/ /\ loop' = [loop EXCEPT !.step = "rep row"]
        /\ woken' = (woken \/ hour \notin QuietEnd..QuietStart - 1)
     \/ loop' = Idle /\ UNCHANGED woken
  /\ UNCHANGED <<inbox, consent, done, answers, footers, writes, morning, time, outbound>>

RepRecords ==
  /\ loop.step = "rep row"
  /\ loop' = Idle
  /\ outbound' = TRUE
  /\ UNCHANGED <<inbox, consent, done, answers, footers, writes, morning, time, woken>>

RepStep == RepSends \/ RepRecords
-----------------------------------------------------------------------------
(* The morning sweep                                                       *)

\* Mutated form of Fresh: the queue is read for the last hour only.
FreshThisHour == age <= 1

Fresh == age <= QueueAge

SweepStarts ==
  /\ sweep = "idle" /\ ~swept
  /\ swept' = TRUE
  /\ sweep' = IF ~Quiet(hour) /\ queue # "none" /\ Fresh THEN "look" ELSE "idle"
  /\ UNCHANGED <<inbox, consent, replies, queue, age, touches, hour, crashes, outbound, woken>>

\* Mutated form of Due: morning_sent is not asked for.
DueAgain == lead = "open"

\* Not for a closed lead, and not twice.
Due == lead = "open" /\ queue = "queued"

SweepLooks ==
  /\ sweep = "look"
  /\ sweep' = IF Due THEN "check" ELSE "idle"
  /\ UNCHANGED <<inbox, consent, replies, queue, age, touches, time, outbound, woken>>

\* send_sms: what it suppresses, and what the provider refuses, counts as sent.
SweepChecks ==
  /\ sweep = "check"
  /\ sweep' \in IF optedOut \/ Quiet(hour) THEN {"record"} ELSE {"send", "record"}
  /\ UNCHANGED <<inbox, consent, replies, queue, age, touches, time, outbound, woken>>

SweepSends ==
  /\ sweep = "send"
  /\ sweep' = "record"
  /\ touches' = touches + 1
  /\ woken' = (woken \/ hour \notin QuietEnd..QuietStart - 1)
  /\ UNCHANGED <<inbox, consent, replies, queue, age, time, outbound>>

\* The row and morning_sent.
SweepRecords ==
  /\ sweep = "record"
  /\ sweep' = "idle"
  /\ queue' = "flushed" /\ outbound' = TRUE
  /\ UNCHANGED <<inbox, consent, replies, age, touches, time, woken>>
-----------------------------------------------------------------------------
\* Mutated form of Hour: the clock has no midnight.
HourUnbounded ==
  /\ swept /\ sweep # "send" /\ loop.step # "rep sends"
  /\ hour' = hour + 1
  /\ age' = IF queue = "queued" /\ age <= QueueAge THEN age + 1 ELSE age
  /\ swept' = FALSE
  /\ UNCHANGED <<inbox, consent, replies, queue, sweep, touches, crashes, outbound, woken>>

(***************************************************************************)
(* An hour passes.  The sweep runs four times an hour, and what has passed *)
(* the checks of send_sms is sent within the hour.                         *)
(***************************************************************************)
Hour ==
  /\ swept /\ sweep # "send" /\ loop.step # "rep sends"
  /\ hour' = (hour + 1) % HoursPerDay
  /\ age' = IF queue = "queued" /\ age <= QueueAge THEN age + 1 ELSE age
  /\ swept' = FALSE
  /\ UNCHANGED <<inbox, consent, replies, queue, sweep, touches, crashes, outbound, woken>>

\* The server stops, and starts again within the hour.
Crash ==
  /\ crashes < MaxCrashes
  /\ crashes' = crashes + 1
  /\ tasks' = <<>> /\ loop' = Idle /\ sweep' = "idle"
  /\ swept' = FALSE
  /\ UNCHANGED <<kind, copies, stored, lastWord, consent, done, answers, footers, writes, queue, age,
                 touches, hour, outbound, woken>>

Inbound ==
  \/ LeadArrives \/ MailStop \/ RepWrites
  \/ \E t \in Texts : DeliveredAgain(t) \/ \E k \in Kinds : Delivered(t, k)

LoopStep  == \/ LeadOptsOut \/ LeadOptsIn
             \/ RepStep
             \/ TaskStarts \/ TaskChecks \/ TaskSends \/ TaskFailsToSend \/ TaskRecords
SweepStep == SweepStarts \/ SweepLooks \/ SweepChecks \/ SweepSends \/ SweepRecords

Next == Inbound \/ LoopStep \/ SweepStep \/ Hour \/ Crash

Spec == Init /\ [][Next]_vars

\* The event loop goes on with what it has begun and with its tasks, which a stream of
\* webhooks does not hold up; the scheduler runs the sweep; time passes.
FairSpec == Spec /\ WF_vars(LoopStep) /\ WF_vars(SweepStep) /\ WF_vars(Hour)
-----------------------------------------------------------------------------
(* Properties                                                              *)

(***************************************************************************)
(* A queued first text is sent once, and once more at most for every       *)
(* restart between the text and its record.                                *)
(***************************************************************************)
FirstTouchOnce == touches <= 1 + crashes

(***************************************************************************)
(* Nobody is sent a first text or a rep's during quiet hours, also not by  *)
(* a sweep that began before them.                                         *)
(***************************************************************************)
NobodyWoken == ~woken

(***************************************************************************)
(* A stored text is answered once, however often it is delivered and       *)
(* whenever the server restarts.                                           *)
(***************************************************************************)
AnsweredOnce == \A t \in stored : answers[t] <= 1

(***************************************************************************)
(* The footer goes out once, or once more for every restart between an     *)
(* answer and its row, even if it is the sweep that writes the first row.  *)
(***************************************************************************)
FooterOnce == footers <= 1 + crashes

(***************************************************************************)
(* No answer and no rep's text goes out after a STOP by text, also not to  *)
(* a text that was sent before it: only a STOP by e-mail can overtake one. *)
(***************************************************************************)
NoAnswerAfterStop ==
  [][answers' # answers \/ RepSends => ~optedOut \/ mailStops > 0]_vars

(***************************************************************************)
(* Every stored text is answered, or its answer suppressed or refused,     *)
(* unless the server restarts.                                             *)
(***************************************************************************)
StoredIsAnswered == \A t \in Texts : t \in stored ~> t \in done \/ crashes > 0

(***************************************************************************)
(* A first text that waits for the morning is not stranded: it is flushed  *)
(* before it is too old, unless the customer opts out.                     *)
(***************************************************************************)
QueueIsFlushed == queue = "queued" /\ age = 0 ~> queue = "flushed" \/ lead = "out"
-----------------------------------------------------------------------------
(* Claims of the code's comments that its behaviour contradicts            *)

(***************************************************************************)
(* "Idempotency: short-circuit on duplicate webhook" (main.py:592).        *)
(* Keywords leave no row, so that a START delivered again undoes a STOP    *)
(* sent after it.                                                          *)
(***************************************************************************)
LastKeywordCounts == lastWord = "stop" => optedOut
=============================================================================
