--------------------------- MODULE MessagingProofs ---------------------------
(***************************************************************************)
(* What holds of the texts for any number of them, any clock whose quiet   *)
(* hours wrap around midnight, and any number of texts delivered again,    *)
(* opt-outs by e-mail, texts by the rep and restarts.                      *)
(***************************************************************************)
EXTENDS Messaging, TLAPS, SequenceTheorems

(***************************************************************************)
(* The inductive invariant.  Each part says what one of the properties     *)
(* needs to know of steps that are under way.                              *)
(***************************************************************************)

\* Before there is a lead there is nothing for anybody to send.
NothingYet ==
  lead = "none" => /\ queue = "none" /\ touches = 0 /\ sweep = "idle"
                   /\ tasks = <<>> /\ loop.step \notin {"check", "send", "row"} /\ footers = 0

\* A queued first text went out once for every restart, and once more if it is about to
\* be recorded; what the sweep is at is queued.
QueuedCounted ==
  /\ queue = "none" => touches = 0
  /\ queue = "queued" => touches <= crashes + (IF sweep = "record" THEN 1 ELSE 0)
  /\ touches <= 1 + crashes
  /\ sweep \in {"check", "send", "record"} => queue = "queued"

\* What is about to be sent passed its check within this hour.
AwakeNow ==
  /\ ~woken
  /\ sweep = "send" \/ loop.step = "rep sends" => ~Quiet(hour)

\* Tasks are for stored texts, no two for the same, none for one that was answered.
TasksAreNew ==
  /\ \A t \in Texts \ stored : answers[t] = 0
  /\ \A i \in DOMAIN tasks : tasks[i] \in stored /\ answers[tasks[i]] = 0
  /\ \A i, j \in DOMAIN tasks : tasks[i] = tasks[j] => i = j
  /\ loop.step \in {"check", "send", "row"} => loop.text \in stored
  /\ loop.step \in {"check", "send"} =>
       answers[loop.text] = 0 /\ \A i \in DOMAIN tasks : tasks[i] # loop.text

\* A footer went out without a row only if its row comes next or a restart lost it.
FootersCounted ==
  /\ footers <= 1 + crashes
  /\ ~outbound /\ loop.step # "row" => footers <= crashes
  /\ loop.step \in {"check", "send"} /\ loop.footer => footers <= crashes

\* What the event loop is about to send was not stopped by a text since its check.
CheckHolds ==
  loop.step \in {"send", "rep sends"} => ~optedOut \/ mailStops > 0

IInv == /\ TypeOK /\ NothingYet /\ QueuedCounted /\ AwakeNow
        /\ TasksAreNew /\ AnsweredOnce /\ FootersCounted /\ CheckHolds
-----------------------------------------------------------------------------
(* Steps that leave the tasks and the answers alone                        *)

\* The parts of the invariant but for the types.
Parts == /\ NothingYet /\ QueuedCounted /\ AwakeNow
         /\ TasksAreNew /\ AnsweredOnce /\ FootersCounted /\ CheckHolds

\* A day's hours that are not quiet.
LEMMA NotQuiet ==
  ASSUME TypeOK
  PROVE  ~Quiet(hour) <=> hour \in QuietEnd..QuietStart - 1
BY HoursAssumption DEF TypeOK, Quiet

\* A lead comes in, awake or queued.
LEMMA LeadArrivesKeeps ==
  ASSUME IInv, LeadArrives
  PROVE  IInv'
<1>1. TypeOK'
  BY DEF IInv, TypeOK, LeadArrives, QueueMorningFollowup, inbox, replies, time
<1>2. ~woken'
  BY NotQuiet DEF IInv, AwakeNow, LeadArrives, AfterHours
<1>3. lead = "none" /\ lead' = "open" /\ queue' \in {"none", "queued"} /\ LoopFree
  BY DEF IInv, NothingYet, LeadArrives, QueueMorningFollowup
<1>4. UNCHANGED <<inbox, optedOut, mailStops, replies, age, sweep, touches, time>>
  BY DEF LeadArrives
<1>5. Parts'
  BY <1>2, <1>3, <1>4
     DEF IInv, TypeOK, Parts, NothingYet, QueuedCounted, AwakeNow, TasksAreNew, AnsweredOnce,
         FootersCounted, CheckHolds, LoopFree, Idle, inbox, replies, time
<1>6. QED
  BY <1>1, <1>5 DEF IInv, Parts

\* An opt-out by e-mail is counted.
LEMMA MailStopKeeps ==
  ASSUME IInv, MailStop
  PROVE  IInv'
<1>1. mailStops' \in 0..MaxMailStops /\ mailStops' > 0
  BY BoundAssumption DEF IInv, TypeOK, MailStop
<1>2. /\ lead' = "out" /\ optedOut' \in BOOLEAN
      /\ UNCHANGED <<inbox, replies, morning, time, outbound, woken>>
  BY DEF MailStop
<1>3. TypeOK'
  BY <1>1, <1>2 DEF IInv, TypeOK, inbox, replies, morning, time
<1>4. Parts'
  BY <1>1, <1>2
     DEF IInv, Parts, NothingYet, QueuedCounted, AwakeNow, TasksAreNew, AnsweredOnce,
         FootersCounted, CheckHolds, inbox, replies, morning, time
<1>5. QED
  BY <1>3, <1>4 DEF IInv, Parts

\* A rep's text is checked when it is written.
LEMMA RepWritesKeeps ==
  ASSUME IInv, RepWrites
  PROVE  IInv'
<1>1. writes' \in 0..MaxWrites
  <2>1. writes \in 0..MaxWrites
    BY DEF IInv, TypeOK
  <2>2. writes < MaxWrites /\ writes' = writes + 1
    BY DEF RepWrites
  <2>3. QED
    BY <2>1, <2>2, BoundAssumption
<1>2. /\ loop' = [Idle EXCEPT !.step = IF optedOut \/ Quiet(hour) THEN "rep row" ELSE "rep sends"]
      /\ UNCHANGED <<inbox, consent, done, answers, footers, morning, time, outbound, woken>>
  BY DEF RepWrites
<1>3. /\ loop' \in [step : Steps, text : Texts \cup {NoText}, footer : BOOLEAN]
      /\ loop'.step \in {"rep row", "rep sends"}
      /\ loop'.step = "rep sends" => ~optedOut /\ ~Quiet(hour)
  <2>1. CASE optedOut \/ Quiet(hour)
    BY <1>2, <2>1 DEF Idle, Steps
  <2>2. CASE ~(optedOut \/ Quiet(hour))
    BY <1>2, <2>2 DEF Idle, Steps
  <2>3. QED
    BY <2>1, <2>2
<1>4. TypeOK'
  BY <1>1, <1>2, <1>3 DEF IInv, TypeOK, inbox, consent, morning, time
<1>5. LoopFree
  BY DEF RepWrites
<1>6. Parts'
  BY <1>2, <1>3, <1>5
     DEF IInv, Parts, NothingYet, QueuedCounted, AwakeNow, TasksAreNew, AnsweredOnce,
         FootersCounted, CheckHolds, LoopFree, Idle, inbox, consent, morning, time
<1>7. QED
  BY <1>4, <1>6 DEF IInv, Parts

\* It goes out while it is not quiet, and then the row.
LEMMA RepStepKeeps ==
  ASSUME IInv, RepStep
  PROVE  IInv'
<1>1. CASE RepSends
  <2>1. woken' = FALSE
    BY <1>1, NotQuiet DEF IInv, TypeOK, AwakeNow, RepSends
  <2>2. /\ loop' \in [step : Steps, text : Texts \cup {NoText}, footer : BOOLEAN]
        /\ loop'.step \in {"rep row", "idle"}
    <3>1. loop \in [step : Steps, text : Texts \cup {NoText}, footer : BOOLEAN]
      BY DEF IInv, TypeOK
    <3>2. loop' = [loop EXCEPT !.step = "rep row"] \/ loop' = Idle
      BY <1>1 DEF RepSends
    <3>3. CASE loop' = [loop EXCEPT !.step = "rep row"]
      BY <3>1, <3>3 DEF Steps
    <3>4. CASE loop' = Idle
      BY <3>4 DEF Steps, Idle
    <3>5. QED
      BY <3>2, <3>3, <3>4
  <2>3. UNCHANGED <<inbox, consent, done, answers, footers, writes, morning, time, outbound>>
    BY <1>1 DEF RepSends
  <2>4. TypeOK'
    BY <2>1, <2>2, <2>3 DEF IInv, TypeOK, inbox, consent, morning, time
  <2>5. loop.step = "rep sends"
    BY <1>1 DEF RepSends
  <2>6. Parts'
    BY <2>1, <2>2, <2>3, <2>5
       DEF IInv, Parts, NothingYet, QueuedCounted, AwakeNow, TasksAreNew, AnsweredOnce,
           FootersCounted, CheckHolds, inbox, consent, morning, time
  <2>7. QED
    BY <2>4, <2>6 DEF IInv, Parts
<1>2. CASE RepRecords
  BY <1>2
     DEF IInv, TypeOK, NothingYet, QueuedCounted, AwakeNow, TasksAreNew, AnsweredOnce,
         FootersCounted, CheckHolds, RepRecords, Idle, Steps, inbox, consent, morning, time
<1>3. QED
  BY <1>1, <1>2 DEF RepStep

\* The lead follows the customer's keyword.
LEMMA LeadFollowsKeeps ==
  ASSUME IInv, LeadOptsOut \/ LeadOptsIn
  PROVE  IInv'
<1>1. /\ loop' = Idle /\ lead' \in {"none", "open", "out"} /\ (lead' = "none" => lead = "none")
      /\ UNCHANGED <<inbox, optedOut, mailStops, done, answers, footers, writes, morning, time,
                     outbound, woken>>
  BY DEF IInv, TypeOK, LeadOptsOut, LeadOptsIn
<1>2. loop.step \in {"out", "in"}
  BY DEF LeadOptsOut, LeadOptsIn
<1>3. TypeOK'
  BY <1>1 DEF IInv, TypeOK, Idle, Steps, inbox, morning, time
<1>4. Parts'
  BY <1>1, <1>2
     DEF IInv, Parts, NothingYet, QueuedCounted, AwakeNow, TasksAreNew, AnsweredOnce,
         FootersCounted, CheckHolds, Idle, inbox, morning, time
<1>5. QED
  BY <1>3, <1>4 DEF IInv, Parts
-----------------------------------------------------------------------------
(* The SMS webhook                                                         *)

(***************************************************************************)
(* A text is stored once, and its task comes after those of other texts.   *)
(***************************************************************************)
LEMMA AppendTask ==
  ASSUME TypeOK, TasksAreNew, NEW t \in Texts, t \notin stored, UNCHANGED <<loop, answers>>,
         stored' = stored \cup {t}, tasks' = Append(tasks, t), LoopFree
  PROVE  TasksAreNew' /\ tasks' \in Seq(Texts)
<1>1. tasks \in Seq(Texts)
  BY DEF TypeOK
<1>2. /\ tasks' \in Seq(Texts) /\ DOMAIN tasks = 1..Len(tasks)
      /\ DOMAIN tasks' = 1..(Len(tasks) + 1) /\ Len(tasks) \in Nat
      /\ \A i \in DOMAIN tasks : tasks'[i] = tasks[i]
      /\ tasks'[Len(tasks) + 1] = t
  BY <1>1, AppendProperties
<1>3. \A i \in DOMAIN tasks' : i \in DOMAIN tasks \/ i = Len(tasks) + 1
  BY <1>2
<1>4. \A i \in DOMAIN tasks : tasks[i] # t
  BY DEF TasksAreNew
<1>5. answers[t] = 0
  BY DEF TasksAreNew
<1>6. \A i \in DOMAIN tasks' : tasks'[i] \in stored' /\ answers'[tasks'[i]] = 0
  BY <1>2, <1>3, <1>5 DEF TasksAreNew
<1>7. \A i, j \in DOMAIN tasks' : tasks'[i] = tasks'[j] => i = j
  BY <1>2, <1>3, <1>4 DEF TasksAreNew
<1>8. QED
  BY <1>2, <1>6, <1>7 DEF TasksAreNew, LoopFree, Idle

(***************************************************************************)
(* Whatever comes in, for the first time or again.                         *)
(***************************************************************************)
LEMMA ReceiveKeeps ==
  ASSUME IInv, NEW t \in Texts, Receive(t),
         kind' \in [Texts -> Kinds \cup {"none"}], copies' \in 0..MaxCopies,
         lastWord' \in {"none", "stop", "start"}
  PROVE  IInv'
<1>1. /\ LoopFree
      /\ UNCHANGED <<done, answers, footers, writes, age, sweep, touches, time, woken>>
  BY DEF Receive
<1>2. loop.step = "idle"
  BY <1>1 DEF LoopFree, Idle
<1>3. CASE Duplicate(t)
  <2>1. UNCHANGED <<stored, tasks, consent, loop, queue, outbound>>
    BY <1>3 DEF Receive
  <2>2. TypeOK'
    BY <1>1, <2>1 DEF IInv, TypeOK, consent, time
  <2>3. Parts'
    BY <1>1, <2>1
       DEF IInv, Parts, NothingYet, QueuedCounted, AwakeNow, TasksAreNew, AnsweredOnce,
           FootersCounted, CheckHolds, consent, time
  <2>4. QED
    BY <2>2, <2>3 DEF IInv, Parts
<1>4. CASE ~Duplicate(t) /\ Converse(t)
  <2>1. /\ t \notin stored /\ lead = "open" /\ stored' = stored \cup {t} /\ tasks' = Append(tasks, t)
        /\ UNCHANGED <<consent, queue, outbound, loop>>
    BY <1>4 DEF Duplicate, Converse
  <2>2. TasksAreNew' /\ tasks' \in Seq(Texts)
    BY <1>1, <2>1, AppendTask DEF IInv
  <2>3. TypeOK'
    BY <1>1, <2>1, <2>2 DEF IInv, TypeOK, consent, time
  <2>4. AnsweredOnce'
    BY <1>1, <2>1 DEF IInv, AnsweredOnce, TasksAreNew
  <2>5. NothingYet' /\ QueuedCounted' /\ AwakeNow' /\ FootersCounted' /\ CheckHolds'
    BY <1>1, <2>1
       DEF IInv, NothingYet, QueuedCounted, AwakeNow, FootersCounted, CheckHolds, consent, time
  <2>6. QED
    BY <2>2, <2>3, <2>4, <2>5 DEF IInv
<1>5. CASE FromStranger(t)
  <2>1. /\ lead' \in {"open", lead} /\ lead' # "none"
        /\ \/ lead = "none" /\ queue' \in {"none", "queued"} /\ outbound' \in BOOLEAN
           \/ lead # "none" /\ UNCHANGED <<queue, outbound>>
        /\ UNCHANGED <<stored, tasks, optedOut, mailStops, loop>>
    BY <1>5 DEF IInv, NothingYet, FromStranger, QueueMorningFollowup, AfterHours
  <2>2. TypeOK'
    BY <1>1, <2>1 DEF IInv, TypeOK, time
  <2>3. crashes \in Nat
    BY BoundAssumption DEF IInv, TypeOK
  <2>4. NothingYet' /\ AwakeNow' /\ TasksAreNew' /\ AnsweredOnce' /\ CheckHolds'
    BY <1>1, <2>1
       DEF IInv, NothingYet, AwakeNow, TasksAreNew, AnsweredOnce, CheckHolds, time
  <2>5. QueuedCounted' /\ FootersCounted'
    <3>1. CASE lead = "none"
      BY <1>1, <2>1, <2>3, <3>1 DEF IInv, NothingYet, QueuedCounted, FootersCounted, time
    <3>2. CASE lead # "none"
      BY <1>1, <2>1, <3>2 DEF IInv, QueuedCounted, FootersCounted, time
    <3>3. QED
      BY <3>1, <3>2
  <2>6. QED
    BY <2>2, <2>4, <2>5 DEF IInv
<1>6. CASE Keyword(t)
  <2>1. /\ optedOut' \in BOOLEAN
        /\ loop' \in {loop, [Idle EXCEPT !.step = "out"], [Idle EXCEPT !.step = "in"]}
        /\ UNCHANGED <<stored, tasks, lead, mailStops, queue, outbound>>
    BY <1>6 DEF Keyword
  <2>2. /\ loop' \in [step : Steps, text : Texts \cup {NoText}, footer : BOOLEAN]
        /\ loop'.step \in {"idle", "out", "in"}
    <3>1. Idle \in [step : Steps, text : Texts \cup {NoText}, footer : BOOLEAN]
      BY DEF Idle, Steps
    <3>2. loop \in [step : Steps, text : Texts \cup {NoText}, footer : BOOLEAN]
      BY DEF IInv, TypeOK
    <3>3. CASE loop' = loop
      BY <1>2, <3>2, <3>3
    <3>4. CASE loop' = [Idle EXCEPT !.step = "out"]
      BY <3>1, <3>4 DEF Steps
    <3>5. CASE loop' = [Idle EXCEPT !.step = "in"]
      BY <3>1, <3>5 DEF Steps
    <3>6. QED
      BY <2>1, <3>3, <3>4, <3>5
  <2>3. TypeOK'
    BY <1>1, <2>1, <2>2 DEF IInv, TypeOK, time
  <2>4. Parts'
    BY <1>1, <1>2, <2>1, <2>2
       DEF IInv, Parts, NothingYet, QueuedCounted, AwakeNow, TasksAreNew, AnsweredOnce,
           FootersCounted, CheckHolds, time
  <2>5. QED
    BY <2>3, <2>4 DEF IInv, Parts
<1>7. QED
  BY <1>3, <1>4, <1>5, <1>6 DEF Receive

\* Delivered, or delivered again.
LEMMA DeliveryKeeps ==
  ASSUME IInv, NEW t \in Texts, DeliveredAgain(t) \/ \E k \in Kinds : Delivered(t, k)
  PROVE  IInv'
<1>1. /\ kind \in [Texts -> Kinds \cup {"none"}] /\ copies \in 0..MaxCopies
      /\ lastWord \in {"none", "stop", "start"}
  BY DEF IInv, TypeOK
<1>2. CASE DeliveredAgain(t)
  <2>1. copies' \in 0..MaxCopies
    BY <1>1, <1>2, BoundAssumption DEF DeliveredAgain
  <2>2. QED
    BY <1>1, <1>2, <2>1, ReceiveKeeps DEF DeliveredAgain
<1>3. ASSUME NEW k \in Kinds, Delivered(t, k)
      PROVE  IInv'
  <2>1. kind' \in [Texts -> Kinds \cup {"none"}] /\ lastWord' \in {"none", "stop", "start"}
    BY <1>1, <1>3 DEF Delivered, Kinds
  <2>2. QED
    BY <1>1, <1>3, <2>1, ReceiveKeeps DEF Delivered
<1>4. QED
  BY <1>2, <1>3
-----------------------------------------------------------------------------
(* The background task                                                     *)

(***************************************************************************)
(* The task that starts is for a stored text that was not answered, and    *)
(* none of those that are left is for it.                                  *)
(***************************************************************************)
LEMMA TaskStartsKeeps ==
  ASSUME IInv, TaskStarts
  PROVE  IInv'
<1>1. /\ tasks \in Seq(Texts) /\ tasks # <<>> /\ LoopFree
      /\ loop' = [step |-> "check", text |-> Head(tasks), footer |-> ~outbound]
      /\ tasks' = Tail(tasks)
  BY DEF IInv, TypeOK, TaskStarts
<1>2. UNCHANGED <<kind, copies, stored, lastWord, consent, done, answers, footers, writes, morning,
                  time, outbound, woken>>
  BY DEF TaskStarts
<1>3. /\ Head(tasks) = tasks[1] /\ Len(tasks) \in Nat /\ Len(tasks) > 0
      /\ DOMAIN tasks = 1..Len(tasks) /\ Head(tasks) \in Texts
      /\ tasks' \in Seq(Texts) /\ Len(tasks') = Len(tasks) - 1 /\ DOMAIN tasks' = 1..Len(tasks')
      /\ \A i \in DOMAIN tasks' : tasks'[i] = tasks[i + 1]
  BY <1>1, EmptySeq, HeadTailProperties, LenProperties
<1>4. 1 \in DOMAIN tasks /\ \A i \in DOMAIN tasks' : i + 1 \in DOMAIN tasks /\ i + 1 # 1 /\ i \in Nat
  BY <1>3
<1>5. /\ loop'.step = "check" /\ loop'.text = tasks[1] /\ loop'.footer = ~outbound
      /\ outbound \in BOOLEAN
  BY <1>1, <1>3 DEF IInv, TypeOK
<1>6. TypeOK'
  <2>1. loop' \in [step : Steps, text : Texts \cup {NoText}, footer : BOOLEAN]
    BY <1>1, <1>3, <1>5 DEF Steps
  <2>2. QED
    BY <1>2, <1>3, <2>1 DEF IInv, TypeOK, consent, morning, time
<1>7. TasksAreNew'
  <2>1. UNCHANGED <<stored, answers>>
    BY <1>2
  <2>2. \A i, j \in DOMAIN tasks' : tasks'[i] = tasks'[j] => i = j
    <3>1. SUFFICES ASSUME NEW i \in DOMAIN tasks', NEW j \in DOMAIN tasks', tasks'[i] = tasks'[j]
                   PROVE  i = j
      OBVIOUS
    <3>2. tasks[i + 1] = tasks[j + 1] /\ i + 1 \in DOMAIN tasks /\ j + 1 \in DOMAIN tasks
      BY <1>3, <1>4, <3>1
    <3>3. i + 1 = j + 1
      BY <3>2 DEF IInv, TasksAreNew
    <3>4. QED
      BY <1>4, <3>3
  <2>3. \A i \in DOMAIN tasks' : tasks'[i] \in stored' /\ answers'[tasks'[i]] = 0
    BY <1>3, <1>4, <2>1 DEF IInv, TasksAreNew
  <2>4. /\ loop'.text \in stored' /\ answers'[loop'.text] = 0
        /\ \A i \in DOMAIN tasks' : tasks'[i] # loop'.text
    BY <1>3, <1>4, <1>5, <2>1 DEF IInv, TasksAreNew
  <2>5. QED
    BY <2>1, <2>2, <2>3, <2>4 DEF IInv, TasksAreNew
<1>8. NothingYet' /\ QueuedCounted' /\ AwakeNow' /\ AnsweredOnce' /\ CheckHolds'
  BY <1>1, <1>2, <1>5
     DEF IInv, NothingYet, QueuedCounted, AwakeNow, AnsweredOnce, CheckHolds, consent, morning, time
<1>9. FootersCounted'
  BY <1>1, <1>2, <1>5 DEF IInv, FootersCounted, LoopFree, Idle, time
<1>10. QED
  BY <1>6, <1>7, <1>8, <1>9 DEF IInv

\* A task that passes the check sends to somebody who is not opted out.
LEMMA TaskChecksKeeps ==
  ASSUME IInv, TaskChecks
  PROVE  IInv'
<1>1. /\ loop.step = "check"
      /\ loop' = [loop EXCEPT !.step = IF optedOut THEN "row" ELSE "send"]
      /\ UNCHANGED <<inbox, consent, done, answers, footers, writes, morning, time, outbound, woken>>
  BY DEF TaskChecks
<1>2. loop \in [step : Steps, text : Texts \cup {NoText}, footer : BOOLEAN]
  BY DEF IInv, TypeOK
<1>3. /\ loop'.step \in {"send", "row"} /\ (loop'.step = "send" => ~optedOut)
      /\ loop'.text = loop.text /\ loop'.footer = loop.footer
  BY <1>1, <1>2
<1>4. loop' \in [step : Steps, text : Texts \cup {NoText}, footer : BOOLEAN]
  BY <1>1, <1>2 DEF Steps
<1>5. TypeOK'
  BY <1>1, <1>4 DEF IInv, TypeOK, inbox, consent, morning, time
<1>6. Parts'
  BY <1>1, <1>3
     DEF IInv, Parts, NothingYet, QueuedCounted, AwakeNow, TasksAreNew, AnsweredOnce,
         FootersCounted, CheckHolds, inbox, consent, morning, time
<1>7. QED
  BY <1>5, <1>6 DEF IInv, Parts

\* The first answer to a stored text, and the only one.
LEMMA TaskSendsKeeps ==
  ASSUME IInv, TaskSends
  PROVE  IInv'
<1>1. /\ loop.step = "send" /\ loop' = [loop EXCEPT !.step = "row"]
      /\ answers' = [answers EXCEPT ![loop.text] = @ + 1]
      /\ footers' = IF loop.footer THEN footers + 1 ELSE footers
      /\ UNCHANGED <<inbox, consent, done, writes, morning, time, outbound, woken>>
  BY DEF TaskSends
<1>2. /\ loop \in [step : Steps, text : Texts \cup {NoText}, footer : BOOLEAN]
      /\ answers \in [Texts -> Nat] /\ footers \in Nat /\ crashes \in Nat /\ stored \subseteq Texts
  BY BoundAssumption DEF IInv, TypeOK
<1>3. loop'.step = "row" /\ loop'.text = loop.text /\ loop'.footer = loop.footer
  BY <1>1, <1>2
<1>4. /\ loop.text \in stored /\ answers[loop.text] = 0
      /\ \A i \in DOMAIN tasks : tasks[i] # loop.text
  BY <1>1 DEF IInv, TasksAreNew
<1>5. /\ answers' \in [Texts -> Nat] /\ answers'[loop.text] = 1
      /\ \A t \in Texts \ {loop.text} : answers'[t] = answers[t]
  BY <1>1, <1>2, <1>4
<1>6. TypeOK'
  <2>1. loop' \in [step : Steps, text : Texts \cup {NoText}, footer : BOOLEAN]
    BY <1>1, <1>2 DEF Steps
  <2>2. footers' \in Nat
    BY <1>1, <1>2
  <2>3. QED
    BY <1>1, <1>5, <2>1, <2>2 DEF IInv, TypeOK, inbox, consent, morning, time
<1>7. TasksAreNew'
  <2>1. UNCHANGED <<stored, tasks>>
    BY <1>1 DEF inbox
  <2>2. QED
    BY <1>2, <1>3, <1>4, <1>5, <2>1 DEF IInv, TasksAreNew
<1>8. AnsweredOnce'
  BY <1>1, <1>2, <1>5 DEF IInv, AnsweredOnce, inbox
<1>9. FootersCounted'
  <2>1. CASE loop.footer
    BY <1>1, <1>2, <1>3, <2>1 DEF IInv, FootersCounted, time
  <2>2. CASE ~loop.footer
    BY <1>1, <1>2, <1>3, <2>2 DEF IInv, FootersCounted, time
  <2>3. QED
    BY <2>1, <2>2
<1>10. NothingYet' /\ QueuedCounted' /\ AwakeNow' /\ CheckHolds'
  BY <1>1, <1>3
     DEF IInv, NothingYet, QueuedCounted, AwakeNow, CheckHolds, inbox, consent, morning, time
<1>11. QED
  BY <1>6, <1>7, <1>8, <1>9, <1>10 DEF IInv

\* A task ends, with a row or with none.
LEMMA TaskEndsKeeps ==
  ASSUME IInv, TaskFailsToSend \/ TaskRecords
  PROVE  IInv'
<1>1. /\ loop.step \in {"send", "row"} /\ loop' = Idle /\ done' = done \cup {loop.text}
      /\ outbound' = TRUE \/ (loop.step = "send" /\ outbound' = outbound)
      /\ UNCHANGED <<inbox, consent, answers, footers, writes, morning, time, woken>>
  <2>1. CASE TaskFailsToSend
    BY <2>1 DEF TaskFailsToSend
  <2>2. CASE TaskRecords
    BY <2>2 DEF TaskRecords
  <2>3. QED
    BY <2>1, <2>2
<1>2. loop.text \in stored
  BY <1>1 DEF IInv, TasksAreNew
<1>3. TypeOK'
  <2>1. outbound \in BOOLEAN /\ done \subseteq stored
    BY DEF IInv, TypeOK
  <2>2. outbound' \in BOOLEAN /\ done' \subseteq stored /\ stored' = stored
    BY <1>1, <1>2, <2>1 DEF inbox
  <2>3. loop' \in [step : Steps, text : Texts \cup {NoText}, footer : BOOLEAN]
    BY <1>1 DEF Idle, Steps
  <2>4. QED
    BY <1>1, <2>2, <2>3 DEF IInv, TypeOK, inbox, consent, morning, time
<1>4. FootersCounted'
  <2>1. UNCHANGED <<footers, crashes>> /\ loop'.step = "idle"
    BY <1>1 DEF time, Idle
  <2>2. outbound' = TRUE \/ (outbound' = outbound /\ loop.step # "row")
    BY <1>1
  <2>3. QED
    BY <2>1, <2>2 DEF IInv, FootersCounted
<1>5. NothingYet' /\ QueuedCounted' /\ AwakeNow' /\ TasksAreNew' /\ AnsweredOnce' /\ CheckHolds'
  BY <1>1
     DEF IInv, NothingYet, QueuedCounted, AwakeNow, TasksAreNew, AnsweredOnce, CheckHolds,
         Idle, inbox, consent, morning, time
<1>6. QED
  BY <1>3, <1>4, <1>5 DEF IInv
-----------------------------------------------------------------------------
(* The morning sweep, the clock and the restarts                           *)

\* Every step of the sweep leaves the event loop, the texts and the log alone.
LEMMA SweepKeeps ==
  ASSUME IInv, SweepStep
  PROVE  IInv'
<1>1. UNCHANGED <<inbox, consent, replies, age, hour, crashes>>
  BY DEF SweepStep, SweepStarts, SweepLooks, SweepChecks, SweepSends, SweepRecords, morning, time
<1>2. crashes \in Nat /\ touches \in Nat
  BY BoundAssumption DEF IInv, TypeOK
<1>3. CASE SweepStarts
  <2>1. /\ sweep' \in {"idle", "look"} /\ sweep = "idle" /\ (sweep' = "look" => queue # "none")
        /\ swept' = TRUE /\ UNCHANGED <<queue, touches, outbound, woken>>
    BY <1>3 DEF SweepStarts
  <2>2. TypeOK'
    BY <1>1, <2>1 DEF IInv, TypeOK, inbox, consent, replies
  <2>3. Parts'
    BY <1>1, <2>1
       DEF IInv, Parts, NothingYet, QueuedCounted, AwakeNow, TasksAreNew, AnsweredOnce,
           FootersCounted, CheckHolds, inbox, consent, replies
  <2>4. QED
    BY <2>2, <2>3 DEF IInv, Parts
<1>4. CASE SweepLooks \/ SweepChecks
  <2>1. /\ sweep \in {"look", "check"} /\ sweep' \in {"idle", "check", "send", "record"}
        /\ sweep' = "send" => ~Quiet(hour)
        /\ sweep' # "idle" => queue = "queued" \/ sweep = "check"
        /\ UNCHANGED <<queue, touches, swept, outbound, woken>>
    BY <1>4 DEF SweepLooks, SweepChecks, Due, time
  <2>2. TypeOK'
    BY <1>1, <2>1 DEF IInv, TypeOK, inbox, consent, replies
  <2>3. QueuedCounted'
    BY <1>1, <1>2, <2>1 DEF IInv, QueuedCounted
  <2>4. NothingYet' /\ AwakeNow' /\ TasksAreNew' /\ AnsweredOnce' /\ FootersCounted' /\ CheckHolds'
    BY <1>1, <2>1
       DEF IInv, NothingYet, AwakeNow, TasksAreNew, AnsweredOnce, FootersCounted, CheckHolds,
           inbox, consent, replies
  <2>5. QED
    BY <2>2, <2>3, <2>4 DEF IInv
<1>5. CASE SweepSends
  <2>1. /\ sweep = "send" /\ sweep' = "record" /\ touches' = touches + 1
        /\ UNCHANGED <<queue, swept, outbound>>
    BY <1>5 DEF SweepSends, time
  <2>2. woken' = FALSE
    BY <1>5, <2>1, NotQuiet DEF IInv, TypeOK, AwakeNow, SweepSends
  <2>3. TypeOK'
    <3>1. touches' \in Nat
      BY <1>2, <2>1
    <3>2. QED
      BY <1>1, <2>1, <2>2, <3>1 DEF IInv, TypeOK, inbox, consent, replies
  <2>4. QueuedCounted'
    BY <1>1, <1>2, <2>1 DEF IInv, QueuedCounted
  <2>5. NothingYet' /\ AwakeNow' /\ TasksAreNew' /\ AnsweredOnce' /\ FootersCounted' /\ CheckHolds'
    BY <1>1, <2>1, <2>2
       DEF IInv, NothingYet, QueuedCounted, AwakeNow, TasksAreNew, AnsweredOnce,
           FootersCounted, CheckHolds, inbox, consent, replies
  <2>6. QED
    BY <2>3, <2>4, <2>5 DEF IInv
<1>6. CASE SweepRecords
  <2>1. /\ sweep = "record" /\ sweep' = "idle" /\ queue' = "flushed" /\ outbound' = TRUE
        /\ UNCHANGED <<touches, swept, woken>>
    BY <1>6 DEF SweepRecords, time
  <2>2. TypeOK'
    BY <1>1, <2>1 DEF IInv, TypeOK, inbox, consent, replies
  <2>3. Parts'
    BY <1>1, <2>1
       DEF IInv, Parts, NothingYet, QueuedCounted, AwakeNow, TasksAreNew, AnsweredOnce,
           FootersCounted, CheckHolds, inbox, consent, replies
  <2>4. QED
    BY <2>2, <2>3 DEF IInv, Parts
<1>7. QED
  BY <1>3, <1>4, <1>5, <1>6 DEF SweepStep

\* An hour passes while nothing that was checked is about to be sent.
LEMMA HourKeeps ==
  ASSUME IInv, Hour
  PROVE  IInv'
<1>1. /\ hour' = (hour + 1) % HoursPerDay
      /\ age' = IF queue = "queued" /\ age <= QueueAge THEN age + 1 ELSE age
      /\ swept' = FALSE /\ sweep # "send" /\ loop.step # "rep sends"
      /\ UNCHANGED <<inbox, consent, replies, queue, sweep, touches, crashes, outbound, woken>>
  BY DEF Hour
<1>2. hour \in 0..HoursPerDay - 1 /\ age \in 0..QueueAge + 1
  BY DEF IInv, TypeOK
<1>3. hour' \in 0..HoursPerDay - 1
  <2>1. HoursPerDay \in Nat /\ HoursPerDay > 0 /\ hour + 1 \in Nat
    BY <1>2, HoursAssumption
  <2>2. (hour + 1) % HoursPerDay \in 0..(HoursPerDay - 1)
    BY <2>1
  <2>3. QED
    BY <1>1, <2>2
<1>4. age' \in 0..QueueAge + 1
  <2>1. QueueAge \in Nat
    BY HoursAssumption
  <2>2. (age' = age + 1 /\ age <= QueueAge) \/ age' = age
    BY <1>1
  <2>3. QED
    BY <1>2, <2>1, <2>2
<1>5. TypeOK'
  BY <1>1, <1>3, <1>4 DEF IInv, TypeOK, inbox, consent, replies
<1>6. Parts'
  BY <1>1
     DEF IInv, Parts, NothingYet, QueuedCounted, AwakeNow, TasksAreNew, AnsweredOnce,
         FootersCounted, CheckHolds, inbox, consent, replies
<1>7. QED
  BY <1>5, <1>6 DEF IInv, Parts

\* A restart forgets the tasks and lets one more text go out.
LEMMA CrashKeeps ==
  ASSUME IInv, Crash
  PROVE  IInv'
<1>1. /\ crashes < MaxCrashes /\ crashes' = crashes + 1
      /\ tasks' = <<>> /\ loop' = Idle /\ sweep' = "idle" /\ swept' = FALSE
      /\ UNCHANGED <<kind, copies, stored, lastWord, consent, done, answers, footers, writes, queue,
                     age, touches, hour, outbound, woken>>
  BY DEF Crash
<1>2. crashes \in 0..MaxCrashes /\ touches \in Nat /\ footers \in Nat
  BY DEF IInv, TypeOK
<1>3. crashes' \in 0..MaxCrashes
  BY <1>1, <1>2, BoundAssumption
<1>4. /\ tasks' \in Seq(Texts) /\ DOMAIN tasks' = {}
      /\ loop' \in [step : Steps, text : Texts \cup {NoText}, footer : BOOLEAN]
      /\ loop'.step = "idle"
  BY <1>1 DEF Idle, Steps
<1>5. TypeOK'
  BY <1>1, <1>3, <1>4 DEF IInv, TypeOK, consent
<1>6. QueuedCounted' /\ FootersCounted'
  BY <1>1, <1>2, <1>4, BoundAssumption DEF IInv, QueuedCounted, FootersCounted
<1>7. NothingYet' /\ AwakeNow' /\ AnsweredOnce' /\ CheckHolds' /\ TasksAreNew'
  BY <1>1, <1>4 DEF IInv, NothingYet, AwakeNow, AnsweredOnce, CheckHolds, TasksAreNew, consent
<1>8. QED
  BY <1>5, <1>6, <1>7 DEF IInv
-----------------------------------------------------------------------------
(* The theorems                                                            *)

\* Before anything has happened.
LEMMA InitHolds ==
  ASSUME Init
  PROVE  IInv
<1>1. TypeOK
  <2>1. /\ 0 \in 0..MaxWrites /\ 0 \in 0..MaxCopies /\ 0 \in 0..MaxCrashes /\ 0 \in 0..MaxMailStops
        /\ 0 \in 0..QueueAge + 1
    BY HoursAssumption, BoundAssumption
  <2>2. kind \in [Texts -> Kinds \cup {"none"}] /\ answers \in [Texts -> Nat]
    BY DEF Init
  <2>3. loop \in [step : Steps, text : Texts \cup {NoText}, footer : BOOLEAN]
    BY DEF Init, Idle, Steps
  <2>4. optedOut = FALSE /\ outbound = FALSE /\ swept = FALSE /\ woken = FALSE
    BY DEF Init
  <2>5. tasks \in Seq(Texts) /\ stored \subseteq Texts /\ done \subseteq stored
    BY DEF Init
  <2>6. /\ writes = 0 /\ copies = 0 /\ crashes = 0 /\ mailStops = 0 /\ age = 0 /\ touches = 0
        /\ footers = 0 /\ lead = "none" /\ sweep = "idle" /\ queue = "none" /\ lastWord = "none"
        /\ hour \in 0..HoursPerDay - 1
    BY DEF Init
  <2>7. QED
    BY <2>1, <2>2, <2>3, <2>4, <2>5, <2>6 DEF TypeOK
<1>2. Parts
  BY BoundAssumption
     DEF Init, Parts, NothingYet, QueuedCounted, AwakeNow, TasksAreNew, AnsweredOnce,
         FootersCounted, CheckHolds, Idle
<1>3. QED
  BY <1>1, <1>2 DEF IInv, Parts

\* Whatever happens next.
LEMMA NextKeeps ==
  ASSUME IInv, [Next]_vars
  PROVE  IInv'
<1>1. CASE Inbound
  BY <1>1, LeadArrivesKeeps, MailStopKeeps, RepWritesKeeps, DeliveryKeeps DEF Inbound
<1>2. CASE LoopStep
  BY <1>2, LeadFollowsKeeps, RepStepKeeps, TaskStartsKeeps, TaskChecksKeeps, TaskSendsKeeps,
     TaskEndsKeeps
     DEF LoopStep
<1>3. CASE UNCHANGED vars
  <2>1. UNCHANGED <<kind, copies, stored, tasks, lastWord, lead, optedOut, mailStops, loop, done,
                    answers, footers, writes, queue, age, sweep, touches, hour, swept, crashes,
                    outbound, woken>>
    BY <1>3 DEF vars, inbox, consent, replies, morning, time
  <2>2. TypeOK'
    BY <2>1 DEF IInv, TypeOK
  <2>3. Parts'
    BY <2>1
       DEF IInv, Parts, NothingYet, QueuedCounted, AwakeNow, TasksAreNew, AnsweredOnce,
           FootersCounted, CheckHolds
  <2>4. QED
    BY <2>2, <2>3 DEF IInv, Parts
<1>4. QED
  BY <1>1, <1>2, <1>3, SweepKeeps, HourKeeps, CrashKeeps DEF Next

\* The invariant holds in every state.
LEMMA Invariance == Spec => []IInv
<1>1. Init => IInv
  BY InitHolds
<1>2. IInv /\ [Next]_vars => IInv'
  BY NextKeeps
<1>3. QED
  BY <1>1, <1>2, PTL DEF Spec

(***************************************************************************)
(* The state has its types.                                                *)
(***************************************************************************)
THEOREM TypeCorrect == Spec => []TypeOK
<1>1. IInv => TypeOK
  BY DEF IInv
<1>2. QED
  BY <1>1, Invariance, PTL

(***************************************************************************)
(* The morning sweep sends a queued first text once, and once more at most *)
(* for every restart (scheduler.py, the sweep of queued follow-ups).       *)
(***************************************************************************)
THEOREM FirstTouch == Spec => []FirstTouchOnce
<1>1. IInv => FirstTouchOnce
  BY DEF IInv, QueuedCounted, FirstTouchOnce
<1>2. QED
  BY <1>1, Invariance, PTL

(***************************************************************************)
(* The check of quiet hours in send_sms comes before the text, and still   *)
(* holds when the text goes out.                                           *)
(***************************************************************************)
THEOREM Awake == Spec => []NobodyWoken
<1>1. IInv => NobodyWoken
  BY DEF IInv, AwakeNow, NobodyWoken
<1>2. QED
  BY <1>1, Invariance, PTL

(***************************************************************************)
(* A stored text is answered at most once (main.py, _idempotency_check and *)
(* the background task).                                                   *)
(***************************************************************************)
THEOREM Answered == Spec => []AnsweredOnce
<1>1. IInv => AnsweredOnce
  BY DEF IInv
<1>2. QED
  BY <1>1, Invariance, PTL

(***************************************************************************)
(* The opt-out footer goes out once, and once more at most for every       *)
(* restart.                                                                *)
(***************************************************************************)
THEOREM Footer == Spec => []FooterOnce
<1>1. IInv => FooterOnce
  BY DEF IInv, FootersCounted, FooterOnce
<1>2. QED
  BY <1>1, Invariance, PTL

\* The steps on which a text goes out: an answer by a task, a rep's.
LEMMA WhoSends ==
  ASSUME IInv, [Next]_vars, answers' # answers \/ RepSends
  PROVE  loop.step \in {"send", "rep sends"}
<1>1. CASE RepSends
  BY <1>1 DEF RepSends
<1>2. CASE Next /\ answers' # answers
  BY <1>2
     DEF Next, Inbound, LoopStep, SweepStep, RepStep, LeadArrives, MailStop, RepWrites, DeliveredAgain,
         Delivered, Receive, LeadOptsOut, LeadOptsIn, RepSends, RepRecords, TaskStarts, TaskChecks,
         TaskSends, TaskFailsToSend, TaskRecords, SweepStarts, SweepLooks, SweepChecks, SweepSends,
         SweepRecords, Hour, Crash, replies
<1>3. CASE UNCHANGED vars /\ answers' # answers
  BY <1>3 DEF vars, replies
<1>4. QED
  BY <1>1, <1>2, <1>3

(***************************************************************************)
(* No answer and no rep's text goes out after a STOP by text, whatever was *)
(* under way: only a STOP by e-mail can overtake one.                      *)
(***************************************************************************)
THEOREM Stopped == Spec => NoAnswerAfterStop
<1>1. IInv /\ [Next]_vars => [answers' # answers \/ RepSends => ~optedOut \/ mailStops > 0]_vars
  BY WhoSends DEF IInv, CheckHolds
<1>2. QED
  BY <1>1, Invariance, PTL DEF Spec, NoAnswerAfterStop
=============================================================================
