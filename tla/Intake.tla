------------------------------- MODULE Intake -------------------------------
(***************************************************************************)
(* How one customer becomes a lead, or several: a web form, a text, a      *)
(* missed call, a rep's message, a listing site's e-mail; and what the     *)
(* customer's keywords, a failing AI, a deletion on the dashboard and a    *)
(* restart do to the rows meanwhile.                                       *)
(*                                                                         *)
(* Two threads take leads in.  Webhooks and dashboard handlers run one at  *)
(* a time on the event loop (a handler does not yield while the AI is      *)
(* called).  The e-mail poll is a scheduler job with one session for all   *)
(* the mails it finds.  A thread works on its own copy of the lead, as old *)
(* as its last commit of it, so ingest[p] only has to say which commit     *)
(* comes next.  A step is one commit, or the read that one depends on.     *)
(***************************************************************************)
EXTENDS LeadStates, Consent, EmailParsers, FiniteSets

CONSTANTS
  Phone,       \* the customer's number
  Email,       \* the customer's address
  Forms,       \* the web forms sent in: <<consent box, address given>>
  Mails,       \* the mails sent in that are no replies
  DryRunFirst, \* the server starts with OUTBOUND_ENABLED off
  OtherMoves,  \* edges that handlers not modelled here take
  MaxLeads,    \* bound of the model: leads of this customer
  MaxWords,    \* bound of the model: opt-outs and re-grants on record
  MaxBreaks    \* bound of the model: days, restarts, deletions of everything, other moves

ASSUME KeysAssumption  == Phone # Email
ASSUME FormsAssumption == DryRunFirst \in BOOLEAN /\ Forms \subseteq BOOLEAN \X BOOLEAN
ASSUME MailsAssumption == Mails \subseteq SUBSET Labels
ASSUME MovesAssumption == \A m \in OtherMoves : CanTransition(m[1], m[2])
ASSUME BoundAssumption == /\ MaxLeads \in Nat /\ MaxWords \in Nat
                          /\ MaxBreaks \in Nat

VARIABLES
  leads,     \* the lead table, in order of insertion
  log,       \* the consent log
  outbound,  \* OUTBOUND_ENABLED
  ingest,    \* ingest[p]: the lead that thread p is taking in
  breaks,    \* days that have passed, restarts, deletions of everything, other moves
  lastWord   \* history: the customer's last keyword by text, unless an opt-out
             \*   by e-mail came after it

vars == <<leads, log, outbound, ingest, breaks, lastWord>>

Threads == {"loop", "poll"}
\* Channel, as far as the intake tells the values apart: WEBFORM and SMS are one.
Sources == {"DIRECT", "PHONE", "EMAIL"}
Rows    == DOMAIN leads
Idle    == [step |-> "idle", lead |-> 0]

(***************************************************************************)
(* A lead's row.  fresh: created within 24 hours; dry: its newest outbound *)
(* message is a dry run; gone: it was deleted (its id is not used again).  *)
(***************************************************************************)
Lead == [state : LeadStates, source : Sources, phone : BOOLEAN, email : BOOLEAN,
         fresh : BOOLEAN, dry : BOOLEAN, gone : BOOLEAN]

Steps == {"create", "consent", "auto", "reply", "ai", "call", "stop", "start", "assign"}

\* Steps that work on a row.
RowSteps == Steps \ {"create", "call", "stop", "start"}

Offers == [source : Sources, consent : BOOLEAN, phone : BOOLEAN, email : BOOLEAN]
Jobs   == [step : Steps, lead : 0..MaxLeads, offer : Offers]

TypeOK ==
  /\ leads \in Seq(Lead) /\ Len(leads) <= MaxLeads
  /\ log \in Seq([phone : {Phone, Email}, action : Actions, lead : 0..MaxLeads])
  /\ outbound \in BOOLEAN
  /\ ingest \in [Threads -> Jobs \cup {Idle}]
  /\ \A p \in Threads : ingest[p].lead <= Len(leads)
  /\ \A p \in Threads : ingest[p].step \in RowSteps => ingest[p].lead # 0
  /\ breaks \in Nat
  /\ lastWord \in {"none", "stop", "start"}

Init ==
  /\ leads = <<>> /\ log = <<>>
  /\ outbound = ~DryRunFirst
  /\ ingest = [p \in Threads |-> Idle]
  /\ breaks = 0
  /\ lastWord = "none"
-----------------------------------------------------------------------------
(* Lead data, and what the intake paths look up                            *)

\* What the adapters make of a form (the box ticked or not), a text, a rep's message
\* and a mail.
Offer(source, consent, phone, email) ==
  [source |-> source, consent |-> consent, phone |-> phone, email |-> email]

Form(consent, email) == Offer("DIRECT", consent, TRUE, email)
TextOffer == Offer("DIRECT", TRUE, TRUE, FALSE)
RepOffer  == Form(TRUE, FALSE)
Mail(parsed) == Offer("EMAIL", TRUE, parsed.phone, parsed.email)
NoPhone   == Offer("EMAIL", TRUE, FALSE, TRUE)
Call      == Offer("PHONE", FALSE, TRUE, FALSE)

NewLead(offer) ==
  [state |-> "NEW", source |-> offer.source, phone |-> offer.phone, email |-> offer.email,
   fresh |-> TRUE, dry |-> FALSE, gone |-> FALSE]

\* Of a deleted lead only its last state is kept.
Gone(l) == [state |-> leads[l].state, source |-> "DIRECT", phone |-> FALSE, email |-> FALSE,
            fresh |-> FALSE, dry |-> FALSE, gone |-> TRUE]

Open(l) == ~leads[l].gone /\ leads[l].state \notin ClosedStates

\* Mutated form of SameDay: closed leads are not looked at.
SameDayOpen == {l \in Rows : leads[l].phone /\ leads[l].fresh /\ Open(l)}

\* ingest_lead's duplicates: any state, any source.
SameDay == {l \in Rows : leads[l].phone /\ leads[l].fresh /\ ~leads[l].gone}

\* A missed call only knows other missed calls.
SameDayCalls == {l \in Rows : leads[l].source = "PHONE" /\ leads[l].fresh /\ ~leads[l].gone}

OfPhone    == {l \in Rows : leads[l].phone /\ ~leads[l].gone}
OpenByMail == {l \in Rows : leads[l].email /\ Open(l)}
Newest(S)  == CHOOSE l \in S : \A k \in S : k <= l

LoopFree == ingest["loop"] = Idle
Goto(p, step)  == ingest' = [ingest EXCEPT ![p].step = step]
Done(p)        == ingest' = [ingest EXCEPT ![p] = Idle]
Work(p, offer, step, l) ==
  ingest' = [ingest EXCEPT ![p] = [step |-> step, lead |-> l, offer |-> offer]]
Update(l, field, value) == leads' = [leads EXCEPT ![l][field] = value]
Log(phone, action, l)  == log' = Append(log, Entry(phone, action, l))
Heard == Cardinality({i \in DOMAIN log : log[i].action # "granted"}) < MaxWords
Deleted(p) == ingest[p].lead # 0 /\ leads[ingest[p].lead].gone

\* send_sms leaves a dry run, or a suppressed row (quiet hours, no consent), or
\* after hours no row at all.
DryRuns == {FALSE, ~outbound /\ ~OptedOut(log, Phone)}
-----------------------------------------------------------------------------
(* ingest_lead, commit by commit                                           *)

\* Mutated form of Forget: the rows are found by the telephone number.
ForgetByPhone(l) == log' = SelectSeq(log, LAMBDA row : row.phone # Phone)

\* The consent rows of a lead that is started over or deleted.
Forget(l) == log' = WithoutLeads(log, {l})

(***************************************************************************)
(* Duplicates are looked for.  A duplicate whose last message was a dry    *)
(* run is started over, if it is the row the query happens to return.      *)
(***************************************************************************)
Begin(p, offer) ==
  /\ ingest[p] = Idle
  /\ IF SameDay = {}
     THEN /\ Len(leads) < MaxLeads
          /\ Work(p, offer, "create", 0)
          /\ UNCHANGED <<leads, log>>
     ELSE \E l \in SameDay :
            /\ leads[l].dry
            /\ Forget(l)
            /\ leads' = [leads EXCEPT ![l].state = "NEW", ![l].dry = FALSE,
                                      ![l].email = @ \/ offer.email]
            /\ Work(p, offer, "consent", l)
  /\ UNCHANGED <<outbound, breaks, lastWord>>

Create(p) ==
  /\ ingest[p].step = "create"
  /\ Len(leads) < MaxLeads
  /\ leads' = Append(leads, NewLead(ingest[p].offer))
  /\ ingest' = [ingest EXCEPT ![p].step = IF ingest[p].offer.phone THEN "consent" ELSE "assign",
                              ![p].lead = Len(leads) + 1]
  /\ UNCHANGED <<log, outbound, breaks, lastWord>>

LogConsent(p) ==
  /\ ingest[p].step = "consent" /\ ~Deleted(p)
  /\ IF ingest[p].offer.consent THEN Log(Phone, "granted", ingest[p].lead) ELSE UNCHANGED log
  /\ ingest' = [ingest EXCEPT ![p].step = "auto", ![p].offer = NoPhone]
  /\ UNCHANGED <<leads, outbound, breaks, lastWord>>

\* transition() from the thread's copy, which says NEW.
AutoReplied(p) ==
  /\ ingest[p].step = "auto" /\ ~Deleted(p)
  /\ Update(ingest[p].lead, "state", "AUTO_REPLIED")
  /\ Goto(p, "reply")
  /\ UNCHANGED <<log, outbound, breaks, lastWord>>

\* The auto-reply, and after it the AI's first message, go through send_sms, which
\* records what became of them.
Reply(p) ==
  /\ ingest[p].step = "reply" /\ ~Deleted(p)
  /\ \E dry \in DryRuns : Update(ingest[p].lead, "dry", dry)
  /\ Goto(p, "ai")
  /\ UNCHANGED <<log, outbound, breaks, lastWord>>

\* handle_turn has answered.  From the copy's AUTO_REPLIED the edge is always there.
Engage(p) ==
  /\ ingest[p].step = "ai" /\ ~Deleted(p)
  /\ Update(ingest[p].lead, "state", "ENGAGED")
  /\ Done(p)
  /\ UNCHANGED <<log, outbound, breaks, lastWord>>

\* handle_turn has failed: the lead goes, with its messages, events and consent rows.
DeleteUnanswered(p) ==
  LET l == ingest[p].lead IN
  /\ ingest[p].step = "ai" /\ ~Deleted(p)
  /\ Forget(l)
  /\ leads' = [leads EXCEPT ![l] = Gone(l)]
  /\ Done(p)
  /\ UNCHANGED <<outbound, breaks, lastWord>>

\* The next write finds no row: the lead was deleted meanwhile.  Or the lead cannot be
\* deleted, because handle_turn's booking tool has left an appointment (Booking).
IngestFails(p) ==
  /\ Deleted(p) \/ ingest[p].step = "ai"
  /\ Done(p)
  /\ UNCHANGED <<leads, log, outbound, breaks, lastWord>>

\* Without a telephone number: a rep is assigned, one e-mail is sent, and the move
\* from NEW to ASSIGNED is refused.
EmailLead(p) ==
  /\ ingest[p].step = "assign" /\ ~Deleted(p)
  /\ Done(p)
  /\ UNCHANGED <<leads, log, outbound, breaks, lastWord>>

IngestStep(p) ==
  \/ Create(p) \/ LogConsent(p) \/ AutoReplied(p) \/ Reply(p)
  \/ Engage(p) \/ DeleteUnanswered(p) \/ IngestFails(p) \/ EmailLead(p)
-----------------------------------------------------------------------------
(* The e-mail poll                                                         *)

\* Fetching a mail marks it read: it is not seen again, whatever becomes of it.  (After
\* a write that failed nothing can become of the other mails of the same poll.)
Fetch == ingest["poll"] = Idle

\* Mutated form of EmailHasOptedOut: rows keyed by the number.
EmailHasOptedOutByPhone == OptedOut(log, Phone)

\* _email_has_opted_out: rows keyed by the address.
EmailHasOptedOut == OptedOut(log, Email)

\* A mail from a known address is a reply, whatever it says.  It is stored, or it opts
\* out; the key of the row is the number, if there is one.
Replies(l) == l \in OpenByMail

MailOptsOut(l) ==
  LET key == IF leads[l].phone THEN Phone ELSE Email IN
  /\ Heard /\ Log(key, "opted_out", l)
  /\ leads' = [leads EXCEPT ![l].state = IF CanTransition(@, "OPTED_OUT") THEN "OPTED_OUT" ELSE @]
  /\ lastWord' = IF leads[l].phone /\ lastWord = "start" THEN "none" ELSE lastWord
  /\ UNCHANGED <<outbound, ingest, breaks>>

MailFromLead(l) ==
  /\ Fetch /\ Replies(l)
  /\ MailOptsOut(l)

Parsed == {ParseEmail(mail) : mail \in Mails}

\* A listing site's mail is no reply, whoever it is about: the site is its sender.
MailWithPhone(parsed) ==
  /\ Fetch /\ parsed.phone
  /\ Begin("poll", Mail(parsed))

\* _dedup_by_email: the address has a lead that is not closed.
DedupByEmail == OpenByMail # {}

\* Nothing to do without an address either.
MailWithoutPhone(parsed) ==
  /\ Fetch /\ ~parsed.phone /\ parsed.email
  /\ ~DedupByEmail /\ ~EmailHasOptedOut
  /\ Len(leads) < MaxLeads
  /\ Work("poll", NoPhone, "create", 0)
  /\ UNCHANGED <<leads, log, outbound, breaks, lastWord>>

PollStep ==
  \/ \E l \in Rows : MailFromLead(l)
  \/ \E parsed \in Parsed : MailWithPhone(parsed) \/ MailWithoutPhone(parsed)
-----------------------------------------------------------------------------
(* The event loop                                                          *)

FormArrives == \E f \in Forms : Begin("loop", Form(f[1], f[2]))

\* A lead typed in by a rep, on the dashboard or in Telegram.
RepEnters == Begin("loop", RepOffer)

Texts == LoopFree

\* A text that is no keyword goes to the newest open lead, or makes one.  The
\* answer to it is module Messaging's; here it matters whether it is a dry run.
OpenByPhone == {l \in OfPhone : Open(l)}

TextFromLead ==
  LET l == Newest(OpenByPhone) IN
  /\ Texts /\ OpenByPhone # {}
  /\ \E dry \in DryRuns :
       leads' = [leads EXCEPT ![l].state = IF @ = "AUTO_REPLIED" THEN "ENGAGED" ELSE @,
                              ![l].dry = dry]
  /\ UNCHANGED <<log, outbound, ingest, breaks, lastWord>>

TextFromStranger == Texts /\ OpenByPhone = {} /\ Begin("loop", TextOffer)

\* STOP: the row first, then the newest lead.
TextStop ==
  /\ Texts
  /\ Heard /\ Log(Phone, "opted_out", 0)
  /\ lastWord' = "stop"
  /\ Work("loop", TextOffer, "stop", 0)
  /\ UNCHANGED <<leads, outbound, breaks>>

\* Mutated form of LeadOptsOut: the state is written as it is.
LeadOptsOutAlways ==
  /\ ingest["loop"].step = "stop"
  /\ leads' = IF OfPhone # {} THEN [leads EXCEPT ![Newest(OfPhone)].state = "OPTED_OUT"] ELSE leads
  /\ Done("loop")
  /\ UNCHANGED <<log, outbound, breaks, lastWord>>

LeadOptsOut ==
  /\ ingest["loop"].step = "stop"
  /\ leads' = IF OfPhone # {} /\ CanTransition(leads[Newest(OfPhone)].state, "OPTED_OUT")
              THEN [leads EXCEPT ![Newest(OfPhone)].state = "OPTED_OUT"] ELSE leads
  /\ Done("loop")
  /\ UNCHANGED <<log, outbound, breaks, lastWord>>

\* START: nothing to do unless the number is opted out.
TextStart ==
  /\ Texts
  /\ OptedOut(log, Phone)
  /\ Heard /\ Log(Phone, "re_granted", 0)
  /\ lastWord' = "start"
  /\ Work("loop", TextOffer, "start", 0)
  /\ UNCHANGED <<leads, outbound, breaks>>

LeadOptsIn ==
  LET out == {l \in OfPhone : leads[l].state = "OPTED_OUT"} IN
  /\ ingest["loop"].step = "start"
  /\ leads' = IF out = {} THEN leads ELSE [leads EXCEPT ![Newest(out)].state = "NEW"]
  /\ Done("loop")
  /\ UNCHANGED <<log, outbound, breaks, lastWord>>

\* A missed call.  The lead is committed with the implied consent, if that is
\* new, and otherwise when the call has been answered by a text.
MissedCall ==
  /\ Texts
  /\ ~EverOptedOut(log, Phone) /\ SameDayCalls = {}
  /\ Len(leads) < MaxLeads
  /\ \/ /\ Granted(log, Phone, {"granted"})
        /\ Work("loop", Call, "call", 0)
        /\ UNCHANGED <<leads, log>>
     \/ /\ ~Granted(log, Phone, {"granted"})
        /\ leads' = Append(leads, NewLead(Call))
        /\ Log(Phone, "granted", Len(leads) + 1)
        /\ Work("loop", Call, "call", Len(leads) + 1)
  /\ UNCHANGED <<outbound, breaks, lastWord>>

\* The state is written without transition().
CallAnswered ==
  LET l == ingest["loop"].lead
      Answered(lead, dry) == [lead EXCEPT !.state = "AUTO_REPLIED", !.dry = dry]
  IN  /\ ingest["loop"].step = "call"
      /\ \E dry \in {FALSE, ~outbound} :
           IF l = 0 THEN /\ Len(leads) < MaxLeads
                         /\ leads' = Append(leads, Answered(NewLead(Call), dry))
           ELSE leads' = [leads EXCEPT ![l] = Answered(@, dry)]
      /\ Done("loop")
      /\ UNCHANGED <<log, outbound, breaks, lastWord>>

\* delete_lead: refused by the database while consent rows refer to the lead.  (Its
\* own row in the log, "deleted", is left out: nothing reads it.)
DeleteLead(l) ==
  /\ Texts /\ ~leads[l].gone
  /\ \A i \in DOMAIN log : log[i].lead # l
  /\ leads' = [leads EXCEPT ![l] = Gone(l)]
  /\ UNCHANGED <<log, outbound, ingest, breaks, lastWord>>

\* The admin's deletions: the leads with all that refers to them.  An opt-out by text
\* refers to none and stays.
Wipe(S) ==
  /\ Texts /\ S # {} /\ breaks < MaxBreaks
  /\ breaks' = breaks + 1
  /\ log' = WithoutLeads(log, S)
  /\ leads' = [l \in Rows |-> IF l \in S THEN Gone(l) ELSE leads[l]]
  /\ UNCHANGED <<outbound, ingest, lastWord>>

\* Where the customer's number looks like a test's.
CleanupTestLeads == Wipe(OfPhone)

ResetAllData == Wipe({l \in Rows : ~leads[l].gone})

\* Everything else that moves a lead (modules Routing and Booking).
OtherMove(l, from, to) ==
  /\ Texts /\ ~leads[l].gone /\ leads[l].state = from
  /\ breaks < MaxBreaks
  /\ breaks' = breaks + 1
  /\ Update(l, "state", to)
  /\ UNCHANGED <<log, outbound, ingest, lastWord>>

LoopStep ==
  \/ FormArrives \/ RepEnters \/ TextFromLead \/ TextFromStranger
  \/ TextStop \/ LeadOptsOut \/ TextStart \/ LeadOptsIn
  \/ MissedCall \/ CallAnswered \/ CleanupTestLeads \/ ResetAllData
  \/ \E l \in Rows : DeleteLead(l) \/ \E m \in OtherMoves : OtherMove(l, m[1], m[2])
-----------------------------------------------------------------------------
\* A lead counts as fresh until nothing is in progress: ingest_lead looks once.
DayPasses ==
  /\ breaks < MaxBreaks
  /\ \A p \in Threads : ingest[p] = Idle
  /\ breaks' = breaks + 1
  /\ leads' = [l \in Rows |-> [leads[l] EXCEPT !.fresh = FALSE]]
  /\ UNCHANGED <<log, outbound, ingest, lastWord>>

\* A restart, after which texts are sent for real.
Crash ==
  /\ breaks < MaxBreaks
  /\ breaks' = breaks + 1
  /\ outbound' = TRUE
  /\ ingest' = [p \in Threads |-> Idle]
  /\ UNCHANGED <<leads, log, lastWord>>

Next == (\E p \in Threads : IngestStep(p)) \/ PollStep \/ LoopStep \/ DayPasses \/ Crash

Spec == Init /\ [][Next]_vars
-----------------------------------------------------------------------------
(* Properties                                                              *)

(***************************************************************************)
(* What the customer last asked for by text is what send_sms will see,     *)
(* whichever rows the intake, a failing AI or a restart has deleted since. *)
(***************************************************************************)
LastWordCounts ==
  /\ lastWord = "stop"  => OptedOut(log, Phone)
  /\ lastWord = "start" => ~OptedOut(log, Phone)

(***************************************************************************)
(* Two leads of one customer and one day were taken in by different        *)
(* threads (one is the poll's, from an e-mail) or the later is a missed    *)
(* call: within a thread the check for duplicates misses none.             *)
(***************************************************************************)
DuplicatesOnlyByRace ==
  \A k, l \in OfPhone :
    k < l /\ leads[k].fresh /\ leads[l].fresh /\ leads[l].source # "PHONE"
      => (leads[k].source = "EMAIL") # (leads[l].source = "EMAIL")

(***************************************************************************)
(* No lead is made of an address while an opt-out keyed by that address is *)
(* on record: neither in a later poll nor between a mail's check and its   *)
(* row.                                                                    *)
(***************************************************************************)
EmailStaysOut ==
  [][\A l \in DOMAIN leads' \ Rows : OptedOut(log, Email) => leads'[l].phone]_vars

(***************************************************************************)
(* The lead table implements the lifecycle but for the races that          *)
(* ingest_lead can lose: it writes AUTO_REPLIED and ENGAGED from a copy    *)
(* that other threads have overtaken (a STOP during the AI's first message *)
(* is undone) and starts a dry run over from any state.  No keyword, mail  *)
(* or call adds an edge.                                                   *)
(***************************************************************************)
StateOf(l) == IF l \in Rows THEN leads[l].state ELSE "NEW"

RacesOfIntake == LeadStates \X {"AUTO_REPLIED", "ENGAGED", "NEW"}

Lifecycle == INSTANCE LeadLifecycle WITH
  Leads <- 1..MaxLeads, Races <- RacesOfIntake, state <- [l \in 1..MaxLeads |-> StateOf(l)]

LifecycleImplemented == Lifecycle!Spec
-----------------------------------------------------------------------------
(* Claims of the code's comments that its behaviour contradicts            *)

(***************************************************************************)
(* "CASL: never re-engage an email that has opted out"                     *)
(* (route_lead.py:520): an opt-out by e-mail of a lead that also has a     *)
(* telephone number is filed under the number.                             *)
(***************************************************************************)
EmailOptOutHonored ==
  [][\A l \in Rows : MailOptsOut(l) => OptedOut(log', Email)]_vars
=============================================================================
