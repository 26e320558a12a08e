------------------------------- MODULE AiTurn --------------------------------
(***************************************************************************)
(* How the AI answers one lead (app/engine/conversation.py): the modes     *)
(* that hand the lead over, and a turn with the provider -- requests that  *)
(* are tried again, tool calls and their results, the guard against        *)
(* bookings that never happened, the recovery of tool calls that leak into *)
(* the text, and the fallback when anything is raised.                     *)
(*                                                                         *)
(* A turn runs on one thread; the lead is the copy of its session.  What   *)
(* other threads do to the lead meanwhile is module Booking's.  The model  *)
(* behind the provider may say anything, but obeys a forced tool_choice.   *)
(***************************************************************************)
EXTENDS LeadStates, Naturals

CONSTANTS
  MaxRetries,   \* _MAX_RETRIES
  MaxHops,      \* _MAX_TOOL_HOPS
  MaxTurns,     \* MAX_INBOUND_TURNS
  QualifyTurns, \* texts after which the qualify_only mode hands over (3)
  OtherMoves,   \* bound of the model: edges that other handlers take
  MaxInbound,   \* bound of the model: texts of the customer
  MaxRows       \* bound of the model: appointments

ASSUME CountsAssumption == /\ MaxRetries \in Nat /\ MaxHops \in Nat \ {0} /\ MaxTurns \in Nat
                           /\ QualifyTurns \in Nat /\ MaxInbound \in Nat /\ MaxRows \in Nat
\* A lead that a START makes NEW again is another one here: it may be booked again.
ASSUME MovesAssumption == \A m \in OtherMoves : CanTransition(m[1], m[2]) /\ m[2] # "NEW"

VARIABLES
  mode,       \* ai.engagement_mode
  state,      \* Lead.state
  inbound,    \* texts of the customer on file
  rows,       \* appointment rows of the lead
  turn,       \* the turn in progress
  booked,     \* history: tool calls that booked
  greetings,  \* history: greetings of the greeting_only mode
  chats       \* history: turns in which the model was asked

vars == <<mode, state, inbound, rows, turn, booked, greetings, chats>>

Modes   == {"full_auto", "qualify_only", "greeting_only"}
Tools   == {"book", "other"}
Content == {"plain", "claims", "leaked", "fallback"}

(***************************************************************************)
(* A turn.  "why" is what the awaited answer is for: the first request, a  *)
(* further one after tools ran (hop), the forced booking, the reply after  *)
(* it (final), or the reply after a leaked call was run (clean).           *)
(***************************************************************************)
Turn == [step : {"wait", "run", "reply"}, why : {"first", "hop", "forced", "final", "clean"},
         proactive : BOOLEAN, critical : BOOLEAN, hops : 0..MaxHops, attempts : 0..MaxRetries,
         requests : Nat, tools : SUBSET Tools, content : Content, tried : BOOLEAN, leaked : BOOLEAN]
NoTurn == [step |-> "idle"]

TypeOK ==
  /\ mode \in Modes /\ state \in LeadStates
  /\ inbound \in 0..MaxInbound /\ rows \in 0..MaxRows /\ booked \in 0..rows
  /\ turn \in {NoTurn} \cup Turn
  /\ greetings \in Nat /\ chats \in Nat

Init ==
  /\ mode \in Modes /\ state = "NEW"
  /\ inbound = 0 /\ rows = 0 /\ turn = NoTurn
  /\ booked = 0 /\ greetings = 0 /\ chats = 0
-----------------------------------------------------------------------------
(* handle_turn: hand over, or ask the model                                *)

\* ingest_lead's last step, after the first message.
Engaged(s) == IF CanTransition(s, "ENGAGED") THEN "ENGAGED" ELSE s

Ask(proactive, critical) ==
  /\ turn' = [step |-> "wait", why |-> "first", proactive |-> proactive, critical |-> critical,
              hops |-> 0, attempts |-> 0, requests |-> 1, tools |-> {}, content |-> "plain",
              tried |-> FALSE, leaked |-> FALSE]
  /\ chats' = chats + 1
  /\ UNCHANGED greetings

Greets(n) == mode = "greeting_only" /\ n <= 1

\* A lead comes in: AUTO_REPLIED, and the AI speaks first.
LeadArrives ==
  /\ state = "NEW"
  /\ \E critical \in BOOLEAN :
       IF Greets(inbound)
       THEN state' = Engaged("ASSIGNED") /\ greetings' = greetings + 1 /\ UNCHANGED <<turn, chats>>
       ELSE state' = "AUTO_REPLIED" /\ Ask(TRUE, critical)
  /\ UNCHANGED <<mode, inbound, rows, booked>>

HandsOver(n, s, critical) ==
  \/ mode = "qualify_only" /\ n >= QualifyTurns /\ s = "ENGAGED"
  \/ n >= MaxTurns /\ s = "ENGAGED" /\ ~critical

\* A greeting from a state that does not lead to ASSIGNED raises: no answer at all.
Text ==
  LET n == inbound + 1
      s == IF state = "AUTO_REPLIED" THEN "ENGAGED" ELSE state
  IN  /\ turn = NoTurn /\ state \notin ClosedStates \cup {"NEW"}
      /\ n <= MaxInbound
      /\ inbound' = n
      /\ \E critical \in BOOLEAN :
           IF Greets(n)
           THEN /\ state' = IF CanTransition(s, "ASSIGNED") THEN "ASSIGNED" ELSE s
                /\ greetings' = IF CanTransition(s, "ASSIGNED") THEN greetings + 1 ELSE greetings
                /\ UNCHANGED <<turn, chats>>
           ELSE IF HandsOver(n, s, critical)
           THEN state' = "ASSIGNED" /\ UNCHANGED <<turn, chats, greetings>>
           ELSE state' = s /\ Ask(FALSE, critical)
      /\ UNCHANGED <<mode, rows, booked>>
-----------------------------------------------------------------------------
(* The provider                                                            *)

\* The turn t with one more request under way.
Asked(t, why) == [t EXCEPT !.step = "wait", !.why = why, !.attempts = 0,
                           !.requests = @ + 1, !.tools = {}]

\* Mutated form of Retry: no attempt is the last.
RetryForever ==
  /\ turn.step = "wait"
  /\ turn' = [turn EXCEPT !.attempts = (@ + 1) % (MaxRetries + 1)]
  /\ UNCHANGED <<mode, state, inbound, rows, booked, greetings, chats>>

\* A server error or a timeout, and the pause before the next attempt.
Retry ==
  /\ turn.step = "wait" /\ turn.attempts < MaxRetries
  /\ turn' = [turn EXCEPT !.attempts = @ + 1, !.requests = @ + 1]
  /\ UNCHANGED <<mode, state, inbound, rows, booked, greetings, chats>>

\* A permanent error, or one attempt too many: the fallback, whatever the tools did.
Fail ==
  /\ turn.step = "wait"
  /\ turn' = [turn EXCEPT !.step = "reply", !.content = "fallback"]
  /\ UNCHANGED <<mode, state, inbound, rows, booked, greetings, chats>>

\* Mutated form of MustBook: the guard is for replies after tools.
MustBookAfterTools(content) == turn.critical /\ content = "claims" /\ ~turn.tried /\ turn.hops > 0

\* The guard: a booking is claimed on a turn about booking, and was not tried.
MustBook(content) == turn.critical /\ content = "claims" /\ ~turn.tried

\* What is left to do with a text: the guard, the recovery of a leaked call (if it can
\* be parsed), or nothing.
Finish(content) ==
  IF turn.why \in {"first", "hop"} /\ MustBook(content)
  THEN turn' = Asked([turn EXCEPT !.content = content], "forced")
  ELSE \/ turn' = [turn EXCEPT !.step = "reply", !.content = IF content = "leaked" THEN "plain" ELSE content]
       \/ /\ content = "leaked" /\ turn.why # "clean"
          /\ \E tools \in SUBSET Tools \ {{}} :
               turn' = [turn EXCEPT !.step = "run", !.tools = tools, !.leaked = TRUE]

\* Mutated form of Offered: tools stay on offer on the last hop.
OfferedStill == turn.why \in {"first", "hop", "forced"}

Offered == \/ turn.why \in {"first", "forced"}
           \/ turn.why = "hop" /\ turn.hops < MaxHops

AnswersWithTools ==
  /\ turn.step = "wait" /\ Offered
  /\ \E tools \in SUBSET Tools \ {{}} :
       /\ turn.why = "forced" => tools = {"book"}
       /\ turn' = [turn EXCEPT !.step = "run", !.tools = tools]
  /\ UNCHANGED <<mode, state, inbound, rows, booked, greetings, chats>>

AnswersWithText ==
  /\ turn.step = "wait" /\ turn.why # "forced"
  /\ \E content \in {"plain", "claims", "leaked"} : Finish(content)
  /\ UNCHANGED <<mode, state, inbound, rows, booked, greetings, chats>>
-----------------------------------------------------------------------------
(* Tools                                                                   *)

\* book_appointment's guard.
Bookable == state \in {"CLAIMED", "ENGAGED", "AUTO_REPLIED", "NEW"} /\ rows < MaxRows

\* Mutated form of Book: the lead stays where it is.
BookUnmoved ==
  Bookable /\ rows' = rows + 1 /\ booked' = booked + 1 /\ UNCHANGED state

\* The slot may be refused; the row stays also if the state cannot follow (Booking).
Book ==
  \/ UNCHANGED <<state, rows, booked>>
  \/ /\ Bookable
     /\ rows' = rows + 1
     /\ IF CanTransition(state, "APPT_SET")
        THEN state' = "APPT_SET" /\ booked' = booked + 1
        ELSE UNCHANGED <<state, booked>>

\* Every call runs; its name counts as used whatever it returns; the results are sent.
RunTools ==
  /\ turn.step = "run"
  /\ IF "book" \in turn.tools THEN Book ELSE UNCHANGED <<state, rows, booked>>
  /\ LET ran == [turn EXCEPT !.tried = @ \/ "book" \in turn.tools]
     IN  turn' = CASE turn.leaked                          -> Asked(ran, "clean")
                   [] ~turn.leaked /\ turn.why = "forced" -> Asked(ran, "final")
                   [] OTHER -> Asked([ran EXCEPT !.hops = @ + 1], "hop")
  /\ UNCHANGED <<mode, inbound, greetings, chats>>

\* The caller sends the text; ingest_lead moves the lead on.
Reply ==
  /\ turn.step = "reply"
  /\ state' = IF turn.proactive THEN Engaged(state) ELSE state
  /\ turn' = NoTurn
  /\ UNCHANGED <<mode, inbound, rows, booked, greetings, chats>>

\* What reps and customers do between turns.
OtherMove(from, to) ==
  /\ turn = NoTurn /\ state = from
  /\ state' = to
  /\ UNCHANGED <<mode, inbound, rows, turn, booked, greetings, chats>>

TurnStep == Retry \/ Fail \/ AnswersWithTools \/ AnswersWithText \/ RunTools \/ Reply

Next == LeadArrives \/ Text \/ TurnStep \/ \E m \in OtherMoves : OtherMove(m[1], m[2])

Spec == Init /\ [][Next]_vars

\* The provider answers or the request times out, and the thread goes on.
FairSpec == Spec /\ WF_vars(TurnStep)
-----------------------------------------------------------------------------
(* Properties                                                              *)

(***************************************************************************)
(* A turn makes a bounded number of requests whatever the model answers:   *)
(* the first, one for each hop, the forced booking and the reply after it, *)
(* and one after a leaked call, each tried MaxRetries times again.         *)
(***************************************************************************)
RequestsBounded ==
  turn # NoTurn => turn.requests <= (MaxRetries + 1) * (MaxHops + 4)

(***************************************************************************)
(* On a turn about booking no reply claims an appointment that nobody      *)
(* tried to book, unless it was written after a leaked call was recovered: *)
(* the guard does not see that text.                                       *)
(***************************************************************************)
ClaimIsBacked ==
  turn # NoTurn /\ turn.step = "reply" /\ turn.critical /\ turn.content = "claims"
    => turn.tried \/ turn.leaked

(***************************************************************************)
(* However often the model calls the tool, within a turn or in several, it *)
(* books a lead at most once.                                              *)
(***************************************************************************)
BookedOnce == booked <= 1

(***************************************************************************)
(* Every turn ends with a reply.                                           *)
(***************************************************************************)
TurnEnds == turn # NoTurn ~> turn = NoTurn
-----------------------------------------------------------------------------
(* Claims of the code's documents that its behaviour contradicts           *)

(***************************************************************************)
(* "Greeting Only -- AI sends one greeting then hands off"                 *)
(* (app/dashboard/templates/settings.html:402).  A lead from a form is     *)
(* greeted, taken back by ingest_lead and greeted again at its first text; *)
(* from the second text on the model answers as in the full_auto mode.     *)
(***************************************************************************)
OneGreeting == mode = "greeting_only" => greetings + chats <= 1
=============================================================================
