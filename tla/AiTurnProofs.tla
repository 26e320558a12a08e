---------------------------- MODULE AiTurnProofs -----------------------------
(***************************************************************************)
(* What holds of a turn with the provider for any limits of retries, hops, *)
(* texts and rows, and whatever the other handlers do between turns.       *)
(***************************************************************************)
EXTENDS AiTurn, TLAPS

(***************************************************************************)
(* The table leads from states to states.                                  *)
(***************************************************************************)
LEMMA TableType ==
  \A s \in LeadStates : \A t : CanTransition(s, t) => t \in LeadStates
BY DEF CanTransition, TRANSITIONS, LeadStates
-----------------------------------------------------------------------------
(* The inductive invariant                                                 *)

\* Requests that were answered before the one a turn waits for, retries left out.
Prior(t) ==
  CASE t.why = "first"  -> 0
    [] t.why = "hop"    -> t.hops
    [] t.why = "forced" -> t.hops + 1
    [] t.why = "final"  -> t.hops + 2
    [] t.why = "clean"  -> t.hops + 3

Attempts == MaxRetries + 1

\* Each answered request was tried at most Attempts times, the awaited one so often as
\* it says.
RequestsCounted ==
  turn \in Turn =>
    turn.requests <= IF turn.step = "wait" THEN Attempts * Prior(turn) + turn.attempts + 1
                     ELSE Attempts * (Prior(turn) + 1)

\* What the reason of a request says of the turn so far, and what may run.
ReasonsHold ==
  turn \in Turn =>
    /\ turn.why = "first" => turn.hops = 0
    /\ turn.why = "final" => turn.tried
    /\ turn.why = "clean" => turn.leaked
    /\ turn.step = "run" => turn.why # "clean"
    /\ turn.step = "run" /\ turn.why = "forced" => "book" \in turn.tools
    /\ turn.step = "run" /\ turn.why = "final" => turn.leaked
    /\ turn.step = "run" /\ turn.why = "hop" /\ ~turn.leaked => turn.hops < MaxHops

\* States from which the table leads to APPT_SET no more, unless a START comes.
AfterBooking == {"APPT_SET", "SHOWED", "SOLD", "LOST", "OPTED_OUT"}

\* A lead that was booked is past booking.
BookedIsPast == booked > 0 => state \in AfterBooking /\ booked = 1

IInv == TypeOK /\ RequestsCounted /\ ReasonsHold /\ ClaimIsBacked /\ BookedIsPast
-----------------------------------------------------------------------------
(***************************************************************************)
(* One more answered request is one more round of attempts.                *)
(***************************************************************************)
LEMMA OneMore ==
  ASSUME NEW p \in Nat
  PROVE  /\ Attempts \in Nat \ {0} /\ Attempts * p \in Nat
         /\ Attempts * (p + 1) = Attempts * p + Attempts
BY CountsAssumption DEF Attempts

\* Fewer answered requests make fewer requests.
LEMMA Monotonic ==
  ASSUME NEW p \in Nat, NEW q \in Nat, p <= q
  PROVE  Attempts * p <= Attempts * q
<1>1. PICK d \in Nat : q = p + d
  BY q - p \in Nat
<1>2. Attempts \in Nat /\ Attempts * d \in Nat
  BY OneMore
<1>3. Attempts * q = Attempts * p + Attempts * d
  BY <1>1, <1>2
<1>4. QED
  BY <1>2, <1>3, OneMore

\* What is known of a turn in progress.
LEMMA TurnType ==
  ASSUME TypeOK, turn # NoTurn
  PROVE  /\ turn \in Turn
         /\ turn.hops \in 0..MaxHops /\ turn.attempts \in 0..MaxRetries
         /\ turn.requests \in Nat /\ turn.tools \subseteq Tools
         /\ Prior(turn) \in Nat
BY CountsAssumption DEF TypeOK, Turn, Prior

\* An idle turn is not a turn.
LEMMA IdleIsNoTurn == NoTurn \notin Turn
BY DEF NoTurn, Turn
-----------------------------------------------------------------------------
(* Steps that begin or end a turn                                          *)

(***************************************************************************)
(* A turn begins with its first request.                                   *)
(***************************************************************************)
LEMMA AskStarts ==
  ASSUME IInv, NEW proactive \in BOOLEAN, NEW critical \in BOOLEAN, Ask(proactive, critical)
  PROVE  /\ turn' \in Turn /\ chats' \in Nat
         /\ RequestsCounted' /\ ReasonsHold' /\ ClaimIsBacked'
<1>1. turn' \in Turn /\ chats' \in Nat
  BY CountsAssumption DEF IInv, TypeOK, Ask, Turn, Content, Tools
<1>2. RequestsCounted'
  <2>1. turn'.step = "wait" /\ turn'.why = "first" /\ turn'.requests = 1 /\ turn'.attempts = 0
    BY DEF Ask
  <2>2. Attempts * 0 = 0
    BY OneMore
  <2>3. QED
    BY <2>1, <2>2 DEF RequestsCounted, Prior
<1>3. ReasonsHold' /\ ClaimIsBacked'
  BY DEF Ask, ReasonsHold, ClaimIsBacked
<1>4. QED
  BY <1>1, <1>2, <1>3

\* The lead comes in.
LEMMA LeadArrivesKeeps ==
  ASSUME IInv, LeadArrives
  PROVE  IInv'
<1>1. booked = 0
  BY CountsAssumption DEF IInv, TypeOK, BookedIsPast, AfterBooking, LeadArrives
<1>2. state' \in LeadStates /\ UNCHANGED <<mode, inbound, rows, booked>>
  BY DEF LeadArrives, Engaged, LeadStates
<1>3. PICK critical \in BOOLEAN :
        \/ greetings' = greetings + 1 /\ UNCHANGED <<turn, chats>>
        \/ Ask(TRUE, critical)
  BY DEF LeadArrives
<1>4. /\ turn' \in {NoTurn} \cup Turn /\ chats' \in Nat /\ greetings' \in Nat
      /\ RequestsCounted' /\ ReasonsHold' /\ ClaimIsBacked'
  <2>1. CASE greetings' = greetings + 1 /\ UNCHANGED <<turn, chats>>
    BY <2>1 DEF IInv, TypeOK, RequestsCounted, ReasonsHold, ClaimIsBacked
  <2>2. CASE Ask(TRUE, critical)
    BY <2>2, AskStarts DEF IInv, TypeOK, Ask
  <2>3. QED
    BY <1>3, <2>1, <2>2
<1>5. QED
  BY <1>1, <1>2, <1>4 DEF IInv, TypeOK, BookedIsPast

\* The customer writes: a lead past booking is not moved.
LEMMA TextKeeps ==
  ASSUME IInv, Text
  PROVE  IInv'
<1>1. /\ state' \in LeadStates /\ inbound' \in 0..MaxInbound
      /\ UNCHANGED <<mode, rows, booked>>
  <2>1. state' \in {state, "ENGAGED", "ASSIGNED"}
    BY DEF Text
  <2>2. inbound' \in 0..MaxInbound
    BY CountsAssumption DEF IInv, TypeOK, Text
  <2>3. QED
    BY <2>1, <2>2 DEF IInv, TypeOK, Text, LeadStates
<1>2. BookedIsPast'
  <2>1. state \in AfterBooking => state' = state
    BY DEF Text, AfterBooking, CanTransition, TRANSITIONS, LeadStates, HandsOver
  <2>2. QED
    BY <1>1, <2>1 DEF IInv, BookedIsPast
<1>3. PICK critical \in BOOLEAN :
        \/ UNCHANGED <<turn, chats>> /\ greetings' \in {greetings, greetings + 1}
        \/ Ask(FALSE, critical)
  BY DEF Text
<1>4. /\ turn' \in {NoTurn} \cup Turn /\ chats' \in Nat /\ greetings' \in Nat
      /\ RequestsCounted' /\ ReasonsHold' /\ ClaimIsBacked'
  <2>1. CASE UNCHANGED <<turn, chats>> /\ greetings' \in {greetings, greetings + 1}
    BY <2>1 DEF IInv, TypeOK, RequestsCounted, ReasonsHold, ClaimIsBacked
  <2>2. CASE Ask(FALSE, critical)
    BY <2>2, AskStarts DEF IInv, TypeOK, Ask
  <2>3. QED
    BY <1>3, <2>1, <2>2
<1>5. QED
  BY <1>1, <1>2, <1>4 DEF IInv, TypeOK

\* The reply is sent: no edge to ENGAGED leaves a state past booking.
LEMMA ReplyKeeps ==
  ASSUME IInv, Reply
  PROVE  IInv'
<1>1. turn' = NoTurn /\ state' \in {state, Engaged(state)}
  BY DEF Reply
<1>2. state' \in LeadStates /\ (state \in AfterBooking => state' = state)
  BY <1>1 DEF IInv, TypeOK, Engaged, AfterBooking, CanTransition, TRANSITIONS, LeadStates
<1>3. QED
  BY <1>1, <1>2, IdleIsNoTurn
     DEF IInv, TypeOK, RequestsCounted, ReasonsHold, ClaimIsBacked, BookedIsPast, Reply

\* Nobody else moves a lead back from APPT_SET, and START is left out.
LEMMA OtherMoveKeeps ==
  ASSUME IInv, NEW m \in OtherMoves, OtherMove(m[1], m[2])
  PROVE  IInv'
<1>1. CanTransition(m[1], m[2]) /\ m[2] # "NEW"
  BY MovesAssumption
<1>2. state = m[1] /\ state' = m[2]
  BY DEF OtherMove
<1>3. state' \in LeadStates /\ (state \in AfterBooking => state' \in AfterBooking)
  BY <1>1, <1>2, TableType DEF IInv, TypeOK, AfterBooking, CanTransition, TRANSITIONS, LeadStates
<1>4. QED
  BY <1>3 DEF IInv, TypeOK, RequestsCounted, ReasonsHold, ClaimIsBacked, BookedIsPast, OtherMove
-----------------------------------------------------------------------------
(* Steps of a turn                                                         *)

Whys == {"first", "hop", "forced", "final", "clean"}

\* What a turn leaves alone.
Others == <<mode, state, inbound, rows, booked, greetings, chats>>

\* What a step of a turn keeps if the turn's record stays right.
LEMMA TurnKeeps ==
  ASSUME IInv, turn' \in Turn, UNCHANGED Others,
         RequestsCounted', ReasonsHold', ClaimIsBacked'
  PROVE  IInv'
BY DEF IInv, TypeOK, BookedIsPast, Others

(***************************************************************************)
(* When an answer comes, its request was tried often enough to be paid for *)
(* by one more round.                                                      *)
(***************************************************************************)
LEMMA AnswerCounted ==
  ASSUME IInv, turn # NoTurn
  PROVE  turn.requests <= Attempts * (Prior(turn) + 1)
<1>1. turn \in Turn /\ Prior(turn) \in Nat /\ turn.attempts \in 0..MaxRetries
  BY TurnType DEF IInv
<1>2. turn.requests <= IF turn.step = "wait" THEN Attempts * Prior(turn) + turn.attempts + 1
                       ELSE Attempts * (Prior(turn) + 1)
  BY <1>1 DEF IInv, RequestsCounted
<1>3. turn.attempts + 1 <= Attempts
  BY <1>1, CountsAssumption DEF Attempts
<1>4. turn.requests \in Nat
  BY TurnType DEF IInv
<1>5. /\ Attempts * (Prior(turn) + 1) = Attempts * Prior(turn) + Attempts
      /\ Attempts \in Nat /\ Attempts * Prior(turn) \in Nat
  BY <1>1, OneMore
<1>6. CASE turn.step = "wait"
  <2>1. turn.requests <= Attempts * Prior(turn) + turn.attempts + 1
    BY <1>2, <1>6
  <2>2. QED
    BY <1>1, <1>3, <1>4, <1>5, <2>1
<1>7. QED
  BY <1>2, <1>6

\* What a further request leaves of a turn.
LEMMA AskedTurn ==
  ASSUME NEW t \in Turn, NEW why \in Whys
  PROVE  /\ Asked(t, why) \in Turn
         /\ Asked(t, why).step = "wait" /\ Asked(t, why).why = why
         /\ Asked(t, why).attempts = 0 /\ Asked(t, why).requests = t.requests + 1
         /\ Asked(t, why).hops = t.hops /\ Asked(t, why).tried = t.tried
         /\ Asked(t, why).leaked = t.leaked
<1>1. Asked(t, why) \in Turn
  <2>1. 0 \in 0..MaxRetries /\ t.requests + 1 \in Nat /\ {} \in SUBSET Tools
    BY CountsAssumption DEF Turn
  <2>2. QED
    BY <2>1 DEF Asked, Turn, Whys
<1>2. /\ Asked(t, why).step = "wait" /\ Asked(t, why).why = why
      /\ Asked(t, why).attempts = 0 /\ Asked(t, why).requests = t.requests + 1
      /\ Asked(t, why).hops = t.hops /\ Asked(t, why).tried = t.tried
      /\ Asked(t, why).leaked = t.leaked
  BY DEF Asked, Turn
<1>3. QED
  BY <1>1, <1>2

(***************************************************************************)
(* A further request is counted if it comes after all those before it.     *)
(***************************************************************************)
LEMMA AskedCounted ==
  ASSUME IInv, turn # NoTurn, NEW t \in Turn, t.requests = turn.requests, NEW why \in Whys,
         turn' = Asked(t, why), Prior(turn) + 1 <= Prior(turn')
  PROVE  RequestsCounted'
<1>1. turn'.step = "wait" /\ turn'.attempts = 0 /\ turn'.requests = turn.requests + 1
  BY AskedTurn
<1>2. Prior(turn) \in Nat /\ turn.requests \in Nat
  BY TurnType DEF IInv
<1>3. turn' \in Turn
  BY AskedTurn
<1>4. Prior(turn') \in Nat
  BY <1>3 DEF Turn, Prior
<1>5. Attempts * (Prior(turn) + 1) <= Attempts * Prior(turn')
  BY <1>2, <1>4, Monotonic
<1>6. turn.requests <= Attempts * (Prior(turn) + 1)
  BY AnswerCounted
<1>7. Attempts * (Prior(turn) + 1) \in Nat /\ Attempts * Prior(turn') \in Nat
  BY <1>2, <1>4, OneMore
<1>8. turn'.requests <= Attempts * Prior(turn') + turn'.attempts + 1
  BY <1>1, <1>2, <1>5, <1>6, <1>7
<1>9. QED
  BY <1>1, <1>8 DEF RequestsCounted

(***************************************************************************)
(* An answer that asks for nothing more is counted as it is.               *)
(***************************************************************************)
LEMMA AnsweredCounted ==
  ASSUME IInv, turn # NoTurn, turn'.step # "wait", turn'.requests = turn.requests,
         turn'.why = turn.why, turn'.hops = turn.hops
  PROVE  RequestsCounted'
<1>1. Prior(turn') = Prior(turn)
  BY DEF Prior
<1>2. QED
  BY <1>1, AnswerCounted DEF RequestsCounted

\* One attempt more.
LEMMA RetryKeeps ==
  ASSUME IInv, Retry
  PROVE  IInv'
<1>1. /\ turn # NoTurn /\ turn \in Turn /\ turn.requests \in Nat
      /\ turn.attempts \in 0..MaxRetries /\ Prior(turn) \in Nat
  BY TurnType DEF IInv, Retry, NoTurn
<1>2. /\ turn' \in Turn /\ turn'.step = turn.step /\ turn'.why = turn.why /\ turn'.hops = turn.hops
      /\ turn'.attempts = turn.attempts + 1 /\ turn'.requests = turn.requests + 1
      /\ turn'.tried = turn.tried /\ turn'.leaked = turn.leaked
  <2>1. turn.attempts + 1 \in 0..MaxRetries /\ turn.requests + 1 \in Nat
    BY <1>1, CountsAssumption DEF Retry
  <2>2. QED
    BY <1>1, <2>1 DEF Retry, Turn
<1>3. RequestsCounted'
  <2>1. Prior(turn') = Prior(turn)
    BY <1>2 DEF Prior
  <2>2. turn.requests <= Attempts * Prior(turn) + turn.attempts + 1
    BY <1>1 DEF IInv, RequestsCounted, Retry
  <2>3. Attempts * Prior(turn) \in Nat
    BY <1>1, OneMore
  <2>4. turn'.requests <= Attempts * Prior(turn') + turn'.attempts + 1
    BY <1>1, <1>2, <2>1, <2>2, <2>3
  <2>5. QED
    BY <1>2, <2>4 DEF RequestsCounted, Retry
<1>4. ReasonsHold' /\ ClaimIsBacked'
  BY <1>1, <1>2 DEF IInv, ReasonsHold, ClaimIsBacked, Retry
<1>5. QED
  BY <1>2, <1>3, <1>4, TurnKeeps DEF Retry, Others

\* The fallback claims nothing.
LEMMA FailKeeps ==
  ASSUME IInv, Fail
  PROVE  IInv'
<1>1. turn # NoTurn /\ turn \in Turn
  BY TurnType DEF IInv, Fail, NoTurn
<1>2. /\ turn' \in Turn /\ turn'.step = "reply" /\ turn'.why = turn.why /\ turn'.hops = turn.hops
      /\ turn'.requests = turn.requests /\ turn'.content = "fallback"
      /\ turn'.tried = turn.tried /\ turn'.leaked = turn.leaked
  BY <1>1 DEF Fail, Turn, Content
<1>3. RequestsCounted'
  BY <1>1, <1>2, AnsweredCounted
<1>4. ReasonsHold' /\ ClaimIsBacked'
  BY <1>1, <1>2 DEF IInv, ReasonsHold, ClaimIsBacked
<1>5. QED
  BY <1>2, <1>3, <1>4, TurnKeeps DEF Fail, Others

\* Tool calls are taken while tools are on offer; the last hop offers none.
LEMMA AnswersWithToolsKeeps ==
  ASSUME IInv, AnswersWithTools
  PROVE  IInv'
<1>1. turn # NoTurn /\ turn \in Turn /\ turn.hops \in 0..MaxHops
  BY TurnType DEF IInv, AnswersWithTools, NoTurn
<1>2. PICK tools \in SUBSET Tools \ {{}} :
        /\ turn.why = "forced" => tools = {"book"}
        /\ turn' = [turn EXCEPT !.step = "run", !.tools = tools]
  BY DEF AnswersWithTools
<1>3. /\ turn' \in Turn /\ turn'.step = "run" /\ turn'.why = turn.why /\ turn'.hops = turn.hops
      /\ turn'.requests = turn.requests /\ turn'.tools = tools
      /\ turn'.tried = turn.tried /\ turn'.leaked = turn.leaked
  BY <1>1, <1>2 DEF Turn, Tools
<1>4. RequestsCounted'
  BY <1>1, <1>3, AnsweredCounted
<1>5. ReasonsHold'
  BY <1>1, <1>2, <1>3 DEF IInv, ReasonsHold, AnswersWithTools, Offered
<1>6. ClaimIsBacked'
  BY <1>3 DEF ClaimIsBacked
<1>7. QED
  BY <1>3, <1>4, <1>5, <1>6, TurnKeeps DEF AnswersWithTools, Others

(***************************************************************************)
(* A text is sent as it is unless the guard forces a booking or a leaked   *)
(* call is run.  A claim gets past the guard only after a booking was      *)
(* tried, or in the text that follows a leaked call.                       *)
(***************************************************************************)
LEMMA AnswersWithTextKeeps ==
  ASSUME IInv, AnswersWithText
  PROVE  IInv'
<1>1. turn # NoTurn /\ turn \in Turn /\ turn.hops \in 0..MaxHops
  BY TurnType DEF IInv, AnswersWithText, NoTurn
<1>2. PICK content \in {"plain", "claims", "leaked"} : Finish(content)
  BY DEF AnswersWithText
<1>3. CASE turn.why \in {"first", "hop"} /\ MustBook(content)
  <2> DEFINE t == [turn EXCEPT !.content = content]
  <2>1. /\ t \in Turn /\ t.requests = turn.requests /\ t.hops = turn.hops
        /\ t.tried = turn.tried /\ t.leaked = turn.leaked
    BY <1>1 DEF Turn, Content
  <2>2. turn' = Asked(t, "forced")
    BY <1>2, <1>3 DEF Finish
  <2> HIDE DEF t
  <2>3. /\ turn' \in Turn /\ turn'.step = "wait" /\ turn'.why = "forced" /\ turn'.hops = turn.hops
        /\ turn'.tried = turn.tried /\ turn'.leaked = turn.leaked
    BY <2>1, <2>2, AskedTurn DEF Whys
  <2>4. Prior(turn) + 1 <= Prior(turn')
    BY <1>1, <1>3, <2>3 DEF IInv, ReasonsHold, Prior
  <2>5. RequestsCounted'
    BY <1>1, <2>1, <2>2, <2>4, AskedCounted DEF Whys
  <2>6. ReasonsHold' /\ ClaimIsBacked'
    BY <2>3 DEF ReasonsHold, ClaimIsBacked
  <2>7. QED
    BY <2>3, <2>5, <2>6, TurnKeeps DEF AnswersWithText, Others
<1>4. CASE /\ turn' = [turn EXCEPT !.step = "reply",
                                   !.content = IF content = "leaked" THEN "plain" ELSE content]
           /\ ~(turn.why \in {"first", "hop"} /\ MustBook(content))
  <2>1. /\ turn' \in Turn /\ turn'.step = "reply" /\ turn'.why = turn.why /\ turn'.hops = turn.hops
        /\ turn'.requests = turn.requests /\ turn'.critical = turn.critical
        /\ turn'.tried = turn.tried /\ turn'.leaked = turn.leaked
        /\ turn'.content = "claims" => content = "claims"
    BY <1>1, <1>4 DEF Turn, Content
  <2>2. RequestsCounted'
    BY <1>1, <2>1, AnsweredCounted
  <2>3. ReasonsHold'
    BY <1>1, <2>1 DEF IInv, ReasonsHold
  <2>4. ClaimIsBacked'
    <3>1. turn.why \in {"first", "hop", "final", "clean"}
      BY <1>1 DEF AnswersWithText, Turn
    <3>2. turn.why \in {"first", "hop"} /\ content = "claims" /\ turn.critical => turn.tried
      BY <1>4 DEF MustBook
    <3>3. turn.why \in {"final", "clean"} => turn.tried \/ turn.leaked
      BY <1>1 DEF IInv, ReasonsHold
    <3>4. QED
      BY <2>1, <3>1, <3>2, <3>3 DEF ClaimIsBacked
  <2>5. QED
    BY <2>1, <2>2, <2>3, <2>4, TurnKeeps DEF AnswersWithText, Others
<1>5. ASSUME content = "leaked", turn.why # "clean", NEW tools \in SUBSET Tools \ {{}},
             turn' = [turn EXCEPT !.step = "run", !.tools = tools, !.leaked = TRUE]
      PROVE  IInv'
  <2>1. /\ turn' \in Turn /\ turn'.step = "run" /\ turn'.why = turn.why /\ turn'.hops = turn.hops
        /\ turn'.requests = turn.requests /\ turn'.tried = turn.tried /\ turn'.leaked = TRUE
    BY <1>1, <1>5 DEF Turn, Tools
  <2>2. RequestsCounted'
    BY <1>1, <2>1, AnsweredCounted
  <2>3. ReasonsHold' /\ ClaimIsBacked'
    BY <1>1, <1>5, <2>1 DEF IInv, ReasonsHold, ClaimIsBacked, AnswersWithText
  <2>4. QED
    BY <2>1, <2>2, <2>3, TurnKeeps DEF AnswersWithText, Others
<1>6. QED
  BY <1>2, <1>3, <1>4, <1>5 DEF Finish

(***************************************************************************)
(* The tools run.  A booking needs the edge to APPT_SET, which a lead that *)
(* was booked before no longer has.                                        *)
(***************************************************************************)
LEMMA BookKeeps ==
  ASSUME IInv, Book \/ UNCHANGED <<state, rows, booked>>
  PROVE  /\ state' \in LeadStates /\ rows' \in 0..MaxRows /\ booked' \in 0..rows'
         /\ BookedIsPast'
<1>1. CASE UNCHANGED <<state, rows, booked>>
  BY <1>1 DEF IInv, TypeOK, BookedIsPast
<1>2. CASE /\ Bookable /\ rows' = rows + 1
           /\ CanTransition(state, "APPT_SET") /\ state' = "APPT_SET" /\ booked' = booked + 1
  <2>1. state \notin AfterBooking
    BY <1>2 DEF AfterBooking, CanTransition, TRANSITIONS, LeadStates
  <2>2. booked = 0 /\ rows + 1 \in 0..MaxRows /\ rows \in Nat
    BY <1>2, <2>1, CountsAssumption DEF IInv, TypeOK, BookedIsPast, Bookable
  <2>3. QED
    BY <1>2, <2>2 DEF BookedIsPast, AfterBooking, LeadStates
<1>3. CASE Bookable /\ rows' = rows + 1 /\ UNCHANGED <<state, booked>>
  BY <1>3, CountsAssumption DEF IInv, TypeOK, BookedIsPast, Bookable
<1>4. QED
  BY <1>1, <1>2, <1>3 DEF Book

\* Then their results are sent, with the reason for which they ran.
LEMMA ResultsSent ==
  ASSUME IInv, RunTools
  PROVE  turn' \in Turn /\ RequestsCounted' /\ ReasonsHold' /\ ClaimIsBacked'
<1>1. turn # NoTurn /\ turn \in Turn /\ turn.hops \in 0..MaxHops
  BY TurnType DEF IInv, RunTools, NoTurn
<1> DEFINE ran == [turn EXCEPT !.tried = @ \/ "book" \in turn.tools]
<1>2. /\ ran \in Turn /\ ran.requests = turn.requests /\ ran.hops = turn.hops
      /\ ran.leaked = turn.leaked /\ ran.tried = (turn.tried \/ "book" \in turn.tools)
  BY <1>1 DEF Turn
<1>3. CASE turn.leaked /\ turn' = Asked(ran, "clean")
  <2> HIDE DEF ran
  <2>1. /\ turn' \in Turn /\ turn'.step = "wait" /\ turn'.why = "clean" /\ turn'.hops = turn.hops
        /\ turn'.leaked = turn.leaked
    BY <1>2, <1>3, AskedTurn DEF Whys
  <2>2. Prior(turn) + 1 <= Prior(turn')
    BY <1>1, <2>1 DEF IInv, ReasonsHold, Prior, RunTools, Turn
  <2>3. RequestsCounted'
    BY <1>1, <1>2, <1>3, <2>2, AskedCounted DEF Whys
  <2>4. QED
    BY <1>3, <2>1, <2>3 DEF ReasonsHold, ClaimIsBacked
<1>4. CASE ~turn.leaked /\ turn.why = "forced" /\ turn' = Asked(ran, "final")
  <2> HIDE DEF ran
  <2>1. /\ turn' \in Turn /\ turn'.step = "wait" /\ turn'.why = "final" /\ turn'.hops = turn.hops
        /\ turn'.tried = ran.tried
    BY <1>2, <1>4, AskedTurn DEF Whys
  <2>4. turn'.tried
    <3>1. "book" \in turn.tools
      BY <1>1, <1>4 DEF IInv, ReasonsHold, RunTools
    <3>2. QED
      BY <1>2, <2>1, <3>1
  <2>2. Prior(turn) + 1 <= Prior(turn')
    <3>1. Prior(turn) = turn.hops + 1
      BY <1>4 DEF Prior
    <3>2. Prior(turn') = turn.hops + 2
      BY <2>1 DEF Prior
    <3>3. QED
      BY <1>1, <3>1, <3>2, CountsAssumption
  <2>3. QED
    BY <1>1, <1>2, <1>4, <2>1, <2>2, <2>4, AskedCounted DEF Whys, ReasonsHold, ClaimIsBacked
<1>5. CASE /\ ~turn.leaked /\ turn.why # "forced"
           /\ turn' = Asked([ran EXCEPT !.hops = @ + 1], "hop")
  <2> DEFINE t == [ran EXCEPT !.hops = @ + 1]
  <2>1. turn.why \in {"first", "hop"} /\ turn.hops < MaxHops
    BY <1>1, <1>5, CountsAssumption DEF IInv, ReasonsHold, RunTools, Turn
  <2>2. turn.hops + 1 \in 0..MaxHops
    BY <1>1, <2>1, CountsAssumption
  <2>3. t \in Turn /\ t.requests = turn.requests /\ t.hops = turn.hops + 1
    <3> HIDE DEF ran
    <3>1. QED
      BY <1>2, <2>2 DEF Turn
  <2> HIDE DEF t, ran
  <2>4. /\ turn' \in Turn /\ turn'.step = "wait" /\ turn'.why = "hop" /\ turn'.hops = turn.hops + 1
    BY <1>5, <2>3, AskedTurn DEF Whys, t
  <2>5. Prior(turn) + 1 <= Prior(turn')
    BY <1>1, <2>1, <2>4 DEF IInv, ReasonsHold, Prior
  <2>6. RequestsCounted'
    BY <1>1, <1>5, <2>3, <2>5, AskedCounted DEF Whys, t
  <2>7. QED
    BY <2>4, <2>6 DEF ReasonsHold, ClaimIsBacked
<1>6. turn.leaked \in BOOLEAN
  BY <1>1 DEF Turn
<1>7. turn' = CASE turn.leaked                          -> Asked(ran, "clean")
                [] ~turn.leaked /\ turn.why = "forced" -> Asked(ran, "final")
                [] OTHER -> Asked([ran EXCEPT !.hops = @ + 1], "hop")
  BY DEF RunTools
<1> HIDE DEF ran
<1>8. CASE turn.leaked
  BY <1>3, <1>7, <1>8
<1>9. CASE ~turn.leaked /\ turn.why = "forced"
  BY <1>4, <1>7, <1>9
<1>10. CASE ~turn.leaked /\ turn.why # "forced"
  BY <1>5, <1>7, <1>10
<1>11. QED
  BY <1>6, <1>8, <1>9, <1>10

\* So running the tools keeps the invariant.
LEMMA RunToolsKeeps ==
  ASSUME IInv, RunTools
  PROVE  IInv'
<1>1. Book \/ UNCHANGED <<state, rows, booked>>
  BY DEF RunTools
<1>2. QED
  BY <1>1, BookKeeps, ResultsSent DEF IInv, TypeOK, RunTools
-----------------------------------------------------------------------------
(* Theorems                                                                *)

\* Every step keeps the invariant.
LEMMA NextKeeps ==
  ASSUME IInv, [Next]_vars
  PROVE  IInv'
<1>1. CASE LeadArrives
  BY <1>1, LeadArrivesKeeps
<1>2. CASE Text
  BY <1>2, TextKeeps
<1>3. CASE TurnStep
  BY <1>3, RetryKeeps, FailKeeps, AnswersWithToolsKeeps, AnswersWithTextKeeps, RunToolsKeeps,
     ReplyKeeps DEF TurnStep
<1>4. ASSUME NEW m \in OtherMoves, OtherMove(m[1], m[2])
      PROVE  IInv'
  BY <1>4, OtherMoveKeeps
<1>5. CASE UNCHANGED vars
  BY <1>5 DEF IInv, TypeOK, RequestsCounted, ReasonsHold, ClaimIsBacked, BookedIsPast, vars
<1>6. QED
  BY <1>1, <1>2, <1>3, <1>4, <1>5 DEF Next

\* The invariant holds.
LEMMA Invariance == Spec => []IInv
<1>1. Init => IInv
  BY CountsAssumption, IdleIsNoTurn
     DEF Init, IInv, TypeOK, RequestsCounted, ReasonsHold, ClaimIsBacked, BookedIsPast,
         NoTurn, LeadStates
<1>2. QED
  BY <1>1, NextKeeps, PTL DEF Spec

(***************************************************************************)
(* Every variable keeps its type: a turn never has more hops or attempts   *)
(* than the code allows, and the lead stays in the table's states.         *)
(***************************************************************************)
THEOREM TypeCorrect == Spec => []TypeOK
<1>1. IInv => TypeOK
  BY DEF IInv
<1>2. QED
  BY <1>1, Invariance, PTL

(***************************************************************************)
(* Whatever the model answers, a turn makes at most MaxHops + 4 requests,  *)
(* each of which is tried MaxRetries times again.                          *)
(***************************************************************************)
THEOREM Requests == Spec => []RequestsBounded
<1>1. ASSUME IInv, turn # NoTurn
      PROVE  turn.requests <= (MaxRetries + 1) * (MaxHops + 4)
  <2>1. turn.hops \in 0..MaxHops /\ turn.requests \in Nat /\ Prior(turn) \in Nat /\ turn \in Turn
    BY <1>1, TurnType DEF IInv
  <2>2. Prior(turn) + 1 <= MaxHops + 4
    BY <2>1, CountsAssumption DEF Prior, Turn
  <2>3. turn.requests <= Attempts * (Prior(turn) + 1)
    BY <1>1, AnswerCounted
  <2>4. Attempts * (Prior(turn) + 1) <= Attempts * (MaxHops + 4)
    BY <2>1, <2>2, CountsAssumption, Monotonic
  <2>5. /\ Attempts * (Prior(turn) + 1) \in Nat /\ Attempts * (MaxHops + 4) \in Nat
    <3>1. Prior(turn) + 1 \in Nat /\ MaxHops + 4 \in Nat
      BY <2>1, CountsAssumption
    <3>2. QED
      BY <3>1, OneMore
  <2>6. turn.requests <= Attempts * (MaxHops + 4)
    BY <2>1, <2>3, <2>4, <2>5
  <2>7. QED
    BY <2>6 DEF Attempts
<1>2. IInv => RequestsBounded
  BY <1>1 DEF RequestsBounded
<1>3. QED
  BY <1>2, Invariance, PTL

(***************************************************************************)
(* No reply on a turn about booking claims an appointment that was neither *)
(* tried nor written after a leaked call.                                  *)
(***************************************************************************)
THEOREM Claims == Spec => []ClaimIsBacked
<1>1. IInv => ClaimIsBacked
  BY DEF IInv
<1>2. QED
  BY <1>1, Invariance, PTL

(***************************************************************************)
(* However the turns go, the tool books a lead once at most.               *)
(***************************************************************************)
THEOREM Booked == Spec => []BookedOnce
<1>1. IInv => BookedOnce
  BY CountsAssumption DEF IInv, TypeOK, BookedIsPast, BookedOnce
<1>2. QED
  BY <1>1, Invariance, PTL
=============================================================================
