---------------------------- MODULE Availability -----------------------------
(***************************************************************************)
(* The tool the AI takes its appointment times from                        *)
(* (tools/check_availability.py), and the test of the opening hours it has *)
(* to agree with (app/engine/conversation.py, is_business_hours).          *)
(*                                                                         *)
(* Time is counted in units of which a day has DayLen; a slot is a pair    *)
(* <<days from today, time>>.  "hours" maps each weekday to its opening    *)
(* range, a row of dealer.hours that parsed, or to Closed.                 *)
(***************************************************************************)
EXTENDS Integers, SequencesExt, FiniteSetsExt

CONSTANTS DayLen, Week, Step, DaysAhead, MaxSlots

ASSUME ClockAssumption ==
  /\ {DayLen, Week, Step, DaysAhead, MaxSlots} \subseteq Nat \ {0}
  /\ DayLen % Step = 0

Times == 0..DayLen - 1
Weekdays == 0..Week - 1

\* _parse_hours_range of a day that is closed, missing or does not parse.
Closed == [open |-> -1, close |-> -1]

\* Ranges of times of the day; one that ends before it starts is stored as it is.  Times
\* past midnight, for which the tool raises, are left out.
Opening == {Closed} \cup [open : Times, close : 0..DayLen]

Weekday(today, i) == (today + i) % Week

IsOpen(hours, day, t) == hours[day] # Closed /\ hours[day].open <= t /\ t < hours[day].close

\* _round_to_nearest_slot.
RoundUp(t) == ((t + Step - 1) \div Step) * Step

\* datetime.replace(hour=24): the tool raises in the last slot of an open day.
Raises(hours, today, now) == hours[today] # Closed /\ RoundUp(now) >= DayLen

FirstSlot(range, i, now) ==
  IF i = 0 /\ RoundUp(now) > range.open THEN RoundUp(now) ELSE range.open

\* Mutated form of DaySlots: a slot may start at closing time.
DaySlotsToClosing(hours, today, now, i) ==
  LET range == hours[Weekday(today, i)]
      first == FirstSlot(range, i, now)
  IN  IF range = Closed \/ first > range.close THEN <<>>
      ELSE [k \in 1..((range.close - first) \div Step) + 1 |-> <<i, first + (k - 1) * Step>>]

\* The times of one day, free or not.
DaySlots(hours, today, now, i) ==
  LET range == hours[Weekday(today, i)]
      first == FirstSlot(range, i, now)
  IN  IF range = Closed \/ first >= range.close THEN <<>>
      ELSE [k \in 1..((range.close - 1 - first) \div Step) + 1 |-> <<i, first + (k - 1) * Step>>]

\* check_availability: the first MaxSlots times that nobody has.
Slots(hours, today, now, taken) ==
  LET all  == FoldLeft(\o, <<>>, [i \in 1..DaysAhead |-> DaySlots(hours, today, now, i - 1)])
      free == FoldLeft(LAMBDA found, slot : IF slot \in taken THEN found ELSE Append(found, slot),
                       <<>>, all)
  IN  SubSeq(free, 1, Min({MaxSlots, Len(free)}))

-----------------------------------------------------------------------------
\* What the answer should be, from the opening hours alone: the dealer is open, the
\* time has not passed, it is on the day's grid and nobody has it.
FreeTimes(hours, today, now, taken) ==
  {slot \in (0..DaysAhead - 1) \X Times :
     LET day == Weekday(today, slot[1])
     IN  /\ IsOpen(hours, day, slot[2])
         /\ slot[1] = 0 => slot[2] >= now
         /\ slot[2] % Step = IF slot[1] = 0 /\ RoundUp(now) > hours[day].open THEN 0
                            ELSE hours[day].open % Step
         /\ slot \notin taken}

Earlier(a, b) == a[1] < b[1] \/ (a[1] = b[1] /\ a[2] < b[2])

\* The tool is right about these hours: whatever the time and the appointments, it
\* fails or answers with the earliest free times, in order, as many as it may.
RightFor(hours, appointments) ==
  \A today \in Weekdays, now \in Times, taken \in SUBSET appointments :
    Raises(hours, today, now) \/
      LET slots == Slots(hours, today, now, taken)
          free  == FreeTimes(hours, today, now, taken)
      IN  /\ Len(slots) = Min({MaxSlots, Cardinality(free)})
          /\ \A k \in DOMAIN slots :
               slots[k] \in free /\ Cardinality({s \in free : Earlier(s, slots[k])}) = k - 1
=============================================================================
