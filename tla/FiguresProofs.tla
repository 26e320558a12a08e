---------------------------- MODULE FiguresProofs ----------------------------
(***************************************************************************)
(* What holds of Figures for any leads, any wall clock and any limits: the *)
(* morning digest counts each lead once, the lists do not contradict the   *)
(* badges beside them, and the pages count the same leads.                 *)
(***************************************************************************)
EXTENDS Figures, TLAPS, FiniteSetTheorems, WellFoundedInduction

\* A set of natural numbers that is not empty has a smallest member.
LEMMA SmallestMember ==
  ASSUME NEW S \in SUBSET Nat, S # {}
  PROVE  Min(S) \in S /\ \A y \in S : Min(S) <= y
<1>1. PICK x \in S : \A y \in S : <<y, x>> \notin OpToRel(<, Nat)
  BY WFMin, NatLessThanWellFounded, Zenon
<1>2. \A y \in S : x <= y
  <2>1. ASSUME NEW y \in S PROVE ~(y < x)
    BY <1>1, Zenon DEF OpToRel
  <2>2. QED
    BY <2>1
<1>3. QED
  BY <1>1, <1>2 DEF Min
-----------------------------------------------------------------------------
(* The invariant                                                           *)

FigureRow == [state : LeadStates \cup {NoState}, rep : Reps \cup {NoRep},
              created : Nat, updated : Nat]

TypeOK ==
  /\ now \in DOMAIN Wall
  /\ digestHour \in DigestHours
  /\ row \in [Leads -> FigureRow]
  /\ counted \in [Leads -> Nat]
  /\ excused \subseteq Nat

\* A row carries the instants of its creation and of its last update.
Stamped ==
  \A l \in Table : row[l].created \in 1..now /\ row[l].updated \in 1..now

\* The day of whose digest l is due, and whether the hour of that digest has come.
Due(l) == Day(row[l].created) + 1
HourCame(day) == \E t \in 1..now : Wall[t] = <<day, digestHour>>

\* No digest counts a lead before the day it is due, ...
NotYetCounted ==
  \A l \in Leads : ~(l \in Table /\ Due(l) <= Day(now)) => counted[l] = 0

\* ... and it has been counted if the hour of the digest has come on that day.
CountedIfCame ==
  \A l \in Table :
    Due(l) \notin excused /\ HourComesOnce(Due(l))
      => counted[l] = IF HourCame(Due(l)) THEN 1 ELSE 0

IInv == TypeOK /\ Stamped /\ NotYetCounted /\ CountedIfCame
-----------------------------------------------------------------------------
(* The wall clock                                                          *)

\* The clock shows a day and an hour at each instant, and its days do not go back.
LEMMA ClockType ==
  /\ Len(Wall) \in Nat /\ DOMAIN Wall = 1..Len(Wall) /\ 1 \in DOMAIN Wall
  /\ \A t \in DOMAIN Wall : /\ Day(t) \in Nat /\ Hour(t) \in Nat
                            /\ Wall[t] = <<Day(t), Hour(t)>>
  /\ \A s, t \in DOMAIN Wall : s <= t => Day(s) <= Day(t)
<1>1. /\ Len(Wall) \in Nat /\ DOMAIN Wall = 1..Len(Wall)
      /\ \A t \in DOMAIN Wall : Wall[t] \in Nat \X Nat
  BY WallAssumption
<1>2. 1 \in DOMAIN Wall
  BY <1>1, WallAssumption
<1>3. \A t \in DOMAIN Wall : /\ Day(t) \in Nat /\ Hour(t) \in Nat
                             /\ Wall[t] = <<Day(t), Hour(t)>>
  BY <1>1 DEF Day, Hour
<1>4. QED
  BY <1>1, <1>2, <1>3, DaysAssumption DEF Day

\* An hour that comes once on a day comes at one instant.
LEMMA OneInstant ==
  ASSUME NEW day, HourComesOnce(day)
  PROVE  \E t \in DOMAIN Wall : /\ Wall[t] = <<day, digestHour>>
                                /\ \A s \in DOMAIN Wall : Wall[s] = <<day, digestHour>> => s = t
<1> DEFINE when == {t \in DOMAIN Wall : Wall[t] = <<day, digestHour>>}
<1>1. IsFiniteSet(when)
  <2>1. IsFiniteSet(DOMAIN Wall)
    BY ClockType, FS_Interval
  <2>2. QED
    BY <2>1, FS_Subset
<1>2. PICK t : when = {t}
  BY <1>1, FS_Singleton DEF HourComesOnce
<1>3. QED
  BY <1>2
-----------------------------------------------------------------------------
(* The digest                                                              *)

\* A lead of the table, its stamps and the day it is due.
LEMMA LeadType ==
  ASSUME TypeOK, Stamped, NEW l \in Table
  PROVE  /\ l \in Leads /\ row[l] \in FigureRow /\ row[l] # Absent
         /\ row[l].created \in DOMAIN Wall /\ row[l].created <= now
         /\ Due(l) \in Nat /\ Due(l) <= Day(now) + 1
<1>1. now \in Nat /\ now \in 1..Len(Wall)
  BY ClockType DEF TypeOK
<1>2. row[l].created \in 1..now /\ row[l].created \in DOMAIN Wall
  BY <1>1, ClockType DEF Stamped
<1>3. l \in Leads /\ row[l] # Absent
  BY DEF Table
<1>4. Day(row[l].created) \in Nat /\ Day(now) \in Nat /\ Day(row[l].created) <= Day(now)
  BY <1>1, <1>2, ClockType
<1>5. QED
  BY <1>1, <1>2, <1>3, <1>4 DEF TypeOK, Due

\* What every start has.
LEMMA Start == Init => IInv
<1> SUFFICES ASSUME Init PROVE IInv
  OBVIOUS
<1>1. Table = {}
  BY DEF Init, Table
<1>2. TypeOK
  BY ClockType DEF Init, TypeOK, FigureRow, Absent
<1>3. QED
  BY <1>1, <1>2 DEF IInv, Init, Stamped, NotYetCounted, CountedIfCame

\* A handler that changes rows of the table keeps their creation: the digest is as before.
LEMMA SameDigest ==
  ASSUME IInv, NEW l \in Table,
         row' \in [Leads -> FigureRow],
         \A k \in Leads : k # l => row'[k] = row[k],
         row'[l].created = row[l].created, row'[l].updated = now,
         UNCHANGED <<now, digestHour, breaks, counted, excused>>
  PROVE  IInv'
<1> USE DEF IInv
<1>1. now \in Nat /\ now >= 1
  BY ClockType DEF TypeOK
<1>2. Table' = Table
  <2>1. l \in Leads /\ row[l].created >= 1
    BY <1>1 DEF Stamped, Table
  <2>2. row'[l] # Absent
    BY <2>1 DEF Absent
  <2>3. QED
    BY <2>1, <2>2 DEF Table, Absent
<1>3. \A k \in Leads : row'[k].created = row[k].created
  OBVIOUS
<1>4. TypeOK'
  BY DEF TypeOK
<1>5. Stamped'
  BY <1>1, <1>2, <1>3 DEF Stamped, Table
<1>6. \A k \in Leads : Due(k)' = Due(k)
  BY <1>3 DEF Due, Day
<1>7. NotYetCounted'
  BY <1>2, <1>6 DEF NotYetCounted, Day
<1>8. CountedIfCame'
  <2>1. ASSUME NEW k \in Table PROVE HourComesOnce(Due(k))' = HourComesOnce(Due(k))
                                     /\ HourCame(Due(k))' = HourCame(Due(k))
    BY <1>6, <2>1 DEF HourComesOnce, HourCame, Table
  <2>2. QED
    BY <1>2, <1>6, <2>1 DEF CountedIfCame, Table
<1>9. QED
  BY <1>4, <1>5, <1>7, <1>8

\* A new lead is due after today: no digest has counted it, and its hour is still to come.
LEMMA CreateKeeps ==
  ASSUME IInv, NEW l \in Leads, Create(l)
  PROVE  IInv'
<1> USE DEF IInv
<1>1. PICK r \in Reps \cup {NoRep}, s \in Arrivals :
        row' = [row EXCEPT ![l] = [state |-> s, rep |-> r, created |-> now, updated |-> now]]
  BY DEF Create
<1>2. /\ l \notin Table
      /\ now' = now /\ digestHour' = digestHour /\ counted' = counted /\ excused' = excused
  BY DEF Create
<1>3. now \in Nat /\ now >= 1 /\ now \in 1..now
  BY ClockType DEF TypeOK
<1>4. row'[l] = [state |-> s, rep |-> r, created |-> now, updated |-> now]
      /\ \A k \in Leads : k # l => row'[k] = row[k]
  BY <1>1 DEF TypeOK
<1>5. Table' = Table \cup {l}
  <2>1. row'[l] # Absent
    BY <1>3, <1>4 DEF Absent
  <2>2. QED
    BY <2>1, <1>4 DEF Table, Absent
<1>6. TypeOK'
  <2>1. row'[l] \in FigureRow
    BY <1>3, <1>4, ArrivalAssumption DEF FigureRow
  <2>2. QED
    BY <2>1, <1>1, <1>2 DEF TypeOK
<1>7. Stamped'
  BY <1>2, <1>3, <1>4, <1>5 DEF Stamped, Table
<1>8. \A k \in Table : k # l /\ Due(k)' = Due(k)
  BY <1>2, <1>4 DEF Due, Day, Table
<1>9. Due(l)' = Day(now) + 1 /\ Day(now) \in Nat
  BY <1>2, <1>4, ClockType DEF Due, Day, TypeOK
<1>10. counted[l] = 0
  BY <1>2 DEF NotYetCounted
<1>11. NotYetCounted'
  BY <1>2, <1>5, <1>8, <1>10 DEF NotYetCounted, Day
<1>12. ~HourCame(Due(l))'
  <2> SUFFICES ASSUME NEW t \in 1..now, Wall[t] = <<Day(now) + 1, digestHour>>
               PROVE  FALSE
    BY <1>2, <1>9 DEF HourCame
  <2>1. t \in DOMAIN Wall /\ t <= now /\ now \in DOMAIN Wall
    BY <1>3, ClockType DEF TypeOK
  <2>2. Day(t) <= Day(now) /\ Day(t) = Day(now) + 1
    BY <2>1, ClockType DEF Day
  <2>3. QED
    BY <2>2, <1>9
<1>13. CountedIfCame'
  <2>1. \A k \in Table : /\ HourComesOnce(Due(k))' = HourComesOnce(Due(k))
                         /\ HourCame(Due(k))' = HourCame(Due(k))
    BY <1>2, <1>8 DEF HourComesOnce, HourCame
  <2>2. QED
    BY <2>1, <1>2, <1>5, <1>8, <1>10, <1>12 DEF CountedIfCame
<1>14. QED
  BY <1>6, <1>7, <1>11, <1>13

\* What an hour that passes leaves of the types.
LEMMA TickType ==
  ASSUME IInv, NEW up \in BOOLEAN, Tick(up)
  PROVE  /\ now \in 1..now /\ now' = now + 1 /\ now' \in DOMAIN Wall
         /\ Day(now) \in Nat /\ Day(now') \in Nat /\ Day(now) <= Day(now')
         /\ row' = row /\ digestHour' = digestHour /\ Table' = Table
         /\ \A l \in Table : Due(l)' = Due(l)
         /\ TypeOK' /\ Stamped'
<1> USE DEF IInv
<1>1. now \in DOMAIN Wall /\ now \in 1..now /\ now' = now + 1 /\ now' \in DOMAIN Wall
  BY ClockType DEF TypeOK, Tick
<1>2. Day(now) \in Nat /\ Day(now') \in Nat /\ Day(now) <= Day(now')
  BY <1>1, ClockType
<1>3. row' = row /\ digestHour' = digestHour /\ Table' = Table
  BY DEF Tick, Table
<1>4. \A l \in Table : Due(l)' = Due(l)
  BY <1>3 DEF Due, Day
<1>5. counted' \in [Leads -> Nat]
  BY DEF Tick, Digest, TypeOK
<1>6. excused' \subseteq Nat
  BY <1>2 DEF Tick, TypeOK
<1>7. Stamped'
  BY <1>1, <1>3 DEF Stamped
<1>8. QED
  BY <1>1, <1>2, <1>3, <1>4, <1>5, <1>6, <1>7 DEF TypeOK

\* The digest adds one for the leads that are due on its day, and only when its hour comes.
LEMMA TickCounts ==
  ASSUME IInv, NEW up \in BOOLEAN, Tick(up), NEW l \in Leads
  PROVE  counted'[l] = IF /\ up /\ Hour(now') = digestHour
                          /\ l \in Table /\ Due(l) = Day(now')
                       THEN counted[l] + 1 ELSE counted[l]
<1>1. counted[l] \in Nat
  BY DEF IInv, TypeOK
<1>2. row' = row /\ Table' = Table
  BY DEF Tick, Table
<1>3. l \in Reported(now') <=> l \in Table /\ Due(l) = Day(now')
  BY <1>2 DEF Reported, Due
<1>4. Digest(now')[l] = IF l \in Reported(now') THEN counted[l] + 1 ELSE counted[l]
  BY <1>1 DEF Digest
<1>5. QED
  BY <1>3, <1>4 DEF Tick

\* A passing hour counts a lead exactly if it is the hour of the digest on which it is due.
LEMMA TickKeeps ==
  ASSUME IInv, NEW up \in BOOLEAN, Tick(up)
  PROVE  IInv'
<1>1. NotYetCounted'
  <2> SUFFICES ASSUME NEW l \in Leads, ~(l \in Table /\ Due(l) <= Day(now'))
               PROVE  counted'[l] = 0
    BY TickType DEF NotYetCounted, Day
  <2>1. ~(l \in Table /\ Due(l) <= Day(now))
    BY TickType, LeadType DEF IInv
  <2>2. counted[l] = 0
    BY <2>1 DEF IInv, NotYetCounted
  <2>3. ~(l \in Table /\ Due(l) = Day(now'))
    BY TickType
  <2>4. QED
    BY <2>2, <2>3, TickCounts
<1>2. ASSUME NEW l \in Table, Due(l) \notin excused', HourComesOnce(Due(l))
      PROVE  counted'[l] = IF HourCame(Due(l))' THEN 1 ELSE 0
  <2>1. l \in Leads /\ Due(l) \in Nat /\ counted[l] \in Nat
    BY <1>2, LeadType DEF IInv, TypeOK
  <2>2. Due(l) \notin excused /\ (~up => Due(l) # Day(now'))
    BY <1>2 DEF Tick
  <2>3. counted[l] = IF HourCame(Due(l)) THEN 1 ELSE 0
    BY <1>2, <2>2 DEF IInv, CountedIfCame
  <2>4. PICK t \in DOMAIN Wall : /\ Wall[t] = <<Due(l), digestHour>>
                                 /\ \A s \in DOMAIN Wall : Wall[s] = <<Due(l), digestHour>> => s = t
    BY <1>2, OneInstant
  <2>5. /\ t \in Nat /\ t >= 1 /\ now \in Nat /\ 1..now' \subseteq DOMAIN Wall
        /\ 1..now \subseteq DOMAIN Wall
    BY TickType, ClockType
  <2>6. HourCame(Due(l)) <=> t <= now
    BY <2>4, <2>5 DEF HourCame
  <2>7. HourCame(Due(l))' <=> t <= now'
    <3>1. HourCame(Due(l))' <=> \E s \in 1..now' : Wall[s] = <<Due(l), digestHour>>
      BY TickType DEF HourCame
    <3>2. now' \in Nat
      BY <2>5, TickType
    <3>3. QED
      BY <2>4, <2>5, <3>1, <3>2
  <2>8. t = now' <=> Due(l) = Day(now') /\ Hour(now') = digestHour
    <3>1. Wall[now'] = <<Day(now'), Hour(now')>>
      BY TickType, ClockType
    <3>2. QED
      BY <2>4, <3>1, TickType
  <2>9. counted'[l] = IF t = now' THEN counted[l] + 1 ELSE counted[l]
    BY <1>2, <2>1, <2>2, <2>8, TickCounts
  <2>10. QED
    BY <2>3, <2>5, <2>6, <2>7, <2>9, TickType
<1>3. CountedIfCame'
  <2>1. \A l \in Table : HourComesOnce(Due(l))' = HourComesOnce(Due(l))
    BY TickType DEF HourComesOnce
  <2>2. QED
    BY <2>1, <1>2, TickType DEF CountedIfCame
<1>4. QED
  BY <1>1, <1>3, TickType DEF IInv

\* The hour of the digest is changed: what is due earlier has been counted if its old hour
\* came once, what is due later has not been counted and will be at the new hour.
LEMMA ChangeKeeps ==
  ASSUME IInv, NEW h \in DigestHours, ChangeDigestTime(h)
  PROVE  IInv'
<1>1. /\ digestHour' = h /\ row' = row /\ now' = now /\ counted' = counted /\ Table' = Table
      /\ \A l \in Table : Due(l)' = Due(l)
  BY DEF ChangeDigestTime, Table, Due, Day
<1>2. now \in DOMAIN Wall /\ now \in Nat /\ 1..now \subseteq DOMAIN Wall /\ Day(now) \in Nat
  BY ClockType DEF IInv, TypeOK
<1>3. TypeOK'
  <2>1. {d \in 0..Day(now) : ~HourComesOnce(d)} \subseteq Nat
    BY <1>2
  <2>2. excused' = excused \cup {Day(now)} \cup {d \in 0..Day(now) : ~HourComesOnce(d)}
    BY DEF ChangeDigestTime
  <2>3. QED
    BY <1>1, <1>2, <2>1, <2>2 DEF IInv, TypeOK
<1>4. Stamped' /\ NotYetCounted'
  BY <1>1 DEF IInv, Stamped, NotYetCounted, Day
<1>5. ASSUME NEW l \in Table, Due(l) \notin excused', HourComesOnce(Due(l))'
      PROVE  counted[l] = IF HourCame(Due(l))' THEN 1 ELSE 0
  <2>1. l \in Leads /\ Due(l) \in Nat
    BY <1>5, LeadType DEF IInv
  <2>2. /\ Due(l) \notin excused /\ Due(l) # Day(now)
        /\ Due(l) <= Day(now) => HourComesOnce(Due(l))
    BY <1>2, <1>5, <2>1 DEF ChangeDigestTime
  <2>3. PICK t \in DOMAIN Wall : Wall[t] = <<Due(l), digestHour'>>
    <3>1. HourComesOnce(Due(l))' <=> Cardinality({t \in DOMAIN Wall : Wall[t] = <<Due(l), h>>}) = 1
      BY <1>1, <1>5 DEF HourComesOnce
    <3>2. {t \in DOMAIN Wall : Wall[t] = <<Due(l), h>>} # {}
      BY <1>5, <3>1, FS_EmptySet
    <3>3. QED
      BY <1>1, <3>2
  <2>4. HourCame(Due(l))' <=> \E s \in 1..now : Wall[s] = <<Due(l), h>>
    BY <1>1, <1>5 DEF HourCame
  <2>5. t \in Nat /\ t >= 1 /\ Day(t) = Due(l)
    BY <2>3, ClockType DEF Day
  <2>6. CASE Due(l) < Day(now)
    <3>1. HourCame(Due(l))'
      <4>1. ~(now <= t)
        BY <1>2, <2>1, <2>5, <2>6, ClockType
      <4>2. QED
        BY <1>1, <1>2, <2>3, <2>4, <2>5, <4>1
    <3>2. HourCame(Due(l))
      <4>1. PICK s \in DOMAIN Wall : Wall[s] = <<Due(l), digestHour>>
        BY <1>2, <2>1, <2>2, <2>6, OneInstant
      <4>2. s \in Nat /\ s >= 1 /\ Day(s) = Due(l)
        BY <4>1, ClockType DEF Day
      <4>3. ~(now <= s)
        BY <1>2, <2>1, <2>6, <4>2, ClockType
      <4>4. QED
        BY <1>2, <4>1, <4>2, <4>3 DEF HourCame
    <3>3. QED
      BY <1>2, <1>5, <2>1, <2>2, <2>6, <3>1, <3>2 DEF IInv, CountedIfCame
  <2>7. CASE Due(l) > Day(now)
    <3>1. ~HourCame(Due(l))'
      <4> SUFFICES ASSUME NEW s \in 1..now, Wall[s] = <<Due(l), h>> PROVE FALSE
        BY <2>4
      <4>1. Day(s) = Due(l) /\ s \in DOMAIN Wall /\ s <= now
        BY <1>2 DEF Day
      <4>2. QED
        BY <1>2, <2>1, <2>7, <4>1, ClockType
    <3>2. counted[l] = 0
      BY <1>2, <2>1, <2>7 DEF IInv, NotYetCounted
    <3>3. QED
      BY <3>1, <3>2
  <2>8. QED
    BY <1>2, <2>1, <2>2, <2>6, <2>7
<1>6. CountedIfCame'
  BY <1>1, <1>5 DEF CountedIfCame
<1>7. QED
  BY <1>3, <1>4, <1>6 DEF IInv

\* Every step.
LEMMA Step == IInv /\ [Next]_vars => IInv'
<1> SUFFICES ASSUME IInv, [Next]_vars PROVE IInv'
  OBVIOUS
<1>1. ASSUME NEW l \in Leads, Create(l) PROVE IInv'
  BY <1>1, CreateKeeps
<1>2. ASSUME NEW l \in Leads, NEW s \in LeadStates, Advance(l, s) PROVE IInv'
  <2>1. l \in Table /\ row[l] \in FigureRow /\ now \in Nat
    BY <1>2, LeadType, ClockType DEF Advance, IInv, TypeOK
  <2>2. /\ row' = [row EXCEPT ![l].state = s, ![l].updated = now]
        /\ UNCHANGED <<now, digestHour, breaks, counted, excused>>
    BY <1>2 DEF Advance
  <2>3. row' = [row EXCEPT ![l] = [row[l] EXCEPT !.state = s, !.updated = now]]
    BY <1>2, <2>1, <2>2 DEF IInv, TypeOK, FigureRow
  <2>4. /\ row' \in [Leads -> FigureRow] /\ \A k \in Leads : k # l => row'[k] = row[k]
        /\ row'[l].created = row[l].created /\ row'[l].updated = now
    BY <1>2, <2>1, <2>3 DEF IInv, TypeOK, FigureRow
  <2>5. QED
    BY <2>1, <2>2, <2>4, SameDigest
<1>3. ASSUME NEW l \in Leads, NEW r \in Reps, Assign(l, r) PROVE IInv'
  <2>1. l \in Table /\ row[l] \in FigureRow /\ now \in Nat
    BY <1>3, LeadType, ClockType DEF Assign, IInv, TypeOK
  <2>2. /\ row' = [row EXCEPT ![l].rep = r, ![l].updated = now]
        /\ UNCHANGED <<now, digestHour, breaks, counted, excused>>
    BY <1>3 DEF Assign
  <2>3. row' = [row EXCEPT ![l] = [row[l] EXCEPT !.rep = r, !.updated = now]]
    BY <1>3, <2>1, <2>2 DEF IInv, TypeOK, FigureRow
  <2>4. /\ row' \in [Leads -> FigureRow] /\ \A k \in Leads : k # l => row'[k] = row[k]
        /\ row'[l].created = row[l].created /\ row'[l].updated = now
    BY <1>3, <2>1, <2>3 DEF IInv, TypeOK, FigureRow
  <2>5. QED
    BY <2>1, <2>2, <2>4, SameDigest
<1>4. ASSUME NEW l \in Leads, Note(l) PROVE IInv'
  <2>1. l \in Table /\ row[l] \in FigureRow /\ now \in Nat
    BY <1>4, LeadType, ClockType DEF Note, IInv, TypeOK
  <2>2. /\ row' = [row EXCEPT ![l] = [row[l] EXCEPT !.updated = now]]
        /\ UNCHANGED <<now, digestHour, breaks, counted, excused>>
    BY <1>4 DEF Note
  <2>3. /\ row' \in [Leads -> FigureRow] /\ \A k \in Leads : k # l => row'[k] = row[k]
        /\ row'[l].created = row[l].created /\ row'[l].updated = now
    BY <1>4, <2>1, <2>2 DEF IInv, TypeOK, FigureRow
  <2>4. QED
    BY <2>1, <2>2, <2>3, SameDigest
<1>5. ASSUME NEW up \in BOOLEAN, Tick(up) PROVE IInv'
  BY <1>5, TickKeeps
<1>6. ASSUME NEW h \in DigestHours, ChangeDigestTime(h) PROVE IInv'
  BY <1>6, ChangeKeeps
<1>7. ASSUME UNCHANGED vars PROVE IInv'
  BY <1>7 DEF vars, IInv, TypeOK, Stamped, NotYetCounted, CountedIfCame, Table, Due, Day,
              HourComesOnce, HourCame
<1>8. QED
  BY <1>1, <1>2, <1>3, <1>4, <1>5, <1>6, <1>7 DEF Next

\* So the invariant always holds.
LEMMA Invariance == Spec => []IInv
<1>1. QED
  BY Start, Step, PTL DEF Spec

(***************************************************************************)
(* Each lead is counted by one digest, that of the day after it came, also *)
(* when the clocks are changed, unless the hour of the digest does not     *)
(* come exactly once on that day, or the server was down or the hour       *)
(* changed then: send_daily_digest and the job that calls it every hour.   *)
(***************************************************************************)
THEOREM CountedByOneDigest == Spec => []DigestCountsOnce
<1>1. IInv => DigestCountsOnce
  <2> SUFFICES ASSUME IInv, NEW l \in Table, Due(l) \notin excused, HourComesOnce(Due(l))
               PROVE  counted[l] <= 1 /\ (Day(now) > Due(l) => counted[l] = 1)
    BY DEF DigestCountsOnce, Due
  <2>1. counted[l] = IF HourCame(Due(l)) THEN 1 ELSE 0
    BY DEF IInv, CountedIfCame
  <2>2. ASSUME Day(now) > Due(l) PROVE HourCame(Due(l))
    <3>1. PICK t \in DOMAIN Wall : Wall[t] = <<Due(l), digestHour>>
      BY OneInstant
    <3>2. t \in Nat /\ t >= 1 /\ Day(t) = Due(l)
      BY <3>1, ClockType DEF Day
    <3>3. now \in DOMAIN Wall /\ now \in Nat /\ Day(now) \in Nat /\ Due(l) \in Nat
      BY ClockType, LeadType DEF IInv, TypeOK
    <3>4. ~(now <= t)
      BY <2>2, <3>2, <3>3, ClockType
    <3>5. QED
      BY <3>1, <3>2, <3>3, <3>4 DEF HourCame
  <2>3. QED
    BY <2>1, <2>2
<1>2. QED
  BY <1>1, Invariance, PTL
-----------------------------------------------------------------------------
(* The badges                                                              *)

\* A list that is not full shows every row that belongs on it.
LEMMA NotFullShowsAll ==
  ASSUME IInv, NEW S \in SUBSET Table, NEW n \in Nat, Cardinality(Longest(S, n)) < n
  PROVE  Longest(S, n) = S
<1>1. now \in Nat /\ \A k \in S : row[k].updated \in Nat /\ Age(k) = now - row[k].updated
  BY ClockType DEF IInv, TypeOK, Stamped, Age
<1>2. Longest(S, n) \subseteq S
  BY DEF Longest
<1>3. IsFiniteSet(Longest(S, n))
  <2>1. Longest(S, n) \subseteq Leads
    BY <1>2 DEF Table
  <2>2. QED
    BY <2>1, LeadsAssumption, FS_Subset
<1>4. ASSUME NEW x \in S, x \notin Longest(S, n) PROVE FALSE
  <2> DEFINE stamps == {row[k].updated : k \in S \ Longest(S, n)}
  <2>1. Min(stamps) \in stamps /\ \A v \in stamps : Min(stamps) <= v
    <3>1. stamps \in SUBSET Nat /\ stamps # {}
      BY <1>1, <1>4
    <3> HIDE DEF stamps
    <3>2. QED
      BY <3>1, SmallestMember
  <2>2. PICK y \in S \ Longest(S, n) : row[y].updated = Min(stamps)
    BY <2>1
  <2>3. \A k \in S \ Longest(S, n) : ~(row[k].updated < row[y].updated)
    <3>1. ASSUME NEW k \in S \ Longest(S, n) PROVE ~(row[k].updated < row[y].updated)
      <4>1. row[k].updated \in stamps /\ row[k].updated \in Nat /\ row[y].updated \in Nat
        BY <1>1
      <4> HIDE DEF stamps
      <4>2. Min(stamps) <= row[k].updated
        BY <2>1, <4>1
      <4>3. QED
        BY <2>2, <4>1, <4>2
    <3>2. QED
      BY <3>1
  <2>4. {k \in S : Age(k) > Age(y)} \subseteq Longest(S, n)
    BY <1>1, <2>3
  <2>5. /\ Cardinality({k \in S : Age(k) > Age(y)}) <= Cardinality(Longest(S, n))
        /\ IsFiniteSet({k \in S : Age(k) > Age(y)})
    BY <1>3, <2>4, FS_Subset
  <2>6. Cardinality({k \in S : Age(k) > Age(y)}) < n
    BY <1>3, <2>5, FS_CardinalityType
  <2>7. y \in Longest(S, n)
    BY <2>2, <2>6 DEF Longest
  <2>8. QED
    BY <2>2, <2>7
<1>5. QED
  BY <1>2, <1>4

(***************************************************************************)
(* The lists do not contradict the badges beside them, for any limits of   *)
(* the lists and the page (leads_partial, get_attention_items,             *)
(* get_lead_health and the stuck-lead sweep).                              *)
(***************************************************************************)
THEOREM Badges == Spec => []BadgesAgree
<1> USE LimitAssumption
<1>1. ASSUME IInv PROVE BadgesAgree
  <2>1. \A l \in Table : Age(l) \in Int
    BY <1>1, ClockType DEF IInv, TypeOK, Stamped, Age
  <2>2. ASSUME NEW who \in Reps \cup {Manager}, NEW l \in Stale(who)
        PROVE  Badge(l) \in {"hot", "dead"}
    <3>1. l \in Table /\ Age(l) > 3 * DayLength
      BY <2>2 DEF Stale, Longest, Newest, Sees
    <3>2. /\ ~(Age(l) < DayLength) /\ ~(Age(l) < 2 * DayLength)
          /\ Age(l) \notin (2 * DayLength)..(3 * DayLength - 1)
      BY <2>1, <3>1
    <3>3. QED
      BY <3>2 DEF Badge
  <2>3. ASSUME NEW l \in GoingCold PROVE Badge(l) \in {"cold", "dead"}
    <3>1. l \in Table /\ row[l].state = "ENGAGED" /\ Age(l) > 2 * DayLength
      BY <2>3 DEF GoingCold, Longest
    <3>2. ~(Age(l) < DayLength) /\ ~(Age(l) < 2 * DayLength)
      BY <2>1, <3>1
    <3>3. QED
      BY <3>1, <3>2 DEF Badge
  <2>4. ASSUME NEW l \in Table, row[l].state \notin Ended, Age(l) > 3 * DayLength,
               l \in Newest(Table), ~(Cardinality(Stale(Manager)) >= ListLimit)
        PROVE  l \in Stale(Manager)
    <3> DEFINE S == {k \in Newest(Table) : row[k].state \notin Ended /\ Age(k) > 3 * DayLength}
    <3>1. Stale(Manager) = Longest(S, ListLimit)
      BY DEF Stale, Sees
    <3>2. S \in SUBSET Table /\ l \in S
      BY <2>4 DEF Newest
    <3>3. Cardinality(Longest(S, ListLimit)) \in Nat
      <4>1. Longest(S, ListLimit) \subseteq Leads
        BY <3>2 DEF Longest, Table
      <4>2. QED
        BY <4>1, LeadsAssumption, FS_Subset, FS_CardinalityType
    <3>4. Cardinality(Longest(S, ListLimit)) < ListLimit
      BY <2>4, <3>1, <3>3
    <3>5. QED
      BY <1>1, <3>1, <3>2, <3>4, NotFullShowsAll
  <2>5. Unclaimed \subseteq Stuck
    <3>1. ASSUME NEW l \in Unclaimed PROVE l \in Stuck
      <4>1. l \in Table /\ row[l].state = "ASSIGNED" /\ Age(l) > 2
        BY <3>1 DEF Unclaimed, Longest
      <4>2. QED
        BY <2>1, <4>1 DEF Stuck
    <3>2. QED
      BY <3>1
  <2>6. QED
    BY <2>2, <2>3, <2>4, <2>5 DEF BadgesAgree
<1>2. QED
  BY <1>1, Invariance, PTL
-----------------------------------------------------------------------------
(* Sums                                                                    *)

\* How many of "members" are of a kind among "kinds".
OfKinds(members, kind, kinds) == Cardinality({l \in members : kind[l] \in kinds})

\* A member of a set, the one that a sum takes next.
Chosen(s) == CHOOSE x \in s : TRUE

\* Kinds that are counted one by one add up to their members, counted at once.
LEMMA SumOfKinds ==
  ASSUME NEW members, IsFiniteSet(members), NEW kinds, IsFiniteSet(kinds), NEW kind,
         NEW number, DOMAIN number = kinds,
         \A k \in kinds : number[k] = Cardinality({l \in members : kind[l] = k})
  PROVE  SumFunction(number) = Cardinality({l \in members : kind[l] \in kinds})
<1> DEFINE Add(f, s) == IF s = {} THEN 0 ELSE number[Chosen(s)] + f[s \ {Chosen(s)}]
           Is(f) == f = [s \in SUBSET kinds |-> Add(f, s)]
           sum == CHOOSE f : Is(f)
           count == [s \in SUBSET kinds |-> OfKinds(members, kind, s)]
<1>1. SumFunction(number) = sum[kinds]
  BY Zenon DEF SumFunction, SumFunctionOnSet, FoldFunctionOnSet, MapThenFoldSet, Chosen
<1>2. ASSUME NEW s \in SUBSET kinds
      PROVE  OfKinds(members, kind, s) \in Nat
  BY FS_Subset, FS_CardinalityType DEF OfKinds
<1>3. ASSUME NEW s \in SUBSET kinds, s # {}
      PROVE  /\ Chosen(s) \in s /\ s \ {Chosen(s)} \in SUBSET kinds
             /\ OfKinds(members, kind, s) = number[Chosen(s)] + OfKinds(members, kind, s \ {Chosen(s)})
             /\ number[Chosen(s)] \in Nat
  <2> DEFINE x == Chosen(s)
             A == {l \in members : kind[l] = x}
             B == {l \in members : kind[l] \in s \ {x}}
  <2>1. x \in s
    BY <1>3 DEF Chosen
  <2> HIDE DEF x
  <2>2. {l \in members : kind[l] \in s} = A \cup B /\ A \cap B = {}
    BY <2>1
  <2>3. IsFiniteSet(A) /\ IsFiniteSet(B) /\ Cardinality(A) \in Nat /\ Cardinality(B) \in Nat
    BY FS_Subset, FS_CardinalityType
  <2>4. Cardinality(A \cup B) = Cardinality(A) + Cardinality(B) - Cardinality(A \cap B)
    BY <2>3, FS_Union
  <2>5. Cardinality(A \cap B) = 0
    BY <2>2, FS_EmptySet
  <2>6. Cardinality(A \cup B) = Cardinality(A) + Cardinality(B)
    BY <2>3, <2>4, <2>5
  <2>7. number[x] = Cardinality(A)
    BY <2>1
  <2> HIDE DEF A, B
  <2>8. OfKinds(members, kind, s) = Cardinality(A \cup B) /\ OfKinds(members, kind, s \ {x}) = Cardinality(B)
    BY <2>2 DEF OfKinds, B
  <2>9. QED
    BY <2>1, <2>3, <2>6, <2>7, <2>8 DEF x
<1>4. OfKinds(members, kind, {}) = 0
  <2>1. {l \in members : kind[l] \in {}} = {}
    OBVIOUS
  <2>2. QED
    BY <2>1, FS_EmptySet DEF OfKinds
<1>5. Is(sum)
  <2>1. \A s \in SUBSET kinds : count[s] = Add(count, s)
    <3>1. ASSUME NEW s \in SUBSET kinds PROVE count[s] = Add(count, s)
      <4>1. CASE s = {}
        BY <1>4, <4>1
      <4>2. CASE s # {}
        BY <1>3, <4>2
      <4>3. QED
        BY <4>1, <4>2
    <3>2. QED
      BY <3>1
  <2>2. Is(count)
    BY <2>1
  <2> HIDE DEF Is, count
  <2>3. QED
    BY <2>2
<1> HIDE DEF sum
<1>6. \A s \in SUBSET kinds : sum[s] = Add(sum, s)
  BY <1>5
<1>7. ASSUME NEW t \in SUBSET kinds, sum[t] # OfKinds(members, kind, t) PROVE FALSE
  <2> DEFINE wrong == {s \in SUBSET kinds : sum[s] # OfKinds(members, kind, s)}
             sizes == {Cardinality(s) : s \in wrong}
  <2>1. \A s \in SUBSET kinds : IsFiniteSet(s) /\ Cardinality(s) \in Nat
    BY FS_Subset, FS_CardinalityType
  <2>2. sizes \in SUBSET Nat /\ sizes # {}
    BY <1>7, <2>1
  <2> DEFINE m == Min(sizes)
  <2>3. m \in sizes /\ \A n \in sizes : m <= n
    <3> HIDE DEF sizes
    <3>1. QED
      BY <2>2, SmallestMember
  <2>4. PICK s \in wrong : Cardinality(s) = m
    BY <2>3
  <2> HIDE DEF m
  <2>5. s # {}
    BY <1>4, <1>6, <2>4
  <2> DEFINE rest == s \ {Chosen(s)}
  <2>6. rest \in SUBSET kinds /\ Cardinality(rest) < m
    <3>1. Chosen(s) \in s /\ rest \in SUBSET kinds
      BY <1>3, <2>5
    <3>2. Cardinality(rest) = Cardinality(s) - 1
      BY <2>1, <3>1, FS_RemoveElement
    <3>3. QED
      BY <2>1, <2>4, <3>1, <3>2
  <2>7. rest \notin wrong
    <3>1. ASSUME rest \in wrong PROVE FALSE
      <4>1. m <= Cardinality(rest) /\ m \in Nat /\ Cardinality(rest) \in Nat
        BY <2>1, <2>2, <2>3, <2>6, <3>1
      <4>2. QED
        BY <2>6, <4>1
    <3>2. QED
      BY <3>1
  <2>8. sum[s] = number[Chosen(s)] + sum[rest] /\ sum[rest] = OfKinds(members, kind, rest)
    BY <1>6, <2>5, <2>6, <2>7
  <2>9. sum[s] = OfKinds(members, kind, s)
    BY <1>3, <2>5, <2>8
  <2>10. QED
    BY <2>4, <2>9
<1>8. sum[kinds] = OfKinds(members, kind, kinds)
  BY <1>7
<1>9. QED
  BY <1>1, <1>8 DEF OfKinds
-----------------------------------------------------------------------------
(* The pages                                                               *)

\* A lead on file is in a state that the code knows.
StatesKnown == \A l \in Table : row[l].state \in LeadStates

\* Nothing stores a state that is not one of the table's.
LEMMA StatesStep == IInv /\ StatesKnown /\ [Next]_vars => StatesKnown'
<1> SUFFICES ASSUME IInv, StatesKnown, [Next]_vars, NEW l \in Table'
             PROVE  row'[l].state \in LeadStates
  BY DEF StatesKnown
<1> USE DEF IInv, TypeOK, StatesKnown
<1>1. l \in Leads /\ row'[l] # Absent
  BY DEF Table, Absent
<1>2. row'[l] = row[l] => row'[l].state \in LeadStates
  BY <1>1 DEF Table
<1>3. ASSUME NEW k \in Leads, Create(k) PROVE row'[l].state \in LeadStates
  BY <1>1, <1>2, <1>3, ArrivalAssumption DEF Create
<1>4. ASSUME NEW k \in Leads, NEW s \in LeadStates, Advance(k, s) PROVE row'[l].state \in LeadStates
  BY <1>1, <1>2, <1>4 DEF Advance, FigureRow
<1>5. ASSUME NEW k \in Leads, NEW r \in Reps, Assign(k, r) PROVE row'[l].state \in LeadStates
  BY <1>1, <1>2, <1>5 DEF Assign, FigureRow
<1>6. ASSUME NEW k \in Leads, Note(k) PROVE row'[l].state \in LeadStates
  BY <1>1, <1>2, <1>6 DEF Note, FigureRow
<1>7. (UNCHANGED row) => row'[l].state \in LeadStates
  BY <1>2
<1>8. QED
  BY <1>3, <1>4, <1>5, <1>6, <1>7 DEF Next, Tick, ChangeDigestTime, vars

\* So it is of every behaviour.
LEMMA StatesInvariance == Spec => [](IInv /\ StatesKnown)
<1>1. Init => StatesKnown
  BY DEF Init, StatesKnown, Table
<1>2. QED
  BY <1>1, Invariance, StatesStep, PTL DEF Spec

\* The leads of some rows that are in some states.
InState(rows, some) == {l \in rows : row[l].state \in some}

\* The kinds of lead that the pages count.
LEMMA Sets ==
  /\ Ended \subseteq LeadStates /\ Pipeline \subseteq LeadStates /\ IsFiniteSet(Pipeline)
  /\ IsFiniteSet(LeadStates)
<1>1. Ended \subseteq LeadStates /\ Pipeline \subseteq LeadStates
  BY DEF Ended, Pipeline, LeadStates
<1>2. IsFiniteSet(LeadStates)
  <2> DEFINE nth == [i \in 1..11 |-> CASE i = 1 -> "NEW" [] i = 2 -> "AUTO_REPLIED" [] i = 3 -> "ASSIGNED"
                                       [] i = 4 -> "CLAIMED" [] i = 5 -> "ENGAGED" [] i = 6 -> "APPT_SET"
                                       [] i = 7 -> "SHOWED" [] i = 8 -> "SOLD" [] i = 9 -> "LOST"
                                       [] i = 10 -> "ESCALATED" [] OTHER -> "OPTED_OUT"]
  <2>1. nth \in Surjection(1..11, LeadStates)
    BY DEF Surjection, LeadStates
  <2>2. QED
    BY <2>1, FS_NatSurjection DEF ExistsSurjection
<1>3. QED
  BY <1>1, <1>2, FS_Subset

\* Rows in one of two kinds of state, counted apart and together.
LEMMA TwoKinds ==
  ASSUME NEW rows, IsFiniteSet(rows), NEW A, NEW B, A \cap B = {}
  PROVE  /\ Number(rows, A) \in Nat /\ Number(rows, B) \in Nat
         /\ Number(rows, A) + Number(rows, B) = Number(rows, A \cup B)
         /\ Number(rows, A \cup B) <= Cardinality(rows)
         /\ Cardinality(rows) \in Nat
<1>1. /\ IsFiniteSet(InState(rows, A)) /\ IsFiniteSet(InState(rows, B))
      /\ Cardinality(InState(rows, A)) \in Nat /\ Cardinality(InState(rows, B)) \in Nat
      /\ Cardinality(InState(rows, A \cup B)) <= Cardinality(rows)
      /\ Cardinality(rows) \in Nat
  <2>1. \A C : InState(rows, C) \in SUBSET rows
    BY DEF InState
  <2>2. \A T \in SUBSET rows : IsFiniteSet(T) /\ Cardinality(T) \in Nat /\ Cardinality(T) <= Cardinality(rows)
    BY FS_Subset, FS_CardinalityType
  <2> HIDE DEF InState
  <2>3. QED
    BY <2>1, <2>2
<1>2. /\ InState(rows, A \cup B) = InState(rows, A) \cup InState(rows, B)
      /\ InState(rows, A) \cap InState(rows, B) = {}
  BY DEF InState
<1>3. Cardinality(InState(rows, A) \cap InState(rows, B)) = 0
  BY <1>2, FS_EmptySet
<1>4. Cardinality(InState(rows, A \cup B))
        = Cardinality(InState(rows, A)) + Cardinality(InState(rows, B))
  <2> DEFINE X == InState(rows, A)
             Y == InState(rows, B)
  <2> HIDE DEF X, Y
  <2>1. IsFiniteSet(X) /\ IsFiniteSet(Y) /\ Cardinality(X) \in Nat /\ Cardinality(Y) \in Nat
    BY <1>1 DEF X, Y
  <2>2. Cardinality(X \cup Y) = Cardinality(X) + Cardinality(Y) - Cardinality(X \cap Y)
    BY <2>1, FS_Union
  <2>3. Cardinality(X \cap Y) = 0
    BY <1>3 DEF X, Y
  <2>4. Cardinality(X \cup Y) = Cardinality(X) + Cardinality(Y)
    BY <2>1, <2>2, <2>3
  <2>5. QED
    BY <1>2, <2>4 DEF X, Y
<1>5. QED
  BY <1>1, <1>4 DEF Number, InState

\* What the stages of the funnel add up to is all but the leads that are in none.
LEMMA FunnelAgrees ==
  ASSUME NEW rows, IsFiniteSet(rows), \A l \in rows : row[l].state \in LeadStates
  PROVE  SumFunction(Funnel(rows)) + Number(rows, LeadStates \ Pipeline) = Cardinality(rows)
<1> DEFINE state == [l \in rows |-> row[l].state]
<1>1. \A s \in Pipeline : Funnel(rows)[s] = Cardinality({l \in rows : state[l] = s})
  <2>1. ASSUME NEW s \in Pipeline PROVE Funnel(rows)[s] = Cardinality({l \in rows : state[l] = s})
    <3>1. {l \in rows : row[l].state \in {s}} = {l \in rows : state[l] = s}
      OBVIOUS
    <3>2. Funnel(rows)[s] = Cardinality({l \in rows : row[l].state \in {s}})
      BY DEF Funnel, Number
    <3>3. QED
      BY <3>1, <3>2
  <2>2. QED
    BY <2>1
<1>2. DOMAIN Funnel(rows) = Pipeline
  BY DEF Funnel
<1>3. SumFunction(Funnel(rows)) = Cardinality({l \in rows : state[l] \in Pipeline})
  <2> HIDE DEF state
  <2>1. QED
    BY <1>1, <1>2, Sets, SumOfKinds
<1>4. Cardinality({l \in rows : state[l] \in Pipeline}) = Number(rows, Pipeline)
  <2>1. {l \in rows : state[l] \in Pipeline} = {l \in rows : row[l].state \in Pipeline}
    OBVIOUS
  <2>2. QED
    BY <2>1 DEF Number
<1>5. Number(rows, Pipeline \cup (LeadStates \ Pipeline)) = Cardinality(rows)
  <2>1. {l \in rows : row[l].state \in Pipeline \cup (LeadStates \ Pipeline)} = rows
    BY Sets
  <2>2. QED
    BY <2>1 DEF Number
<1>6. Number(rows, Pipeline) + Number(rows, LeadStates \ Pipeline) = Cardinality(rows)
  BY <1>5, TwoKinds
<1>7. QED
  BY <1>3, <1>4, <1>6

\* Members of a finite set are of finitely many kinds.
LEMMA KindsAreFinite ==
  ASSUME NEW members, IsFiniteSet(members), NEW kind
  PROVE  IsFiniteSet({kind[l] : l \in members})
<1> DEFINE kinds == {kind[l] : l \in members}
           f == [l \in members |-> kind[l]]
<1>1. f \in Surjection(members, kinds)
  BY DEF Surjection
<1> HIDE DEF f, kinds
<1>2. IsFiniteSet(kinds)
  BY <1>1, FS_Surjection
<1>3. QED
  BY <1>2 DEF kinds

\* The sources add up, their leads and those with an appointment or better.
LEMMA SourcesAgree ==
  ASSUME NEW rows, IsFiniteSet(rows)
  PROVE  LET by == Breakdown(rows)
         IN  /\ SumFunction([s \in DOMAIN by |-> by[s].total]) = Cardinality(rows)
             /\ SumFunction([s \in DOMAIN by |-> by[s].better])
                  = Number(rows, Visiting) + Number(rows, {"SOLD"})
<1> DEFINE by == Breakdown(rows)
           sources == {Source[l] : l \in rows}
           total  == [s \in DOMAIN by |-> by[s].total]
           better == [s \in DOMAIN by |-> by[s].better]
           good   == InState(rows, Visiting \cup {"SOLD"})
<1>1. DOMAIN by = sources /\ DOMAIN total = sources /\ DOMAIN better = sources
  BY DEF Breakdown
<1>2. IsFiniteSet(sources)
  BY KindsAreFinite
<1>3. ASSUME NEW s \in sources
      PROVE  /\ total[s] = Cardinality({l \in rows : Source[l] = s})
             /\ better[s] = Cardinality({l \in good : Source[l] = s})
  <2>1. /\ total[s] = Cardinality({l \in rows : Source[l] = s})
        /\ better[s] = Number({l \in rows : Source[l] = s}, Visiting \cup {"SOLD"})
    BY DEF Breakdown
  <2>2. {l \in {l \in rows : Source[l] = s} : row[l].state \in Visiting \cup {"SOLD"}}
          = {l \in good : Source[l] = s}
    BY DEF InState
  <2>3. QED
    BY <2>1, <2>2 DEF Number
<1>4. good \subseteq rows /\ IsFiniteSet(good)
  <2>1. good \in SUBSET rows
    BY DEF InState
  <2> HIDE DEF good
  <2>2. QED
    BY <2>1, FS_Subset
<1>5. {l \in rows : Source[l] \in sources} = rows /\ {l \in good : Source[l] \in sources} = good
  BY DEF InState
<1> HIDE DEF by, total, better, good, sources
<1>6. SumFunction(total) = Cardinality(rows)
  <2>1. \A s \in sources : total[s] = Cardinality({l \in rows : Source[l] = s})
    BY <1>3
  <2>2. SumFunction(total) = Cardinality({l \in rows : Source[l] \in sources})
    BY <1>1, <1>2, <2>1, SumOfKinds
  <2>3. QED
    BY <1>5, <2>2
<1>7. SumFunction(better) = Cardinality(good)
  <2>1. \A s \in sources : better[s] = Cardinality({l \in good : Source[l] = s})
    BY <1>3
  <2>2. SumFunction(better) = Cardinality({l \in good : Source[l] \in sources})
    BY <1>1, <1>2, <1>4, <2>1, SumOfKinds
  <2>3. QED
    BY <1>5, <2>2
<1>8. Cardinality(good) = Number(rows, Visiting \cup {"SOLD"})
  BY DEF good, InState, Number
<1>9. Number(rows, Visiting \cup {"SOLD"}) = Number(rows, Visiting) + Number(rows, {"SOLD"})
  <2>1. Visiting \cap {"SOLD"} = {}
    BY DEF Visiting
  <2>2. QED
    BY <2>1, TwoKinds
<1>10. QED
  BY <1>6, <1>7, <1>8, <1>9 DEF total, better, by

\* What the team page shows of a rep.
Mine(rows, r) == {l \in rows : row[l].rep = r}

\* The team page has each rep of the team and each who has leads.
LEMMA BoardIs ==
  ASSUME NEW rows
  PROVE  LET perf  == RepPerformance(rows)
             board == Leaderboard(rows)
             withLeads == {row[l].rep : l \in rows}
         IN  /\ DOMAIN board = withLeads \cup Reps /\ DOMAIN perf = withLeads
             /\ \A r \in withLeads :
                  /\ board[r].assigned = Cardinality(Mine(rows, r))
                  /\ board[r].engaged  = Number(Mine(rows, r), Visiting \cup {"ENGAGED", "SOLD"})
                  /\ board[r].appt     = Number(Mine(rows, r), Visiting \cup {"SOLD"})
                  /\ board[r].lost     = Number(Mine(rows, r), {"LOST"})
             /\ \A r \in Reps \ withLeads : board[r].assigned = 0
<1>1. DOMAIN RepPerformance(rows) = {row[l].rep : l \in rows}
  BY DEF RepPerformance
<1> DEFINE zeros == [assigned |-> 0, engaged |-> 0, appt |-> 0, sold |-> 0, lost |-> 0]
<1>2. Leaderboard(rows) =
        [r \in {row[l].rep : l \in rows} \cup Reps |->
           IF r \in {row[l].rep : l \in rows} THEN RepPerformance(rows)[r] ELSE zeros]
  BY <1>1 DEF Leaderboard
<1>3. /\ DOMAIN Leaderboard(rows) = {row[l].rep : l \in rows} \cup Reps
      /\ \A r \in {row[l].rep : l \in rows} : Leaderboard(rows)[r] = RepPerformance(rows)[r]
      /\ \A r \in Reps \ {row[l].rep : l \in rows} : Leaderboard(rows)[r] = zeros
  BY <1>2
<1>4. ASSUME NEW r \in {row[l].rep : l \in rows}
      PROVE  /\ Leaderboard(rows)[r].assigned = Cardinality(Mine(rows, r))
             /\ Leaderboard(rows)[r].engaged  = Number(Mine(rows, r), Visiting \cup {"ENGAGED", "SOLD"})
             /\ Leaderboard(rows)[r].appt     = Number(Mine(rows, r), Visiting \cup {"SOLD"})
             /\ Leaderboard(rows)[r].lost     = Number(Mine(rows, r), {"LOST"})
  <2>1. Leaderboard(rows)[r] = RepPerformance(rows)[r]
    BY <1>3
  <2>2. RepPerformance(rows)[r] =
               [assigned |-> Cardinality(Mine(rows, r)),
                engaged  |-> Number(Mine(rows, r), Visiting \cup {"ENGAGED", "SOLD"}),
                appt     |-> Number(Mine(rows, r), Visiting \cup {"SOLD"}),
                sold     |-> Number(Mine(rows, r), {"SOLD"}),
                lost     |-> Number(Mine(rows, r), {"LOST"})]
    BY DEF RepPerformance, Mine
  <2>3. QED
    BY <2>1, <2>2
<1>5. \A r \in Reps \ {row[l].rep : l \in rows} : Leaderboard(rows)[r].assigned = 0
  BY <1>3
<1>6. DOMAIN Leaderboard(rows) = {row[l].rep : l \in rows} \cup Reps
  BY <1>3
<1>7. QED
  BY <1>1, <1>4, <1>5, <1>6, Zenon

\* The team page adds up, and shows of each rep of the team the leads that are his.
LEMMA BoardAgrees ==
  ASSUME NEW rows, IsFiniteSet(rows)
  PROVE  LET board == Leaderboard(rows)
         IN  /\ SumFunction([r \in DOMAIN board |-> board[r].assigned]) = Cardinality(rows)
             /\ \A r \in Reps : board[r].assigned = Cardinality(Mine(rows, r))
<1> DEFINE board    == Leaderboard(rows)
           assigned == [r \in DOMAIN board |-> board[r].assigned]
           owners   == {row[l].rep : l \in rows}
           owner    == [l \in rows |-> row[l].rep]
<1>1. DOMAIN board = owners \cup Reps /\ DOMAIN assigned = owners \cup Reps
  BY BoardIs
<1>2. IsFiniteSet(owners \cup Reps)
  <2>1. owners = {owner[l] : l \in rows}
    OBVIOUS
  <2> HIDE DEF owner, owners
  <2>2. IsFiniteSet(owners)
    BY <2>1, KindsAreFinite
  <2>3. QED
    BY <2>2, RepsAssumption, FS_Union
<1>3. ASSUME NEW r \in owners \cup Reps
      PROVE  board[r].assigned = Cardinality({l \in rows : owner[l] = r})
  <2>1. Mine(rows, r) = {l \in rows : owner[l] = r}
    BY DEF Mine
  <2>2. CASE r \in owners
    <3>1. board[r].assigned = Cardinality(Mine(rows, r))
      BY <2>2, BoardIs
    <3>2. QED
      BY <2>1, <3>1
  <2>3. CASE r \notin owners
    <3>1. board[r].assigned = 0
      BY <2>3, BoardIs
    <3>2. {l \in rows : owner[l] = r} = {}
      BY <2>3
    <3>3. Cardinality({l \in rows : owner[l] = r}) = 0
      BY <3>2, FS_EmptySet
    <3>4. QED
      BY <3>1, <3>3
  <2>4. QED
    BY <2>2, <2>3
<1>4. {l \in rows : owner[l] \in owners \cup Reps} = rows
  OBVIOUS
<1>5. \A r \in Reps : board[r].assigned = Cardinality(Mine(rows, r))
  <2>1. \A r \in Reps : Mine(rows, r) = {l \in rows : owner[l] = r}
    BY DEF Mine
  <2>2. QED
    BY <1>3, <2>1
<1>6. \A r \in owners \cup Reps : assigned[r] = Cardinality({l \in rows : owner[l] = r})
  BY <1>1, <1>3
<1> HIDE DEF board, assigned, owners, owner
<1>7. SumFunction(assigned) = Cardinality({l \in rows : owner[l] \in owners \cup Reps})
  BY <1>1, <1>2, <1>6, SumOfKinds
<1>8. QED
  BY <1>4, <1>5, <1>7 DEF assigned, board

\* The table of reps and the team page agree on each who has leads.
LEMMA RepsAgree ==
  ASSUME NEW rows, IsFiniteSet(rows), NEW r \in DOMAIN RepTable(rows)
  PROVE  LET mine == RepTable(rows)[r]
             shown == Leaderboard(rows)[r]
         IN  /\ mine.total = shown.assigned
             /\ mine.appt + mine.sold = shown.appt
             /\ shown.engaged + shown.lost <= shown.assigned
<1> DEFINE mine == Mine(rows, r)
<1>1. r \in {row[l].rep : l \in rows}
  BY DEF RepTable
<1>2. RepTable(rows)[r] = Tally(mine)
  BY <1>1 DEF RepTable, Mine
<1>3. IsFiniteSet(mine)
  <2>1. mine \in SUBSET rows
    BY DEF Mine
  <2>2. QED
    BY <2>1, FS_Subset
<1> HIDE DEF mine
<1>4. /\ RepTable(rows)[r].total = Cardinality(mine)
      /\ RepTable(rows)[r].appt = Number(mine, Visiting)
      /\ RepTable(rows)[r].sold = Number(mine, {"SOLD"})
  BY <1>2 DEF Tally
<1>5. /\ Leaderboard(rows)[r].assigned = Cardinality(mine)
      /\ Leaderboard(rows)[r].engaged  = Number(mine, Visiting \cup {"ENGAGED", "SOLD"})
      /\ Leaderboard(rows)[r].appt     = Number(mine, Visiting \cup {"SOLD"})
      /\ Leaderboard(rows)[r].lost     = Number(mine, {"LOST"})
  BY <1>1, BoardIs DEF mine
<1>6. Number(mine, Visiting) + Number(mine, {"SOLD"}) = Number(mine, Visiting \cup {"SOLD"})
  <2>1. Visiting \cap {"SOLD"} = {}
    BY DEF Visiting
  <2>2. QED
    BY <1>3, <2>1, TwoKinds
<1>7. Number(mine, Visiting \cup {"ENGAGED", "SOLD"}) + Number(mine, {"LOST"}) <= Cardinality(mine)
  <2> DEFINE A == Visiting \cup {"ENGAGED", "SOLD"}
             B == {"LOST"}
  <2>1. A \cap B = {}
    BY DEF Visiting
  <2> HIDE DEF A, B
  <2>2. /\ Number(mine, A) + Number(mine, B) = Number(mine, A \cup B)
        /\ Number(mine, A \cup B) <= Cardinality(mine)
    BY <1>3, <2>1, TwoKinds
  <2>3. QED
    BY <2>2 DEF A, B
<1>8. QED
  BY <1>4, <1>5, <1>6, <1>7

\* What the pages add up of some rows.
LEMMA RowsAgree ==
  ASSUME NEW rows, IsFiniteSet(rows), \A l \in rows : row[l].state \in LeadStates
  PROVE  StatsAgree(rows)
<1>1. /\ Tally(rows).total = Cardinality(rows)
      /\ Tally(rows).active = Number(rows, LeadStates \ Ended)
      /\ Tally(rows).appt = Number(rows, Visiting)
      /\ Tally(rows).sold = Number(rows, {"SOLD"})
  BY DEF Tally
<1>2. Tally(rows).active + Number(rows, Ended) = Tally(rows).total
  <2>1. {l \in rows : row[l].state \in (LeadStates \ Ended) \cup Ended} = rows
    OBVIOUS
  <2>2. Number(rows, (LeadStates \ Ended) \cup Ended) = Cardinality(rows)
    BY <2>1 DEF Number
  <2>3. Number(rows, LeadStates \ Ended) + Number(rows, Ended)
          = Number(rows, (LeadStates \ Ended) \cup Ended)
    <3>1. (LeadStates \ Ended) \cap Ended = {}
      OBVIOUS
    <3>2. QED
      BY <3>1, TwoKinds
  <2>4. QED
    BY <1>1, <2>2, <2>3
<1>3. SumFunction(Funnel(rows)) + Number(rows, LeadStates \ Pipeline) = Tally(rows).total
  BY <1>1, FunnelAgrees
<1>4. LET by == Breakdown(rows)
      IN  /\ SumFunction([s \in DOMAIN by |-> by[s].total]) = Tally(rows).total
          /\ SumFunction([s \in DOMAIN by |-> by[s].better]) = Tally(rows).appt + Tally(rows).sold
  BY <1>1, SourcesAgree
<1>5. LET board == Leaderboard(rows)
      IN  SumFunction([r \in DOMAIN board |-> board[r].assigned]) = Tally(rows).total
  BY <1>1, BoardAgrees
<1>6. \A r \in DOMAIN RepTable(rows) :
        /\ RepTable(rows)[r].total = Leaderboard(rows)[r].assigned
        /\ RepTable(rows)[r].appt + RepTable(rows)[r].sold = Leaderboard(rows)[r].appt
        /\ Leaderboard(rows)[r].engaged + Leaderboard(rows)[r].lost <= Leaderboard(rows)[r].assigned
  BY RepsAgree
<1>7. QED
  BY <1>2, <1>3, <1>4, <1>5, <1>6, Zenon DEF StatsAgree

\* A page that has room for the table shows all of its rows.
LEMMA PageHasRoom ==
  ASSUME NEW rows \in SUBSET Table, Cardinality(Table) <= PageLimit
  PROVE  Newest(rows) = rows /\ IsFiniteSet(rows)
<1>1. IsFiniteSet(Table) /\ PageLimit \in Nat
  <2>1. Table \in SUBSET Leads
    BY DEF Table
  <2>2. QED
    BY <2>1, LeadsAssumption, LimitAssumption, FS_Subset
<1>2. IsFiniteSet(rows) /\ Cardinality(rows) \in Nat /\ Cardinality(rows) <= PageLimit
  BY <1>1, FS_Subset, FS_CardinalityType
<1>3. ASSUME NEW l \in rows PROVE Cardinality({k \in rows : k > l}) < PageLimit
  <2> DEFINE newer == {k \in rows : k > l}
  <2>1. l \in Nat
    BY LeadsAssumption DEF Table
  <2>2. newer \in SUBSET (rows \ {l})
    BY <2>1
  <2>3. IsFiniteSet(rows \ {l}) /\ Cardinality(rows \ {l}) = Cardinality(rows) - 1
    BY <1>2, FS_RemoveElement
  <2> HIDE DEF newer
  <2>4. Cardinality(newer) <= Cardinality(rows \ {l}) /\ Cardinality(newer) \in Nat
    BY <2>2, <2>3, FS_Subset, FS_CardinalityType
  <2>5. QED
    BY <1>1, <1>2, <2>3, <2>4 DEF newer
<1>4. QED
  BY <1>2, <1>3 DEF Newest

\* What a rep sees are the leads that are his.
LEMMA RepSeesHis ==
  ASSUME NEW rows, NEW r \in Reps
  PROVE  Sees(r, rows) = Mine(rows, r)
<1>1. r # Manager
  BY RepsAssumption DEF Manager
<1>2. QED
  BY <1>1 DEF Sees, Mine

\* A dealer whose table has room on a page reads the same figures on the leads page, on
\* the admin's page and in the list of dealers.
LEMMA SmallTableAgrees ==
  ASSUME Cardinality(Table) <= PageLimit, StatesKnown, row \in [Leads -> FigureRow]
  PROVE  /\ LeadsPage(Manager) = AdminPage
         /\ DealersList.leads = AdminPage.total /\ (DealersList.active <=> AdminPage.total > 0)
         /\ SumFunction([s \in LeadStates |-> Cardinality(Filtered(Manager, s))]) = AdminPage.total
         /\ SumFunction([r \in Reps |-> LeadsPage(r).total])
              + Cardinality({l \in Table : row[l].rep = NoRep}) = AdminPage.total
<1>1. IsFiniteSet(Table) /\ Newest(Table) = Table
  BY PageHasRoom
<1>2. AdminPage.total = Cardinality(Table) /\ Cardinality(Table) \in Nat
  BY <1>1, FS_CardinalityType DEF AdminPage, Tally
<1>3. Sees(Manager, Table) = Table
  BY DEF Sees
<1>4. LeadsPage(Manager) = AdminPage
  BY <1>1, <1>3 DEF LeadsPage, AdminPage
<1>5. DealersList.leads = AdminPage.total /\ (DealersList.active <=> AdminPage.total > 0)
  <2>1. (Cardinality(Table) = 0) <=> (Table = {})
    BY <1>1, FS_EmptySet
  <2>2. DealersList.leads = Cardinality(Table) /\ (DealersList.active <=> Table # {})
    BY DEF DealersList
  <2>3. QED
    BY <1>2, <2>1, <2>2
<1>6. SumFunction([s \in LeadStates |-> Cardinality(Filtered(Manager, s))]) = AdminPage.total
  <2> DEFINE state == [l \in Table |-> row[l].state]
             shown == [s \in LeadStates |-> Cardinality(Filtered(Manager, s))]
  <2>1. ASSUME NEW s \in LeadStates PROVE shown[s] = Cardinality({l \in Table : state[l] = s})
    <3>1. {l \in Table : row[l].state = s} = {l \in Table : state[l] = s}
      OBVIOUS
    <3>2. Newest({l \in Table : row[l].state = s}) = {l \in Table : row[l].state = s}
      BY PageHasRoom
    <3>3. QED
      BY <1>3, <3>1, <3>2 DEF Filtered
  <2>2. {l \in Table : state[l] \in LeadStates} = Table
    BY DEF StatesKnown
  <2>3. DOMAIN shown = LeadStates
    OBVIOUS
  <2> HIDE DEF state, shown
  <2>4. SumFunction(shown) = Cardinality({l \in Table : state[l] \in LeadStates})
    BY <1>1, <2>1, <2>3, Sets, SumOfKinds
  <2>5. QED
    BY <1>2, <2>2, <2>4 DEF shown
<1>7. SumFunction([r \in Reps |-> LeadsPage(r).total])
        + Cardinality({l \in Table : row[l].rep = NoRep}) = AdminPage.total
  <2> DEFINE owner == [l \in Table |-> row[l].rep]
             shown == [r \in Reps |-> LeadsPage(r).total]
             owned == {l \in Table : owner[l] \in Reps}
             free  == {l \in Table : row[l].rep = NoRep}
  <2>1. ASSUME NEW r \in Reps PROVE shown[r] = Cardinality({l \in Table : owner[l] = r})
    <3>1. Sees(r, Table) = {l \in Table : owner[l] = r}
      BY RepSeesHis DEF Mine
    <3>2. Newest({l \in Table : owner[l] = r}) = {l \in Table : owner[l] = r}
      BY PageHasRoom
    <3>3. LeadsPage(r).total = Cardinality({l \in Table : owner[l] = r})
      BY <3>1, <3>2 DEF LeadsPage, Tally
    <3>4. QED
      BY <3>3
  <2>2. \A l \in Table : row[l].rep \in Reps \cup {NoRep}
    BY DEF FigureRow, Table
  <2>3. owned \cup free = Table /\ owned \cap free = {}
    BY <2>2, RepsAssumption
  <2>4. DOMAIN shown = Reps /\ owned \in SUBSET Table /\ free \in SUBSET Table
    OBVIOUS
  <2> HIDE DEF owner, shown
  <2>5. SumFunction(shown) = Cardinality(owned)
    BY <1>1, <2>1, <2>4, RepsAssumption, SumOfKinds
  <2> HIDE DEF owned, free
  <2>6. /\ IsFiniteSet(owned) /\ IsFiniteSet(free)
        /\ Cardinality(owned) \in Nat /\ Cardinality(free) \in Nat
    BY <1>1, <2>4, FS_Subset, FS_CardinalityType
  <2>7. Cardinality(owned \cup free) = Cardinality(owned) + Cardinality(free) - Cardinality(owned \cap free)
    BY <2>6, FS_Union
  <2>8. Cardinality(owned \cap free) = 0
    BY <2>3, FS_EmptySet
  <2>9. SumFunction(shown) + Cardinality(free) = Cardinality(Table)
    BY <2>3, <2>5, <2>6, <2>7, <2>8
  <2>10. QED
    BY <1>2, <2>9 DEF shown, free
<1>8. QED
  BY <1>4, <1>5, <1>6, <1>7

(***************************************************************************)
(* The pages of the dashboard and of the admin count the same leads, for   *)
(* any leads, reps and spans of days: whoever looks, what one page adds up *)
(* is what another shows (leads_page, stats, team, the funnel, the sources *)
(* and the admin's two pages).                                             *)
(***************************************************************************)
THEOREM PagesAgree == Spec => []FiguresAgree
<1>1. ASSUME IInv, StatesKnown PROVE FiguresAgree
  <2>1. IsFiniteSet(Table)
    <3>1. Table \in SUBSET Leads
      BY DEF Table
    <3>2. QED
      BY <3>1, LeadsAssumption, FS_Subset
  <2>2. ASSUME NEW who \in Reps \cup {Manager}, NEW days \in DaySpans
        PROVE  StatsAgree(Sees(who, Since(days)))
    <3>1. Sees(who, Since(days)) \in SUBSET Table
      BY DEF Sees, Since
    <3>2. IsFiniteSet(Sees(who, Since(days)))
      BY <2>1, <3>1, FS_Subset
    <3>3. \A l \in Sees(who, Since(days)) : row[l].state \in LeadStates
      BY <1>1, <3>1 DEF StatesKnown
    <3>4. QED
      BY <3>2, <3>3, RowsAgree
  <2>3. ASSUME NEW r \in Reps, NEW days \in DaySpans
        PROVE  Stats(r, days).total = Leaderboard(Since(days))[r].assigned
    <3>1. IsFiniteSet(Since(days))
      <4>1. Since(days) \in SUBSET Table
        BY DEF Since
      <4>2. QED
        BY <2>1, <4>1, FS_Subset
    <3>2. Leaderboard(Since(days))[r].assigned = Cardinality(Mine(Since(days), r))
      BY <3>1, BoardAgrees
    <3>3. Stats(r, days).total = Cardinality(Mine(Since(days), r))
      BY RepSeesHis DEF Stats, Tally
    <3>4. QED
      BY <3>2, <3>3
  <2>4. row \in [Leads -> FigureRow]
    BY <1>1 DEF IInv, TypeOK
  <2>5. QED
    BY <1>1, <2>2, <2>3, <2>4, SmallTableAgrees DEF FiguresAgree
<1>2. QED
  BY <1>1, StatesInvariance, PTL
=============================================================================
