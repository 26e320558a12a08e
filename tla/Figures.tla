------------------------------- MODULE Figures -------------------------------
(***************************************************************************)
(* The figures a manager reads: the pages of the dashboard and of the      *)
(* admin, which count the leads each in its own way, the badges and lists  *)
(* that say which leads wait, and the morning digest, a job that runs      *)
(* every hour and sends when the dealer's wall clock shows the right one.  *)
(*                                                                         *)
(* One dealer and leads of every source; what a page counts is asked of    *)
(* the lead table alone.  Time is in hours; the rows' instants are UTC and *)
(* the dealer's wall clock may skip or repeat an hour.                     *)
(***************************************************************************)
EXTENDS LeadStates, Integers, SequencesExt, FiniteSetsExt

CONSTANTS
  Leads,        \* ids, in order of creation
  Source,       \* Lead.source of each
  Reps, NoRep,
  Arrivals,     \* bound of the model: the states a lead may be in after its first hour
  DayLength,    \* 24 h
  Wall,         \* the wall clock: the <<day, hour>> it shows at each instant
  DigestHours,  \* hours that a manager sets the digest to
  DaySpans,     \* the ?days= of the stats and the team page
  PageLimit,    \* 100: the rows of the leads page
  ListLimit,    \* 10: the rows of the list of stale leads
  KindLimit,    \* 5: of one kind of the attention list
  MaxMoves,     \* bound of the model: changes of leads after their first hour
  MaxBreaks     \* bound of the model: hours without a server, changes of the digest's hour

ASSUME LeadsAssumption  == Leads \subseteq Nat \ {0} /\ IsFiniteSet(Leads)
ASSUME RepsAssumption   == IsFiniteSet(Reps) /\ NoRep \notin Reps
ASSUME ArrivalAssumption == Arrivals \subseteq LeadStates
ASSUME WallAssumption   == Wall \in Seq(Nat \X Nat) /\ Len(Wall) > 0
\* The clocks change well after midnight (2:00 in the zones of dealers): a day never comes back.
ASSUME DaysAssumption   == \A s, t \in DOMAIN Wall : s <= t => Wall[s][1] <= Wall[t][1]
ASSUME DigestAssumption == DigestHours \subseteq Nat /\ DaySpans \subseteq Nat
ASSUME LimitAssumption  == {DayLength, PageLimit, ListLimit, KindLimit, MaxMoves, MaxBreaks} \subseteq Nat

VARIABLES
  row,         \* the lead table
  moves,       \* changes of leads, and notes, after their first hour
  now,         \* the instant
  digestHour,  \* routing.digest_time of the configuration in use
  breaks,      \* hours without a server, and changes of the digest's hour
  counted,     \* history: digests that counted each lead
  excused      \* history: days on which the server was down at an hour or the digest's hour
               \*   was changed, and earlier ones on which the old hour did not come once

vars == <<row, moves, now, digestHour, breaks, counted, excused>>

Absent == [state |-> NoState, rep |-> NoRep, created |-> 0, updated |-> 0]
Table  == {l \in Leads : row[l] # Absent}

Day(t)  == Wall[t][1]
Hour(t) == Wall[t][2]
Age(l)  == now - row[l].updated

Init ==
  /\ row = [l \in Leads |-> Absent]
  /\ moves = 0
  /\ now = 1
  /\ digestHour \in DigestHours
  /\ breaks = 0
  /\ counted = [l \in Leads |-> 0]
  /\ excused = {}
-----------------------------------------------------------------------------
(* The rows change                                                         *)

\* ingest_lead, or a lead typed in by a rep, and how far it gets within the hour.
Create(l) ==
  /\ l \notin Table /\ \A k \in Leads : k < l => k \in Table
  /\ \E r \in Reps \cup {NoRep}, s \in Arrivals :
       row' = [row EXCEPT ![l] = [state |-> s, rep |-> r, created |-> now, updated |-> now]]
  /\ UNCHANGED <<moves, now, digestHour, breaks, counted, excused>>

\* transition(), by whatever handler.
Advance(l, s) ==
  /\ l \in Table /\ moves < MaxMoves
  /\ CanTransition(row[l].state, s)
  /\ row' = [row EXCEPT ![l].state = s, ![l].updated = now]
  /\ moves' = moves + 1
  /\ UNCHANGED <<now, digestHour, breaks, counted, excused>>

\* Another rep: every update of a row stamps it (models: before_update).
Assign(l, r) ==
  /\ l \in Table /\ moves < MaxMoves /\ r # row[l].rep
  /\ row' = [row EXCEPT ![l].rep = r, ![l].updated = now]
  /\ moves' = moves + 1
  /\ UNCHANGED <<now, digestHour, breaks, counted, excused>>

\* log_lead_activity: a rep notes a call; nothing changes but the stamp.
Note(l) ==
  /\ l \in Table /\ moves < MaxMoves
  /\ row' = [row EXCEPT ![l].updated = now]
  /\ moves' = moves + 1
  /\ UNCHANGED <<now, digestHour, breaks, counted, excused>>
-----------------------------------------------------------------------------
(* The digest                                                              *)

\* Mutated form of Reported: everything since the start of yesterday.
ReportedSince(t) == {l \in Table : Day(row[l].created) + 1 >= Day(t)}

\* The leads a digest sent at t counts: those created on the day before on the
\* dealer's wall clock.
Reported(t) == {l \in Table : Day(row[l].created) + 1 = Day(t)}

\* send_daily_digest: all its figures are of the leads it reports.
Digest(t) == [l \in Leads |-> counted[l] + (IF l \in Reported(t) THEN 1 ELSE 0)]

\* An hour passes.  The job that runs on the hour sends the digest, unless the server
\* is down at that moment; the minute of digest_time is not looked at.
Tick(up) ==
  /\ now < Len(Wall)
  /\ now' = now + 1
  /\ counted' = IF up /\ Hour(now') = digestHour THEN Digest(now') ELSE counted
  /\ IF up THEN UNCHANGED <<breaks, excused>>
     ELSE /\ breaks < MaxBreaks
          /\ breaks' = breaks + 1
          /\ excused' = excused \cup {Day(now')}
  /\ UNCHANGED <<row, moves, digestHour>>

HourComesOnce(day) == Cardinality({t \in DOMAIN Wall : Wall[t] = <<day, digestHour>>}) = 1

\* save_channel_settings.
ChangeDigestTime(h) ==
  /\ h # digestHour /\ breaks < MaxBreaks
  /\ digestHour' = h
  /\ breaks' = breaks + 1
  /\ excused' = excused \cup {Day(now)} \cup {d \in 0..Day(now) : ~HourComesOnce(d)}
  /\ UNCHANGED <<row, moves, now, counted>>

Next ==
  \/ \E l \in Leads : \/ Create(l) \/ Note(l)
                      \/ \E s \in LeadStates : Advance(l, s)
                      \/ \E r \in Reps : Assign(l, r)
  \/ \E up \in BOOLEAN : Tick(up)
  \/ \E h \in DigestHours : ChangeDigestTime(h)

Spec == Init /\ [][Next]_vars
-----------------------------------------------------------------------------
(* The pages                                                               *)

Ended    == {"SOLD", "LOST", "OPTED_OUT"}
Visiting == {"APPT_SET", "SHOWED"}
Pipeline == {"NEW", "AUTO_REPLIED", "ASSIGNED", "CLAIMED", "ENGAGED", "APPT_SET", "SHOWED", "SOLD"}
Sources  == {Source[l] : l \in Leads}

\* Everyone who may look: a rep, who sees his own leads only, or the manager.
Manager == NoRep
Sees(who, rows) == IF who = Manager THEN rows ELSE {l \in rows : row[l].rep = who}

Since(days)        == {l \in Table : row[l].created >= now - days * DayLength}
Newest(rows)       == {l \in rows : Cardinality({k \in rows : k > l}) < PageLimit}
Number(rows, some) == Cardinality({l \in rows : row[l].state \in some})

Tally(rows) == [total |-> Cardinality(rows), active |-> Number(rows, LeadStates \ Ended),
                appt |-> Number(rows, Visiting), sold |-> Number(rows, {"SOLD"})]

LeadsPage(who)   == Tally(Newest(Sees(who, Table)))
Stats(who, days) == Tally(Sees(who, Since(days)))

\* leads_partial with its status filter.
Filtered(who, state) == Newest({l \in Sees(who, Table) : row[l].state = state})

\* The admin's page of the dealer.
AdminPage == Tally(Table)

\* dealers_list: its row for the dealer.
DealersList == [leads |-> Cardinality(Table), active |-> Table # {}]

\* get_conversion_funnel: where leads are now, not where they have been.
Funnel(rows) == [s \in Pipeline |-> Number(rows, {s})]

\* Mutated form of Breakdown: an engaged lead counts as "engaged or better".
BreakdownEngaged(rows) ==
  [s \in {Source[l] : l \in rows} |->
     LET mine == {l \in rows : Source[l] = s}
     IN  [total |-> Cardinality(mine), sold |-> Number(mine, {"SOLD"}),
          better |-> Number(mine, Visiting \cup {"ENGAGED", "SOLD"})]]

\* get_source_breakdown.
Breakdown(rows) ==
  [s \in {Source[l] : l \in rows} |->
     LET mine == {l \in rows : Source[l] = s}
     IN  [total |-> Cardinality(mine), sold |-> Number(mine, {"SOLD"}),
          better |-> Number(mine, Visiting \cup {"SOLD"})]]

\* The table of reps on the stats page; NoRep stands for "Unassigned".
RepTable(rows) ==
  [r \in {row[l].rep : l \in rows} |-> Tally({l \in rows : row[l].rep = r})]

\* get_rep_performance: reps with leads only.
RepPerformance(rows) ==
  [r \in {row[l].rep : l \in rows} |->
     LET mine == {l \in rows : row[l].rep = r}
     IN  [assigned |-> Cardinality(mine),
          engaged  |-> Number(mine, Visiting \cup {"ENGAGED", "SOLD"}),
          appt     |-> Number(mine, Visiting \cup {"SOLD"}),
          sold     |-> Number(mine, {"SOLD"}),
          lost     |-> Number(mine, {"LOST"})]]

\* The team page: zeros for reps of the team who have no leads.
Leaderboard(rows) ==
  LET perf  == RepPerformance(rows)
      zeros == [assigned |-> 0, engaged |-> 0, appt |-> 0, sold |-> 0, lost |-> 0]
  IN  [r \in DOMAIN perf \cup Reps |-> IF r \in DOMAIN perf THEN perf[r] ELSE zeros]
-----------------------------------------------------------------------------
(* Which leads wait                                                        *)

\* get_lead_health.
Badge(l) ==
  CASE row[l].state = "APPT_SET"                            -> "hot"
    [] row[l].state = "ENGAGED" /\ Age(l) < DayLength       -> "warm"
    [] row[l].state # "APPT_SET" /\ Age(l) < 2 * DayLength  -> "warm"
    [] row[l].state # "APPT_SET" /\ Age(l) \in (2 * DayLength)..(3 * DayLength - 1) -> "cold"
    [] OTHER                                                -> "dead"

\* The first n of the rows, those that have waited longest in front.
Longest(rows, n) == {l \in rows : Cardinality({k \in rows : Age(k) > Age(l)}) < n}

\* The stale leads of the leads page, longest first.
Stale(who) ==
  Longest({l \in Newest(Sees(who, Table)) : row[l].state \notin Ended /\ Age(l) > 3 * DayLength}, ListLimit)

\* Mutated form of GoingCold: after a day.
GoingColdAfterADay ==
  Longest({l \in Table : row[l].state = "ENGAGED" /\ Age(l) > DayLength}, KindLimit)

\* get_attention_items (its two other lists are of appointments and of messages).
GoingCold == Longest({l \in Table : row[l].state = "ENGAGED" /\ Age(l) > 2 * DayLength}, KindLimit)

\* The stuck-lead sweep writes these to the log.
Stuck == {l \in Table : \/ row[l].state = "NEW" /\ now > row[l].created
                        \/ row[l].state = "ASSIGNED" /\ Age(l) > 0}

\* ... and the attention list asks for a rep for these.
Unclaimed == Longest({l \in Table : row[l].state = "ASSIGNED" /\ Age(l) > 2}, KindLimit)
-----------------------------------------------------------------------------
(* Properties                                                              *)

(***************************************************************************)
(* The pages count the same leads: whoever looks and for whatever span,    *)
(* what one page adds up is what another shows.  Escalated, lost and       *)
(* opted-out leads are in no stage of the funnel.                          *)
(***************************************************************************)
StatsAgree(rows) ==
  LET tally == Tally(rows)
      bySource == Breakdown(rows)
      byRep == RepTable(rows)
      board == Leaderboard(rows)
      funnel == Funnel(rows)
  IN  /\ tally.active + Number(rows, Ended) = tally.total
      /\ SumFunction(funnel) + Number(rows, LeadStates \ Pipeline) = tally.total
      /\ SumFunction([s \in DOMAIN bySource |-> bySource[s].total]) = tally.total
      /\ SumFunction([s \in DOMAIN bySource |-> bySource[s].better]) = tally.appt + tally.sold
      /\ SumFunction([r \in DOMAIN board |-> board[r].assigned]) = tally.total
      /\ \A r \in DOMAIN byRep :
           /\ byRep[r].total = board[r].assigned
           /\ byRep[r].appt + byRep[r].sold = board[r].appt
           /\ board[r].engaged + board[r].lost <= board[r].assigned

FiguresAgree ==
  /\ \A who \in Reps \cup {Manager}, days \in DaySpans : StatsAgree(Sees(who, Since(days)))
  /\ \A r \in Reps, days \in DaySpans :
       Stats(r, days).total = Leaderboard(Since(days))[r].assigned
  /\ Cardinality(Table) <= PageLimit =>
       /\ LeadsPage(Manager) = AdminPage
       /\ DealersList.leads = AdminPage.total /\ (DealersList.active <=> AdminPage.total > 0)
       /\ SumFunction([s \in LeadStates |-> Cardinality(Filtered(Manager, s))]) = AdminPage.total
       /\ SumFunction([r \in Reps |-> LeadsPage(r).total])
            + Cardinality({l \in Table : row[l].rep = NoRep}) = AdminPage.total

(***************************************************************************)
(* The lists do not contradict the badges beside them: a lead that is      *)
(* listed as stale is not shown as warm or cold, one that is going cold is *)
(* not shown as warm, a dead lead that is still open is listed unless the  *)
(* list or the page is full, and who asks for a rep has been in the log.   *)
(***************************************************************************)
BadgesAgree ==
  /\ \A who \in Reps \cup {Manager} : \A l \in Stale(who) : Badge(l) \in {"hot", "dead"}
  /\ \A l \in GoingCold : Badge(l) \in {"cold", "dead"}
  /\ \A l \in Table :
       Badge(l) = "dead" /\ row[l].state \notin Ended /\ Age(l) > 3 * DayLength
         => \/ l \in Stale(Manager) \/ l \notin Newest(Table)
            \/ Cardinality(Stale(Manager)) >= ListLimit
  /\ Unclaimed \subseteq Stuck

(***************************************************************************)
(* Each lead is counted by one digest, that of the day after it came, also *)
(* when the clocks are changed, unless the hour of the digest does not     *)
(* come exactly once on that day, or the server was down or the hour       *)
(* changed then.                                                           *)
(***************************************************************************)
DigestCountsOnce ==
  \A l \in Table :
    LET due == Day(row[l].created) + 1
    IN  due \notin excused /\ HourComesOnce(due)
          => /\ counted[l] <= 1
             /\ Day(now) > due => counted[l] = 1
=============================================================================
