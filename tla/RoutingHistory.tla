--------------------------- MODULE RoutingHistory ---------------------------
(***************************************************************************)
(* Routing with a memory: what each lead's reps have been through.  The    *)
(* history variables only watch; they never keep a step from happening.    *)
(***************************************************************************)
EXTENDS Routing

\* handle_pass's default is 3 and no caller gives another.
ASSUME PassesAssumption == MaxPassCount > 0

VARIABLES
  pings,    \* pings[l]: how often passing l has pinged another rep
  window,   \* leads whose rep was pinged less than claim_timeout_min ago
  streak    \* streak[l]: passes of l since its last claim

history == <<pings, window, streak>>

\* The step pings a rep about l.
Pings(l) ==
  PingRep /\ loop.lead = l /\ (loop.seen = "ASSIGNED" \/ CanTransition(loop.seen, "ASSIGNED"))

Passes(l) == passCount'[l] > passCount[l]
Claims(l) == CommitMove /\ loop.step = "claim" /\ loop.lead = l

HistoryInit ==
  /\ Init
  /\ pings = [l \in Leads |-> 0]
  /\ window = {}
  /\ streak = [l \in Leads |-> 0]

HistoryNext ==
  /\ Next
  /\ pings' = [l \in Leads |-> pings[l] + (IF Pings(l) THEN 1 ELSE 0)]
  /\ window' = {l \in Leads : Pings(l) \/ (l \in window /\ ~Tick(l))}
  /\ streak' = [l \in Leads |-> IF Claims(l) THEN 0
                                ELSE streak[l] + (IF Passes(l) THEN 1 ELSE 0)]

HistorySpec == HistoryInit /\ [][HistoryNext]_<<vars, history>>
-----------------------------------------------------------------------------
(***************************************************************************)
(* A rep who was pinged has the whole timeout before the sweep decides     *)
(* that the claim timed out, also when the lead came from another rep who  *)
(* had used up part of it.                                                 *)
(***************************************************************************)
RepGetsFullWindow ==
  [][\A l \in Leads : SweepPicks(l) => l \notin window]_<<vars, history>>

(***************************************************************************)
(* Passing a lead around ends: fewer than max_pass_count reps are pinged   *)
(* by it, whatever else happens to the lead in between.                    *)
(***************************************************************************)
PingsBounded == \A l \in Leads : pings[l] < MaxPassCount

(***************************************************************************)
(* "After max_pass_count consecutive passes, escalates to the manager"     *)
(* (router.py:173-174): passes with no claim between them.                 *)
(***************************************************************************)
ManagerAfterConsecutivePasses ==
  [][\A l \in Leads : PassToManager /\ Passes(l) => streak[l] + 1 >= MaxPassCount]_<<vars, history>>
=============================================================================
