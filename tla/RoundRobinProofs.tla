-------------------------- MODULE RoundRobinProofs --------------------------
(***************************************************************************)
(* As long as only the event loop draws, the rotation is fair, for any     *)
(* team, any rosters and any history.                                      *)
(***************************************************************************)
EXTENDS RoundRobin, Integers, TLAPS, FiniteSetTheorems

(***************************************************************************)
(* A number has one remainder.                                             *)
(***************************************************************************)
LEMMA OneRemainder ==
  ASSUME NEW n \in Nat \ {0}, NEW a \in Int, NEW b \in Int,
         NEW r \in 0..(n - 1), NEW s \in 0..(n - 1), n * a + r = n * b + s
  PROVE  r = s
<1>1. n * (a - b) = s - r
  OBVIOUS
<1>2. CASE a - b >= 1
  <2>1. n * (a - b) >= n
    BY <1>2
  <2>2. QED
    BY <1>1, <2>1
<1>3. CASE b - a >= 1
  <2>1. n * (b - a) >= n
    BY <1>3
  <2>2. QED
    BY <1>1, <2>1
<1>4. QED
  BY <1>2, <1>3

(***************************************************************************)
(* The place after p: the next one, or the first again.                    *)
(***************************************************************************)
LEMMA NextPlace ==
  ASSUME NEW p \in Nat, NEW n \in Nat \ {0}
  PROVE  (p + 1) % n = IF (p % n) + 1 = n THEN 0 ELSE (p % n) + 1
<1>1. p = n * (p \div n) + (p % n) /\ p % n \in 0..(n - 1) /\ p \div n \in Int
  OBVIOUS
<1>2. /\ p + 1 = n * ((p + 1) \div n) + ((p + 1) % n)
      /\ (p + 1) % n \in 0..(n - 1) /\ (p + 1) \div n \in Int
  OBVIOUS
<1>3. CASE (p % n) + 1 = n
  <2>1. p + 1 = n * ((p \div n) + 1) + 0
    BY <1>1, <1>3
  <2>2. n * ((p + 1) \div n) + ((p + 1) % n) = n * ((p \div n) + 1) + 0
    BY <1>2, <2>1
  <2>3. (p \div n) + 1 \in Int /\ 0 \in 0..(n - 1)
    BY <1>1
  <2>4. (p + 1) % n = 0
    BY <1>2, <2>2, <2>3, OneRemainder, Zenon
  <2>5. QED
    BY <1>3, <2>4
<1>4. CASE (p % n) + 1 # n
  <2>1. p + 1 = n * (p \div n) + ((p % n) + 1)
    BY <1>1, <1>4
  <2>2. n * ((p + 1) \div n) + ((p + 1) % n) = n * (p \div n) + ((p % n) + 1)
    BY <1>2, <2>1
  <2>3. (p % n) + 1 \in 0..(n - 1)
    BY <1>1, <1>4
  <2>4. (p + 1) % n = (p % n) + 1
    BY <1>1, <1>2, <2>2, <2>3, OneRemainder, Zenon
  <2>5. QED
    BY <1>4, <2>4
<1>5. QED
  BY <1>3, <1>4
-----------------------------------------------------------------------------
(***************************************************************************)
(* The invariant.  Here is how many reps come before the next one in the   *)
(* list; the reps from first (exclusive of none) up to Here, round the     *)
(* list, have been given one lead more than the others.                    *)
(***************************************************************************)
Here == pointer % Len(active)

\* What a request of the event loop loaded is still so.
CopyHolds ==
  "loop" \in Sessions /\ copy["loop"].loaded =>
    copy["loop"].pointer = pointer /\ copy["loop"].active = active

\* The i-th rep is one of those between first and here, round the list.
Served(first, here, i) ==
  IF first <= here THEN first < i /\ i <= here ELSE first < i \/ i <= here

Even ==
  \E first \in 0..(Len(active) - 1), round \in Nat :
    \A i \in 1..Len(active) :
      given[active[i]] = round + (IF Served(first, Here, i) THEN 1 ELSE 0)

\* Draws before it is the turn of the i-th rep of n.
Ahead(here, i, n) == IF here < i THEN i - 1 - here ELSE i - 1 - here + n

TurnComes == \A i \in 1..Len(active) : skipped[active[i]] + Ahead(Here, i, Len(active)) < Len(active)

IInv == TypeOK /\ (alone => CopyHolds /\ Even /\ TurnComes)

(***************************************************************************)
(* What a roster is.                                                       *)
(***************************************************************************)
LEMMA Roster ==
  ASSUME NEW r \in Rosters
  PROVE  /\ Len(r) \in Nat \ {0} /\ r \in [1..Len(r) -> Reps]
         /\ \A i, j \in 1..Len(r) : r[i] = r[j] => i = j
BY RostersAssumption

(***************************************************************************)
(* After a change of the roster the counting starts anew, where the        *)
(* pointer happens to stand.                                               *)
(***************************************************************************)
LEMMA FreshCount ==
  ASSUME NEW p \in Nat, NEW r \in Rosters
  PROVE  /\ Len(r) \in Nat \ {0} /\ p % Len(r) \in 0..(Len(r) - 1)
         /\ \A i \in 1..Len(r) :
              /\ r[i] \in Reps
              /\ ~Served(p % Len(r), p % Len(r), i)
              /\ Ahead(p % Len(r), i, Len(r)) < Len(r)
              /\ Ahead(p % Len(r), i, Len(r)) \in Nat
<1> DEFINE n == Len(r)
<1> DEFINE here == p % n
<1>1. n \in Nat \ {0} /\ r \in [1..n -> Reps]
  BY Roster
<1>2. n \in Nat \ {0} /\ \A i \in 1..n : r[i] \in Reps
  BY <1>1
<1> HIDE DEF n
<1>3. here \in 0..(n - 1)
  BY <1>2
<1> HIDE DEF here
<1>4. \A i \in 1..n : ~Served(here, here, i) /\ Ahead(here, i, n) < n /\ Ahead(here, i, n) \in Nat
  BY <1>2, <1>3 DEF Served, Ahead
<1>5. QED
  BY <1>2, <1>3, <1>4 DEF n, here

(***************************************************************************)
(* A draw gives a lead to the rep after Here and moves Here past it.       *)
(***************************************************************************)
LEMMA DrawMoves ==
  ASSUME IInv, alone, "loop" \in Sessions, AssignLead("loop")
  PROVE  /\ active' = active /\ Here \in 0..(Len(active) - 1)
         /\ pointer' \in Nat
         /\ Here' = IF Here + 1 = Len(active) THEN 0 ELSE Here + 1
         /\ given' = [given EXCEPT ![active[Here + 1]] = @ + 1]
         /\ skipped' = [r \in Reps |-> IF r = active[Here + 1] THEN 0
                          ELSE skipped[r] + (IF r \in Range(active) THEN 1 ELSE 0)]
         /\ copy' = [copy EXCEPT !["loop"].pointer = pointer']
<1>1. copy["loop"].pointer = pointer /\ copy["loop"].active = active
  BY DEF IInv, CopyHolds, AssignLead
<1>2. pointer \in Nat /\ Len(active) \in Nat \ {0} /\ active' = active
  BY Roster DEF IInv, TypeOK, AssignLead
<1>3. pointer' = (pointer + 1) % Len(active)
  BY <1>1 DEF AssignLead, MovePointer, Advanced
<1>4. Here \in 0..(Len(active) - 1) /\ pointer' \in 0..(Len(active) - 1)
  BY <1>2, <1>3 DEF Here
<1>5. Here' = pointer'
  BY <1>2, <1>4 DEF Here
<1>6. Here' = IF Here + 1 = Len(active) THEN 0 ELSE Here + 1
  BY <1>2, <1>3, <1>5, NextPlace DEF Here
<1>7. Give(active[Here + 1], Range(active))
  BY <1>1 DEF AssignLead, Place, Here
<1>8. copy' = [copy EXCEPT !["loop"].pointer = pointer']
  BY DEF AssignLead, MovePointer
<1>9. QED
  BY <1>2, <1>4, <1>6, <1>7, <1>8 DEF Give

(***************************************************************************)
(* A draw brings every other rep's turn nearer by one.                     *)
(***************************************************************************)
LEMMA TurnNears ==
  ASSUME NEW n \in Nat \ {0}, NEW here \in 0..(n - 1), NEW next,
         next = IF here + 1 = n THEN 0 ELSE here + 1, NEW i \in 1..n
  PROVE  /\ Ahead(here, i, n) \in 0..(n - 1) /\ Ahead(next, i, n) \in 0..(n - 1)
         /\ i # here + 1 => Ahead(next, i, n) = Ahead(here, i, n) - 1
BY DEF Ahead

(***************************************************************************)
(* A draw keeps the counts within one of each other: it serves the rep     *)
(* after Here, and when that is the last one of the round the next round   *)
(* begins.  Nobody's turn is put off.                                      *)
(***************************************************************************)
LEMMA DrawIsFair ==
  ASSUME IInv, alone, "loop" \in Sessions, AssignLead("loop")
  PROVE  Even' /\ TurnComes'
<1> DEFINE n == Len(active)
<1>1. /\ n \in Nat \ {0} /\ active \in [1..n -> Reps]
      /\ \A i, j \in 1..n : active[i] = active[j] => i = j
  BY Roster DEF IInv, TypeOK
<1>2. /\ active' = active /\ Here \in 0..(n - 1)
      /\ Here' = IF Here + 1 = n THEN 0 ELSE Here + 1
  BY DrawMoves
<1>3. n \in Nat \ {0}
  BY <1>1
<1>4. Here + 1 \in 1..n
  <2> HIDE DEF n
  <2> QED
    BY <1>2, <1>3
<1>5. \A i \in 1..n : given'[active[i]] = given[active[i]] + (IF i = Here + 1 THEN 1 ELSE 0)
  BY <1>1, <1>4, DrawMoves DEF IInv, TypeOK
<1>6. \A i \in 1..n : skipped'[active[i]] = IF i = Here + 1 THEN 0 ELSE skipped[active[i]] + 1
  BY <1>1, <1>4, DrawMoves DEF IInv, TypeOK, Range
<1>7. Even'
  <2>1. PICK first \in 0..(n - 1), round \in Nat :
          \A i \in 1..n : given[active[i]] = round + (IF Served(first, Here, i) THEN 1 ELSE 0)
    BY DEF IInv, Even
  <2>2. \A i \in 1..n :
           /\ Here' = first => ~Served(first, Here', i)
           /\ Here' = first => (Served(first, Here, i) <=> i # Here + 1)
           /\ Here' # first => (Served(first, Here', i) <=> Served(first, Here, i) \/ i = Here + 1)
           /\ Here' # first => ~Served(first, Here, Here + 1)
    <3>1. first \in 0..(n - 1) /\ Here \in 0..(n - 1)
      BY <1>2, <2>1
    <3>2. Here' = IF Here + 1 = n THEN 0 ELSE Here + 1
      BY <1>2
    <3> HIDE DEF n
    <3> QED
      BY <1>3, <3>1, <3>2 DEF Served
  <2>3. CASE Here' = first
    <3>1. \A i \in 1..n :
            given'[active[i]] = (round + 1) + (IF Served(first, Here', i) THEN 1 ELSE 0)
      BY <1>5, <2>1, <2>2, <2>3
    <3>2. first \in 0..(n - 1) /\ round + 1 \in Nat
      BY <2>1
    <3>3. QED
      BY <1>2, <3>1, <3>2 DEF Even
  <2>4. CASE Here' # first
    <3>1. \A i \in 1..n :
            given'[active[i]] = round + (IF Served(first, Here', i) THEN 1 ELSE 0)
      BY <1>5, <2>1, <2>2, <2>4
    <3>2. QED
      BY <1>2, <2>1, <3>1 DEF Even
  <2>5. QED
    BY <2>3, <2>4
<1>8. TurnComes'
  <2>1. ASSUME NEW i \in 1..n
        PROVE  skipped'[active[i]] + Ahead(Here', i, n) < n
    <3>1. skipped[active[i]] \in Nat /\ skipped[active[i]] + Ahead(Here, i, n) < n
      BY <1>1 DEF IInv, TypeOK, TurnComes
    <3>2. /\ Ahead(Here, i, n) \in 0..(n - 1) /\ Ahead(Here', i, n) \in 0..(n - 1)
          /\ i # Here + 1 => Ahead(Here', i, n) = Ahead(Here, i, n) - 1
      BY <1>2, <1>3, TurnNears
    <3>3. QED
      BY <1>3, <1>6, <3>1, <3>2
  <2>2. QED
    BY <1>2, <2>1 DEF TurnComes
<1>9. QED
  BY <1>7, <1>8

-----------------------------------------------------------------------------
(***************************************************************************)
(* Some of the reps of a roster are no more than all of them.              *)
(***************************************************************************)
LEMMA FreeReps ==
  ASSUME NEW r \in Rosters, NEW free \in SUBSET (DOMAIN r), free # {}
  PROVE  Cardinality(free) \in Nat \ {0} /\ Cardinality(free) <= Len(r)
<1>1. DOMAIN r = 1..Len(r) /\ Len(r) \in Nat \ {0}
  BY Roster
<1>2. IsFiniteSet(1..Len(r)) /\ Cardinality(1..Len(r)) = Len(r)
  <2>1. 1 \in Int /\ Len(r) \in Int
    BY <1>1
  <2>2. /\ IsFiniteSet(1..Len(r))
        /\ Cardinality(1..Len(r)) = IF 1 > Len(r) THEN 0 ELSE Len(r) - 1 + 1
    BY <2>1, FS_Interval, Zenon
  <2>3. (IF 1 > Len(r) THEN 0 ELSE Len(r) - 1 + 1) = Len(r)
    BY <1>1
  <2>4. QED
    BY <2>2, <2>3
<1>3. IsFiniteSet(free) /\ Cardinality(free) <= Len(r)
  BY <1>1, <1>2, FS_Subset
<1>4. QED
  BY <1>3, FS_CardinalityType, FS_EmptySet

(***************************************************************************)
(* A pointer moved on among at most a whole roster is a place in it.       *)
(***************************************************************************)
LEMMA PlaceInRoster ==
  ASSUME NEW p \in Nat, NEW r \in Rosters, NEW n \in Nat \ {0}, n <= Len(r)
  PROVE  /\ Advanced(p, n) \in Nat /\ Place(p, n) \in 1..n
         /\ \E q \in Rosters : Advanced(p, n) < Len(q)
<1>1. Len(r) \in Nat
  BY Roster
<1>2. Advanced(p, n) \in 0..(n - 1) /\ Place(p, n) \in 1..n
  BY DEF Advanced, Place
<1>3. Advanced(p, n) < Len(r)
  BY <1>1, <1>2
<1>4. QED
  BY <1>2, <1>3

(***************************************************************************)
(* A draw by whomever, for whatever, keeps the types.                      *)
(***************************************************************************)
LEMMA DrawTypes ==
  ASSUME TypeOK, NEW s \in Sessions, copy[s].loaded, NEW rep \in Reps, NEW candidates,
         Give(rep, candidates), NEW n \in Nat \ {0}, n <= Len(copy[s].active),
         MovePointer(s, Advanced(copy[s].pointer, n)), alone' \in BOOLEAN, UNCHANGED active
  PROVE  TypeOK'
<1>1. copy[s] \in Loaded
  BY DEF TypeOK, NotLoaded
<1>2. copy[s].pointer \in Nat /\ copy[s].active \in Rosters
  BY <1>1 DEF Loaded
<1>3. pointer' = Advanced(copy[s].pointer, n) /\ copy' = [copy EXCEPT ![s].pointer = pointer']
  BY DEF MovePointer
<1>4. pointer' \in Nat /\ \E q \in Rosters : pointer' < Len(q)
  BY <1>2, <1>3, PlaceInRoster
<1>5. given' \in [Reps -> Nat]
  <2>1. given \in [Reps -> Nat] /\ \A r \in Reps : given[r] + 1 \in Nat
    BY DEF TypeOK
  <2>2. given' = [given EXCEPT ![rep] = @ + 1]
    BY DEF Give
  <2>3. QED
    BY <2>1, <2>2
<1>6. skipped' \in [Reps -> Nat]
  <2>1. \A r \in Reps : skipped[r] \in Nat /\ skipped[r] + 1 \in Nat /\ skipped[r] + 0 \in Nat
    BY DEF TypeOK
  <2>2. skipped' = [r \in Reps |-> IF r = rep THEN 0
                       ELSE skipped[r] + (IF r \in candidates THEN 1 ELSE 0)]
    BY DEF Give
  <2>3. QED
    BY <2>1, <2>2
<1>7. copy' \in [Sessions -> {NotLoaded} \cup Loaded]
  <2>1. [copy[s] EXCEPT !.pointer = pointer'] \in Loaded
    BY <1>1, <1>4 DEF Loaded
  <2>2. copy' = [copy EXCEPT ![s] = [copy[s] EXCEPT !.pointer = pointer']]
    BY <1>3
  <2>3. QED
    BY <2>1, <2>2 DEF TypeOK
<1>8. QED
  BY <1>4, <1>5, <1>6, <1>7 DEF TypeOK
-----------------------------------------------------------------------------
(***************************************************************************)
(* Every step keeps the types.                                             *)
(***************************************************************************)
LEMMA NextType ==
  ASSUME TypeOK, [Next]_vars
  PROVE  TypeOK'
<1>1. ASSUME NEW s \in Sessions, Load(s)
      PROVE  TypeOK'
  BY <1>1 DEF TypeOK, Load, Loaded
<1>2. ASSUME NEW s \in Sessions, Close(s)
      PROVE  TypeOK'
  BY <1>2 DEF TypeOK, Close
<1>3. ASSUME NEW s \in Sessions, AssignLead(s)
      PROVE  TypeOK'
  <2> DEFINE team == copy[s].active
  <2> DEFINE p == copy[s].pointer
  <2>1. copy[s] \in Loaded /\ copy[s].loaded
    BY <1>3 DEF TypeOK, NotLoaded, AssignLead
  <2>2. p \in Nat /\ team \in Rosters
    BY <2>1 DEF Loaded
  <2>3. Len(team) \in Nat \ {0} /\ team \in [1..Len(team) -> Reps] /\ Len(team) <= Len(team)
    BY <2>2, Roster
  <2>4. Place(p, Len(team)) \in 1..Len(team)
    BY <2>2, <2>3, PlaceInRoster
  <2>5. team[Place(p, Len(team))] \in Reps
    BY <2>3, <2>4
  <2>6. /\ Give(team[Place(p, Len(team))], Range(team))
        /\ MovePointer(s, Advanced(p, Len(team))) /\ UNCHANGED active
    BY <1>3 DEF AssignLead
  <2>7. alone' \in BOOLEAN
    BY <1>3 DEF TypeOK, AssignLead
  <2>8. QED
    BY <2>1, <2>3, <2>5, <2>6, <2>7, DrawTypes
<1>4. ASSUME NEW s \in Sessions, PickForSlot(s)
      PROVE  TypeOK'
  <2> DEFINE team == copy[s].active
  <2> DEFINE p == copy[s].pointer
  <2>1. copy[s] \in Loaded /\ copy[s].loaded
    BY <1>4 DEF TypeOK, NotLoaded, PickForSlot
  <2>2. p \in Nat /\ team \in Rosters
    BY <2>1 DEF Loaded
  <2>3. PICK free \in SUBSET DOMAIN team : \E i \in free :
          /\ Give(team[i], {team[j] : j \in free})
          /\ MovePointer(s, Advanced(p, Cardinality(free)))
    BY <1>4 DEF PickForSlot
  <2>4. PICK i \in free :
          /\ Give(team[i], {team[j] : j \in free})
          /\ MovePointer(s, Advanced(p, Cardinality(free)))
    BY <2>3
  <2>5. Cardinality(free) \in Nat \ {0} /\ Cardinality(free) <= Len(team)
    BY <2>2, <2>4, FreeReps
  <2>6. team[i] \in Reps
    BY <2>2, Roster
  <2>7. alone' \in BOOLEAN /\ UNCHANGED active
    BY <1>4 DEF PickForSlot
  <2>8. QED
    BY <2>1, <2>4, <2>5, <2>6, <2>7, DrawTypes
<1>5. ASSUME NEW r \in Rosters, ChangeRoster(r)
      PROVE  TypeOK'
  BY <1>5 DEF TypeOK, ChangeRoster
<1>6. CASE UNCHANGED vars
  BY <1>6 DEF TypeOK, vars
<1>7. QED
  BY <1>1, <1>2, <1>3, <1>4, <1>5, <1>6 DEF Next

(***************************************************************************)
(* Whoever draws, out of however old a copy, draws an active rep's name    *)
(* and leaves the pointer at a place of some roster.                       *)
(***************************************************************************)
THEOREM TypeCorrect == Spec => []TypeOK
<1>1. Init => TypeOK
  BY Roster DEF Init, TypeOK, NotLoaded
<1>2. QED
  BY <1>1, NextType, PTL DEF Spec
-----------------------------------------------------------------------------
(***************************************************************************)
(* Every step keeps the invariant: while only the event loop draws, a      *)
(* request finds the pointer where it loaded it; a change of the roster    *)
(* begins a new count.                                                     *)
(***************************************************************************)
LEMMA NextIsFair ==
  ASSUME IInv, [Next]_vars
  PROVE  IInv'
<1> USE DEF IInv
<1>1. TypeOK'
  BY NextType
<1>2. ASSUME NEW s \in Sessions, Load(s) \/ Close(s)
      PROVE  IInv'
  <2>1. UNCHANGED <<pointer, active, given, skipped, alone>>
    BY <1>2 DEF Load, Close
  <2>2. CASE Load(s)
    <3>1. copy' = [copy EXCEPT ![s] = [loaded |-> TRUE, pointer |-> pointer, active |-> active]]
      BY <2>2 DEF Load
    <3>2. alone => CopyHolds'
      BY <2>1, <3>1 DEF TypeOK, CopyHolds
    <3>3. QED
      BY <1>1, <2>1, <3>2 DEF Even, Served, TurnComes, Ahead, Here
  <2>3. CASE Close(s)
    <3>1. copy' = [copy EXCEPT ![s] = [loaded |-> FALSE]]
      BY <2>3 DEF Close, NotLoaded
    <3>2. alone => CopyHolds'
      BY <2>1, <3>1 DEF TypeOK, CopyHolds
    <3>3. QED
      BY <1>1, <2>1, <3>2 DEF Even, Served, TurnComes, Ahead, Here
  <2>4. QED
    BY <1>2, <2>2, <2>3
<1>3. ASSUME NEW s \in Sessions, AssignLead(s)
      PROVE  IInv'
  <2>1. CASE alone /\ s = "loop"
    <3>1. Even' /\ TurnComes'
      BY <1>3, <2>1, DrawIsFair
    <3>2. CopyHolds'
      <4>1. /\ active' = active /\ copy["loop"].active = active
            /\ copy' = [copy EXCEPT !["loop"].pointer = pointer']
        BY <1>3, <2>1, DrawMoves DEF CopyHolds, AssignLead
      <4>2. copy["loop"] \in Loaded
        BY <1>3, <2>1 DEF TypeOK, NotLoaded, AssignLead
      <4>3. /\ copy' = [copy EXCEPT !["loop"] = [copy["loop"] EXCEPT !.pointer = pointer']]
            /\ "loop" \in DOMAIN copy
        BY <1>3, <2>1, <4>1 DEF TypeOK
      <4>4. copy'["loop"] = [copy["loop"] EXCEPT !.pointer = pointer']
        BY <4>3
      <4>5. copy'["loop"].pointer = pointer' /\ copy'["loop"].active = active
        BY <4>1, <4>2, <4>4 DEF Loaded
      <4>6. QED
        BY <4>1, <4>5 DEF CopyHolds
    <3>3. QED
      BY <1>1, <3>1, <3>2
  <2>2. CASE ~(alone /\ s = "loop")
    BY <1>1, <1>3, <2>2 DEF AssignLead
  <2>3. QED
    BY <2>1, <2>2
<1>4. ASSUME NEW s \in Sessions, PickForSlot(s)
      PROVE  IInv'
  BY <1>1, <1>4 DEF PickForSlot
<1>5. ASSUME NEW r \in Rosters, ChangeRoster(r)
      PROVE  IInv'
  <2>1. pointer' \in Nat /\ active' \in Rosters /\ CopyHolds'
    BY <1>5 DEF TypeOK, ChangeRoster, CopyHolds
  <2>2. /\ Here' \in 0..(Len(active') - 1)
        /\ \A i \in 1..Len(active') :
             /\ ~Served(Here', Here', i)
             /\ Ahead(Here', i, Len(active')) < Len(active')
             /\ Ahead(Here', i, Len(active')) \in Nat
    BY <2>1, FreshCount DEF Here
  <2>3. \A i \in 1..Len(active') : given'[active'[i]] = 0 /\ skipped'[active'[i]] = 0
    BY <1>5, <2>1, FreshCount DEF ChangeRoster
  <2>4. Even'
    <3>1. \A i \in 1..Len(active') :
            given'[active'[i]] = 0 + (IF Served(Here', Here', i) THEN 1 ELSE 0)
      BY <2>2, <2>3
    <3>2. QED
      BY <2>2, <3>1 DEF Even
  <2>5. TurnComes'
    BY <2>2, <2>3 DEF TurnComes
  <2>6. QED
    BY <1>1, <2>1, <2>4, <2>5
<1>6. CASE UNCHANGED vars
  BY <1>1, <1>6 DEF CopyHolds, Even, Served, TurnComes, Ahead, Here, vars
<1>7. QED
  BY <1>2, <1>3, <1>4, <1>5, <1>6 DEF Next

(***************************************************************************)
(* The invariant holds from the start.                                     *)
(***************************************************************************)
LEMMA Invariance == Spec => []IInv
<1>1. Init => IInv
  <2> SUFFICES ASSUME Init PROVE IInv
    OBVIOUS
  <2>1. pointer \in Nat /\ active \in Rosters /\ Len(active) \in Nat \ {0}
    BY Roster DEF Init
  <2>2. TypeOK /\ CopyHolds
    BY <2>1 DEF Init, TypeOK, CopyHolds, NotLoaded
  <2>3. /\ Here \in 0..(Len(active) - 1)
        /\ \A i \in 1..Len(active) :
             /\ ~Served(Here, Here, i)
             /\ Ahead(Here, i, Len(active)) < Len(active)
             /\ Ahead(Here, i, Len(active)) \in Nat
    BY <2>1, FreshCount DEF Here
  <2>4. \A i \in 1..Len(active) : given[active[i]] = 0 /\ skipped[active[i]] = 0
    BY <2>1, FreshCount DEF Init
  <2>5. Even
    <3>1. \A i \in 1..Len(active) :
            given[active[i]] = 0 + (IF Served(Here, Here, i) THEN 1 ELSE 0)
      BY <2>3, <2>4
    <3>2. QED
      BY <2>3, <3>1 DEF Even
  <2>6. TurnComes
    BY <2>3, <2>4 DEF TurnComes
  <2>7. QED
    BY <2>2, <2>5, <2>6 DEF IInv
<1>2. QED
  BY <1>1, NextIsFair, PTL DEF Spec

(***************************************************************************)
(* As long as only the event loop draws reps, no active rep is ever two    *)
(* leads ahead of another: for any team, through any changes of the        *)
(* roster, and again after other draws have upset the count.               *)
(***************************************************************************)
THEOREM Fairness == Spec => []FairWhileAlone
<1>1. IInv => FairWhileAlone
  <2> SUFFICES ASSUME IInv, alone, NEW q \in Range(active), NEW r \in Range(active)
               PROVE  given[q] <= given[r] + 1
    BY DEF FairWhileAlone, FairDistribution
  <2>1. Len(active) \in Nat \ {0} /\ DOMAIN active = 1..Len(active)
    BY Roster DEF IInv, TypeOK
  <2>2. PICK i \in 1..Len(active), j \in 1..Len(active) : q = active[i] /\ r = active[j]
    BY <2>1 DEF Range
  <2>3. QED
    BY <2>2 DEF IInv, Even
<1>2. QED
  BY <1>1, Invariance, PTL

(***************************************************************************)
(* Nor does a rep wait while every other one is given a lead and more.     *)
(***************************************************************************)
THEOREM Turns == Spec => []TurnsWhileAlone
<1>1. IInv => TurnsWhileAlone
  <2> SUFFICES ASSUME IInv, alone, NEW r \in Range(active)
               PROVE  skipped[r] < Len(active)
    BY DEF TurnsWhileAlone, NobodyIsSkipped
  <2>1. /\ Len(active) \in Nat \ {0} /\ active \in [1..Len(active) -> Reps]
        /\ Here \in 0..(Len(active) - 1)
    BY Roster DEF IInv, TypeOK, Here
  <2>2. PICK i \in 1..Len(active) : r = active[i]
    BY <2>1 DEF Range
  <2>3. skipped[r] \in Nat /\ skipped[r] + Ahead(Here, i, Len(active)) < Len(active)
    BY <2>1, <2>2 DEF IInv, TypeOK, TurnComes
  <2>4. Ahead(Here, i, Len(active)) \in Nat
    BY <2>1, <2>2 DEF Ahead
  <2>5. QED
    BY <2>1, <2>3, <2>4
<1>2. QED
  BY <1>1, Invariance, PTL
=============================================================================
