---------------------------- MODULE IntakeProofs -----------------------------
(***************************************************************************)
(* What holds of the intake for any forms, mails and bounds: the types,    *)
(* the customer's last word, the duplicates, the opt-out by e-mail, and    *)
(* the lifecycle it implements.                                            *)
(***************************************************************************)
EXTENDS Intake, TLAPS, FiniteSetTheorems

LogRow == [phone : {Phone, Email}, action : Actions, lead : 0..MaxLeads]

\* A row that no deletion of leads reaches says "action", and none after it "reversal".
Stands(rows, action, reversal) ==
  \E i \in DOMAIN rows :
    /\ rows[i].phone = Phone /\ rows[i].action = action /\ rows[i].lead = 0
    /\ \A j \in i + 1..Len(rows) : ~(rows[j].phone = Phone /\ rows[j].action = reversal)

\* The customer's last keyword stands in the log ...
WordStands ==
  /\ lastWord = "stop"  => Stands(log, "opted_out", "re_granted")
  /\ lastWord = "start" => Stands(log, "re_granted", "opted_out")

\* ... and no keyword re-grants an address.
AddressStaysOut == \A i \in DOMAIN log : log[i].action = "re_granted" => log[i].phone = Phone

\* What the threads make leads of.
OffersHold ==
  \A p \in Threads : ingest[p].step = "create" =>
    /\ ingest[p].offer.source = IF p = "poll" THEN "EMAIL" ELSE "DIRECT"
    /\ p = "loop" => ingest[p].offer.phone

\* A thread that is about to create a lead has looked: what is there by now, the other
\* thread has made.
LookHolds ==
  \A p \in Threads : ingest[p].step = "create" /\ ingest[p].offer.phone =>
    \A k \in SameDay : (leads[k].source = "EMAIL") # (p = "poll")

\* A mail's address was found not opted out, and still is not.
AddressChecked ==
  ingest["poll"].step = "create" /\ ~ingest["poll"].offer.phone => ~OptedOut(log, Email)

IInv ==
  /\ TypeOK /\ WordStands /\ AddressStaysOut
  /\ OffersHold /\ LookHolds /\ DuplicatesOnlyByRace /\ AddressChecked
-----------------------------------------------------------------------------
(* The consent log, and rows deleted from it                               *)

(***************************************************************************)
(* The positions kept of a list have ranks 1, 2, ... in their order.       *)
(***************************************************************************)
LEMMA RanksCount ==
  ASSUME NEW n \in Nat, NEW kept \in SUBSET (1..n), NEW rank,
         rank = [i \in kept |-> Cardinality({j \in kept : j <= i})]
  PROVE  /\ Cardinality(kept) \in Nat
         /\ \A i \in kept : rank[i] \in 1..Cardinality(kept)
         /\ \A i, j \in kept : i < j <=> rank[i] < rank[j]
         /\ \A k \in 1..Cardinality(kept) : \E i \in kept : rank[i] = k
<1> DEFINE upto(i) == {j \in kept : j <= i}
           m == Cardinality(kept)
<1>1. IsFiniteSet(1..n)
  BY FS_Interval
<1>2. IsFiniteSet(kept) /\ m \in Nat
  BY <1>1, FS_Subset, FS_CardinalityType
<1>3. \A i \in kept : IsFiniteSet(upto(i)) /\ Cardinality(upto(i)) \in 1..m
  <2> TAKE i \in kept
  <2>1. upto(i) \in SUBSET kept /\ i \in upto(i)
    OBVIOUS
  <2>2. IsFiniteSet(upto(i)) /\ Cardinality(upto(i)) <= m
    BY <1>2, <2>1, FS_Subset
  <2>3. Cardinality(upto(i)) \in Nat /\ Cardinality(upto(i)) # 0
    BY <2>1, <2>2, FS_CardinalityType, FS_EmptySet
  <2>4. QED
    BY <1>2, <2>2, <2>3
<1>4. \A i, j \in kept : i < j => Cardinality(upto(i)) < Cardinality(upto(j))
  <2> TAKE i, j \in kept
  <2> HAVE i < j
  <2>0. kept \subseteq Nat
    OBVIOUS
  <2>1. upto(i) \in SUBSET upto(j) /\ j \in upto(j) /\ j \notin upto(i)
    <3>1. \A x \in kept : x <= i => x <= j
      BY <2>0
    <3>2. ~(j <= i) /\ j <= j
      BY <2>0
    <3>3. QED
      BY <3>1, <3>2
  <2>2. /\ Cardinality(upto(i)) <= Cardinality(upto(j))
        /\ Cardinality(upto(j)) = Cardinality(upto(i)) => upto(j) = upto(i)
    BY <1>3, <2>1, FS_Subset
  <2>3. Cardinality(upto(i)) # Cardinality(upto(j))
    BY <2>1, <2>2
  <2>4. QED
    BY <1>3, <2>2, <2>3
<1> HIDE DEF upto, m
<1>5. rank = [i \in kept |-> Cardinality(upto(i))]
  BY DEF upto
<1>6. \A i, j \in kept : i < j <=> rank[i] < rank[j]
  <2> TAKE i, j \in kept
  <2>1. i < j => rank[i] < rank[j]
    BY <1>4, <1>5
  <2>2. j < i => rank[j] < rank[i]
    BY <1>4, <1>5
  <2>3. rank[i] \in Nat /\ rank[j] \in Nat /\ i \in Nat /\ j \in Nat
    BY <1>2, <1>3, <1>5
  <2>4. QED
    BY <2>1, <2>2, <2>3
<1>7. rank \in Injection(kept, 1..m)
  <2>1. rank \in [kept -> 1..m]
    BY <1>3, <1>5
  <2>2. \A i, j \in kept : rank[i] = rank[j] => i = j
    <3> TAKE i, j \in kept
    <3>1. i \in Nat /\ j \in Nat /\ rank[i] \in Nat /\ rank[j] \in Nat
      BY <1>2, <2>1
    <3>2. QED
      BY <1>6, <3>1
  <2>3. QED
    BY <2>1, <2>2 DEF Injection, IsInjective
<1>8. rank \in Surjection(kept, 1..m)
  <2>1. IsFiniteSet(1..m) /\ Cardinality(1..m) = m
    <3>1. 1 \in Int /\ m \in Int
      BY <1>2
    <3>2. IsFiniteSet(1..m) /\ Cardinality(1..m) = IF 1 > m THEN 0 ELSE m - 1 + 1
      BY <3>1, FS_Interval, Zenon
    <3>3. (IF 1 > m THEN 0 ELSE m - 1 + 1) = m
      BY <1>2
    <3>4. QED
      BY <3>2, <3>3
  <2>2. Cardinality(kept) = Cardinality(1..m) <=> rank \in Surjection(kept, 1..m)
    BY <1>7, <2>1, FS_Injection, Zenon
  <2>3. QED
    BY <2>1, <2>2 DEF m
<1>9. QED
  BY <1>2, <1>3, <1>5, <1>6, <1>8 DEF Surjection, m

\* Where each row of new was among rows: those of no lead in S are there, in order.
Embeds(at, new, rows, S) ==
  /\ \A k \in DOMAIN at : new[k] = rows[at[k]]
  /\ \A k, l \in DOMAIN at : k < l => at[k] < at[l]
  /\ \A i \in DOMAIN rows : rows[i].lead \notin S => \E k \in DOMAIN at : at[k] = i

(***************************************************************************)
(* Deleting the rows of some leads keeps the others, in their order.       *)
(***************************************************************************)
LEMMA RowsAreKept ==
  ASSUME NEW Row, NEW rows \in Seq(Row), NEW S
  PROVE  /\ WithoutLeads(rows, S) \in Seq(Row)
         /\ \E at \in [DOMAIN WithoutLeads(rows, S) -> DOMAIN rows] :
              Embeds(at, WithoutLeads(rows, S), rows, S)
<1> DEFINE kept == {i \in DOMAIN rows : rows[i].lead \notin S}
           rank == [i \in kept |-> Cardinality({j \in kept : j <= i})]
           m == Cardinality(kept)
           at == [k \in 1..m |-> CHOOSE i \in kept : rank[i] = k]
<1>1. DOMAIN rows = 1..Len(rows) /\ Len(rows) \in Nat /\ kept \in SUBSET (1..Len(rows))
  OBVIOUS
<1>2. /\ m \in Nat
      /\ \A i \in kept : rank[i] \in 1..m
      /\ \A i, j \in kept : i < j <=> rank[i] < rank[j]
      /\ \A k \in 1..m : \E i \in kept : rank[i] = k
  <2> HIDE DEF kept
  <2>1. QED
    BY <1>1, RanksCount
<1>3. WithoutLeads(rows, S) = [k \in 1..m |-> rows[at[k]]]
  <2>1. WithoutLeads(rows, S) =
          [k \in 1..m |-> rows[CHOOSE i \in kept : Cardinality({j \in kept : j <= i}) = k]]
    BY DEF WithoutLeads
  <2>2. ASSUME NEW k \in 1..m
        PROVE  at[k] = CHOOSE i \in kept : Cardinality({j \in kept : j <= i}) = k
    <3>1. at[k] = CHOOSE i \in kept : rank[i] = k
      OBVIOUS
    <3>2. \A i \in kept : rank[i] = Cardinality({j \in kept : j <= i})
      OBVIOUS
    <3> HIDE DEF at, rank, m, kept
    <3>3. QED
      BY <3>1, <3>2
  <2> HIDE DEF at, rank, m, kept
  <2>3. QED
    BY <2>1, <2>2
<1> HIDE DEF rank, m
<1>4. \A k \in 1..m : at[k] \in kept /\ rank[at[k]] = k
  BY <1>2
<1> HIDE DEF at
<1>5. DOMAIN at = 1..m /\ at \in [1..m -> DOMAIN rows]
  BY <1>4 DEF at
<1>6. WithoutLeads(rows, S) \in Seq(Row) /\ DOMAIN WithoutLeads(rows, S) = 1..m
  BY <1>1, <1>2, <1>3, <1>5
<1>7. \A k \in 1..m : WithoutLeads(rows, S)[k] = rows[at[k]]
  BY <1>3
<1>8. \A k, l \in 1..m : k < l => at[k] < at[l]
  BY <1>2, <1>4
<1>9. \A i \in DOMAIN rows : rows[i].lead \notin S => \E k \in 1..m : at[k] = i
  <2> TAKE i \in DOMAIN rows
  <2> HAVE rows[i].lead \notin S
  <2>1. i \in kept
    OBVIOUS
  <2>2. rank[i] \in 1..m /\ at[rank[i]] \in kept /\ rank[at[rank[i]]] = rank[i]
    BY <1>2, <1>4, <2>1
  <2>3. ~(at[rank[i]] < i) /\ ~(i < at[rank[i]])
    BY <1>1, <1>2, <2>1, <2>2
  <2>4. at[rank[i]] \in Nat /\ i \in Nat
    BY <1>1, <2>1, <2>2
  <2>5. at[rank[i]] = i
    BY <2>3, <2>4
  <2>6. QED
    BY <2>2, <2>5
<1>10. at \in [DOMAIN WithoutLeads(rows, S) -> DOMAIN rows]
  BY <1>5, <1>6
<1> HIDE DEF kept
<1>11. Embeds(at, WithoutLeads(rows, S), rows, S)
  BY <1>5, <1>7, <1>8, <1>9 DEF Embeds
<1>12. QED
  BY <1>6, <1>10, <1>11

(***************************************************************************)
(* A row without a lead stays, and what follows it followed it before.     *)
(***************************************************************************)
LEMMA StandsAfterDeletion ==
  ASSUME NEW rows \in Seq(LogRow), NEW S, 0 \notin S, NEW action, NEW reversal,
         Stands(rows, action, reversal)
  PROVE  Stands(WithoutLeads(rows, S), action, reversal)
<1>1. PICK i \in DOMAIN rows :
        /\ rows[i].phone = Phone /\ rows[i].action = action /\ rows[i].lead = 0
        /\ \A j \in i + 1..Len(rows) : ~(rows[j].phone = Phone /\ rows[j].action = reversal)
  BY DEF Stands
<1> DEFINE new == WithoutLeads(rows, S)
<1>2. new \in Seq(LogRow) /\ \E at \in [DOMAIN new -> DOMAIN rows] : Embeds(at, new, rows, S)
  BY RowsAreKept
<1> HIDE DEF new
<1>3. PICK at \in [DOMAIN new -> DOMAIN rows] : Embeds(at, new, rows, S)
  BY <1>2
<1>4. PICK k \in DOMAIN new : at[k] = i
  BY <1>1, <1>3 DEF Embeds
<1>5. new[k] = rows[i]
  BY <1>3, <1>4 DEF Embeds
<1>6. ASSUME NEW j \in k + 1..Len(new)
      PROVE  ~(new[j].phone = Phone /\ new[j].action = reversal)
  <2>1. j \in DOMAIN new /\ k < j
    BY <1>2, <1>4
  <2>2. at[j] \in DOMAIN rows /\ i < at[j] /\ new[j] = rows[at[j]]
    BY <1>3, <1>4, <2>1 DEF Embeds
  <2>3. at[j] \in i + 1..Len(rows)
    BY <1>1, <2>2
  <2>4. QED
    BY <1>1, <2>2, <2>3
<1>7. Stands(new, action, reversal)
  BY <1>1, <1>4, <1>5, <1>6 DEF Stands
<1>8. QED
  BY <1>7 DEF new

\* Another row does not reverse it, unless it says so.
LEMMA StandsAfterRow ==
  ASSUME NEW rows \in Seq(LogRow), NEW row \in LogRow, NEW action, NEW reversal,
         Stands(rows, action, reversal), ~(row.phone = Phone /\ row.action = reversal)
  PROVE  Stands(Append(rows, row), action, reversal)
<1>1. PICK i \in DOMAIN rows :
        /\ rows[i].phone = Phone /\ rows[i].action = action /\ rows[i].lead = 0
        /\ \A j \in i + 1..Len(rows) : ~(rows[j].phone = Phone /\ rows[j].action = reversal)
  BY DEF Stands
<1> DEFINE new == Append(rows, row)
<1>2. /\ DOMAIN rows = 1..Len(rows) /\ Len(rows) \in Nat
      /\ Len(new) = Len(rows) + 1 /\ DOMAIN new = 1..Len(rows) + 1
      /\ \A j \in 1..Len(rows) : new[j] = rows[j]
      /\ new[Len(rows) + 1] = row
  OBVIOUS
<1> HIDE DEF new
<1>3. i \in DOMAIN new /\ new[i] = rows[i]
  BY <1>1, <1>2
<1>4. ASSUME NEW j \in i + 1..Len(new)
      PROVE  ~(new[j].phone = Phone /\ new[j].action = reversal)
  <2>1. CASE j = Len(rows) + 1
    BY <1>2, <2>1
  <2>2. CASE j # Len(rows) + 1
    <3>1. j \in i + 1..Len(rows) /\ j \in 1..Len(rows)
      BY <1>1, <1>2, <2>2
    <3>2. QED
      BY <1>1, <1>2, <3>1
  <2>3. QED
    BY <2>1, <2>2
<1>5. Stands(new, action, reversal)
  BY <1>1, <1>3, <1>4 DEF Stands
<1>6. QED
  BY <1>5 DEF new

\* A keyword's row, once written, stands.
LEMMA StandsWhenSaid ==
  ASSUME NEW rows \in Seq(LogRow), NEW action, NEW reversal
  PROVE  Stands(Append(rows, Entry(Phone, action, 0)), action, reversal)
<1> DEFINE row == Entry(Phone, action, 0)
           new == Append(rows, row)
<1>1. /\ Len(rows) \in Nat /\ Len(new) = Len(rows) + 1
      /\ Len(new) \in DOMAIN new /\ new[Len(new)] = row
  OBVIOUS
<1>2. row.phone = Phone /\ row.action = action /\ row.lead = 0
  BY DEF Entry
<1> HIDE DEF new, row
<1>3. Stands(new, action, reversal)
  BY <1>1, <1>2 DEF Stands
<1>4. QED
  BY <1>3 DEF new, row

(***************************************************************************)
(* A standing opt-out is one to send_sms, and a standing re-grant is none. *)
(***************************************************************************)
LEMMA StandingWordCounts ==
  ASSUME NEW rows \in Seq(LogRow)
  PROVE  /\ Stands(rows, "opted_out", "re_granted") => OptedOut(rows, Phone)
         /\ Stands(rows, "re_granted", "opted_out") => ~OptedOut(rows, Phone)
<1>1. Stands(rows, "opted_out", "re_granted") => OptedOut(rows, Phone)
  BY DEF Stands, OptedOut
<1>2. ASSUME Stands(rows, "re_granted", "opted_out"), OptedOut(rows, Phone)
      PROVE  FALSE
  <2>1. PICK i \in DOMAIN rows :
          /\ rows[i].phone = Phone /\ rows[i].action = "re_granted"
          /\ \A j \in i + 1..Len(rows) : ~(rows[j].phone = Phone /\ rows[j].action = "opted_out")
    BY <1>2 DEF Stands
  <2>2. PICK k \in DOMAIN rows :
          /\ rows[k].phone = Phone /\ rows[k].action = "opted_out"
          /\ \A j \in k + 1..Len(rows) : ~(rows[j].phone = Phone /\ rows[j].action = "re_granted")
    BY <1>2 DEF OptedOut
  <2>3. i \in 1..Len(rows) /\ k \in 1..Len(rows) /\ Len(rows) \in Nat
    OBVIOUS
  <2>4. i # k
    BY <2>1, <2>2
  <2>5. i \in k + 1..Len(rows) \/ k \in i + 1..Len(rows)
    BY <2>3, <2>4
  <2>6. QED
    BY <2>1, <2>2, <2>5
<1>3. QED
  BY <1>1, <1>2

(***************************************************************************)
(* An address is not opted out by deleting rows.                           *)
(***************************************************************************)
LEMMA AddressAfterDeletion ==
  ASSUME log \in Seq(LogRow), AddressStaysOut, NEW S, log' = WithoutLeads(log, S)
  PROVE  /\ AddressStaysOut'
         /\ OptedOut(log', Email) => OptedOut(log, Email)
<1>1. log' \in Seq(LogRow)
  BY RowsAreKept
<1>2. PICK at \in [DOMAIN log' -> DOMAIN log] : \A k \in DOMAIN at : log'[k] = log[at[k]]
  BY RowsAreKept DEF Embeds
<1>3. AddressStaysOut'
  BY <1>2 DEF AddressStaysOut
<1>4. ASSUME OptedOut(log', Email)
      PROVE  OptedOut(log, Email)
  <2>1. PICK k \in DOMAIN log' : log'[k].phone = Email /\ log'[k].action = "opted_out"
    BY <1>4 DEF OptedOut
  <2>2. /\ at[k] \in DOMAIN log
        /\ log[at[k]].phone = Email /\ log[at[k]].action = "opted_out"
    BY <1>2, <2>1
  <2>3. \A j \in at[k] + 1..Len(log) : ~(log[j].phone = Email /\ log[j].action = "re_granted")
    <3>1. \A j \in at[k] + 1..Len(log) : j \in DOMAIN log
      BY <2>2
    <3>2. QED
      BY <3>1, KeysAssumption DEF AddressStaysOut
  <2>4. QED
    BY <2>2, <2>3 DEF OptedOut
<1>5. QED
  BY <1>3, <1>4

\* Nor by a row about the number.
LEMMA AddressAfterRow ==
  ASSUME log \in Seq(LogRow), AddressStaysOut, NEW row \in LogRow,
         row.action = "re_granted" => row.phone = Phone, log' = Append(log, row)
  PROVE  /\ AddressStaysOut'
         /\ row.phone = Phone /\ OptedOut(log', Email) => OptedOut(log, Email)
<1>1. /\ DOMAIN log = 1..Len(log) /\ Len(log) \in Nat
      /\ Len(log') = Len(log) + 1 /\ DOMAIN log' = 1..Len(log) + 1
      /\ \A j \in 1..Len(log) : log'[j] = log[j]
      /\ log'[Len(log) + 1] = row
  OBVIOUS
<1>2. AddressStaysOut'
  BY <1>1 DEF AddressStaysOut
<1>3. ASSUME row.phone = Phone, OptedOut(log', Email)
      PROVE  OptedOut(log, Email)
  <2>1. PICK k \in DOMAIN log' :
          /\ log'[k].phone = Email /\ log'[k].action = "opted_out"
          /\ \A j \in k + 1..Len(log') : ~(log'[j].phone = Email /\ log'[j].action = "re_granted")
    BY <1>3 DEF OptedOut
  <2>2. k \in 1..Len(log)
    BY <1>1, <1>3, <2>1, KeysAssumption
  <2>3. \A j \in k + 1..Len(log) : j \in 1..Len(log) /\ j \in k + 1..Len(log')
    BY <1>1, <2>2
  <2>4. QED
    BY <1>1, <2>1, <2>2, <2>3 DEF OptedOut
<1>4. QED
  BY <1>2, <1>3
-----------------------------------------------------------------------------
(* What a step does to the log, to the rows and to the threads             *)

\* The customer's word stands, and no address is opted out while the poll works.
LogHolds ==
  /\ log' \in Seq(LogRow)
  /\ WordStands' /\ AddressStaysOut'
  /\ ingest["poll"] # Idle /\ OptedOut(log', Email) => OptedOut(log, Email)

\* A row keeps what the check for duplicates asks about it, or it is deleted.
RowsHold ==
  /\ leads' \in Seq(Lead) /\ Len(leads') = Len(leads)
  /\ \A l \in Rows :
       \/ leads'[l].gone
       \/ /\ leads'[l].phone = leads[l].phone /\ leads'[l].source = leads[l].source
          /\ leads'[l].fresh => leads[l].fresh
          /\ ~leads[l].gone

\* No thread begins to create a lead.
JobsHold ==
  /\ ingest' \in [Threads -> Jobs \cup {Idle}]
  /\ \A p \in Threads :
       /\ ingest'[p].lead <= Len(leads')
       /\ ingest'[p].step \in RowSteps => ingest'[p].lead # 0
       /\ ingest'[p].step = "create" => ingest'[p] = ingest[p]

\* The log is not touched.
LEMMA LogStays ==
  ASSUME IInv, UNCHANGED <<log, lastWord>>
  PROVE  LogHolds
BY DEF IInv, TypeOK, LogHolds, LogRow, WordStands, AddressStaysOut

\* Rows of leads are deleted.
LEMMA LogForgets ==
  ASSUME IInv, NEW S, 0 \notin S, log' = WithoutLeads(log, S), UNCHANGED lastWord
  PROVE  LogHolds
<1>1. log \in Seq(LogRow)
  BY DEF IInv, TypeOK, LogRow
<1>2. log' \in Seq(LogRow)
  BY <1>1, RowsAreKept
<1>3. WordStands'
  BY <1>1, StandsAfterDeletion DEF IInv, WordStands
<1>4. QED
  BY <1>1, <1>2, <1>3, AddressAfterDeletion DEF IInv, LogHolds

\* A consent is granted.
LEMMA LogGrants ==
  ASSUME IInv, NEW l \in 0..MaxLeads, log' = Append(log, Entry(Phone, "granted", l)),
         UNCHANGED lastWord
  PROVE  LogHolds
<1> DEFINE row == Entry(Phone, "granted", l)
<1>1. log \in Seq(LogRow) /\ row \in LogRow
  BY DEF IInv, TypeOK, LogRow, Entry, Actions
<1>2. row.phone = Phone /\ row.action = "granted"
  BY DEF Entry
<1> HIDE DEF row
<1>3. log' = Append(log, row)
  BY DEF row
<1>4. log' \in Seq(LogRow)
  BY <1>1, <1>3
<1>5. WordStands'
  BY <1>1, <1>2, <1>3, StandsAfterRow DEF IInv, WordStands
<1>6. QED
  BY <1>1, <1>2, <1>3, <1>4, <1>5, AddressAfterRow DEF IInv, LogHolds

\* A keyword by text.
LEMMA LogHearsText ==
  ASSUME IInv,
         \/ lastWord' = "stop"  /\ log' = Append(log, Entry(Phone, "opted_out", 0))
         \/ lastWord' = "start" /\ log' = Append(log, Entry(Phone, "re_granted", 0))
  PROVE  LogHolds
<1>1. log \in Seq(LogRow) /\ 0 \in 0..MaxLeads
  BY BoundAssumption DEF IInv, TypeOK, LogRow
<1>2. ASSUME NEW action \in {"opted_out", "re_granted"}, log' = Append(log, Entry(Phone, action, 0)),
             WordStands'
      PROVE  LogHolds
  <2> DEFINE row == Entry(Phone, action, 0)
  <2>1. row \in LogRow /\ row.phone = Phone
    BY <1>1 DEF LogRow, Entry, Actions
  <2> HIDE DEF row
  <2>2. log' = Append(log, row)
    BY <1>2 DEF row
  <2>3. log' \in Seq(LogRow)
    BY <1>1, <2>1, <2>2
  <2>4. QED
    BY <1>1, <1>2, <2>1, <2>2, <2>3, AddressAfterRow DEF IInv, LogHolds
<1>3. WordStands'
  BY <1>1, StandsWhenSaid DEF WordStands
<1>4. QED
  BY <1>2, <1>3

(***************************************************************************)
(* One row is changed.                                                     *)
(***************************************************************************)
LEMMA OneRow ==
  ASSUME TypeOK, NEW l \in Rows, NEW row \in Lead, leads' = [leads EXCEPT ![l] = row],
         \/ row.gone
         \/ /\ row.phone = leads[l].phone /\ row.source = leads[l].source
            /\ row.fresh = leads[l].fresh /\ row.gone = leads[l].gone
  PROVE  RowsHold
<1>1. leads \in Seq(Lead) /\ DOMAIN leads = Rows
  BY DEF TypeOK, Rows
<1>2. leads' \in Seq(Lead) /\ Len(leads') = Len(leads)
  BY <1>1
<1>3. \A k \in Rows : leads'[k] = IF k = l THEN row ELSE leads[k]
  BY <1>1
<1>4. QED
  BY <1>2, <1>3 DEF RowsHold

\* No row is changed.
LEMMA NoRow ==
  ASSUME TypeOK, UNCHANGED leads
  PROVE  RowsHold
<1>1. leads \in Seq(Lead) /\ DOMAIN leads = Rows
  BY DEF TypeOK, Rows
<1>2. QED
  BY <1>1 DEF RowsHold

\* The leads of the threads are rows, or 0.
LEMMA LeadInRange ==
  ASSUME TypeOK
  PROVE  /\ Len(leads) \in Nat /\ Rows = 1..Len(leads) /\ MaxLeads \in Nat
         /\ \A p \in Threads : ingest[p].lead \in 0..Len(leads)
         /\ \A p \in Threads : ingest[p].step \in RowSteps => ingest[p].lead \in Rows
         /\ \A p \in Threads : ingest[p].step \in Steps => ingest[p] \in Jobs
<1>1. Len(leads) \in Nat /\ Rows = 1..Len(leads) /\ MaxLeads \in Nat
  BY BoundAssumption DEF TypeOK, Rows
<1>2. ASSUME NEW p \in Threads
      PROVE  /\ ingest[p].lead \in 0..Len(leads)
             /\ ingest[p].step \in RowSteps => ingest[p].lead \in Rows
             /\ ingest[p].step \in Steps => ingest[p] \in Jobs
  <2>1. ingest[p] \in Jobs \cup {Idle} /\ ingest[p].lead <= Len(leads)
    BY DEF TypeOK
  <2>2. ingest[p].lead \in Nat
    BY <1>1, <2>1 DEF Jobs, Idle
  <2>3. ingest[p].step \in RowSteps => ingest[p].lead # 0
    BY DEF TypeOK
  <2>4. ingest[p].step \in Steps => ingest[p] \in Jobs
    BY <2>1 DEF Idle, Steps
  <2>5. QED
    BY <1>1, <2>1, <2>2, <2>3, <2>4
<1>3. QED
  BY <1>1, <1>2

(***************************************************************************)
(* One thread goes on, or ends.                                            *)
(***************************************************************************)
LEMMA OneJob ==
  ASSUME TypeOK, NEW p \in Threads, NEW job \in Jobs \cup {Idle},
         Len(leads') \in Nat, Len(leads') >= Len(leads), job.lead <= Len(leads'),
         job.step \in RowSteps => job.lead # 0, job.step # "create",
         ingest' = [ingest EXCEPT ![p] = job]
  PROVE  JobsHold
<1>1. ingest' \in [Threads -> Jobs \cup {Idle}]
  BY DEF TypeOK
<1>2. \A q \in Threads : ingest'[q] = IF q = p THEN job ELSE ingest[q]
  BY DEF TypeOK
<1>3. \A q \in Threads : ingest[q].lead <= Len(leads')
  BY LeadInRange DEF TypeOK
<1>4. QED
  BY <1>1, <1>2, <1>3 DEF JobsHold, TypeOK

\* The threads stay where they are.
LEMMA NoJob ==
  ASSUME TypeOK, Len(leads') \in Nat, Len(leads') >= Len(leads), UNCHANGED ingest
  PROVE  JobsHold
BY LeadInRange DEF TypeOK, JobsHold

(***************************************************************************)
(* A step that holds log, rows and threads keeps the invariant.            *)
(***************************************************************************)
LEMMA HoldingSteps ==
  ASSUME IInv, LogHolds, RowsHold, JobsHold, outbound' \in BOOLEAN, breaks' \in Nat,
         lastWord' \in {"none", "stop", "start"}
  PROVE  IInv'
<1>1. DOMAIN leads' = Rows /\ DOMAIN leads = Rows
  BY DEF IInv, TypeOK, RowsHold, Rows
<1>2. TypeOK'
  BY DEF IInv, TypeOK, LogHolds, LogRow, RowsHold, JobsHold
<1>3. OffersHold'
  BY DEF IInv, OffersHold, JobsHold
<1>4. \A l \in OfPhone' :
        /\ l \in OfPhone /\ leads'[l].source = leads[l].source
        /\ leads'[l].fresh => leads[l].fresh
  BY <1>1 DEF RowsHold, OfPhone, Rows
<1>5. \A l \in SameDay' : l \in SameDay /\ leads'[l].source = leads[l].source
  BY <1>1 DEF RowsHold, SameDay, Rows
<1>6. LookHolds'
  BY <1>5 DEF IInv, LookHolds, JobsHold
<1>7. DuplicatesOnlyByRace'
  <2>1. SUFFICES ASSUME NEW k \in OfPhone', NEW l \in OfPhone', k < l,
                        leads'[k].fresh, leads'[l].fresh, leads'[l].source # "PHONE"
                 PROVE  (leads'[k].source = "EMAIL") # (leads'[l].source = "EMAIL")
    BY DEF DuplicatesOnlyByRace
  <2>2. /\ k \in OfPhone /\ leads'[k].source = leads[k].source /\ leads[k].fresh
        /\ l \in OfPhone /\ leads'[l].source = leads[l].source /\ leads[l].fresh
    BY <1>4, <2>1, Zenon
  <2>3. (leads[k].source = "EMAIL") # (leads[l].source = "EMAIL")
    BY <2>1, <2>2, Zenon DEF IInv, DuplicatesOnlyByRace
  <2>4. QED
    BY <2>2, <2>3, Zenon
<1>8. AddressChecked'
  BY DEF IInv, AddressChecked, JobsHold, LogHolds, Threads, Idle
<1>9. QED
  BY <1>2, <1>3, <1>6, <1>7, <1>8 DEF IInv, LogHolds

(***************************************************************************)
(* A step that adds a row keeps the invariant, if no row of this day and   *)
(* of the same kind of source is there, and no thread is about to add one. *)
(***************************************************************************)
LEMMA AddingSteps ==
  ASSUME IInv, LogHolds, JobsHold, outbound' \in BOOLEAN, breaks' \in Nat,
         lastWord' \in {"none", "stop", "start"},
         NEW row \in Lead, leads' = Append(leads, row), Len(leads) < MaxLeads,
         row.phone /\ row.source # "PHONE" =>
           \A k \in SameDay : (leads[k].source = "EMAIL") # (row.source = "EMAIL"),
         row.phone => \A p \in Threads :
           ingest'[p].step = "create" => (row.source = "EMAIL") # (p = "poll")
  PROVE  IInv'
<1>1. /\ leads \in Seq(Lead) /\ Len(leads) \in Nat /\ Rows = 1..Len(leads)
      /\ leads' \in Seq(Lead) /\ Len(leads') = Len(leads) + 1 /\ Rows' = 1..Len(leads) + 1
      /\ \A k \in Rows : leads'[k] = leads[k]
      /\ leads'[Len(leads) + 1] = row
  BY DEF IInv, TypeOK, Rows
<1>2. TypeOK'
  <2>1. Len(leads') <= MaxLeads
    BY <1>1, BoundAssumption
  <2>2. QED
    BY <1>1, <2>1 DEF IInv, TypeOK, LogHolds, LogRow, JobsHold
<1>3. OffersHold'
  BY DEF IInv, OffersHold, JobsHold
<1>4. ASSUME NEW k \in Rows'
      PROVE  \/ k = Len(leads) + 1 /\ leads'[k] = row
             \/ k \in Rows /\ k < Len(leads) + 1 /\ leads'[k] = leads[k]
  BY <1>1
<1>5. LookHolds'
  <2>1. SUFFICES ASSUME NEW p \in Threads, ingest'[p].step = "create", ingest'[p].offer.phone,
                        NEW k \in SameDay'
                 PROVE  (leads'[k].source = "EMAIL") # (p = "poll")
    BY DEF LookHolds
  <2>2. k \in Rows' /\ leads'[k].phone /\ leads'[k].fresh /\ ~leads'[k].gone
    BY <2>1 DEF SameDay
  <2>3. CASE leads'[k] = row
    BY <2>1, <2>2, <2>3
  <2>4. CASE k \in Rows /\ leads'[k] = leads[k]
    <3>1. k \in SameDay
      BY <2>2, <2>4 DEF SameDay
    <3>2. ingest[p] = ingest'[p]
      BY <2>1 DEF JobsHold
    <3>3. QED
      BY <2>1, <2>4, <3>1, <3>2 DEF IInv, LookHolds
  <2>5. QED
    BY <1>4, <2>2, <2>3, <2>4
<1>6. DuplicatesOnlyByRace'
  <2>1. SUFFICES ASSUME NEW k \in OfPhone', NEW l \in OfPhone', k < l,
                        leads'[k].fresh, leads'[l].fresh, leads'[l].source # "PHONE"
                 PROVE  (leads'[k].source = "EMAIL") # (leads'[l].source = "EMAIL")
    BY DEF DuplicatesOnlyByRace
  <2>2. /\ k \in Rows' /\ leads'[k].phone /\ ~leads'[k].gone
        /\ l \in Rows' /\ leads'[l].phone /\ ~leads'[l].gone
    BY <2>1 DEF OfPhone
  <2>3. k \in Rows /\ leads'[k] = leads[k]
    BY <1>1, <1>4, <2>1, <2>2
  <2>4. CASE l \in Rows /\ leads'[l] = leads[l]
    <3>1. k \in OfPhone /\ l \in OfPhone
      BY <2>2, <2>3, <2>4 DEF OfPhone
    <3>2. leads[k].fresh /\ leads[l].fresh /\ leads[l].source # "PHONE"
      BY <2>1, <2>3, <2>4
    <3>3. (leads[k].source = "EMAIL") # (leads[l].source = "EMAIL")
      BY <2>1, <3>1, <3>2, Zenon DEF IInv, DuplicatesOnlyByRace
    <3>4. QED
      BY <2>3, <2>4, <3>3
  <2>5. CASE leads'[l] = row
    <3>1. k \in SameDay
      BY <2>1, <2>2, <2>3 DEF SameDay
    <3>2. QED
      BY <2>1, <2>2, <2>3, <2>5, <3>1
  <2>6. QED
    BY <1>4, <2>2, <2>4, <2>5
<1>7. AddressChecked'
  BY DEF IInv, AddressChecked, JobsHold, LogHolds, Threads, Idle
<1>8. QED
  BY <1>2, <1>3, <1>5, <1>6, <1>7 DEF IInv, LogHolds

\* The threads' offers are of different kinds.
OfThread(p, offer) ==
  /\ offer \in Offers
  /\ offer.source = IF p = "poll" THEN "EMAIL" ELSE "DIRECT"
  /\ p = "loop" => offer.phone

(***************************************************************************)
(* A thread begins to create a lead when it has found no other of the day, *)
(* or, of an address, no opt-out.                                          *)
(***************************************************************************)
LEMMA CreationBegins ==
  ASSUME IInv, NEW p \in Threads, NEW offer, OfThread(p, offer),
         offer.phone => SameDay = {}, ~offer.phone => ~OptedOut(log, Email),
         Work(p, offer, "create", 0), UNCHANGED <<leads, log, outbound, breaks, lastWord>>
  PROVE  IInv'
<1> DEFINE job == [step |-> "create", lead |-> 0, offer |-> offer]
<1>1. job \in Jobs /\ job.step = "create" /\ job.lead = 0 /\ job.offer = offer
  BY BoundAssumption DEF Jobs, Steps, OfThread
<1>2. ingest' = [ingest EXCEPT ![p] = job]
  BY DEF Work
<1> HIDE DEF job
<1>3. /\ ingest' \in [Threads -> Jobs \cup {Idle}]
      /\ \A q \in Threads : ingest'[q] = IF q = p THEN job ELSE ingest[q]
  BY <1>1, <1>2 DEF IInv, TypeOK
<1>4. TypeOK'
  <2>1. Len(leads) \in Nat /\ "create" \notin RowSteps
    BY LeadInRange DEF IInv, RowSteps
  <2>2. \A q \in Threads : /\ ingest'[q].lead <= Len(leads)
                           /\ ingest'[q].step \in RowSteps => ingest'[q].lead # 0
    BY <1>1, <1>3, <2>1 DEF IInv, TypeOK
  <2>3. QED
    BY <1>3, <2>2 DEF IInv, TypeOK
<1>5. OffersHold'
  BY <1>1, <1>3 DEF IInv, OffersHold, OfThread
<1>6. LookHolds'
  <2>1. SameDay' = SameDay
    BY DEF SameDay, Rows
  <2>2. QED
    BY <1>1, <1>3, <2>1 DEF IInv, LookHolds
<1>7. AddressChecked'
  BY <1>1, <1>3 DEF IInv, AddressChecked, Threads
<1>8. QED
  BY <1>4, <1>5, <1>6, <1>7
     DEF IInv, WordStands, AddressStaysOut, DuplicatesOnlyByRace, OfPhone, Rows
-----------------------------------------------------------------------------
(* The steps                                                               *)

\* A step that leaves the log alone holds it; the bookkeeping is typed.
LEMMA StepOnRow ==
  ASSUME IInv, RowsHold, JobsHold, UNCHANGED <<log, outbound, breaks, lastWord>>
  PROVE  IInv'
<1>1. LogHolds
  BY LogStays
<1>2. outbound' \in BOOLEAN /\ breaks' \in Nat /\ lastWord' \in {"none", "stop", "start"}
  BY DEF IInv, TypeOK
<1>3. QED
  BY <1>1, <1>2, HoldingSteps

\* The state, or the dry-run mark, of one row.
LEMMA UpdateHolds ==
  ASSUME TypeOK, NEW l \in Rows,
         \/ \E v \in LeadStates : Update(l, "state", v)
         \/ \E v \in BOOLEAN : Update(l, "dry", v)
  PROVE  RowsHold
<1>1. leads \in Seq(Lead) /\ leads[l] \in Lead
  BY DEF TypeOK, Rows
<1>2. ASSUME NEW v \in LeadStates, Update(l, "state", v)
      PROVE  RowsHold
  <2> DEFINE row == [leads[l] EXCEPT !.state = v]
  <2>1. leads' = [leads EXCEPT ![l] = row]
    BY <1>2 DEF Update
  <2>2. row \in Lead /\ row.phone = leads[l].phone /\ row.source = leads[l].source
        /\ row.fresh = leads[l].fresh /\ row.gone = leads[l].gone
    BY <1>1 DEF Lead
  <2>3. QED
    BY <2>1, <2>2, OneRow
<1>3. ASSUME NEW v \in BOOLEAN, Update(l, "dry", v)
      PROVE  RowsHold
  <2> DEFINE row == [leads[l] EXCEPT !.dry = v]
  <2>1. leads' = [leads EXCEPT ![l] = row]
    BY <1>3 DEF Update
  <2>2. row \in Lead /\ row.phone = leads[l].phone /\ row.source = leads[l].source
        /\ row.fresh = leads[l].fresh /\ row.gone = leads[l].gone
    BY <1>1 DEF Lead
  <2>3. QED
    BY <2>1, <2>2, OneRow
<1>4. QED
  BY <1>2, <1>3

\* A row is deleted.
LEMMA GoneHolds ==
  ASSUME TypeOK, NEW l \in Rows, leads' = [leads EXCEPT ![l] = Gone(l)]
  PROVE  RowsHold
<1>1. leads[l] \in Lead
  BY DEF TypeOK, Rows
<1>2. leads[l].state \in LeadStates
  BY <1>1 DEF Lead
<1>3. Gone(l) \in Lead /\ Gone(l).gone
  BY <1>2 DEF Lead, Gone, Sources
<1>4. QED
  BY <1>3, OneRow

\* A thread's next step, on the same lead, or its end.
LEMMA GotoHolds ==
  ASSUME TypeOK, NEW p \in Threads, ingest[p].step \in Steps, Len(leads') = Len(leads),
         NEW step \in RowSteps, ingest[p].lead # 0, Goto(p, step)
  PROVE  JobsHold
<1> DEFINE job == [ingest[p] EXCEPT !.step = step]
<1>1. ingest[p] \in Jobs /\ ingest[p].lead \in 0..Len(leads) /\ Len(leads) \in Nat
  BY LeadInRange
<1>2. job \in Jobs /\ job.step = step /\ job.lead = ingest[p].lead
  BY <1>1 DEF Jobs, RowSteps
<1>3. ingest' = [ingest EXCEPT ![p] = job]
  BY DEF Goto
<1> HIDE DEF job
<1>4. job.lead <= Len(leads') /\ Len(leads') >= Len(leads) /\ job.step # "create"
  BY <1>1, <1>2 DEF RowSteps
<1>5. QED
  BY <1>1, <1>2, <1>3, <1>4, OneJob

\* A thread has nothing left to do.
LEMMA DoneHolds ==
  ASSUME TypeOK, NEW p \in Threads, Len(leads') \in Nat, Len(leads') >= Len(leads), Done(p)
  PROVE  JobsHold
<1>1. Idle \in Jobs \cup {Idle} /\ Idle.lead = 0 /\ Idle.step \notin RowSteps /\ Idle.step # "create"
  BY DEF Idle, RowSteps, Steps
<1>2. Idle.lead <= Len(leads')
  BY <1>1
<1>3. ingest' = [ingest EXCEPT ![p] = Idle]
  BY DEF Done
<1>4. QED
  BY <1>1, <1>2, <1>3, OneJob

\* The row of a dry run that is started over.
StartedOver(l, offer) ==
  [leads[l] EXCEPT !.state = "NEW", !.dry = FALSE, !.email = leads[l].email \/ offer.email]

\* A duplicate is started over, and nothing else happens to the rows.
LEMMA BeginStartsOver ==
  ASSUME TypeOK, NEW p \in Threads, NEW offer, Begin(p, offer), SameDay # {}
  PROVE  \E l \in SameDay :
           /\ Forget(l)
           /\ leads' = [leads EXCEPT ![l] = StartedOver(l, offer)]
           /\ Work(p, offer, "consent", l)
<1>1. PICK l \in SameDay :
        /\ Forget(l)
        /\ leads' = [leads EXCEPT ![l].state = "NEW", ![l].dry = FALSE,
                                  ![l].email = @ \/ offer.email]
        /\ Work(p, offer, "consent", l)
  BY Zenon DEF Begin
<1>2. l \in Rows
  BY DEF SameDay
<1>3. leads' = [leads EXCEPT ![l] = StartedOver(l, offer)]
  BY <1>1, <1>2 DEF TypeOK, StartedOver
<1>4. QED
  BY <1>1, <1>3

(***************************************************************************)
(* ingest_lead begins: it creates a lead, or starts a dry run over.        *)
(***************************************************************************)
LEMMA BeginHolds ==
  ASSUME IInv, NEW p \in Threads, NEW offer, OfThread(p, offer), offer.phone, Begin(p, offer)
  PROVE  IInv'
<1>1. CASE SameDay = {}
  <2>1. Work(p, offer, "create", 0) /\ UNCHANGED <<leads, log, outbound, breaks, lastWord>>
    BY <1>1 DEF Begin
  <2>2. QED
    BY <1>1, <2>1, CreationBegins
<1>2. CASE SameDay # {}
  <2>1. PICK l \in SameDay :
          /\ Forget(l)
          /\ leads' = [leads EXCEPT ![l] = StartedOver(l, offer)]
          /\ Work(p, offer, "consent", l)
    BY <1>2, BeginStartsOver DEF IInv
  <2>2. l \in Rows /\ l \in 0..MaxLeads /\ l # 0 /\ l <= Len(leads) /\ leads[l] \in Lead
    BY LeadInRange DEF SameDay, IInv, TypeOK
  <2> DEFINE row == StartedOver(l, offer)
             job == [step |-> "consent", lead |-> l, offer |-> offer]
  <2>3. RowsHold
    <3>1. leads' = [leads EXCEPT ![l] = row]
      BY <2>1
    <3>2. (leads[l].email \/ offer.email) \in BOOLEAN
      OBVIOUS
    <3>3. row \in Lead /\ row.phone = leads[l].phone /\ row.source = leads[l].source
          /\ row.fresh = leads[l].fresh /\ row.gone = leads[l].gone
      BY <2>2, <3>2 DEF Lead, LeadStates, StartedOver
    <3> HIDE DEF row
    <3>4. QED
      BY <2>2, <3>1, <3>3, OneRow DEF IInv
  <2>4. JobsHold
    <3>1. job \in Jobs /\ job.lead = l /\ job.step = "consent"
      BY <2>2 DEF Jobs, Steps, OfThread
    <3>2. ingest' = [ingest EXCEPT ![p] = job]
      BY <2>1 DEF Work
    <3>3. Len(leads') = Len(leads) /\ Len(leads) \in Nat
      BY <2>3, LeadInRange DEF IInv, RowsHold
    <3> HIDE DEF job
    <3>4. job.lead <= Len(leads') /\ Len(leads') >= Len(leads) /\ Len(leads') \in Nat
      BY <2>2, <3>1, <3>3
    <3>5. QED
      BY <2>2, <3>1, <3>2, <3>4, OneJob DEF IInv
  <2>5. UNCHANGED <<outbound, breaks, lastWord>>
    BY Zenon DEF Begin
  <2>6. LogHolds
    <3>1. log' = WithoutLeads(log, {l})
      BY <2>1 DEF Forget
    <3>2. 0 \notin {l} /\ UNCHANGED lastWord
      BY <2>2, <2>5
    <3>3. QED
      BY <3>1, <3>2, LogForgets
  <2>7. outbound' \in BOOLEAN /\ breaks' \in Nat /\ lastWord' \in {"none", "stop", "start"}
    BY <2>5 DEF IInv, TypeOK
  <2>8. QED
    BY <2>3, <2>4, <2>6, <2>7, HoldingSteps
<1>3. QED
  BY <1>1, <1>2

(***************************************************************************)
(* Its commits.                                                            *)
(***************************************************************************)
LEMMA CreateHolds ==
  ASSUME IInv, NEW p \in Threads, Create(p)
  PROVE  IInv'
<1> DEFINE offer == ingest[p].offer
           row == NewLead(offer)
           job == [ingest[p] EXCEPT !.step = IF offer.phone THEN "consent" ELSE "assign",
                                    !.lead = Len(leads) + 1]
<1>1. ingest[p].step = "create" /\ ingest[p] \in Jobs /\ offer \in Offers
  BY LeadInRange DEF Create, IInv, Steps, Jobs
<1>2. offer.source = (IF p = "poll" THEN "EMAIL" ELSE "DIRECT") /\ (p = "loop" => offer.phone)
  BY <1>1 DEF IInv, OffersHold
<1>3. leads' = Append(leads, row) /\ Len(leads) < MaxLeads
  BY DEF Create
<1>4. row \in Lead /\ row.source = offer.source /\ row.phone = offer.phone
  BY <1>1 DEF Offers, Lead, NewLead, LeadStates
<1>5. Len(leads') = Len(leads) + 1 /\ Len(leads) \in Nat /\ MaxLeads \in Nat
  BY <1>3, LeadInRange DEF IInv, TypeOK
<1>6. ingest' = [ingest EXCEPT ![p] = job]
  <2>1. ingest' = [ingest EXCEPT ![p].step = IF offer.phone THEN "consent" ELSE "assign",
                                 ![p].lead = Len(leads) + 1]
    BY DEF Create
  <2>2. ingest \in [Threads -> Jobs \cup {Idle}]
    BY DEF IInv, TypeOK
  <2> HIDE DEF offer
  <2>3. QED
    BY <2>1, <2>2
<1>7. /\ job \in Jobs /\ job.lead = Len(leads) + 1
      /\ job.step \in {"consent", "assign"}
  <2>1. Len(leads) + 1 \in 0..MaxLeads
    BY <1>3, <1>5
  <2>2. ingest[p] \in [step : Steps, lead : 0..MaxLeads, offer : Offers]
    BY <1>1 DEF Jobs
  <2> HIDE DEF offer
  <2>3. QED
    BY <2>1, <2>2 DEF Jobs, Steps
<1>8. JobsHold
  <2> HIDE DEF job
  <2>1. job.lead # 0 /\ job.lead <= Len(leads') /\ job.step # "create"
        /\ Len(leads') >= Len(leads) /\ Len(leads') \in Nat
    BY <1>5, <1>7
  <2>2. QED
    BY <1>6, <1>7, <2>1, OneJob DEF IInv
<1>9. \A q \in Threads : ingest'[q].step = "create" => q # p
  BY <1>6, <1>7 DEF IInv, TypeOK
<1>10. LogHolds /\ outbound' \in BOOLEAN /\ breaks' \in Nat /\ lastWord' \in {"none", "stop", "start"}
  BY LogStays DEF Create, IInv, TypeOK
<1>11. row.phone => \A k \in SameDay : (leads[k].source = "EMAIL") # (row.source = "EMAIL")
  BY <1>1, <1>2, <1>4 DEF IInv, LookHolds
<1>12. \A q \in Threads : ingest'[q].step = "create" => (row.source = "EMAIL") # (q = "poll")
  BY <1>2, <1>4, <1>9 DEF Threads
<1> HIDE DEF row
<1>13. QED
  BY <1>3, <1>4, <1>8, <1>10, <1>11, <1>12, AddingSteps

\* All of them.
LEMMA IngestStepHolds ==
  ASSUME IInv, NEW p \in Threads, IngestStep(p)
  PROVE  IInv'
<1> DEFINE l == ingest[p].lead
<1>1. ASSUME ingest[p].step \in RowSteps
      PROVE  l \in Rows /\ l # 0 /\ ingest[p] \in Jobs /\ l \in 0..MaxLeads /\ Len(leads) \in Nat
  <2>1. ingest[p].step \in Steps
    BY <1>1 DEF RowSteps
  <2>2. l \in Rows /\ ingest[p] \in Jobs /\ Rows = 1..Len(leads) /\ Len(leads) \in Nat
    BY <1>1, <2>1, LeadInRange DEF IInv
  <2>3. QED
    BY <2>2 DEF Jobs
<1> HIDE DEF l
<1>2. CASE Create(p)
  BY <1>2, CreateHolds
<1>3. CASE LogConsent(p)
  <2> DEFINE job == [ingest[p] EXCEPT !.step = "auto", !.offer = NoPhone]
  <2>1. l \in Rows /\ l # 0 /\ ingest[p] \in Jobs /\ l \in 0..MaxLeads /\ Len(leads) \in Nat
    BY <1>1, <1>3 DEF LogConsent, RowSteps, Steps
  <2>2. job \in Jobs /\ job.step = "auto" /\ job.lead = l
    BY <2>1 DEF Jobs, Steps, NoPhone, Offer, Offers, Sources, l
  <2>3. ingest' = [ingest EXCEPT ![p] = job]
    <3>1. ingest' = [ingest EXCEPT ![p].step = "auto", ![p].offer = NoPhone]
      BY <1>3 DEF LogConsent
    <3>2. ingest \in [Threads -> Jobs \cup {Idle}]
      BY DEF IInv, TypeOK
    <3>3. QED
      BY <3>1, <3>2
  <2>4. UNCHANGED <<leads, outbound, breaks, lastWord>>
    BY <1>3 DEF LogConsent
  <2>5. RowsHold
    BY <2>4, NoRow DEF IInv
  <2>6. JobsHold
    <3> HIDE DEF job
    <3>1. job.lead <= Len(leads') /\ Len(leads') >= Len(leads) /\ Len(leads') \in Nat
      BY <2>1, <2>2, <2>4, LeadInRange DEF IInv
    <3>2. QED
      BY <2>1, <2>2, <2>3, <3>1, OneJob DEF IInv
  <2>7. LogHolds
    <3>1. CASE ingest[p].offer.consent
      <4>1. log' = Append(log, Entry(Phone, "granted", l))
        BY <1>3, <3>1 DEF LogConsent, Log, l
      <4>2. QED
        BY <2>1, <2>4, <4>1, LogGrants
    <3>2. CASE ~ingest[p].offer.consent
      BY <1>3, <2>4, <3>2, LogStays DEF LogConsent
    <3>3. QED
      BY <3>1, <3>2
  <2>8. QED
    BY <2>4, <2>5, <2>6, <2>7, HoldingSteps DEF IInv, TypeOK
<1>4. ASSUME ingest[p].step \in RowSteps, NEW step \in RowSteps, Goto(p, step),
             \/ \E v \in LeadStates : Update(l, "state", v)
             \/ \E v \in BOOLEAN : Update(l, "dry", v),
             UNCHANGED <<log, outbound, breaks, lastWord>>
      PROVE  IInv'
  <2>1. RowsHold
    BY <1>1, <1>4, UpdateHolds DEF IInv
  <2>2. JobsHold
    <3>1. ingest[p].step \in Steps /\ ingest[p].lead # 0
      BY <1>1, <1>4 DEF RowSteps, l
    <3>2. QED
      BY <1>4, <2>1, <3>1, GotoHolds DEF IInv, RowsHold
  <2>3. QED
    BY <1>4, <2>1, <2>2, StepOnRow
<1>5. CASE AutoReplied(p)
  <2>1. ingest[p].step \in RowSteps /\ "reply" \in RowSteps /\ "AUTO_REPLIED" \in LeadStates
    BY <1>5 DEF AutoReplied, RowSteps, Steps, LeadStates
  <2>2. QED
    BY <1>4, <1>5, <2>1 DEF AutoReplied, l
<1>6. CASE Reply(p)
  <2>1. ingest[p].step \in RowSteps /\ "ai" \in RowSteps
    BY <1>6 DEF Reply, RowSteps, Steps
  <2>2. DryRuns \subseteq BOOLEAN
    BY DEF DryRuns
  <2>3. QED
    BY <1>4, <1>6, <2>1, <2>2 DEF Reply, l
<1>7. CASE Engage(p)
  <2>1. ingest[p].step \in RowSteps /\ "ENGAGED" \in LeadStates
    BY <1>7 DEF Engage, RowSteps, Steps, LeadStates
  <2>2. RowsHold
    BY <1>1, <1>7, <2>1, UpdateHolds DEF Engage, IInv, l
  <2>3. JobsHold
    <3>1. Len(leads') \in Nat /\ Len(leads') >= Len(leads)
      BY <1>1, <2>1, <2>2 DEF RowsHold
    <3>2. QED
      BY <1>7, <3>1, DoneHolds DEF Engage, IInv
  <2>4. QED
    BY <1>7, <2>2, <2>3, StepOnRow DEF Engage
<1>8. CASE DeleteUnanswered(p)
  <2>1. l \in Rows /\ l # 0 /\ Len(leads) \in Nat
    BY <1>1, <1>8 DEF DeleteUnanswered, RowSteps, Steps
  <2>2. /\ Forget(l) /\ leads' = [leads EXCEPT ![l] = Gone(l)] /\ Done(p)
        /\ UNCHANGED <<outbound, breaks, lastWord>>
    BY <1>8 DEF DeleteUnanswered, l
  <2>3. RowsHold
    BY <2>1, <2>2, GoneHolds DEF IInv
  <2>4. JobsHold
    <3>1. Len(leads') \in Nat /\ Len(leads') >= Len(leads)
      BY <2>1, <2>3 DEF RowsHold
    <3>2. QED
      BY <2>2, <3>1, DoneHolds DEF IInv
  <2>5. LogHolds
    BY <2>1, <2>2, LogForgets DEF Forget
  <2>6. QED
    BY <2>2, <2>3, <2>4, <2>5, HoldingSteps DEF IInv, TypeOK
<1>9. CASE IngestFails(p) \/ EmailLead(p)
  <2>1. Done(p) /\ UNCHANGED <<leads, log, outbound, breaks, lastWord>>
    BY <1>9 DEF IngestFails, EmailLead
  <2>2. RowsHold
    BY <2>1, NoRow DEF IInv
  <2>3. Len(leads') \in Nat /\ Len(leads') >= Len(leads)
    BY <2>1, LeadInRange DEF IInv
  <2>4. JobsHold
    BY <2>1, <2>3, DoneHolds DEF IInv
  <2>5. QED
    BY <2>1, <2>2, <2>4, StepOnRow
<1>10. QED
  BY <1>2, <1>3, <1>5, <1>6, <1>7, <1>8, <1>9 DEF IngestStep
-----------------------------------------------------------------------------
(* The e-mail poll                                                         *)

\* A parser's answers are yes or no.
LEMMA ReadsType ==
  \A parser, mail : Reads(parser, mail).phone \in BOOLEAN /\ Reads(parser, mail).email \in BOOLEAN
<1> TAKE parser, mail
<1>1. QED
  BY DEF Reads, NoLead, Has

\* So does parse_email, whichever parser is asked.
LEMMA ParsedType ==
  \A parsed \in Parsed : parsed.phone \in BOOLEAN /\ parsed.email \in BOOLEAN
<1>1. ASSUME NEW mail
      PROVE  ParseEmail(mail).phone \in BOOLEAN /\ ParseEmail(mail).email \in BOOLEAN
  <2> DEFINE found == {i \in DOMAIN Parsers : Reads(Parsers[i], mail).known}
  <2>1. ParseEmail(mail) = IF found = {} THEN NoLead ELSE Reads(Parsers[Min(found)], mail)
    BY DEF ParseEmail
  <2> HIDE DEF found
  <2>2. CASE found = {}
    BY <2>1, <2>2 DEF NoLead
  <2>3. CASE found # {}
    <3>1. ParseEmail(mail) = Reads(Parsers[Min(found)], mail)
      BY <2>1, <2>3
    <3>2. QED
      BY <3>1, ReadsType
  <2>4. QED
    BY <2>2, <2>3
<1>2. QED
  BY <1>1 DEF Parsed

(***************************************************************************)
(* An opt-out by e-mail.                                                   *)
(***************************************************************************)
LEMMA MailOptOutHolds ==
  ASSUME IInv, NEW l \in Rows, MailFromLead(l)
  PROVE  IInv'
<1> DEFINE key == IF leads[l].phone THEN Phone ELSE Email
           row == Entry(key, "opted_out", l)
           lead == [leads[l] EXCEPT !.state = IF CanTransition(@, "OPTED_OUT") THEN "OPTED_OUT" ELSE @]
<1>1. /\ log' = Append(log, row)
      /\ leads' = [leads EXCEPT ![l].state = IF CanTransition(@, "OPTED_OUT") THEN "OPTED_OUT" ELSE @]
      /\ lastWord' = IF leads[l].phone /\ lastWord = "start" THEN "none" ELSE lastWord
      /\ ingest["poll"] = Idle
      /\ UNCHANGED <<outbound, ingest, breaks>>
  BY DEF MailFromLead, MailOptsOut, Fetch, Log
<1>2. leads \in Seq(Lead) /\ leads[l] \in Lead /\ l \in 0..MaxLeads
      /\ Len(leads) \in Nat /\ Rows = 1..Len(leads)
  BY LeadInRange DEF IInv, TypeOK
<1>3. log \in Seq(LogRow) /\ row \in LogRow
  BY <1>2 DEF IInv, TypeOK, LogRow, Entry, Actions
<1>4. row.phone = key /\ row.action = "opted_out"
  BY DEF Entry
<1>5. WordStands'
  <2>1. CASE lastWord' = "stop"
    <3>1. lastWord = "stop"
      BY <1>1, <2>1
    <3>2. Stands(log, "opted_out", "re_granted")
      BY <3>1 DEF IInv, WordStands
    <3> HIDE DEF row
    <3>3. Stands(Append(log, row), "opted_out", "re_granted")
      BY <1>3, <1>4, <3>2, StandsAfterRow
    <3>4. QED
      BY <1>1, <2>1, <3>3 DEF WordStands
  <2>2. CASE lastWord' = "start"
    <3>1. lastWord = "start" /\ ~leads[l].phone
      BY <1>1, <2>2
    <3>2. Stands(log, "re_granted", "opted_out") /\ row.phone # Phone
      BY <1>4, <3>1, KeysAssumption DEF IInv, WordStands
    <3> HIDE DEF row
    <3>3. Stands(Append(log, row), "re_granted", "opted_out")
      BY <1>3, <1>4, <3>2, StandsAfterRow
    <3>4. QED
      BY <1>1, <2>2, <3>3 DEF WordStands
  <2>3. QED
    BY <2>1, <2>2 DEF WordStands
<1>6. LogHolds
  <2> HIDE DEF row
  <2>1. log' \in Seq(LogRow)
    BY <1>1, <1>3
  <2>2. AddressStaysOut'
    BY <1>1, <1>3, <1>4, AddressAfterRow DEF IInv
  <2>3. QED
    BY <1>1, <1>5, <2>1, <2>2 DEF LogHolds
<1>7. RowsHold
  <2>1. leads' = [leads EXCEPT ![l] = lead]
    BY <1>1, <1>2
  <2>2. lead \in Lead /\ lead.phone = leads[l].phone /\ lead.source = leads[l].source
        /\ lead.fresh = leads[l].fresh /\ lead.gone = leads[l].gone
    BY <1>2 DEF Lead, LeadStates
  <2> HIDE DEF lead
  <2>3. QED
    BY <2>1, <2>2, OneRow DEF IInv
<1>8. JobsHold
  <2>1. Len(leads') \in Nat /\ Len(leads') >= Len(leads)
    BY <1>2, <1>7 DEF RowsHold
  <2>2. QED
    BY <1>1, <2>1, NoJob DEF IInv
<1>9. QED
  BY <1>1, <1>6, <1>7, <1>8, HoldingSteps DEF IInv, TypeOK

\* Whatever a mail is.
LEMMA PollStepHolds ==
  ASSUME IInv, PollStep
  PROVE  IInv'
<1>1. ASSUME NEW l \in Rows, MailFromLead(l)
      PROVE  IInv'
  BY <1>1, MailOptOutHolds
<1>2. ASSUME NEW parsed \in Parsed, MailWithPhone(parsed)
      PROVE  IInv'
  <2> DEFINE offer == Mail(parsed)
  <2>1. offer.phone /\ OfThread("poll", offer) /\ "poll" \in Threads
    BY <1>2, ParsedType DEF MailWithPhone, OfThread, Offers, Mail, Offer, Sources, Threads
  <2>2. Begin("poll", offer)
    BY <1>2 DEF MailWithPhone
  <2> HIDE DEF offer
  <2>3. QED
    BY <2>1, <2>2, BeginHolds
<1>3. ASSUME NEW parsed \in Parsed, MailWithoutPhone(parsed)
      PROVE  IInv'
  <2>1. ~NoPhone.phone /\ OfThread("poll", NoPhone) /\ "poll" \in Threads
    BY DEF OfThread, Offers, NoPhone, Offer, Sources, Threads
  <2>2. /\ Work("poll", NoPhone, "create", 0) /\ ~OptedOut(log, Email)
        /\ UNCHANGED <<leads, log, outbound, breaks, lastWord>>
    BY <1>3 DEF MailWithoutPhone, EmailHasOptedOut
  <2>3. QED
    BY <2>1, <2>2, CreationBegins
<1>4. QED
  BY <1>1, <1>2, <1>3 DEF PollStep
-----------------------------------------------------------------------------
(* The event loop                                                          *)

\* Of some rows one is the newest.
LEMMA NewestIsOne ==
  ASSUME TypeOK, NEW S \in SUBSET Rows, S # {}
  PROVE  Newest(S) \in S
<1> DEFINE rank == [i \in S |-> Cardinality({j \in S : j <= i})]
           n == Len(leads)
           m == Cardinality(S)
<1>1. n \in Nat /\ S \in SUBSET (1..n)
  BY LeadInRange
<1> HIDE DEF n
<1>2. /\ m \in Nat
      /\ \A i \in S : rank[i] \in 1..m
      /\ \A i, j \in S : i < j <=> rank[i] < rank[j]
      /\ \A k \in 1..m : \E i \in S : rank[i] = k
  BY <1>1, RanksCount
<1> HIDE DEF rank, m
<1>3. m \in 1..m
  <2>1. PICK i \in S : TRUE
    OBVIOUS
  <2>2. rank[i] \in 1..m
    BY <1>2
  <2>3. QED
    BY <1>2, <2>2
<1>4. PICK l \in S : rank[l] = m
  BY <1>2, <1>3
<1>5. \A k \in S : k <= l
  <2> TAKE k \in S
  <2>1. rank[k] \in 1..m /\ ~(rank[l] < rank[k])
    BY <1>2, <1>4
  <2>2. ~(l < k)
    BY <1>2, <2>1
  <2>3. k \in Nat /\ l \in Nat
    BY <1>1
  <2>4. QED
    BY <2>2, <2>3
<1>6. QED
  BY <1>5 DEF Newest

\* A handler that asks the consent log, or ends, touches no row.
LEMMA WorkHolds ==
  ASSUME TypeOK, UNCHANGED leads, NEW offer \in Offers, NEW step \in {"stop", "start", "call"},
         Work("loop", offer, step, 0)
  PROVE  RowsHold /\ JobsHold
<1> DEFINE job == [step |-> step, lead |-> 0, offer |-> offer]
<1>1. job \in Jobs /\ job.step = step /\ job.lead = 0
  BY BoundAssumption DEF Jobs, Steps
<1>2. ingest' = [ingest EXCEPT !["loop"] = job] /\ "loop" \in Threads
  BY DEF Work, Threads
<1> HIDE DEF job
<1>3. Len(leads') \in Nat /\ Len(leads') >= Len(leads) /\ job.lead <= Len(leads')
  BY <1>1, LeadInRange
<1>4. job.step # "create" /\ job.step \notin RowSteps
  BY <1>1 DEF RowSteps
<1>5. QED
  BY <1>1, <1>2, <1>3, <1>4, OneJob, NoRow

\* The adapters' offers on the event loop.
LEMMA LoopOffers ==
  /\ TextOffer \in Offers /\ Call \in Offers
  /\ OfThread("loop", TextOffer) /\ TextOffer.phone
  /\ OfThread("loop", RepOffer) /\ RepOffer.phone
  /\ \A f \in Forms : OfThread("loop", Form(f[1], f[2])) /\ Form(f[1], f[2]).phone
<1>1. \A f \in Forms : f[1] \in BOOLEAN /\ f[2] \in BOOLEAN
  BY FormsAssumption
<1>2. QED
  BY <1>1 DEF OfThread, Offers, TextOffer, Call, RepOffer, Form, Offer, Sources

\* What the handlers of texts leave of rows, threads and log.
LEMMA TextHolds ==
  ASSUME IInv, TextFromLead \/ TextStop \/ LeadOptsOut \/ TextStart \/ LeadOptsIn
  PROVE  IInv'
<1>1. CASE TextStop \/ TextStart
  <2>1. \/ Work("loop", TextOffer, "stop", 0)
        \/ Work("loop", TextOffer, "start", 0)
    BY <1>1 DEF TextStop, TextStart
  <2>2. UNCHANGED <<leads, outbound, breaks>> /\ lastWord' \in {"stop", "start"}
    BY <1>1 DEF TextStop, TextStart
  <2>3. RowsHold /\ JobsHold
    BY <2>1, <2>2, WorkHolds, LoopOffers DEF IInv
  <2>4. LogHolds
    BY <1>1, LogHearsText DEF TextStop, TextStart, Log
  <2>5. QED
    BY <2>2, <2>3, <2>4, HoldingSteps DEF IInv, TypeOK
<1>2. CASE TextFromLead
  <2> DEFINE l == Newest(OpenByPhone)
  <2>1. OpenByPhone # {} /\ OpenByPhone \in SUBSET Rows
    BY <1>2 DEF TextFromLead, OpenByPhone, OfPhone
  <2>2. l \in Rows
    BY <2>1, NewestIsOne DEF IInv
  <2>3. PICK dry \in DryRuns :
          leads' = [leads EXCEPT ![l].state = IF @ = "AUTO_REPLIED" THEN "ENGAGED" ELSE @,
                                 ![l].dry = dry]
    BY <1>2 DEF TextFromLead
  <2>4. dry \in BOOLEAN
    BY DEF DryRuns
  <2> HIDE DEF l
  <2> DEFINE row == [leads[l] EXCEPT !.state = IF @ = "AUTO_REPLIED" THEN "ENGAGED" ELSE @,
                                     !.dry = dry]
  <2>5. leads \in Seq(Lead) /\ leads[l] \in Lead
    BY <2>2 DEF IInv, TypeOK, Rows
  <2>6. leads' = [leads EXCEPT ![l] = row]
    BY <2>2, <2>3, <2>5
  <2>7. row \in Lead /\ row.phone = leads[l].phone /\ row.source = leads[l].source
        /\ row.fresh = leads[l].fresh /\ row.gone = leads[l].gone
    BY <2>4, <2>5 DEF Lead, LeadStates
  <2>8. RowsHold
    <3> HIDE DEF row
    <3>1. QED
      BY <2>2, <2>6, <2>7, OneRow DEF IInv
  <2>9. UNCHANGED <<log, outbound, ingest, breaks, lastWord>>
    BY <1>2 DEF TextFromLead
  <2>10. JobsHold
    <3>1. Len(leads') \in Nat /\ Len(leads') >= Len(leads)
      BY <2>8, LeadInRange DEF IInv, RowsHold
    <3>2. QED
      BY <2>9, <3>1, NoJob DEF IInv
  <2>11. QED
    BY <2>8, <2>9, <2>10, StepOnRow
<1>3. CASE LeadOptsOut \/ LeadOptsIn
  <2>1. Done("loop") /\ UNCHANGED <<log, outbound, breaks, lastWord>> /\ "loop" \in Threads
    BY <1>3 DEF LeadOptsOut, LeadOptsIn, Threads
  <2>2. \/ UNCHANGED leads
        \/ \E l \in Rows, to \in LeadStates : leads' = [leads EXCEPT ![l].state = to]
    <3>1. CASE LeadOptsOut
      <4>1. CASE OfPhone = {}
        BY <3>1, <4>1 DEF LeadOptsOut
      <4>2. CASE OfPhone # {}
        <5>1. Newest(OfPhone) \in Rows
          BY <4>2, NewestIsOne DEF OfPhone, IInv
        <5>2. QED
          BY <3>1, <5>1 DEF LeadOptsOut, LeadStates
      <4>3. QED
        BY <4>1, <4>2
    <3>2. CASE LeadOptsIn
      <4> DEFINE out == {l \in OfPhone : leads[l].state = "OPTED_OUT"}
      <4>1. leads' = IF out = {} THEN leads ELSE [leads EXCEPT ![Newest(out)].state = "NEW"]
        BY <3>2 DEF LeadOptsIn
      <4>2. out \in SUBSET Rows
        BY DEF OfPhone
      <4> HIDE DEF out
      <4>3. out # {} => Newest(out) \in Rows
        BY <4>2, NewestIsOne DEF IInv
      <4>4. QED
        BY <4>1, <4>3 DEF LeadStates
    <3>3. QED
      BY <1>3, <3>1, <3>2
  <2>3. RowsHold
    <3>1. ASSUME NEW l \in Rows, NEW to \in LeadStates, leads' = [leads EXCEPT ![l].state = to]
          PROVE  RowsHold
      <4>1. Update(l, "state", to)
        BY <3>1 DEF Update
      <4>2. QED
        BY <4>1, UpdateHolds DEF IInv
    <3>2. QED
      BY <2>2, <3>1, NoRow DEF IInv
  <2>4. JobsHold
    <3>1. Len(leads') \in Nat /\ Len(leads') >= Len(leads)
      BY <2>3, LeadInRange DEF IInv, RowsHold
    <3>2. QED
      BY <2>1, <3>1, DoneHolds DEF IInv
  <2>5. QED
    BY <2>1, <2>3, <2>4, StepOnRow
<1>4. QED
  BY <1>1, <1>2, <1>3

(***************************************************************************)
(* A missed call: a lead at once, or when it has been answered.            *)
(***************************************************************************)
LEMMA CallHolds ==
  ASSUME IInv, MissedCall \/ CallAnswered
  PROVE  IInv'
<1> DEFINE Added(row) == /\ row \in Lead /\ row.source = "PHONE"
                         /\ leads' = Append(leads, row) /\ Len(leads) < MaxLeads
<1>1. "loop" \in Threads /\ Len(leads) \in Nat /\ Rows = 1..Len(leads) /\ leads \in Seq(Lead)
      /\ MaxLeads \in Nat
  BY LeadInRange DEF Threads, IInv, TypeOK
<1>2. UNCHANGED <<outbound, breaks, lastWord>>
  BY DEF MissedCall, CallAnswered
<1>3. ASSUME NEW row, Added(row), LogHolds, JobsHold, ingest'["loop"].step # "create"
      PROVE  IInv'
  <2>1. \A p \in Threads : ingest'[p].step = "create" => p = "poll"
    BY <1>3 DEF Threads
  <2>2. QED
    BY <1>2, <1>3, <2>1, AddingSteps DEF IInv, TypeOK
<1>4. CASE MissedCall
  <2>1. CASE Work("loop", Call, "call", 0) /\ UNCHANGED <<leads, log>>
    <3>1. RowsHold /\ JobsHold
      BY <2>1, WorkHolds, LoopOffers DEF IInv
    <3>2. QED
      BY <1>2, <2>1, <3>1, StepOnRow
  <2>2. CASE /\ leads' = Append(leads, NewLead(Call))
             /\ Log(Phone, "granted", Len(leads) + 1)
             /\ Work("loop", Call, "call", Len(leads) + 1)
    <3> DEFINE row == NewLead(Call)
               job == [step |-> "call", lead |-> Len(leads) + 1, offer |-> Call]
    <3>1. Len(leads) + 1 \in 0..MaxLeads /\ Len(leads) < MaxLeads
      BY <1>1, <1>4 DEF MissedCall
    <3>2. Added(row)
      BY <2>2, <3>1 DEF NewLead, Call, Offer, Lead, Sources, LeadStates
    <3>3. job \in Jobs /\ job.step = "call" /\ job.lead = Len(leads) + 1
      BY <3>1, LoopOffers DEF Jobs, Steps
    <3>4. ingest' = [ingest EXCEPT !["loop"] = job]
      BY <2>2 DEF Work
    <3> HIDE DEF job
    <3>5. job.step \notin RowSteps /\ job.step # "create" /\ Len(leads') = Len(leads) + 1
      BY <1>1, <3>2, <3>3 DEF RowSteps
    <3>6. Len(leads') \in Nat /\ Len(leads') >= Len(leads) /\ job.lead <= Len(leads')
      BY <1>1, <3>3, <3>5
    <3>7. JobsHold
      BY <1>1, <3>3, <3>4, <3>5, <3>6, OneJob DEF IInv
    <3>8. LogHolds
      BY <1>2, <2>2, <3>1, LogGrants DEF Log
    <3>9. ingest'["loop"] = job
      BY <1>1, <3>4 DEF IInv, TypeOK
    <3>10. QED
      BY <1>3, <3>2, <3>3, <3>7, <3>8, <3>9
  <2>3. QED
    BY <1>4, <2>1, <2>2 DEF MissedCall
<1>5. CASE CallAnswered
  <2> DEFINE l == ingest["loop"].lead
             Answered(lead, dry) == [lead EXCEPT !.state = "AUTO_REPLIED", !.dry = dry]
  <2>1. l \in 0..Len(leads)
    BY <1>1, LeadInRange DEF IInv
  <2>2. PICK dry \in {FALSE, ~outbound} :
          IF l = 0 THEN Len(leads) < MaxLeads /\ leads' = Append(leads, Answered(NewLead(Call), dry))
          ELSE leads' = [leads EXCEPT ![l] = Answered(@, dry)]
    BY <1>5 DEF CallAnswered
  <2>3. dry \in BOOLEAN
    BY DEF IInv, TypeOK
  <2>4. Done("loop") /\ UNCHANGED <<log, outbound, breaks, lastWord>>
    BY <1>5 DEF CallAnswered
  <2>5. ingest'["loop"] = Idle
    BY <1>1, <2>4 DEF Done, IInv, TypeOK
  <2>6. CASE l = 0
    <3> DEFINE row == Answered(NewLead(Call), dry)
    <3>1. leads' = Append(leads, row) /\ Len(leads) < MaxLeads
      BY <2>2, <2>6
    <3>2. row \in Lead /\ row.source = "PHONE"
      BY <2>3 DEF NewLead, Call, Offer, Lead, Sources, LeadStates
    <3> HIDE DEF row, l
    <3>3. Added(row)
      BY <3>1, <3>2
    <3>4. Len(leads') \in Nat /\ Len(leads') >= Len(leads)
      BY <1>1, <3>1, <3>2
    <3>5. JobsHold
      BY <1>1, <2>4, <3>4, DoneHolds DEF IInv
    <3>6. LogHolds
      BY <2>4, LogStays
    <3>7. ingest'["loop"].step # "create"
      BY <2>5 DEF Idle
    <3>8. QED
      BY <1>3, <3>3, <3>5, <3>6, <3>7
  <2>7. CASE l # 0
    <3> DEFINE row == Answered(leads[l], dry)
    <3>1. l \in Rows /\ leads[l] \in Lead
      BY <1>1, <2>1, <2>7
    <3>2. leads' = [leads EXCEPT ![l] = row]
      BY <2>2, <2>7, <3>1
    <3>3. row \in Lead /\ row.phone = leads[l].phone /\ row.source = leads[l].source
          /\ row.fresh = leads[l].fresh /\ row.gone = leads[l].gone
      BY <2>3, <3>1 DEF Lead, LeadStates
    <3> HIDE DEF row, l
    <3>4. RowsHold
      BY <3>1, <3>2, <3>3, OneRow DEF IInv
    <3>5. Len(leads') \in Nat /\ Len(leads') >= Len(leads)
      BY <1>1, <3>4 DEF RowsHold
    <3>6. JobsHold
      BY <1>1, <2>4, <3>5, DoneHolds DEF IInv
    <3>7. QED
      BY <2>4, <3>4, <3>6, StepOnRow
  <2>8. QED
    BY <2>6, <2>7
<1>6. QED
  BY <1>4, <1>5

(***************************************************************************)
(* Deletions, other moves, days and restarts.                              *)
(***************************************************************************)
\* A lead deleted on the dashboard: no row of the log refers to it.
LEMMA DeletionHolds ==
  ASSUME IInv, NEW l \in Rows, DeleteLead(l)
  PROVE  IInv'
<1>1. leads' = [leads EXCEPT ![l] = Gone(l)] /\ UNCHANGED <<log, outbound, ingest, breaks, lastWord>>
  BY DEF DeleteLead
<1>2. RowsHold
  BY <1>1, GoneHolds DEF IInv
<1>3. Len(leads') \in Nat /\ Len(leads') >= Len(leads)
  BY <1>2, LeadInRange DEF IInv, RowsHold
<1>4. QED
  BY <1>1, <1>2, <1>3, NoJob, StepOnRow DEF IInv

\* The admin's deletions keep the rows of the log that name no lead, so the last word.
LEMMA WipeHolds ==
  ASSUME IInv, NEW S \in SUBSET Rows, Wipe(S)
  PROVE  IInv'
<1>1. /\ breaks' = breaks + 1 /\ log' = WithoutLeads(log, S)
      /\ leads' = [l \in Rows |-> IF l \in S THEN Gone(l) ELSE leads[l]]
      /\ UNCHANGED <<outbound, ingest, lastWord>>
  BY DEF Wipe
<1>2. leads \in Seq(Lead) /\ Rows = 1..Len(leads) /\ Len(leads) \in Nat
  BY LeadInRange DEF IInv, TypeOK
<1>3. \A l \in Rows : leads[l] \in Lead /\ leads[l].state \in LeadStates
  <2>1. \A l \in Rows : leads[l] \in Lead
    BY <1>2
  <2>2. \A lead \in Lead : lead.state \in LeadStates
    BY DEF Lead
  <2>3. QED
    BY <2>1, <2>2
<1>4. \A l \in Rows : Gone(l) \in Lead /\ Gone(l).gone
  BY <1>3 DEF Lead, Gone, Sources
<1>5. \A l \in Rows : leads'[l] \in Lead /\ (leads'[l].gone \/ leads'[l] = leads[l])
  BY <1>1, <1>3, <1>4
<1>6. leads' \in Seq(Lead) /\ Len(leads') = Len(leads)
  BY <1>1, <1>2, <1>3, <1>4
<1>7. RowsHold
  BY <1>5, <1>6 DEF RowsHold
<1>8. LogHolds
  BY <1>1, <1>2, LogForgets
<1>9. JobsHold
  <2>1. Len(leads') \in Nat /\ Len(leads') >= Len(leads)
    BY <1>2, <1>6
  <2>2. QED
    BY <1>1, <2>1, NoJob DEF IInv
<1>10. QED
  BY <1>1, <1>7, <1>8, <1>9, HoldingSteps DEF IInv, TypeOK

\* The other modules' moves are edges of the table.
LEMMA OtherMoveHolds ==
  ASSUME IInv, NEW l \in Rows, NEW m \in OtherMoves, OtherMove(l, m[1], m[2])
  PROVE  /\ IInv'
         /\ CanTransition(leads[l].state, m[2]) /\ m[2] \in LeadStates
<1>1. /\ leads[l].state = m[1] /\ Update(l, "state", m[2]) /\ breaks' = breaks + 1
      /\ UNCHANGED <<log, outbound, ingest, lastWord>>
  BY DEF OtherMove
<1>2. leads[l] \in Lead
  BY DEF IInv, TypeOK, Rows
<1>3. leads[l].state \in LeadStates
  BY <1>2 DEF Lead
<1>4. CanTransition(leads[l].state, m[2]) /\ m[2] \in LeadStates
  BY <1>1, <1>3, MovesAssumption DEF CanTransition, TRANSITIONS, LeadStates
<1>5. RowsHold
  BY <1>1, <1>4, UpdateHolds DEF IInv
<1>6. LogHolds
  BY <1>1, LogStays
<1>7. JobsHold
  <2>1. Len(leads') \in Nat /\ Len(leads') >= Len(leads)
    BY <1>5, LeadInRange DEF IInv, RowsHold
  <2>2. QED
    BY <1>1, <2>1, NoJob DEF IInv
<1>8. QED
  BY <1>1, <1>4, <1>5, <1>6, <1>7, HoldingSteps DEF IInv, TypeOK

\* After a day nothing is fresh, and no thread has looked.
LEMMA DayHolds ==
  ASSUME IInv, DayPasses
  PROVE  IInv'
<1>1. /\ breaks' = breaks + 1 /\ leads' = [l \in Rows |-> [leads[l] EXCEPT !.fresh = FALSE]]
      /\ UNCHANGED <<log, outbound, ingest, lastWord>>
  BY DEF DayPasses
<1>2. leads \in Seq(Lead) /\ Rows = 1..Len(leads) /\ Len(leads) \in Nat
  BY LeadInRange DEF IInv, TypeOK
<1>3. \A l \in Rows : leads[l] \in Lead
  BY <1>2
<1>4. \A l \in Rows :
        /\ leads'[l] \in Lead
        /\ leads'[l].phone = leads[l].phone /\ leads'[l].source = leads[l].source
        /\ leads'[l].gone = leads[l].gone /\ ~leads'[l].fresh
  BY <1>1, <1>3 DEF Lead
<1>5. leads' \in Seq(Lead) /\ Len(leads') = Len(leads)
  BY <1>1, <1>2, <1>4
<1>6. RowsHold
  BY <1>4, <1>5 DEF RowsHold
<1>7. LogHolds
  BY <1>1, LogStays
<1>8. JobsHold
  <2>1. Len(leads') \in Nat /\ Len(leads') >= Len(leads)
    BY <1>2, <1>5
  <2>2. QED
    BY <1>1, <2>1, NoJob DEF IInv
<1>9. QED
  BY <1>1, <1>6, <1>7, <1>8, HoldingSteps DEF IInv, TypeOK

\* A restart leaves rows and log, and no thread at work.
LEMMA CrashHolds ==
  ASSUME IInv, Crash
  PROVE  IInv'
<1>1. /\ breaks' = breaks + 1 /\ outbound' = TRUE /\ ingest' = [p \in Threads |-> Idle]
      /\ UNCHANGED <<leads, log, lastWord>>
  BY DEF Crash
<1>2. RowsHold
  BY <1>1, NoRow DEF IInv
<1>3. LogHolds
  BY <1>1, LogStays
<1>4. JobsHold
  <2>1. Idle.lead = 0 /\ Idle.step \notin RowSteps /\ Idle.step # "create"
    BY DEF Idle, RowSteps, Steps
  <2>2. Idle.lead <= Len(leads)
    BY <2>1, LeadInRange DEF IInv
  <2>3. QED
    BY <1>1, <2>1, <2>2 DEF JobsHold
<1>5. QED
  BY <1>1, <1>2, <1>3, <1>4, HoldingSteps DEF IInv, TypeOK
-----------------------------------------------------------------------------
(* The invariant and what it says                                          *)

\* Nothing is there, nothing was said.
LEMMA InitHolds == Init => IInv
<1> SUFFICES ASSUME Init PROVE IInv
  OBVIOUS
<1>1. leads = <<>> /\ log = <<>> /\ Len(leads) = 0 /\ Rows = {} /\ DOMAIN log = {}
  BY DEF Init, Rows
<1>2. \A p \in Threads : ingest[p] = Idle
  BY DEF Init
<1>3. Idle.lead = 0 /\ Idle.step \notin RowSteps /\ Idle.step # "create"
  BY DEF Idle, RowSteps, Steps
<1>4. TypeOK
  BY <1>1, <1>2, <1>3, FormsAssumption, BoundAssumption DEF Init, TypeOK
<1>5. WordStands /\ AddressStaysOut
  BY <1>1 DEF Init, WordStands, AddressStaysOut
<1>6. OffersHold /\ LookHolds /\ AddressChecked
  BY <1>2, <1>3 DEF OffersHold, LookHolds, AddressChecked, Threads
<1>7. DuplicatesOnlyByRace
  BY <1>1 DEF DuplicatesOnlyByRace, OfPhone
<1>8. QED
  BY <1>4, <1>5, <1>6, <1>7 DEF IInv

\* Every handler of the event loop keeps the invariant.
LEMMA LoopStepHolds ==
  ASSUME IInv, LoopStep
  PROVE  IInv'
<1>1. "loop" \in Threads
  BY DEF Threads
<1>2. CASE FormArrives
  BY <1>1, <1>2, LoopOffers, BeginHolds DEF FormArrives
<1>3. CASE RepEnters \/ TextFromStranger
  BY <1>1, <1>3, LoopOffers, BeginHolds DEF RepEnters, TextFromStranger
<1>4. CASE TextFromLead \/ TextStop \/ LeadOptsOut \/ TextStart \/ LeadOptsIn
  BY <1>4, TextHolds
<1>5. CASE MissedCall \/ CallAnswered
  BY <1>5, CallHolds
<1>6. CASE CleanupTestLeads \/ ResetAllData
  <2>1. OfPhone \in SUBSET Rows /\ {l \in Rows : ~leads[l].gone} \in SUBSET Rows
    BY DEF OfPhone
  <2>2. QED
    BY <1>6, <2>1, WipeHolds DEF CleanupTestLeads, ResetAllData
<1>7. ASSUME NEW l \in Rows, DeleteLead(l)
      PROVE  IInv'
  BY <1>7, DeletionHolds
<1>8. ASSUME NEW l \in Rows, NEW m \in OtherMoves, OtherMove(l, m[1], m[2])
      PROVE  IInv'
  BY <1>8, OtherMoveHolds
<1>9. QED
  BY <1>2, <1>3, <1>4, <1>5, <1>6, <1>7, <1>8 DEF LoopStep

\* Every step does.
LEMMA NextHolds == IInv /\ [Next]_vars => IInv'
<1> SUFFICES ASSUME IInv, [Next]_vars PROVE IInv'
  OBVIOUS
<1>1. ASSUME NEW p \in Threads, IngestStep(p)
      PROVE  IInv'
  BY <1>1, IngestStepHolds
<1>2. CASE PollStep
  BY <1>2, PollStepHolds
<1>3. CASE LoopStep
  BY <1>3, LoopStepHolds
<1>4. CASE DayPasses
  BY <1>4, DayHolds
<1>5. CASE Crash
  BY <1>5, CrashHolds
<1>6. CASE UNCHANGED vars
  BY <1>6
     DEF vars, IInv, TypeOK, WordStands, AddressStaysOut, OffersHold, LookHolds,
         DuplicatesOnlyByRace, AddressChecked, SameDay, OfPhone, Rows
<1>7. QED
  BY <1>1, <1>2, <1>3, <1>4, <1>5, <1>6 DEF Next

\* What the theorems below rest on.
LEMMA Invariance == Spec => []IInv
  BY InitHolds, NextHolds, PTL DEF Spec

(***************************************************************************)
(* Leads, log and threads keep their types.                                *)
(***************************************************************************)
THEOREM TypeCorrect == Spec => []TypeOK
<1>1. IInv => TypeOK
  BY DEF IInv
<1>2. QED
  BY <1>1, Invariance, PTL

(***************************************************************************)
(* What the customer last asked for by text is what send_sms will see,     *)
(* whatever the intake and the dashboard have deleted since (main.py       *)
(* writes keyword rows without a lead; the deletions go by lead).          *)
(***************************************************************************)
THEOREM LastWord == Spec => []LastWordCounts
<1>1. IInv => LastWordCounts
  BY StandingWordCounts DEF IInv, TypeOK, LogRow, WordStands, LastWordCounts
<1>2. QED
  BY <1>1, Invariance, PTL

(***************************************************************************)
(* Two leads of one customer and one day come of different threads, or of  *)
(* a missed call (ingest_lead's check for duplicates).                     *)
(***************************************************************************)
THEOREM Duplicates == Spec => []DuplicatesOnlyByRace
<1>1. IInv => DuplicatesOnlyByRace
  BY DEF IInv
<1>2. QED
  BY <1>1, Invariance, PTL

(***************************************************************************)
(* The steps that add a row: an ingest's commit, and two of a missed call. *)
(***************************************************************************)
LEMMA WhoAdds ==
  ASSUME IInv, [Next]_vars, NEW l \in DOMAIN leads' \ Rows
  PROVE  \/ \E p \in Threads : Create(p)
         \/ MissedCall \/ CallAnswered
<1>1. \A S : DOMAIN [r \in S |-> leads[r]] = S
  OBVIOUS
<1>2. DOMAIN leads' # Rows
  OBVIOUS
<1>3. UNCHANGED leads => DOMAIN leads' = Rows
  BY DEF Rows
<1>4. \A r, u : DOMAIN [leads EXCEPT ![r] = u] = Rows
  BY DEF Rows
<1>5. ASSUME NEW p \in Threads, IngestStep(p), ~Create(p)
      PROVE  DOMAIN leads' = Rows
  BY <1>3, <1>4, <1>5
     DEF IngestStep, LogConsent, AutoReplied, Reply, Engage, DeleteUnanswered, IngestFails,
         EmailLead, Update, Rows
<1>6. ASSUME NEW p \in Threads, NEW offer, Begin(p, offer)
      PROVE  DOMAIN leads' = Rows
  <2>1. CASE SameDay = {}
    BY <1>3, <1>6, <2>1 DEF Begin
  <2>2. CASE SameDay # {}
    <3>1. PICK r \in SameDay : leads' = [leads EXCEPT ![r] = StartedOver(r, offer)]
      BY <1>6, <2>2, BeginStartsOver DEF IInv
    <3>2. QED
      BY <1>4, <3>1
  <2>3. QED
    BY <2>1, <2>2
<1>7. CASE PollStep
  <2>1. ASSUME NEW r \in Rows, MailFromLead(r)
        PROVE  DOMAIN leads' = Rows
    BY <2>1 DEF MailFromLead, MailOptsOut, Rows
  <2>2. QED
    BY <1>2, <1>3, <1>6, <1>7, <2>1 DEF PollStep, MailWithPhone, MailWithoutPhone, Threads
<1>8. CASE LoopStep /\ ~MissedCall /\ ~CallAnswered
  <2>1. "loop" \in Threads
    BY DEF Threads
  <2>2. CASE FormArrives \/ RepEnters \/ TextFromStranger
    BY <1>2, <1>6, <2>1, <2>2 DEF FormArrives, RepEnters, TextFromStranger
  <2>3. CASE TextFromLead \/ TextStop \/ LeadOptsOut \/ TextStart \/ LeadOptsIn
    BY <1>2, <1>3, <2>3
       DEF TextFromLead, TextStop, LeadOptsOut, TextStart, LeadOptsIn, Rows
  <2>4. CASE CleanupTestLeads \/ ResetAllData
    BY <1>2, <2>4 DEF CleanupTestLeads, ResetAllData, Wipe
  <2>5. ASSUME NEW r \in Rows, DeleteLead(r)
        PROVE  DOMAIN leads' = Rows
    BY <1>4, <2>5 DEF DeleteLead
  <2>6. ASSUME NEW r \in Rows, NEW m \in OtherMoves, OtherMove(r, m[1], m[2])
        PROVE  DOMAIN leads' = Rows
    BY <2>6 DEF OtherMove, Update, Rows
  <2>7. QED
    BY <1>2, <1>8, <2>2, <2>3, <2>4, <2>5, <2>6 DEF LoopStep
<1>9. CASE DayPasses
  BY <1>2, <1>9 DEF DayPasses
<1>10. CASE Crash \/ UNCHANGED vars
  BY <1>2, <1>3, <1>10 DEF Crash, vars
<1>11. QED
  BY <1>2, <1>5, <1>7, <1>8, <1>9, <1>10 DEF Next

(***************************************************************************)
(* No lead is made of an address that has opted out: the poll's check      *)
(* (route_lead.py, _email_has_opted_out) still holds when the row is       *)
(* written.                                                                *)
(***************************************************************************)
THEOREM EmailOut == Spec => EmailStaysOut
<1> DEFINE Out == \A l \in DOMAIN leads' \ Rows : OptedOut(log, Email) => leads'[l].phone
<1>1. ASSUME IInv, [Next]_vars
      PROVE  Out
  <2>1. SUFFICES ASSUME NEW l \in DOMAIN leads' \ Rows, OptedOut(log, Email)
                 PROVE  leads'[l].phone
    OBVIOUS
  <2>2. ASSUME NEW row, leads' = Append(leads, row)
        PROVE  leads'[l] = row
    <3>1. leads \in Seq(Lead) /\ Rows = 1..Len(leads)
      BY <1>1 DEF IInv, TypeOK, Rows
    <3>2. DOMAIN leads' = 1..Len(leads) + 1 /\ leads'[Len(leads) + 1] = row /\ Len(leads) \in Nat
      BY <2>2, <3>1
    <3>3. l = Len(leads) + 1
      BY <2>1, <3>1, <3>2
    <3>4. QED
      BY <3>2, <3>3
  <2>3. ASSUME NEW p \in Threads, Create(p)
        PROVE  leads'[l].phone
    <3>1. ingest[p].step = "create" /\ leads' = Append(leads, NewLead(ingest[p].offer))
      BY <2>3 DEF Create
    <3>2. ingest[p].offer.phone
      BY <1>1, <2>1, <3>1 DEF IInv, OffersHold, AddressChecked, Threads
    <3>3. QED
      BY <2>2, <3>1, <3>2 DEF NewLead
  <2>4. CASE MissedCall
    <3>1. UNCHANGED leads => DOMAIN leads' = Rows
      BY DEF Rows
    <3>2. leads' = Append(leads, NewLead(Call))
      BY <2>1, <2>4, <3>1 DEF MissedCall
    <3>3. QED
      BY <2>2, <3>2 DEF NewLead, Call, Offer
  <2>5. CASE CallAnswered
    <3>1. \A r, u : DOMAIN [leads EXCEPT ![r] = u] = Rows
      BY DEF Rows
    <3>2. PICK dry \in {FALSE, ~outbound} :
            IF ingest["loop"].lead = 0
            THEN leads' = Append(leads, [NewLead(Call) EXCEPT !.state = "AUTO_REPLIED", !.dry = dry])
            ELSE leads' = [leads EXCEPT ![ingest["loop"].lead] =
                             [@ EXCEPT !.state = "AUTO_REPLIED", !.dry = dry]]
      BY <2>5 DEF CallAnswered
    <3>3. leads' = Append(leads, [NewLead(Call) EXCEPT !.state = "AUTO_REPLIED", !.dry = dry])
      BY <2>1, <3>1, <3>2
    <3>4. QED
      BY <2>2, <3>3 DEF NewLead, Call, Offer
  <2>6. QED
    BY <1>1, <2>1, <2>3, <2>4, <2>5, WhoAdds
<1>2. IInv /\ [Next]_vars => [Out]_vars
  BY <1>1
<1> HIDE DEF Out
<1>3. [][Out]_vars => EmailStaysOut
  BY DEF Out, EmailStaysOut
<1>4. QED
  BY <1>2, <1>3, Invariance, PTL DEF Spec
-----------------------------------------------------------------------------
(* The lifecycle                                                           *)

States == [l \in 1..MaxLeads |-> StateOf(l)]

\* What a step of the lead table may do: nothing to the states, or one move.
Moves == UNCHANGED States \/ Lifecycle!Next

\* The states stay.
LEMMA StatesStay ==
  ASSUME DOMAIN leads' = Rows, \A l \in Rows : leads'[l].state = leads[l].state
  PROVE  Moves
<1>1. \A l : StateOf(l)' = StateOf(l)
  BY DEF StateOf, Rows
<1>2. QED
  BY <1>1 DEF Moves, States

\* One row moves, along an edge of the table or a race.
LEMMA OneMoves ==
  ASSUME NEW r \in 1..MaxLeads, NEW to \in LeadStates, StateOf(r) \in LeadStates,
         CanTransition(StateOf(r), to) \/ to \in {"AUTO_REPLIED", "ENGAGED", "NEW"},
         \A l \in 1..MaxLeads : StateOf(l)' = IF l = r THEN to ELSE StateOf(l)
  PROVE  Moves
<1>1. States' = [States EXCEPT ![r] = to]
  BY DEF States
<1>2. CanTransition(States[r], to) \/ <<States[r], to>> \in RacesOfIntake
  BY DEF States, RacesOfIntake
<1>3. CanTransition(States[r], to) = Lifecycle!CanTransition(States[r], to)
  BY DEF CanTransition, TRANSITIONS, LeadStates, Lifecycle!CanTransition,
         Lifecycle!TRANSITIONS, Lifecycle!LeadStates
<1>4. Lifecycle!Move(r, to)
  BY <1>1, <1>2, <1>3 DEF Lifecycle!Move, States
<1>5. to \in Lifecycle!LeadStates
  BY DEF LeadStates, Lifecycle!LeadStates
<1>6. QED
  BY <1>4, <1>5 DEF Moves, Lifecycle!Next

\* A row is written.
LEMMA RowMoves ==
  ASSUME TypeOK, NEW r \in Rows, NEW row, leads' = [leads EXCEPT ![r] = row],
         \/ row.state = leads[r].state
         \/ row.state \in LeadStates /\ CanTransition(leads[r].state, row.state)
         \/ row.state \in {"AUTO_REPLIED", "ENGAGED", "NEW"}
  PROVE  Moves
<1>1. leads[r] \in Lead /\ r \in 1..MaxLeads
  <2>1. leads \in Seq(Lead) /\ Rows = 1..Len(leads) /\ Len(leads) <= MaxLeads /\ Len(leads) \in Nat
    BY DEF TypeOK, Rows
  <2>2. QED
    BY <2>1, BoundAssumption
<1>2. leads[r].state \in LeadStates /\ StateOf(r) = leads[r].state
  BY <1>1 DEF Lead, StateOf
<1>3. DOMAIN leads' = Rows /\ \A l \in Rows : leads'[l] = IF l = r THEN row ELSE leads[l]
  BY DEF Rows
<1>4. CASE row.state = leads[r].state
  BY <1>3, <1>4, StatesStay
<1>5. CASE row.state # leads[r].state
  <2>1. row.state \in LeadStates
    BY <1>5 DEF LeadStates
  <2>2. \A l : StateOf(l)' = IF l = r THEN row.state ELSE StateOf(l)
    BY <1>3 DEF StateOf, Rows
  <2>3. QED
    BY <1>1, <1>2, <1>5, <2>1, <2>2, OneMoves
<1>6. QED
  BY <1>4, <1>5

\* A row is added.
LEMMA RowAppears ==
  ASSUME TypeOK, NEW row, leads' = Append(leads, row), Len(leads) < MaxLeads,
         row.state \in {"NEW", "AUTO_REPLIED"}
  PROVE  Moves
<1> DEFINE n == Len(leads) + 1
<1>1. /\ Rows = 1..Len(leads) /\ Len(leads) \in Nat /\ n \in 1..MaxLeads
      /\ DOMAIN leads' = 1..n /\ leads'[n] = row
      /\ \A l \in Rows : leads'[l] = leads[l]
  BY BoundAssumption DEF TypeOK, Rows
<1>2. n \notin Rows /\ \A l \in 1..n : l = n \/ l \in Rows
  BY <1>1
<1> HIDE DEF n
<1>3. \A l \in Rows : l \in 1..n
  BY <1>1 DEF n
<1>4. \A l : StateOf(l)' = IF l = n THEN row.state ELSE StateOf(l)
  <2> TAKE l
  <2>1. CASE l = n
    BY <1>1, <2>1 DEF StateOf, Rows
  <2>2. CASE l # n /\ l \in Rows
    BY <1>1, <1>3, <2>2 DEF StateOf, Rows
  <2>3. CASE l # n /\ l \notin Rows
    BY <1>1, <1>2, <2>3 DEF StateOf, Rows
  <2>4. QED
    BY <2>1, <2>2, <2>3
<1>5. StateOf(n) = "NEW" /\ row.state \in LeadStates /\ "NEW" \in LeadStates
  BY <1>2 DEF StateOf, LeadStates
<1>6. QED
  BY <1>1, <1>4, <1>5, OneMoves

\* A field of a row is written.
LEMMA UpdateMoves ==
  ASSUME TypeOK, NEW r \in Rows, NEW v,
         \/ Update(r, "dry", v)
         \/ Update(r, "state", v) /\ v \in {"AUTO_REPLIED", "ENGAGED", "NEW"}
         \/ Update(r, "state", v) /\ v \in LeadStates /\ CanTransition(leads[r].state, v)
  PROVE  Moves
<1>1. leads[r] \in Lead
  BY DEF TypeOK, Rows
<1>2. CASE Update(r, "dry", v)
  <2> DEFINE row == [leads[r] EXCEPT !.dry = v]
  <2>1. leads' = [leads EXCEPT ![r] = row]
    BY <1>2 DEF Update
  <2>2. row.state = leads[r].state
    BY <1>1 DEF Lead
  <2> HIDE DEF row
  <2>3. QED
    BY <2>1, <2>2, RowMoves
<1>3. CASE ~Update(r, "dry", v)
  <2> DEFINE row == [leads[r] EXCEPT !.state = v]
  <2>1. leads' = [leads EXCEPT ![r] = row]
    BY <1>3 DEF Update
  <2>2. row.state = v
    BY <1>1 DEF Lead
  <2> HIDE DEF row
  <2>3. QED
    BY <1>3, <2>1, <2>2, RowMoves
<1>4. QED
  BY <1>2, <1>3
\* An ingest moves its own lead: from the copy, whatever the row says by now.
LEMMA IngestMoves ==
  ASSUME IInv, NEW p \in Threads, IngestStep(p)
  PROVE  Moves
<1> DEFINE l == ingest[p].lead
<1>1. UNCHANGED leads => Moves
  BY StatesStay DEF Rows
<1>2. ASSUME ingest[p].step \in RowSteps
      PROVE  l \in Rows
  BY <1>2, LeadInRange DEF IInv, TypeOK
<1>3. CASE Create(p)
  <2> DEFINE row == NewLead(ingest[p].offer)
  <2>1. leads' = Append(leads, row) /\ Len(leads) < MaxLeads /\ row.state = "NEW"
    BY <1>3 DEF Create, NewLead
  <2> HIDE DEF row
  <2>2. QED
    BY <2>1, RowAppears DEF IInv
<1>4. CASE AutoReplied(p) \/ Reply(p) \/ Engage(p)
  <2>1. ingest[p].step \in RowSteps
    BY <1>4 DEF AutoReplied, Reply, Engage, RowSteps, Steps
  <2>2. \E v : Update(l, "dry", v) \/ (Update(l, "state", v) /\ v \in {"AUTO_REPLIED", "ENGAGED", "NEW"})
    BY <1>4 DEF AutoReplied, Reply, Engage
  <2>3. QED
    BY <1>2, <2>1, <2>2, UpdateMoves DEF IInv
<1>5. CASE DeleteUnanswered(p)
  <2>1. ingest[p].step \in RowSteps /\ leads' = [leads EXCEPT ![l] = Gone(l)]
    BY <1>5 DEF DeleteUnanswered, RowSteps, Steps
  <2>2. Gone(l).state = leads[l].state
    BY DEF Gone
  <2>3. QED
    BY <1>2, <2>1, <2>2, RowMoves DEF IInv
<1>6. CASE LogConsent(p) \/ IngestFails(p) \/ EmailLead(p)
  BY <1>1, <1>6 DEF LogConsent, IngestFails, EmailLead
<1>7. QED
  BY <1>3, <1>4, <1>5, <1>6 DEF IngestStep

\* A dry run that is started over is NEW, from any state.
LEMMA BeginMoves ==
  ASSUME IInv, NEW p \in Threads, NEW offer, Begin(p, offer)
  PROVE  Moves
<1>1. CASE SameDay = {}
  BY <1>1, StatesStay DEF Begin, Rows
<1>2. CASE SameDay # {}
  <2>1. PICK l \in SameDay : leads' = [leads EXCEPT ![l] = StartedOver(l, offer)]
    BY <1>2, BeginStartsOver DEF IInv
  <2>2. l \in Rows /\ leads[l] \in Lead
    BY DEF SameDay, IInv, TypeOK, Rows
  <2>3. StartedOver(l, offer).state = "NEW"
    BY <2>2 DEF StartedOver, Lead
  <2>4. QED
    BY <2>1, <2>2, <2>3, RowMoves DEF IInv
<1>3. QED
  BY <1>1, <1>2

\* A mail opts a lead out where the table has the edge.
LEMMA PollMoves ==
  ASSUME IInv, PollStep
  PROVE  Moves
<1>1. ASSUME NEW l \in Rows, MailFromLead(l)
      PROVE  Moves
  <2> DEFINE to  == IF CanTransition(leads[l].state, "OPTED_OUT") THEN "OPTED_OUT" ELSE leads[l].state
             row == [leads[l] EXCEPT !.state = to]
  <2>1. leads[l] \in Lead /\ leads \in Seq(Lead)
    BY DEF IInv, TypeOK, Rows
  <2>2. leads' = [leads EXCEPT ![l] = row]
    BY <1>1, <2>1 DEF MailFromLead, MailOptsOut
  <2>3. row.state = to
    BY <2>1 DEF Lead
  <2>4. to = leads[l].state \/ (to \in LeadStates /\ CanTransition(leads[l].state, to))
    BY DEF LeadStates
  <2> HIDE DEF row, to
  <2>5. QED
    BY <2>2, <2>3, <2>4, RowMoves DEF IInv
<1>2. ASSUME NEW parsed \in Parsed, MailWithPhone(parsed)
      PROVE  Moves
  BY <1>2, BeginMoves DEF MailWithPhone, Threads
<1>3. ASSUME NEW parsed \in Parsed, MailWithoutPhone(parsed)
      PROVE  Moves
  BY <1>3, StatesStay DEF MailWithoutPhone, Rows
<1>4. QED
  BY <1>1, <1>2, <1>3 DEF PollStep

\* A keyword moves the newest lead: STOP along an edge, START back to NEW.
LEMMA KeywordMoves ==
  ASSUME IInv, LeadOptsOut \/ LeadOptsIn
  PROVE  Moves
<1>1. UNCHANGED leads => Moves
  BY StatesStay DEF Rows
<1>2. leads \in Seq(Lead) /\ \A l \in Rows : leads[l] \in Lead
  BY DEF IInv, TypeOK, Rows
<1>3. ASSUME NEW l \in Rows, NEW to, leads' = [leads EXCEPT ![l].state = to],
             to = "NEW" \/ (to \in LeadStates /\ CanTransition(leads[l].state, to))
      PROVE  Moves
  <2> DEFINE row == [leads[l] EXCEPT !.state = to]
  <2>1. leads' = [leads EXCEPT ![l] = row]
    BY <1>3
  <2>2. row.state = to
    BY <1>2 DEF Lead
  <2> HIDE DEF row
  <2>3. QED
    BY <1>3, <2>1, <2>2, RowMoves DEF IInv
<1>4. CASE LeadOptsOut
  <2>1. CASE OfPhone # {} /\ CanTransition(leads[Newest(OfPhone)].state, "OPTED_OUT")
    <3>1. Newest(OfPhone) \in Rows
      BY <2>1, NewestIsOne DEF OfPhone, IInv
    <3>2. leads' = [leads EXCEPT ![Newest(OfPhone)].state = "OPTED_OUT"]
      BY <1>4, <2>1 DEF LeadOptsOut
    <3>3. QED
      BY <1>3, <2>1, <3>1, <3>2 DEF LeadStates
  <2>2. CASE ~(OfPhone # {} /\ CanTransition(leads[Newest(OfPhone)].state, "OPTED_OUT"))
    BY <1>1, <1>4, <2>2 DEF LeadOptsOut
  <2>3. QED
    BY <2>1, <2>2
<1>5. CASE LeadOptsIn
  <2> DEFINE out == {l \in OfPhone : leads[l].state = "OPTED_OUT"}
  <2>1. leads' = IF out = {} THEN leads ELSE [leads EXCEPT ![Newest(out)].state = "NEW"]
    BY <1>5 DEF LeadOptsIn
  <2>2. out \in SUBSET Rows
    BY DEF OfPhone
  <2> HIDE DEF out
  <2>3. out # {} => Newest(out) \in Rows
    BY <2>2, NewestIsOne DEF IInv
  <2>4. QED
    BY <1>1, <1>3, <2>1, <2>3
<1>6. QED
  BY <1>4, <1>5
\* A text wakes an automatic answer's lead; a missed call is answered by one.
LEMMA TextMoves ==
  ASSUME IInv, TextFromLead \/ MissedCall \/ CallAnswered
  PROVE  Moves
<1>1. UNCHANGED leads => Moves
  BY StatesStay DEF Rows
<1>2. leads \in Seq(Lead) /\ \A l \in Rows : leads[l] \in Lead
  BY DEF IInv, TypeOK, Rows
<1>3. CASE TextFromLead
  <2> DEFINE l == Newest(OpenByPhone)
  <2>1. OpenByPhone # {} /\ OpenByPhone \in SUBSET Rows
    BY <1>3 DEF TextFromLead, OpenByPhone, OfPhone
  <2>2. l \in Rows
    BY <2>1, NewestIsOne DEF IInv
  <2>3. PICK dry \in DryRuns :
          leads' = [leads EXCEPT ![l].state = IF @ = "AUTO_REPLIED" THEN "ENGAGED" ELSE @,
                                 ![l].dry = dry]
    BY <1>3 DEF TextFromLead
  <2> HIDE DEF l
  <2> DEFINE row == [leads[l] EXCEPT !.state = IF @ = "AUTO_REPLIED" THEN "ENGAGED" ELSE @,
                                     !.dry = dry]
  <2>4. leads' = [leads EXCEPT ![l] = row]
    BY <1>2, <2>2, <2>3
  <2>5. row.state = leads[l].state \/ row.state = "ENGAGED"
    BY <1>2, <2>2 DEF Lead
  <2> HIDE DEF row
  <2>6. QED
    BY <2>2, <2>4, <2>5, RowMoves DEF IInv
<1>4. CASE MissedCall
  <2> DEFINE row == NewLead(Call)
  <2>1. UNCHANGED leads \/ (leads' = Append(leads, row) /\ Len(leads) < MaxLeads)
    BY <1>4 DEF MissedCall
  <2>2. row.state = "NEW"
    BY DEF NewLead
  <2> HIDE DEF row
  <2>3. QED
    BY <1>1, <2>1, <2>2, RowAppears DEF IInv
<1>5. CASE CallAnswered
  <2> DEFINE l == ingest["loop"].lead
             Answered(lead, dry) == [lead EXCEPT !.state = "AUTO_REPLIED", !.dry = dry]
  <2>1. l \in 0..Len(leads)
    BY LeadInRange DEF IInv, Threads
  <2>2. PICK dry \in {FALSE, ~outbound} :
          IF l = 0 THEN Len(leads) < MaxLeads /\ leads' = Append(leads, Answered(NewLead(Call), dry))
          ELSE leads' = [leads EXCEPT ![l] = Answered(@, dry)]
    BY <1>5 DEF CallAnswered
  <2>3. CASE l = 0
    <3> DEFINE row == Answered(NewLead(Call), dry)
    <3>1. leads' = Append(leads, row) /\ Len(leads) < MaxLeads
      BY <2>2, <2>3
    <3>2. row.state = "AUTO_REPLIED"
      BY DEF NewLead
    <3> HIDE DEF row
    <3>3. QED
      BY <3>1, <3>2, RowAppears DEF IInv
  <2>4. CASE l # 0
    <3> DEFINE row == Answered(leads[l], dry)
    <3>1. l \in Rows
      BY <2>1, <2>4 DEF Rows, IInv, TypeOK
    <3>2. leads' = [leads EXCEPT ![l] = row]
      BY <2>2, <2>4, <3>1
    <3>3. row.state = "AUTO_REPLIED"
      BY <1>2, <3>1 DEF Lead
    <3> HIDE DEF row, l
    <3>4. QED
      BY <3>1, <3>2, <3>3, RowMoves DEF IInv
  <2>5. QED
    BY <2>3, <2>4
<1>6. QED
  BY <1>3, <1>4, <1>5

\* A deleted lead keeps its last state; the other modules' moves are edges.
LEMMA LoopMoves ==
  ASSUME IInv, LoopStep
  PROVE  Moves
<1>1. ASSUME NEW S \in SUBSET Rows, Wipe(S)
      PROVE  Moves
  <2>1. leads' = [l \in Rows |-> IF l \in S THEN Gone(l) ELSE leads[l]]
    BY <1>1 DEF Wipe
  <2>2. \A l \in Rows : Gone(l).state = leads[l].state
    BY DEF Gone
  <2>3. QED
    BY <2>1, <2>2, StatesStay
<1>2. CASE CleanupTestLeads \/ ResetAllData
  <2>1. OfPhone \in SUBSET Rows /\ {l \in Rows : ~leads[l].gone} \in SUBSET Rows
    BY DEF OfPhone
  <2>2. QED
    BY <1>1, <1>2, <2>1 DEF CleanupTestLeads, ResetAllData
<1>3. CASE FormArrives \/ RepEnters \/ TextFromStranger
  <2>1. "loop" \in Threads
    BY DEF Threads
  <2>2. QED
    BY <1>3, <2>1, BeginMoves DEF FormArrives, RepEnters, TextFromStranger
<1>4. CASE TextStop \/ TextStart
  BY <1>4, StatesStay DEF TextStop, TextStart, Rows
<1>5. CASE LeadOptsOut \/ LeadOptsIn
  BY <1>5, KeywordMoves
<1>6. CASE TextFromLead \/ MissedCall \/ CallAnswered
  BY <1>6, TextMoves
<1>7. ASSUME NEW l \in Rows, DeleteLead(l)
      PROVE  Moves
  <2>1. leads' = [leads EXCEPT ![l] = Gone(l)] /\ Gone(l).state = leads[l].state
    BY <1>7 DEF DeleteLead, Gone
  <2>2. QED
    BY <2>1, RowMoves DEF IInv
<1>8. ASSUME NEW l \in Rows, NEW m \in OtherMoves, OtherMove(l, m[1], m[2])
      PROVE  Moves
  <2>1. Update(l, "state", m[2])
    BY <1>8 DEF OtherMove
  <2>2. m[2] \in LeadStates /\ CanTransition(leads[l].state, m[2])
    BY <1>8, OtherMoveHolds
  <2>3. QED
    BY <2>1, <2>2, UpdateMoves DEF IInv
<1>9. QED
  BY <1>2, <1>3, <1>4, <1>5, <1>6, <1>7, <1>8 DEF LoopStep

\* Every step is a move, or none.
LEMMA NextMoves == IInv /\ [Next]_vars => [Lifecycle!Next]_States
<1> SUFFICES ASSUME IInv, [Next]_vars PROVE Moves
  BY DEF Moves
<1>1. ASSUME NEW p \in Threads, IngestStep(p)
      PROVE  Moves
  BY <1>1, IngestMoves
<1>2. CASE PollStep
  BY <1>2, PollMoves
<1>3. CASE LoopStep
  BY <1>3, LoopMoves
<1>4. CASE DayPasses
  <2>1. leads' = [l \in Rows |-> [leads[l] EXCEPT !.fresh = FALSE]]
    BY <1>4 DEF DayPasses
  <2>2. \A l \in Rows : leads[l] \in Lead
    BY DEF IInv, TypeOK, Rows
  <2>3. \A l \in Rows : leads'[l].state = leads[l].state
    BY <2>1, <2>2 DEF Lead
  <2>4. QED
    BY <2>1, <2>3, StatesStay
<1>5. CASE Crash \/ UNCHANGED vars
  BY <1>5, StatesStay DEF Crash, vars, Rows
<1>6. QED
  BY <1>1, <1>2, <1>3, <1>4, <1>5 DEF Next

(***************************************************************************)
(* The lead table moves along the edges of lifecycle.py, one lead at a     *)
(* time, but for the three targets that intake writes whatever the row     *)
(* says.                                                                   *)
(***************************************************************************)
THEOREM Implementation == Spec => LifecycleImplemented
<1>1. Init => Lifecycle!Init
  <2>1. SUFFICES ASSUME Init PROVE States \in [1..MaxLeads -> {"NEW", "AUTO_REPLIED", "ENGAGED"}]
    BY DEF Lifecycle!Init, States
  <2>2. \A l : StateOf(l) = "NEW"
    BY <2>1 DEF Init, StateOf, Rows
  <2>3. QED
    BY <2>2 DEF States
<1>2. QED
  BY <1>1, Invariance, NextMoves, PTL DEF Spec, LifecycleImplemented, Lifecycle!Spec, States
=============================================================================
