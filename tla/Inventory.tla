------------------------------ MODULE Inventory ------------------------------
(***************************************************************************)
(* The cars a dealer has on file (Vehicle) and who changes them: the       *)
(* manager's CSV or XLSX upload, which may also take everything else off   *)
(* the list; the status button; the administrator's demo cars, through     *)
(* sync_inventory.  The AI offers what check_inventory finds.              *)
(*                                                                         *)
(* The scheduled sync calls sync_inventory without its third argument and  *)
(* raises for every dealer, so it changes nothing and has no action.       *)
(***************************************************************************)
EXTENDS Naturals, SequencesExt, FiniteSetsExt

CONSTANTS
  Stocks, Vins,   \* stock numbers and VINs that files and feeds hold; "None", what
                  \* str() makes of a missing cell, is a stock number like any other
  NoKey,          \* NULL
  BadRow,         \* a row that is reported as an error
  Demo,           \* the records of the demo feed
  MaxCars,        \* bound: rows of the table
  MaxRows,        \* bound: rows of a file, records of a feed
  MaxCrashes      \* bound

ASSUME KeysAssumption   == NoKey \notin Stocks \cup Vins
\* A row that is reported as an error is none of those that are stored.
ASSUME RowsAssumption   ==
  \A row \in [stock : Stocks, vin : Vins \cup {NoKey}, status : {"available", "sold"}] : row # BadRow
\* seed_vehicles: every demo car has both keys and is on sale.
ASSUME DemoAssumption   == Demo \in Seq([stock : Stocks, vin : Vins, status : {"available"}])
ASSUME LimitsAssumption == {MaxCars, MaxRows, MaxCrashes} \subseteq Nat

Statuses == {"available", "sold", "removed"}
Cars == [stock : Stocks \cup {NoKey}, vin : Vins \cup {NoKey}, status : Statuses]

VARIABLES
  cars,      \* the table, in order of id
  removing,  \* a full upload between its two commits: the stock numbers of its rows
  answered,  \* history: a full upload was answered
  onSale,    \* history: stock numbers put on sale in or since that upload
  crashes

inventoryVars == <<cars, removing, answered, onSale, crashes>>

InventoryInit ==
  /\ cars = <<>>
  /\ removing = {}
  /\ answered = FALSE
  /\ onSale = {}
  /\ crashes = 0

-----------------------------------------------------------------------------
\* tools/sync_inventory.py

Where(table, P(_)) == {i \in DOMAIN table : P(table[i])}

\* map_row: "new", "used" and every word the map does not know mean available.
StatusOf(word) == IF word \in {"sold", "removed"} THEN word ELSE "available"

MapRow(row) == [stock |-> row.stock, vin |-> row.vin, status |-> StatusOf(row.word)]

\* Mutated form of Match: only cars that are still on sale are looked for.
MatchOnSale(table, record) ==
  LET byStock == Where(table, LAMBDA c : c.stock = record.stock /\ c.stock # NoKey /\ c.status = "available")
      byVin   == Where(table, LAMBDA c : c.vin = record.vin /\ c.vin # NoKey /\ c.status = "available")
  IN  IF byStock # {} THEN byStock ELSE byVin

\* The rows a record may update: those with its stock number, or else with its VIN.
Match(table, record) ==
  LET byStock == Where(table, LAMBDA c : c.stock = record.stock /\ c.stock # NoKey)
      byVin   == Where(table, LAMBDA c : c.vin = record.vin /\ c.vin # NoKey)
  IN  IF byStock # {} THEN byStock ELSE byVin

Given(new, old) == IF new # NoKey THEN new ELSE old

\* _upsert_vehicle: the first match takes the record's keys, where it has any.
Upsert(table, record) ==
  LET found == Match(table, record)
  IN  IF found = {} THEN Append(table, record)
      ELSE [table EXCEPT ![Min(found)] = [stock  |-> Given(record.stock, @.stock),
                                          vin    |-> Given(record.vin, @.vin),
                                          status |-> record.status]]

\* sync_inventory: a car on sale that the feed names neither by stock number nor by
\* VIN is sold.
Sync(table, feed) ==
  LET inFeed(c) == \E k \in DOMAIN feed : \/ c.stock # NoKey /\ c.stock = feed[k].stock
                                          \/ c.vin # NoKey /\ c.vin = feed[k].vin
      upserted  == FoldLeft(Upsert, table, feed)
  IN  [i \in DOMAIN upserted |->
         IF upserted[i].status = "available" /\ ~inFeed(upserted[i])
         THEN [upserted[i] EXCEPT !.status = "sold"] ELSE upserted[i]]

-----------------------------------------------------------------------------
\* upload_inventory (dashboard/__init__.py)

\* A row of the file.  One with a blank stock number, or with a year, make, model or
\* price that cannot be read, is an error; a status other than these is available.
Rows == [stock : Stocks, vin : Vins \cup {NoKey}, status : {"available", "sold"}] \cup {BadRow}

\* Mutated form of PutRow: with another VIN it is another car.
PutRowByVin(table, row) ==
  LET found == Where(table, LAMBDA c : c.stock = row.stock /\ c.vin = row.vin)
  IN  IF row = BadRow THEN table
      ELSE IF found = {} THEN Append(table, row)
      ELSE [table EXCEPT ![Min(found)] = row]

\* A good row updates the car with its stock number, and no other.
PutRow(table, row) ==
  LET found == Where(table, LAMBDA c : c.stock = row.stock)
  IN  IF row = BadRow THEN table
      ELSE IF found = {} THEN Append(table, row)
      ELSE [table EXCEPT ![Min(found)] = [row EXCEPT !.vin = Given(@, table[Min(found)].vin)]]

Files == UNION {[1..n -> Rows] : n \in 1..MaxRows}

\* The rows are stored, and committed when one was good; for a full upload the rest
\* of the same request follows.
Upload(file, full) ==
  LET good  == {row.stock : row \in ToSet(file) \ {BadRow}}
      table == FoldLeft(PutRow, cars, file)
  IN  /\ removing = {}
      /\ Len(table) <= MaxCars
      /\ cars' = table
      /\ removing' = IF full THEN good ELSE {}
      /\ onSale' = onSale \cup good
      /\ UNCHANGED <<answered, crashes>>

\* Mutated form of RemoveOthers: cars are told apart by VIN.
RemoveOthersByVin ==
  /\ removing # {}
  /\ cars' = [i \in DOMAIN cars |->
                IF cars[i].stock \notin removing /\ cars[i].vin # NoKey
                THEN [cars[i] EXCEPT !.status = "removed"] ELSE cars[i]]
  /\ onSale' = removing
  /\ answered' = TRUE
  /\ removing' = {}
  /\ UNCHANGED crashes

\* ... everything with another stock number is removed.  SQL's NOT IN is not true of
\* a NULL, so a car without a stock number would stay.
RemoveOthers ==
  /\ removing # {}
  /\ cars' = [i \in DOMAIN cars |->
                IF cars[i].stock \notin removing \cup {NoKey}
                THEN [cars[i] EXCEPT !.status = "removed"] ELSE cars[i]]
  /\ onSale' = removing
  /\ answered' = TRUE
  /\ removing' = {}
  /\ UNCHANGED crashes

\* The process ends between the two commits.
Crash ==
  /\ removing # {} /\ crashes < MaxCrashes
  /\ crashes' = crashes + 1
  /\ removing' = {}
  /\ UNCHANGED <<cars, answered, onSale>>

\* Mutated form of SetStatus: the word is stored as it was typed.
SetStatusAsTyped(stock, status) ==
  LET found == Where(cars, LAMBDA c : c.stock = stock)
  IN  /\ removing = {} /\ found # {}
      /\ cars' = [cars EXCEPT ![Min(found)].status = "on hold"]
      /\ UNCHANGED <<removing, answered, onSale, crashes>>

\* set_inventory_status: the first car with the stock number.
SetStatus(stock, status) ==
  LET found == Where(cars, LAMBDA c : c.stock = stock)
  IN  /\ removing = {} /\ found # {}
      /\ cars' = [cars EXCEPT ![Min(found)].status = status]
      /\ onSale' = IF status = "available" THEN onSale \cup {stock} ELSE onSale
      /\ UNCHANGED <<removing, answered, crashes>>

\* seed_vehicles: the demo cars are the whole feed.
Seed ==
  LET table == Sync(cars, Demo)
  IN  /\ removing = {} /\ Len(table) <= MaxCars
      /\ cars' = table
      /\ onSale' = onSale \cup {record.stock : record \in ToSet(Demo)}
      /\ UNCHANGED <<removing, answered, crashes>>

InventoryNext ==
  \/ \E file \in Files, full \in BOOLEAN : Upload(file, full)
  \/ RemoveOthers \/ Crash \/ Seed
  \/ \E stock \in Stocks, status \in Statuses : SetStatus(stock, status)

InventorySpec == InventoryInit /\ [][InventoryNext]_inventoryVars

-----------------------------------------------------------------------------
\* check_inventory.search: what the AI may offer.
Offered == {cars[i].stock : i \in Where(cars, LAMBDA c : c.status = "available")}

\* resolve_vehicle: the cars that a lead's reference may be taken for, whatever their
\* status.  It is tried as a stock number, then as a VIN (then as a URL, left out).
Resolves(ref) ==
  LET byStock == Where(cars, LAMBDA c : c.stock = ref)
      byVin   == Where(cars, LAMBDA c : c.vin = ref)
  IN  IF byStock # {} THEN byStock ELSE byVin

\* Every variable stays in its range.
InventoryTypeOK ==
  /\ cars \in Seq(Cars) /\ Len(cars) <= MaxCars
  /\ removing \subseteq Stocks
  /\ answered \in BOOLEAN
  /\ onSale \subseteq Stocks
  /\ crashes \in 0..MaxCrashes

\* Uploads, the status button and leads that name a car all look for "the" car with a
\* stock number: no two cars have the same one, though the table does not forbid it,
\* and what a customer asked about is that car.
StockNamesOneCar ==
  \A i \in DOMAIN cars : Resolves(cars[i].stock) = {i}

\* Once a full upload has been answered, a search offers only what was in its file or
\* was put on sale since: nothing that was taken off comes back by itself, also after
\* an upload that was cut off between its commits.
OfferedIsListed == answered => Offered \subseteq onSale

\* What a feed may hold when every row has both keys and no two rows share one, as
\* the demo feed's do.  Of other feeds the promise below is not true: a row with
\* neither key is a new car each time it is read, and of two rows that share a car one
\* may take the key the other was found by.
Feeds ==
  LET rows == [stock : Stocks, vin : Vins, word : {"new", "sold"}]
      feeds == UNION {[1..n -> {MapRow(row) : row \in rows}] : n \in 1..MaxRows}
  IN  {feed \in feeds : \A i, j \in DOMAIN feed :
         feed[i].stock = feed[j].stock \/ feed[i].vin = feed[j].vin => i = j}

\* sync_inventory's docstring: "running twice with the same data is a no-op", whatever
\* is on file.
SyncIsIdempotent ==
  \A feed \in Feeds : LET once == Sync(cars, feed) IN Sync(once, feed) = once
=============================================================================
