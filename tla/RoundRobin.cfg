\* Everybody draws, for whatever.
SPECIFICATION Spec
CONSTANTS
  Ann = Ann
  Bob = Bob
  Cid = Cid
  Reps = {Ann, Bob, Cid}
  Rosters <- AnyRoster
  Sessions = {"loop", "poll"}
  Pickers = {"assign", "slot"}
  MaxGiven = 3
INVARIANTS TypeOK FairWhileAlone TurnsWhileAlone
