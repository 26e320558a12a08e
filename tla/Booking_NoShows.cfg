\* One lead, booked up to twice for an hour that passes; two reps, a restart.
SPECIFICATION FairSpec
CONSTANTS
  Ann = Ann
  Bob = Bob
  NoRep = NoRep
  Leads = {1}
  Reps = {Ann, Bob}
  Teams <- AnnAndBob
  OtherMoves <- ToEngagedAndOn
  Slots = {1}
  NudgeAfter = 0
  MaxAppts = 2
  MaxClock = 1
  MaxCrashes = 1
INVARIANTS AskedOnce
PROPERTIES OverdueIsAskedAbout
CHECK_DEADLOCK FALSE
