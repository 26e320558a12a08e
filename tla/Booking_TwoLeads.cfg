\* Two leads, two reps, one hour they compete for; the hour does not come.
SPECIFICATION Spec
CONSTANTS
  Ann = Ann
  Bob = Bob
  NoRep = NoRep
  Leads = {1, 2}
  Reps = {Ann, Bob}
  Teams <- AnnAndBob
  OtherMoves <- ToEngagedAndOn
  Slots = {1}
  NudgeAfter = 0
  MaxAppts = 2
  MaxClock = 0
  MaxCrashes = 1
INVARIANTS DoubleBookedOnlyByHand OwnerIsTold
CHECK_DEADLOCK FALSE
