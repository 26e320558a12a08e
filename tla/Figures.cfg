\* Two leads over four short days on which the clocks change.
SPECIFICATION Spec
CONSTANTS
  Ann = Ann
  NoRep = NoRep
  Leads = {1, 2}
  Source <- TwoSources
  Reps = {Ann}
  DayLength = 2
  Wall <- ClocksChange
  DigestHours = {0, 1}
  DaySpans = {1, 4}
  PageLimit = 2
  ListLimit = 10
  KindLimit = 5
  Arrivals = {"ASSIGNED", "ENGAGED", "SHOWED"}
  MaxMoves = 1
  MaxBreaks = 1
INVARIANTS   DigestCountsOnce
CHECK_DEADLOCK FALSE
