\* Passing and timing out, watched.
SPECIFICATION HistorySpec
CONSTANTS
  Ann = Ann
  Bob = Bob
  NoRep = NoRep
  Leads = {1}
  Reps = {Ann, Bob}
  Rosters <- Team2
  MaxPassCount = 2
  EngagementMode = "full_auto"
  Channels = {"text", "button"}
  PassBound = 3
  MaxCrashes = 0
INVARIANT PingsBounded
PROPERTY RepGetsFullWindow
