\* Two leads and a rep who answers by text: which lead a "2" is about.
SPECIFICATION Spec
CONSTANTS
  Ann = Ann
  Bob = Bob
  NoRep = NoRep
  Leads = {1, 2}
  Reps = {Ann}
  Rosters <- Team1
  MaxPassCount = 2
  EngagementMode = "full_auto"
  Channels = {"text"}
  PassBound = 1
  MaxCrashes = 0
PROPERTY PassReachesNewRep
PROPERTY PicksOnlyWaitingLeads
