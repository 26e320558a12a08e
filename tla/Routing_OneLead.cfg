\* One lead, two reps who may both be inactive, both channels, a restart.
SPECIFICATION FairSpec
CONSTANTS
  Ann = Ann
  Bob = Bob
  NoRep = NoRep
  Leads = {1}
  Reps = {Ann, Bob}
  Rosters <- AllOrNone
  MaxPassCount = 2
  EngagementMode = "greeting_only"
  Channels = {"text", "button"}
  PassBound = 3
  MaxCrashes = 1
INVARIANTS TypeOK AuditTrailAgrees
PROPERTIES  UnclaimedLeadIsEscalated
