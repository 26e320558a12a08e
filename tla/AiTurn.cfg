\* All modes, up to three texts, two hops, one retry.
SPECIFICATION FairSpec
CONSTANTS
  MaxRetries = 1
  MaxHops = 2
  MaxTurns = 3
  QualifyTurns = 2
  OtherMoves <- RepMoves
  MaxInbound = 3
  MaxRows = 3
INVARIANTS RequestsBounded  
PROPERTIES TurnEnds
CHECK_DEADLOCK FALSE
