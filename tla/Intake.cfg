\* One customer, two leads, and a day that passes, a restart after which texts are real, or
\* a deletion of everything.
SPECIFICATION Spec
CONSTANTS
  Phone = Phone
  Email = Email
  DryRunFirst = TRUE
  OtherMoves <- EngagedAndLost
  MaxLeads = 2
  MaxWords = 2
  Forms <- TwoForms
  Mails <- TwoMails
  MaxBreaks = 1
INVARIANTS LastWordCounts DuplicatesOnlyByRace
PROPERTIES EmailStaysOut 
CHECK_DEADLOCK FALSE
