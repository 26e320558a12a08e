\* Two texts, one of which may be delivered again; a day of four hours, two of them
\* quiet; a STOP by e-mail, a text by the rep and a restart.
SPECIFICATION FairSpec
CONSTANTS
  t1 = t1
  t2 = t2
  Texts = {t1, t2}
  NoText = NoText
  HoursPerDay = 4
  QuietStart = 3
  QuietEnd = 1
  QueueAge = 4
  MaxCopies = 1
  MaxWrites = 1
  MaxMailStops = 1
  MaxCrashes = 1
INVARIANTS TypeOK FirstTouchOnce NobodyWoken AnsweredOnce FooterOnce
PROPERTIES NoAnswerAfterStop StoredIsAnswered QueueIsFlushed
CHECK_DEADLOCK FALSE
