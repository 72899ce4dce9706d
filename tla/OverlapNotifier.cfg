SPECIFICATION NotifierSpec
CONSTANTS
  MinutesPerDay = 5
  DedupWindow = 4
  NoticeMinutes = 2
  MaxTick = 2
INVARIANTS
  AnswerIsAhead
  NotifierTypeOK
PROPERTIES
  LastsAsSaid
  OpensNoSooner
  OpensWhenSaidIfAwake
  PushesAreApart
  NoWindowOverlooked
