CONSTANTS
  Export <- AllExports
  MonthStart <- MCMonthStart
  Offset <- MCOffset
  MaxOffset = 4
  TicksPerHour = 2
  CreatedTexts = {"created group"}
  JoinedTexts = {"joined"}
  MediaTexts = {"omitted"}
  SampleLine <- MCSampleLine
  SampleLength = 4
  MaxCrashes = 1
SPECIFICATION Spec
INVARIANTS SharedLinesCollapse IdentitiesSound StoredAsWritten OverlapParsedAlike
PROPERTY ReimportChangesNothing
CHECK_DEADLOCK FALSE
