CONSTANTS
  Export <- TwoChats
  MonthStart <- MCMonthStart
  Offset <- MCOffset
  MaxOffset = 4
  TicksPerHour = 2
  CreatedTexts = {"created group"}
  JoinedTexts = {"joined"}
  MediaTexts = {"omitted"}
  SampleLine <- MCSampleLine
  SampleLength = 1
  MaxCrashes = 0
SPECIFICATION Spec
INVARIANTS ParticipantsPerChat
CHECK_DEADLOCK FALSE
