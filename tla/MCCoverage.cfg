CONSTANTS
  MinGap = 1
  Unknown = Unknown
  MaxClock = 5
  MaxImports = 3
SPECIFICATION CoverageSpec
INVARIANTS ReportIsRight NothingHidden
PROPERTY ImportsOnlyFill
CHECK_DEADLOCK FALSE
