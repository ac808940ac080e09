SPECIFICATION LiveSpec
CONSTANTS
  Cases = {c1, c2, c3}
  Jobs = {1, 2, 3}
  MaxDeaths = 2
INVARIANTS
  EachCaseOnce
  ReportComplete
PROPERTIES
  CheckEnds
CHECK_DEADLOCK FALSE
