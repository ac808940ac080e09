SPECIFICATION Spec
CONSTANTS
  Initials <- MCInitials
  Fresh <- MCFresh
  Wirings <- MCWirings
  MaxEdits = 5
PROPERTIES
  EditsKeepGraph
  MapsFollow
  DependsKept
  SortsDag
  UnusedRemoved
CHECK_DEADLOCK FALSE
