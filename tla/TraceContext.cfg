SPECIFICATION Spec
CONSTANTS
    MaxContexts = 5
    Owner = o
    Others = {a, b}
INVARIANTS LiveContextsStay ParentBelow CurrentIsLive
CHECK_DEADLOCK FALSE
