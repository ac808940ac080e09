SPECIFICATION LiveSpec
CONSTANTS
    MaxStamp = 4
    MaxTries = 3
    MaxStarts = 0
    Ops = {"init", "backup", "start", "process_poll", "stop"}
    Faults = {}

PROPERTIES HandshakeCompletes
CHECK_DEADLOCK FALSE
