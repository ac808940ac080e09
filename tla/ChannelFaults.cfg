SPECIFICATION LiveSpec
CONSTANTS
    MaxStamp = 4
    MaxTries = 2
    MaxStarts = 1
    Ops = {"init", "start", "check_success", "stop"}
    Faults = {"callTimeout", "clearTimeout", "serverEnds", "masterRestart"}
INVARIANTS AnswersAreOwn InOrderOnce LostAroundInit
PROPERTIES AnswerKept ImplementsRemoteCall CallReturns
CHECK_DEADLOCK FALSE
