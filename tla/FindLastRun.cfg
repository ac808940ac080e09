SPECIFICATION Spec
CONSTANTS
    MaxCandidates = 1
    RetryNumber = 2
    Engines = {"vllm"}
    Tools = {"vllm"}
    RateSearched = TRUE
    Troubles = {"benchmark", "serverExits"}
INVARIANTS LastRunIsResult
CHECK_DEADLOCK FALSE
