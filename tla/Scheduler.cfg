SPECIFICATION LiveSpec
CONSTANTS
    MaxCandidates = 2
    RetryNumber = 2
    Engines = {"mindie", "vllm"}
    Tools = {"ais", "vllm"}
    RateSearched = TRUE
    Troubles = {"launch", "serverExits", "benchmark", "setup", "save"}
INVARIANTS OwnServer BetweenRuns ReadIsFresh
PROPERTIES ImplementsEvaluationRows EvaluationEnds BenchmarkMeetsService
CHECK_DEADLOCK FALSE
