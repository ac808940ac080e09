------------------------------- MODULE Scheduler -------------------------------
(***************************************************************************)
(* One evaluation after the other on a single machine: Scheduler of        *)
(* scheduler.py, called by prepare_plugin, op_func and                     *)
(* refine_optimization_candidates of optimizer.py, with the simulator (the *)
(* inference server) and the benchmark of the shipped plugins as processes *)
(* of their own.                                                           *)
(*                                                                         *)
(* The parameters of evaluation n are named n: two evaluations with equal  *)
(* parameters are told apart, which only makes the properties stronger.    *)
(* The scheduler's steps are those between two of its sleeps or process    *)
(* calls; the two processes come up, finish, fail and exit in between.     *)
(* Clocks are not modelled: a time limit may run out whenever the code     *)
(* looks at it.                                                            *)
(***************************************************************************)
EXTENDS Naturals, Sequences

CONSTANTS
    MaxCandidates,   \* bound: evaluations after those of the default parameters
    RetryNumber,     \* attempts of run_target_server
    Engines,         \* servers: "mindie" (Simulator) or "vllm" (VllmSimulator)
    Tools,           \* benchmarks: "ais" (AisBench) or "vllm" (VllmBenchMark)
    RateSearched,    \* a request rate field whose bounds differ is searched
    Troubles         \* subset of AllTroubles: what can go wrong

AllTroubles == {"launch", "serverExits", "benchmark", "setup", "save"}

ASSUME ConstantsAssumption ==
    /\ MaxCandidates \in Nat /\ RetryNumber \in Nat \ {0}
    /\ Engines \subseteq {"mindie", "vllm"} /\ Tools \subseteq {"ais", "vllm"}
    /\ RateSearched \in BOOLEAN
    /\ Troubles \subseteq AllTroubles

Evaluation == 1..(MaxCandidates + 2)
Rate == {"given", "derived"}
Measurement == [x : Evaluation, rate : Rate]
NoInfo == [x |-> 0, rate |-> "none"]
NoResult == [x |-> 0, rate |-> "unmeasured"]

VARIABLES
    engine,    \* the server and the benchmark chosen on the command line:
    tool,      \* these two never change
    pc,        \* where the scheduler is
    mode,      \* "run" or "rate" (run_with_request_rate)
    phase,     \* 2 in the second benchmark of run_with_request_rate
    attempt,   \* attempts of run_target_server that failed
    n,         \* evaluations begun
    info,      \* simulate_run_info
    perf,      \* performance_index
    error,     \* error_info is set
    launches,  \* simulator processes started
    alive,     \* server processes that exist
    config,    \* the server's config file: an evaluation's, or 0 for the default
    bench,     \* the benchmark process and the rate it runs with
    results,   \* the benchmark's output directory
    rows       \* the result file

setup == <<engine, tool>>
serverVars == <<launches, alive, config>>
benchVars == <<bench, results>>
vars == <<setup, pc, mode, phase, attempt, n, info, perf, error,
          serverVars, benchVars, rows>>

(* prepare_plugin evaluates the default parameters, for mindie twice.      *)
Preparations == IF engine = "mindie" THEN 2 ELSE 1

MaxEvaluations == Preparations + MaxCandidates

TypeOK ==
    /\ engine \in Engines /\ tool \in Tools
    /\ pc \in {"idle", "launch", "wait", "bench", "monitor", "retry", "read",
               "second", "finish", "save", "stopped", "ended"}
    /\ mode \in {"run", "rate"} /\ phase \in {1, 2}
    /\ attempt \in 0..RetryNumber
    /\ n \in 0..MaxEvaluations
    /\ info \in Measurement \cup {NoInfo}
    /\ perf \in Measurement \cup {NoResult}
    /\ error \in BOOLEAN
    /\ launches \in 0..(MaxEvaluations * RetryNumber)
    /\ \A s \in alive :
         /\ s.launch \in 1..launches /\ s.x \in Evaluation
         /\ s.ready \in BOOLEAN /\ s.told \in BOOLEAN
    /\ config \in 0..MaxEvaluations
    /\ bench.state \in {"none", "running", "ok", "failed", "killed"}
    /\ results \in Measurement \cup {NoResult}

Init ==
    /\ engine \in Engines /\ tool \in Tools
    /\ pc = "idle" /\ mode = "run" /\ phase = 1 /\ attempt = 0
    /\ n = 0 /\ info = NoInfo /\ perf = NoResult /\ error = FALSE
    /\ launches = 0 /\ alive = {} /\ config = 0
    /\ bench = [state |-> "none", rate |-> "none"]
    /\ results = NoResult
    /\ rows = << >>

-------------------------------------------------------------------------------
(* The two processes seen through their handles                            *)

HandleAlive == \E s \in alive : s.launch = launches

HandleReady == \E s \in alive : s.launch = launches /\ s.ready

(* A bug: a process is taken for a service.                                *)
HealthyProcess == HandleAlive

(* health() of the simulator: the process is there, and the service        *)
(* answers (vllm) or has logged that it started (mindie, which has no URL  *)
(* to ask).                                                                *)
Healthy == HandleAlive /\ HandleReady

(* Simulator.stop of mindie puts the default config back, that of vllm     *)
(* sends SIGTERM; the stop they inherit is empty.                          *)
SimulatorStop ==
    /\ alive' = IF engine = "vllm" THEN {[s EXCEPT !.told = TRUE] : s \in alive}
                                   ELSE alive
    /\ config' = 0

(* A bug: the benchmark is left running.                                   *)
BenchmarkStopNothing == UNCHANGED <<bench, results>>

(* A benchmark that still runs is killed; vllm's clears its output as well.*)
BenchmarkStop ==
    /\ bench' = IF bench.state = "running" THEN [bench EXCEPT !.state = "killed"]
                                           ELSE bench
    /\ results' = IF tool = "vllm" THEN NoResult ELSE results

StopTargetServer == SimulatorStop /\ BenchmarkStop /\ UNCHANGED launches

-------------------------------------------------------------------------------
(* run and run_with_request_rate                                           *)

(* The default parameters come first, then the swarm, and at last fine     *)
(* tuning: run, run_with_request_rate and run again.                       *)
Follows(m) ==
    /\ n < Preparations => m = "run"
    /\ n > Preparations /\ mode = "run" => m = "run"

(* prepare_plugin gives up when the default parameters failed: on the last *)
(* error_info, or in get_best_concurrency, which needs AisBench's results. *)
PreparationFailed ==
    \/ n = Preparations /\ error
    \/ n < Preparations /\ tool = "ais" /\ results = NoResult

(* A bug: performance_index and error_info are not reset.                  *)
BeginKeepsResult(m) ==
    /\ pc = "idle" /\ n < MaxEvaluations /\ Follows(m)
    /\ n' = n + 1
    /\ mode' = m /\ phase' = 1 /\ attempt' = 0
    /\ info' = [x |-> n + 1, rate |-> "given"]
    /\ pc' = "launch"
    /\ UNCHANGED <<setup, perf, error, serverVars, benchVars, rows>>

Begin(m) ==
    /\ pc = "idle" /\ n < MaxEvaluations /\ Follows(m)
    /\ n' = n + 1
    /\ mode' = m /\ phase' = 1 /\ attempt' = 0
    /\ info' = [x |-> n + 1, rate |-> "given"]
    /\ perf' = NoResult /\ error' = FALSE
    /\ pc' = "launch"
    /\ UNCHANGED <<setup, serverVars, benchVars, rows>>

(* An exception in set_back_up_path is raised before anything is reset:    *)
(* op_func saves what the last evaluation left, prepare_plugin does not    *)
(* catch it.                                                               *)
BeginFails ==
    /\ "setup" \in Troubles
    /\ pc = "idle" /\ n < MaxEvaluations
    /\ n' = n + 1
    /\ pc' = IF n < Preparations THEN "ended" ELSE "save"
    /\ UNCHANGED <<setup, mode, phase, attempt, info, perf, error,
                   serverVars, benchVars, rows>>

(* A bug: what is left of earlier servers stays.                           *)
AllSurvive == alive

(* The servers that survive kill_residual_process (SIGKILL by name).       *)
Survivors == {}

UpdateConfig == config' = IF engine = "mindie" THEN info.x ELSE config

(* simulator.run: kill what is left of earlier servers, write the config   *)
(* file, start the process.                                                *)
SimulatorRun(started) ==
    /\ launches' = launches + 1
    /\ alive' = Survivors \cup started
    /\ UpdateConfig

Launch ==
    /\ pc = "launch"
    /\ SimulatorRun({[launch |-> launches + 1, x |-> info.x,
                      ready |-> FALSE, told |-> FALSE]})
    /\ pc' = "wait"
    /\ UNCHANGED <<setup, mode, phase, attempt, n, info, perf, error, benchVars, rows>>

LaunchFails ==
    /\ "launch" \in Troubles
    /\ pc = "launch"
    /\ SimulatorRun({})
    /\ pc' = "retry"
    /\ UNCHANGED <<setup, mode, phase, attempt, n, info, perf, error, benchVars, rows>>

(* wait_simulate polls until the server is healthy or its time is up.      *)
WaitSimulate ==
    /\ pc = "wait"
    /\ \/ Healthy /\ pc' = "bench"
       \/ ~Healthy /\ pc' = "retry"
    /\ UNCHANGED <<setup, mode, phase, attempt, n, info, perf, error,
                   serverVars, benchVars, rows>>

(* A bug: the output directory keeps what an earlier benchmark wrote.      *)
KeepOutput == UNCHANGED results

(* before_run of the benchmarks: the output directory is cleared, the      *)
(* request rate written to AisBench's config or to the command.            *)
ClearOutput == results' = NoResult

(* A bug: the second benchmark runs with the command of the first.         *)
OldRate == "given"

CommandRate == info.rate

RunBenchmark ==
    /\ pc = "bench"
    /\ ClearOutput
    /\ bench' = [state |-> "running", rate |-> CommandRate]
    /\ pc' = "monitor"
    /\ UNCHANGED <<setup, mode, phase, attempt, n, info, perf, error, serverVars, rows>>

(* In the first phase a failure costs an attempt, in the second it ends    *)
(* the evaluation.                                                         *)
Failed ==
    /\ pc' = IF phase = 1 THEN "retry" ELSE "finish"
    /\ error' = (phase = 2)

RunBenchmarkFails ==
    /\ "benchmark" \in Troubles
    /\ pc = "bench"
    /\ ClearOutput
    /\ Failed
    /\ UNCHANGED <<setup, mode, phase, attempt, n, info, perf, serverVars, bench, rows>>

(* monitoring_status returns as soon as the benchmark is no longer running,*)
(* be it with an exit code; only vllm's server is looked at.               *)
MonitoringStatus ==
    /\ pc = "monitor"
    /\ bench.state \in {"ok", "failed"}
    /\ engine = "vllm" => Healthy
    /\ pc' = "read"
    /\ UNCHANGED <<setup, mode, phase, attempt, n, info, perf, error,
                   serverVars, benchVars, rows>>

(* A bug: monitoring has no time limit.                                    *)
MonitoringFailsUntimed ==
    /\ pc = "monitor"
    /\ engine = "vllm" /\ ~Healthy
    /\ Failed
    /\ UNCHANGED <<setup, mode, phase, attempt, n, info, perf,
                   serverVars, benchVars, rows>>

(* ... and raises when vllm's server does not answer or time runs out.     *)
MonitoringFails ==
    /\ pc = "monitor"
    /\ (engine = "vllm" /\ ~Healthy) \/ bench.state = "running"
    /\ Failed
    /\ UNCHANGED <<setup, mode, phase, attempt, n, info, perf,
                   serverVars, benchVars, rows>>

(* The handlers of run_target_server; ValueError after the last attempt.   *)
Retry ==
    /\ pc = "retry"
    /\ StopTargetServer
    /\ attempt' = attempt + 1
    /\ LET last == attempt + 1 = RetryNumber IN
         /\ error' = last
         /\ pc' = IF last THEN "finish" ELSE "launch"
    /\ UNCHANGED <<setup, mode, phase, n, info, perf, rows>>

(* get_performance_index: AisBench raises without a result, VllmBenchMark  *)
(* returns an index without values.                                        *)
IndexRaises == tool = "ais" /\ results = NoResult

GetPerformanceIndex ==
    /\ pc = "read"
    /\ error' = IndexRaises
    /\ perf' = IF IndexRaises THEN perf ELSE results
    /\ pc' = IF mode = "rate" /\ phase = 1 /\ ~IndexRaises THEN "second" ELSE "finish"
    /\ UNCHANGED <<setup, mode, phase, attempt, n, info, serverVars, benchVars, rows>>

(* benchmark.stop() and the request rate for the second phase, from the    *)
(* throughput of the first: without one the multiplication raises.         *)
SecondPhase ==
    /\ pc = "second"
    /\ results' = IF tool = "vllm" THEN NoResult ELSE results
    /\ phase' = 2
    /\ LET raises == RateSearched /\ perf = NoResult IN
         /\ error' = raises
         /\ pc' = IF raises THEN "finish" ELSE "bench"
         /\ info' = IF RateSearched /\ ~raises THEN [info EXCEPT !.rate = "derived"]
                                               ELSE info
    /\ UNCHANGED <<setup, mode, attempt, n, perf, serverVars, bench, rows>>

(* The finally clause.                                                     *)
Finish ==
    /\ pc = "finish"
    /\ StopTargetServer
    /\ pc' = "save"
    /\ UNCHANGED <<setup, mode, phase, attempt, n, info, perf, error, rows>>

-------------------------------------------------------------------------------
(* save_result: the row, then once more stop_target_server.                *)

SavedRow == [x |-> info.x, rate |-> info.rate, perf |-> perf, error |-> error]

SaveResult ==
    /\ pc = "save"
    /\ rows' = Append(rows, SavedRow)
    /\ StopTargetServer
    /\ pc' = IF PreparationFailed THEN "stopped" ELSE "idle"
    /\ UNCHANGED <<setup, mode, phase, attempt, n, info, perf, error>>

SaveFails ==
    /\ "save" \in Troubles
    /\ pc = "save"
    /\ pc' = "ended"
    /\ UNCHANGED <<setup, mode, phase, attempt, n, info, perf, error,
                   serverVars, benchVars, rows>>

-------------------------------------------------------------------------------
(* The processes                                                           *)

schedulerVars == <<setup, pc, mode, phase, attempt, n, info, perf, error, rows>>

ServerReady ==
    /\ \E s \in alive :
         /\ ~s.ready
         /\ alive' = (alive \ {s}) \cup {[s EXCEPT !.ready = TRUE]}
    /\ UNCHANGED <<schedulerVars, launches, config, benchVars>>

ServerExits ==
    /\ \E s \in alive :
         /\ s.told \/ "serverExits" \in Troubles
         /\ alive' = alive \ {s}
    /\ UNCHANGED <<schedulerVars, launches, config, benchVars>>

(* The benchmark measures whatever server answers.                         *)
BenchmarkSucceeds ==
    /\ bench.state = "running"
    /\ \E s \in alive :
         /\ s.ready
         /\ results' = [x |-> s.x, rate |-> bench.rate]
    /\ bench' = [bench EXCEPT !.state = "ok"]
    /\ UNCHANGED <<schedulerVars, serverVars>>

BenchmarkFails ==
    /\ "benchmark" \in Troubles \/ ~\E s \in alive : s.ready
    /\ bench.state = "running"
    /\ bench' = [bench EXCEPT !.state = "failed"]
    /\ UNCHANGED <<schedulerVars, serverVars, results>>

SchedulerStep ==
    \/ Launch \/ LaunchFails \/ WaitSimulate
    \/ RunBenchmark \/ RunBenchmarkFails \/ MonitoringStatus \/ MonitoringFails
    \/ Retry \/ GetPerformanceIndex \/ SecondPhase \/ Finish
    \/ SaveResult \/ SaveFails

Next ==
    \/ \E m \in {"run", "rate"} : Begin(m)
    \/ BeginFails
    \/ SchedulerStep
    \/ ServerReady \/ ServerExits \/ BenchmarkSucceeds \/ BenchmarkFails

Spec == Init /\ [][Next]_vars

-------------------------------------------------------------------------------
(* While a benchmark runs, the one server it can reach is the server that  *)
(* was started last, with the parameters being evaluated: servers that     *)
(* mindie's stop leaves behind, servers of a failed attempt and servers    *)
(* still busy with SIGTERM are gone before the next one is launched.       *)
OwnServer ==
    bench.state = "running" =>
        \A s \in alive : s.launch = launches /\ s.x = info.x

(* Whenever a benchmark may be started, and between evaluations, no        *)
(* benchmark is running that would write into the same output directory;   *)
(* and the server's config file is the user's own again before the next    *)
(* parameters are written and between evaluations.                         *)
BetweenRuns ==
    /\ pc \in {"idle", "launch", "wait", "bench", "save", "stopped", "ended"} =>
           bench.state # "running"
    /\ pc \in {"idle", "launch", "save", "stopped", "ended"} => config = 0

(* What is read from the output directory was measured in this evaluation, *)
(* at the rate in force: no result of an earlier evaluation, of a failed   *)
(* attempt or of the first phase is read in its place.                     *)
ReadIsFresh ==
    pc = "read" /\ results # NoResult => results = info

(* A benchmark is started at a server that serves: health waits for the    *)
(* service and not just for its process (custom_process.py:164).  A server *)
(* that has gone by then is none to race with.                             *)
BenchmarkMeetsService ==
    [][pc = "bench" /\ pc' = "monitor" => \A s \in alive : s.ready]_vars

(* Evaluations end in one row each, and rows are truthful.                 *)
ER == INSTANCE EvaluationRows WITH
        open <- IF pc \in {"idle", "stopped"} THEN 0 ELSE n,
        begun <- n

ImplementsEvaluationRows == ER!Spec

(* Fairness: the scheduler is a program that keeps running, and its loops  *)
(* look at a clock that runs out.  Nothing is assumed of the server and    *)
(* the benchmark: either may hang.                                         *)
LiveSpec == Spec /\ WF_vars(SchedulerStep)

(* An evaluation ends, whatever the server and the benchmark do.           *)
EvaluationEnds == pc # "idle" ~> pc \in {"idle", "stopped", "ended"}

-------------------------------------------------------------------------------
(* What comments and docs say of the program                               *)

(* scheduler.py:186, "4. ...": run stops the simulator it started: between *)
(* evaluations no server is left that was not told to end.                 *)
SimulatorStopped ==
    engine = "vllm" /\ pc \in {"idle", "stopped"} => \A s \in alive : s.told

(* scheduler.py:214: the last of the two benchmarks is the result: a row   *)
(* holds metrics of a run with the request rate in the row.                *)
LastRunIsResult ==
    \A i \in 1..Len(rows) :
        rows[i].perf # NoResult => rows[i].perf.rate = rows[i].rate
===============================================================================
