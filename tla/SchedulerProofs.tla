----------------------------- MODULE SchedulerProofs -----------------------------
(***************************************************************************)
(* Theorems on the evaluations of a single machine, for every number of    *)
(* evaluations and of attempts, whatever goes wrong with the processes.    *)
(***************************************************************************)
EXTENDS Scheduler, TLAPS

BenchState == {"none", "running", "ok", "failed", "killed"}

(* The processes are what their handles say.                               *)
Processes ==
    /\ alive \subseteq [launch : Nat, x : Evaluation, ready : BOOLEAN, told : BOOLEAN]
    /\ bench \in [state : BenchState, rate : Rate \cup {"none"}]

(* From the launch to the end of an evaluation its parameters stay.        *)
Busy == {"wait", "bench", "monitor", "retry", "read", "second", "finish"}

(* There is one server, the one started last, with the parameters being    *)
(* evaluated.                                                              *)
OneServer ==
    \A s \in alive : s.launch = launches /\ (pc \in Busy => s.x = info.x)

(* A benchmark runs at the rate in force while it is monitored or until it *)
(* is stopped.                                                             *)
OneBenchmark ==
    bench.state = "running" =>
        pc \in {"monitor", "retry", "finish"} /\ bench.rate = info.rate

DefaultConfig == pc \in {"idle", "launch", "save", "stopped", "ended"} => config = 0

(* What may be read has been measured since the output was cleared.        *)
Cleared == pc \in {"monitor", "read"} => results \in {NoResult, info}

(* Attempts are left as long as an evaluation has not failed.              *)
Attempts ==
    /\ pc \in {"launch", "wait", "retry"} => phase = 1
    /\ pc \in {"launch", "wait", "bench", "monitor", "retry", "read", "second"} =>
           attempt < RetryNumber
    /\ pc # "idle" => n >= 1
    /\ n >= 1 /\ pc # "ended" => info \in Measurement /\ info.x <= n

(* Launches are the attempts of all evaluations.                           *)
Launched ==
    CASE pc = "launch" -> launches + RetryNumber <= n * RetryNumber + attempt
      [] pc \in {"wait", "bench", "monitor", "retry", "read", "second"} ->
             launches + RetryNumber <= n * RetryNumber + attempt + 1
      [] OTHER -> launches <= n * RetryNumber

(* What the row would say is true.                                         *)
TruthfulRow ==
    perf # NoResult =>
        /\ perf.x = info.x
        /\ pc = "second" => perf.rate = info.rate
        /\ pc \in {"finish", "save", "idle", "stopped"} /\ error = FALSE =>
               perf.rate = info.rate

IInv ==
    /\ TypeOK /\ Processes /\ OneServer /\ OneBenchmark /\ DefaultConfig
    /\ Cleared /\ Attempts /\ Launched /\ TruthfulRow /\ SimulatorStopped

-------------------------------------------------------------------------------
LEMMA Bounds ==
  ASSUME TypeOK
  PROVE  /\ MaxEvaluations \in Nat /\ RetryNumber \in Nat \ {0} /\ MaxCandidates \in Nat
         /\ MaxEvaluations <= MaxCandidates + 2
         /\ engine = "mindie" => MaxEvaluations = MaxCandidates + 2
         /\ n \in Nat /\ n <= MaxEvaluations /\ launches \in Nat /\ attempt \in Nat
<1>1. Preparations \in 1..2 /\ (engine = "mindie" => Preparations = 2)
  BY DEF Preparations
<1>2. RetryNumber \in Nat \ {0} /\ MaxCandidates \in Nat
  BY ConstantsAssumption
<1>3. /\ MaxEvaluations \in Nat /\ MaxEvaluations <= MaxCandidates + 2
      /\ engine = "mindie" => MaxEvaluations = MaxCandidates + 2
  BY <1>1, <1>2 DEF MaxEvaluations
<1>4. n \in Nat /\ n <= MaxEvaluations /\ attempt \in Nat
  BY <1>2, <1>3 DEF TypeOK
<1>5. launches \in Nat
  <2>1. MaxEvaluations * RetryNumber \in Nat
    BY <1>2, <1>3
  <2> QED
    BY <2>1 DEF TypeOK
<1> QED
  BY <1>2, <1>3, <1>4, <1>5

LEMMA Times ==
  ASSUME NEW a \in Nat, NEW b \in Nat
  PROVE  /\ a * b \in Nat /\ (a + 1) * b = a * b + b
         /\ \A c \in Nat : a <= c => a * b <= c * b
<1>1. a * b \in Nat /\ (a + 1) * b = a * b + b
  OBVIOUS
<1>2. ASSUME NEW c \in Nat, a <= c PROVE a * b <= c * b
  <2>1. c - a \in Nat /\ (c - a) * b \in Nat
    BY <1>2
  <2>2. c * b = a * b + (c - a) * b
    OBVIOUS
  <2> QED
    BY <1>1, <2>1, <2>2
<1> QED
  BY <1>1, <1>2

LEMMA SetupStays ==
  ASSUME engine' = engine
  PROVE  Preparations' = Preparations /\ MaxEvaluations' = MaxEvaluations
  BY DEF Preparations, MaxEvaluations

LEMMA InitIInv == Init => IInv
<1> SUFFICES ASSUME Init PROVE IInv
  OBVIOUS
<1>1. /\ engine \in Engines /\ tool \in Tools
      /\ pc = "idle" /\ mode = "run" /\ phase = 1 /\ attempt = 0
      /\ n = 0 /\ info = NoInfo /\ perf = NoResult
      /\ launches = 0 /\ alive = {} /\ config = 0
      /\ bench = [state |-> "none", rate |-> "none"]
      /\ results = NoResult
  BY DEF Init
<1>2. error = FALSE
  BY DEF Init
<1>3. /\ MaxEvaluations \in Nat /\ MaxEvaluations * RetryNumber \in Nat
      /\ RetryNumber \in Nat /\ 0 * RetryNumber = 0
  BY ConstantsAssumption DEF MaxEvaluations, Preparations
<1>4. error \in BOOLEAN
  BY <1>2
<1>5. TypeOK
  BY <1>1, <1>3, <1>4 DEF TypeOK
<1>6. Processes
  BY <1>1 DEF Processes, BenchState
<1>7. OneServer /\ OneBenchmark /\ DefaultConfig /\ Cleared
  BY <1>1 DEF OneServer, OneBenchmark, DefaultConfig, Cleared
<1>8. Attempts /\ Launched
  BY <1>1, <1>3 DEF Attempts, Launched
<1>9. TruthfulRow /\ SimulatorStopped
  BY <1>1 DEF TruthfulRow, SimulatorStopped
<1> QED
  BY <1>5, <1>6, <1>7, <1>8, <1>9 DEF IInv

-------------------------------------------------------------------------------
(* Stopping keeps the server that is there, and no benchmark runs after.   *)
LEMMA Stopping ==
  ASSUME IInv, StopTargetServer
  PROVE  /\ launches' = launches /\ config' = 0
         /\ bench' \in [state : BenchState, rate : Rate \cup {"none"}]
         /\ bench'.state # "running"
         /\ results' \in {NoResult, results}
         /\ alive' \subseteq [launch : Nat, x : Evaluation, ready : BOOLEAN, told : BOOLEAN]
         /\ \A t \in alive' : \E s \in alive : t.launch = s.launch /\ t.x = s.x
         /\ engine = "vllm" => \A t \in alive' : t.told
<1>1. launches' = launches /\ config' = 0
  BY DEF StopTargetServer, SimulatorStop
<1>2. /\ bench' = IF bench.state = "running" THEN [bench EXCEPT !.state = "killed"] ELSE bench
      /\ results' \in {NoResult, results}
  BY DEF StopTargetServer, BenchmarkStop
<1>3. bench \in [state : BenchState, rate : Rate \cup {"none"}]
  BY DEF IInv, Processes
<1>4. bench' \in [state : BenchState, rate : Rate \cup {"none"}] /\ bench'.state # "running"
  BY <1>2, <1>3 DEF BenchState
<1>5. alive \subseteq [launch : Nat, x : Evaluation, ready : BOOLEAN, told : BOOLEAN]
  BY DEF IInv, Processes
<1>6. CASE engine = "vllm"
  <2>1. alive' = {[s EXCEPT !.told = TRUE] : s \in alive}
    BY <1>6 DEF StopTargetServer, SimulatorStop
  <2>2. ASSUME NEW t \in alive'
        PROVE  /\ t \in [launch : Nat, x : Evaluation, ready : BOOLEAN, told : BOOLEAN]
               /\ t.told
               /\ \E s \in alive : t.launch = s.launch /\ t.x = s.x
    <3>1. PICK s \in alive : t = [s EXCEPT !.told = TRUE]
      BY <2>1
    <3>2. s \in [launch : Nat, x : Evaluation, ready : BOOLEAN, told : BOOLEAN]
      BY <1>5
    <3>3. t = [launch |-> s.launch, x |-> s.x, ready |-> s.ready, told |-> TRUE]
      BY <3>1, <3>2
    <3> QED
      BY <3>2, <3>3
  <2> QED
    BY <1>1, <1>2, <1>4, <2>2
<1>7. CASE engine # "vllm"
  <2>1. alive' = alive
    BY <1>7 DEF StopTargetServer, SimulatorStop
  <2> QED
    BY <1>1, <1>2, <1>4, <1>5, <1>7, <2>1
<1> QED
  BY <1>6, <1>7

(* The bound on launches, from the count of attempts.                      *)
LEMMA LaunchBound ==
  ASSUME TypeOK, Launched, Attempts
  PROVE  launches <= MaxEvaluations * RetryNumber
<1>1. /\ n \in Nat /\ MaxEvaluations \in Nat /\ RetryNumber \in Nat /\ attempt \in Nat
      /\ n <= MaxEvaluations /\ launches \in Nat
  BY Bounds
<1>2. n * RetryNumber \in Nat /\ n * RetryNumber <= MaxEvaluations * RetryNumber
      /\ MaxEvaluations * RetryNumber \in Nat
  BY <1>1, Times
<1>3. launches <= n * RetryNumber
  BY <1>1, <1>2 DEF Launched, Attempts
<1> QED
  BY <1>1, <1>2, <1>3

-------------------------------------------------------------------------------
(* Actions of the scheduler                                                *)

LEMMA BeginIInv == ASSUME IInv, NEW m \in {"run", "rate"}, Begin(m) PROVE IInv'
<1>1. /\ pc = "idle" /\ n < MaxEvaluations
      /\ n' = n + 1 /\ mode' = m /\ phase' = 1 /\ attempt' = 0
      /\ info' = [x |-> n + 1, rate |-> "given"]
      /\ perf' = NoResult /\ pc' = "launch"
      /\ UNCHANGED <<engine, tool, launches, alive, config, bench, results, rows>>
  BY DEF Begin, setup, serverVars, benchVars
<1>2. error' = FALSE
  BY DEF Begin
<1>3. /\ n \in Nat /\ MaxEvaluations \in Nat /\ RetryNumber \in Nat \ {0}
      /\ MaxEvaluations <= MaxCandidates + 2 /\ MaxCandidates \in Nat /\ launches \in Nat
  BY Bounds DEF IInv
<1>4. info' \in Measurement /\ info'.x <= n' /\ n' \in 0..MaxEvaluations /\ n' >= 1
  BY <1>1, <1>3 DEF Measurement, Evaluation, Rate
<1>5. TypeOK'
  <2>1. error' \in BOOLEAN
    BY <1>2
  <2>2. attempt' \in 0..RetryNumber
    BY <1>1, <1>3
  <2> QED
    BY <1>1, <1>4, <2>1, <2>2, SetupStays DEF IInv, TypeOK
<1>6. Processes' /\ OneServer' /\ OneBenchmark' /\ DefaultConfig' /\ Cleared'
  BY <1>1 DEF IInv, Processes, OneServer, Busy, OneBenchmark, DefaultConfig, Cleared
<1>7. Attempts'
  BY <1>1, <1>3, <1>4 DEF Attempts
<1>8. Launched'
  <2>1. launches <= n * RetryNumber
    BY <1>1 DEF IInv, Launched
  <2>2. (n + 1) * RetryNumber = n * RetryNumber + RetryNumber /\ n * RetryNumber \in Nat
    BY <1>3, Times
  <2> QED
    BY <1>1, <1>3, <2>1, <2>2 DEF Launched
<1>9. TruthfulRow' /\ SimulatorStopped'
  BY <1>1 DEF TruthfulRow, SimulatorStopped
<1> QED
  BY <1>5, <1>6, <1>7, <1>8, <1>9 DEF IInv

LEMMA BeginFailsIInv == ASSUME IInv, BeginFails PROVE IInv'
<1>1. /\ pc = "idle" /\ n < MaxEvaluations /\ n' = n + 1
      /\ pc' = IF n < Preparations THEN "ended" ELSE "save"
      /\ UNCHANGED <<engine, tool, mode, phase, attempt, info, perf, error,
                     launches, alive, config, bench, results, rows>>
  BY DEF BeginFails, setup, serverVars, benchVars
<1>2. /\ n \in Nat /\ MaxEvaluations \in Nat /\ RetryNumber \in Nat \ {0} /\ launches \in Nat
      /\ Preparations \in Nat \ {0} /\ pc' \in {"ended", "save"}
  BY <1>1, Bounds DEF IInv, Preparations
<1>3. TypeOK'
  <2>1. n' \in 0..MaxEvaluations
    BY <1>1, <1>2
  <2> QED
    BY <1>1, <1>2, <2>1, SetupStays DEF IInv, TypeOK
<1>4. Processes' /\ OneServer' /\ OneBenchmark' /\ DefaultConfig' /\ Cleared'
  BY <1>1, <1>2 DEF IInv, Processes, OneServer, Busy, OneBenchmark, DefaultConfig, Cleared
<1>5. Attempts'
  <2>1. pc' = "save" => info \in Measurement /\ info.x <= n
    BY <1>1, <1>2 DEF IInv, Attempts
  <2>2. info \in Measurement => info.x \in Nat
    BY ConstantsAssumption DEF Measurement, Evaluation
  <2> QED
    BY <1>1, <1>2, <2>1, <2>2 DEF Attempts
<1>6. Launched'
  <2>1. launches <= n * RetryNumber
    BY <1>1 DEF IInv, Launched
  <2>2. (n + 1) * RetryNumber = n * RetryNumber + RetryNumber /\ n * RetryNumber \in Nat
    BY <1>2, Times
  <2> QED
    BY <1>1, <1>2, <2>1, <2>2 DEF Launched
<1>7. TruthfulRow' /\ SimulatorStopped'
  BY <1>1, <1>2 DEF IInv, TruthfulRow, SimulatorStopped
<1> QED
  BY <1>3, <1>4, <1>5, <1>6, <1>7 DEF IInv

(* A server is started when none is left.                                  *)
LEMMA SimulatorRunIInv ==
  ASSUME IInv, pc = "launch",
         NEW started \in SUBSET {[launch |-> launches + 1, x |-> info.x,
                                  ready |-> FALSE, told |-> FALSE]},
         SimulatorRun(started), pc' \in {"wait", "retry"},
         UNCHANGED <<setup, mode, phase, attempt, n, info, perf, error, benchVars, rows>>
  PROVE  IInv'
<1>1. /\ launches' = launches + 1 /\ alive' = started
      /\ config' = IF engine = "mindie" THEN info.x ELSE config
      /\ UNCHANGED <<engine, tool, mode, phase, attempt, n, info, perf, error, bench, results>>
  BY DEF SimulatorRun, Survivors, UpdateConfig, setup, benchVars
<1>2. /\ n \in Nat /\ MaxEvaluations \in Nat /\ RetryNumber \in Nat \ {0}
      /\ launches \in Nat /\ attempt \in Nat /\ n <= MaxEvaluations
      /\ engine = "mindie" => MaxEvaluations = MaxCandidates + 2
  BY Bounds DEF IInv
<1>3. phase = 1 /\ attempt < RetryNumber /\ n >= 1 /\ info \in Measurement /\ info.x <= n
  BY DEF IInv, Attempts
<1>4. info.x \in Evaluation /\ info.x \in 1..MaxEvaluations
  BY <1>2, <1>3, ConstantsAssumption DEF Measurement, Evaluation
<1>5. ASSUME NEW s \in alive'
      PROVE  /\ s \in [launch : Nat, x : Evaluation, ready : BOOLEAN, told : BOOLEAN]
             /\ s.launch = launches' /\ s.x = info.x
  <2>1. s = [launch |-> launches + 1, x |-> info.x, ready |-> FALSE, told |-> FALSE]
    BY <1>1
  <2> QED
    BY <1>1, <1>2, <1>4, <2>1
<1>6. launches + RetryNumber <= n * RetryNumber + attempt
  BY DEF IInv, Launched
<1>7. launches' \in 1..MaxEvaluations * RetryNumber
  <2>1. n * RetryNumber <= MaxEvaluations * RetryNumber /\ n * RetryNumber \in Nat
        /\ MaxEvaluations * RetryNumber \in Nat
    BY <1>2, Times
  <2> QED
    BY <1>1, <1>2, <1>3, <1>6, <2>1
<1>8. TypeOK'
  <2>1. \A s \in alive' : /\ s.launch \in 1..launches' /\ s.x \in Evaluation
                          /\ s.ready \in BOOLEAN /\ s.told \in BOOLEAN
    BY <1>5, <1>7
  <2>2. config' \in 0..MaxEvaluations
    BY <1>1, <1>4 DEF IInv, TypeOK
  <2>3. launches' \in 0..MaxEvaluations * RetryNumber
    BY <1>7
  <2> QED
    BY <1>1, <2>1, <2>2, <2>3, SetupStays DEF IInv, TypeOK
<1>9. Processes' /\ OneServer'
  BY <1>1, <1>5 DEF IInv, Processes, OneServer
<1>10. OneBenchmark' /\ DefaultConfig' /\ Cleared'
  BY <1>1 DEF IInv, OneBenchmark, DefaultConfig, Cleared
<1>11. Attempts'
  BY <1>1, <1>3 DEF Attempts
<1>12. Launched'
  <2>1. n * RetryNumber \in Nat
    BY <1>2, Times
  <2> QED
    BY <1>1, <1>2, <1>6, <2>1 DEF Launched
<1>13. TruthfulRow' /\ SimulatorStopped'
  BY <1>1 DEF IInv, TruthfulRow, SimulatorStopped
<1> QED
  BY <1>8, <1>9, <1>10, <1>11, <1>12, <1>13 DEF IInv

LEMMA LaunchIInv == ASSUME IInv, Launch PROVE IInv'
  BY SimulatorRunIInv DEF Launch

LEMMA LaunchFailsIInv == ASSUME IInv, LaunchFails PROVE IInv'
  BY SimulatorRunIInv DEF LaunchFails

(* Steps that leave the processes and the parameters alone.                *)
LEMMA MovesOn ==
  ASSUME IInv, UNCHANGED <<engine, tool, mode, phase, attempt, n, info, serverVars, bench, rows>>,
         pc \in Busy, pc' \in Busy \ {"wait", "second"},
         pc \in {"retry", "finish"} => pc' = "finish",
         pc' = "retry" => phase = 1,
         bench.state = "running" => pc' \in {"monitor", "retry", "finish"}
  PROVE  /\ Processes' /\ OneServer' /\ OneBenchmark' /\ DefaultConfig' /\ Attempts'
         /\ Launched' /\ SimulatorStopped'
<1>1. UNCHANGED <<engine, attempt, phase, n, info, launches, alive, config, bench>>
  BY DEF serverVars
<1>2. Processes' /\ OneServer' /\ OneBenchmark'
  BY <1>1 DEF IInv, Processes, OneServer, OneBenchmark
<1>3. DefaultConfig' /\ SimulatorStopped'
  BY DEF DefaultConfig, SimulatorStopped, Busy
<1>4. Attempts'
  BY <1>1 DEF IInv, Attempts, Busy
<1>5. Launched'
  <2>1. /\ n \in Nat /\ RetryNumber \in Nat \ {0} /\ attempt \in Nat /\ launches \in Nat
        /\ n * RetryNumber \in Nat
    BY Bounds, Times DEF IInv
  <2>2. pc \in Busy \ {"finish"} =>
          /\ launches + RetryNumber <= n * RetryNumber + attempt + 1
          /\ attempt < RetryNumber
    BY DEF IInv, Launched, Attempts, Busy
  <2>3. pc = "finish" => launches <= n * RetryNumber
    BY DEF IInv, Launched
  <2> QED
    BY <1>1, <2>1, <2>2, <2>3 DEF Launched, Busy
<1> QED
  BY <1>2, <1>3, <1>4, <1>5

LEMMA WaitSimulateIInv == ASSUME IInv, WaitSimulate PROVE IInv'
<1>1. /\ pc = "wait" /\ pc' \in {"bench", "retry"}
      /\ UNCHANGED <<engine, tool, mode, phase, attempt, n, info, perf, error, serverVars,
                     bench, results, rows>>
  BY DEF WaitSimulate, setup, benchVars
<1>2. TypeOK'
  BY <1>1, SetupStays DEF IInv, TypeOK, serverVars
<1>3. phase = 1 /\ bench.state # "running"
  BY <1>1 DEF IInv, Attempts, OneBenchmark
<1>4. /\ Processes' /\ OneServer' /\ OneBenchmark' /\ DefaultConfig' /\ Attempts'
      /\ Launched' /\ SimulatorStopped'
  BY <1>1, <1>3, MovesOn DEF Busy
<1>5. Cleared' /\ TruthfulRow'
  BY <1>1 DEF IInv, Cleared, TruthfulRow
<1> QED
  BY <1>2, <1>4, <1>5 DEF IInv

LEMMA RunBenchmarkIInv == ASSUME IInv, RunBenchmark PROVE IInv'
<1>1. /\ pc = "bench" /\ pc' = "monitor" /\ results' = NoResult
      /\ bench' = [state |-> "running", rate |-> info.rate]
      /\ UNCHANGED <<engine, tool, mode, phase, attempt, n, info, perf, error, launches, alive,
                     config, rows>>
  BY DEF RunBenchmark, ClearOutput, CommandRate, setup, serverVars
<1>2. info \in Measurement /\ attempt < RetryNumber /\ n >= 1 /\ info.x <= n
  BY <1>1 DEF IInv, Attempts
<1>3. TypeOK'
  BY <1>1, SetupStays, Zenon DEF IInv, TypeOK
<1>4. Processes' /\ OneServer' /\ OneBenchmark'
  BY <1>1, <1>2 DEF IInv, Processes, OneServer, OneBenchmark, Busy, BenchState, Measurement
<1>5. DefaultConfig' /\ Cleared' /\ Attempts' /\ SimulatorStopped'
  BY <1>1, <1>2 DEF DefaultConfig, Cleared, Attempts, SimulatorStopped
<1>6. Launched' /\ TruthfulRow'
  BY <1>1 DEF IInv, Launched, TruthfulRow
<1> QED
  BY <1>3, <1>4, <1>5, <1>6 DEF IInv

(* A failure of the benchmark: an attempt less, or the end.                *)
LEMMA FailedIInv ==
  ASSUME IInv, pc \in {"bench", "monitor"}, Failed,
         UNCHANGED <<setup, mode, phase, attempt, n, info, perf, serverVars, bench, rows>>,
         results' \in {results, NoResult}
  PROVE  IInv'
<1>1. /\ pc' = IF phase = 1 THEN "retry" ELSE "finish"
      /\ UNCHANGED <<engine, tool, mode, phase, attempt, n, info, perf, launches, alive, config,
                     bench, rows>>
  BY DEF Failed, setup, serverVars
<1>2. error' = (phase = 2)
  BY DEF Failed
<1>3. error' \in BOOLEAN
  BY <1>2
<1>4. pc' \in {"retry", "finish"} /\ (pc' = "retry" => phase = 1)
  BY <1>1
<1>5. pc' = "finish" => error' = TRUE
  <2>1. phase \in {1, 2}
    BY DEF IInv, TypeOK
  <2>2. phase = 1 => pc' = "retry"
    BY <1>1
  <2>3. phase = 2 => error' = TRUE
    BY <1>2
  <2> QED
    BY <2>1, <2>2, <2>3
<1>6. TypeOK'
  <2>1. results' \in Measurement \cup {NoResult}
    BY DEF IInv, TypeOK
  <2> QED
    BY <1>1, <1>3, <1>4, <2>1, SetupStays DEF IInv, TypeOK
<1>7. /\ Processes' /\ OneServer' /\ OneBenchmark' /\ DefaultConfig' /\ Attempts'
      /\ Launched' /\ SimulatorStopped'
  BY <1>1, <1>4, MovesOn DEF Busy, serverVars
<1>8. Cleared'
  BY <1>4 DEF Cleared
<1>9. TruthfulRow'
  <2>1. perf # NoResult => perf.x = info.x
    BY DEF IInv, TruthfulRow
  <2> QED
    BY <1>1, <1>4, <1>5, <2>1 DEF TruthfulRow
<1> QED
  BY <1>6, <1>7, <1>8, <1>9 DEF IInv

LEMMA RunBenchmarkFailsIInv == ASSUME IInv, RunBenchmarkFails PROVE IInv'
  BY FailedIInv DEF RunBenchmarkFails, ClearOutput

LEMMA MonitoringFailsIInv == ASSUME IInv, MonitoringFails PROVE IInv'
  BY FailedIInv DEF MonitoringFails, benchVars

LEMMA MonitoringStatusIInv == ASSUME IInv, MonitoringStatus PROVE IInv'
<1>1. /\ pc = "monitor" /\ pc' = "read" /\ bench.state \in {"ok", "failed"}
      /\ UNCHANGED <<engine, tool, mode, phase, attempt, n, info, perf, error, serverVars,
                     bench, results, rows>>
  BY DEF MonitoringStatus, setup, benchVars
<1>2. TypeOK'
  BY <1>1, SetupStays DEF IInv, TypeOK, serverVars
<1>3. /\ Processes' /\ OneServer' /\ OneBenchmark' /\ DefaultConfig' /\ Attempts'
      /\ Launched' /\ SimulatorStopped'
  BY <1>1, MovesOn DEF Busy
<1>4. Cleared' /\ TruthfulRow'
  BY <1>1 DEF IInv, Cleared, TruthfulRow
<1> QED
  BY <1>2, <1>3, <1>4 DEF IInv

LEMMA GetPerformanceIndexIInv == ASSUME IInv, GetPerformanceIndex PROVE IInv'
<1>1. /\ pc = "read" /\ pc' \in {"second", "finish"}
      /\ perf' = IF IndexRaises THEN perf ELSE results
      /\ pc' = IF mode = "rate" /\ phase = 1 /\ ~IndexRaises THEN "second" ELSE "finish"
      /\ UNCHANGED <<engine, tool, mode, phase, attempt, n, info, launches, alive, config,
                     bench, results, rows>>
  BY DEF GetPerformanceIndex, setup, serverVars, benchVars
<1>2. error' = IndexRaises
  BY DEF GetPerformanceIndex
<1>3. error' \in BOOLEAN
  BY <1>2 DEF IndexRaises
<1>4. error' = FALSE => ~IndexRaises
  BY <1>2 DEF IndexRaises
<1>5. results \in {NoResult, info}
  BY <1>1 DEF IInv, Cleared
<1>6. TypeOK'
  <2>1. perf' \in Measurement \cup {NoResult}
    BY <1>1 DEF IInv, TypeOK
  <2> QED
    BY <1>1, <1>3, <2>1, SetupStays DEF IInv, TypeOK
<1>7. Processes' /\ OneServer' /\ OneBenchmark' /\ DefaultConfig' /\ Cleared'
  BY <1>1 DEF IInv, Processes, OneServer, OneBenchmark, DefaultConfig, Cleared, Busy
<1>8. Attempts' /\ SimulatorStopped'
  BY <1>1 DEF IInv, Attempts, SimulatorStopped
<1>9. Launched'
  <2>1. /\ n \in Nat /\ RetryNumber \in Nat \ {0} /\ attempt \in Nat /\ launches \in Nat
        /\ n * RetryNumber \in Nat
    BY Bounds, Times DEF IInv
  <2>2. launches + RetryNumber <= n * RetryNumber + attempt + 1 /\ attempt < RetryNumber
    BY <1>1 DEF IInv, Launched, Attempts
  <2> QED
    BY <1>1, <2>1, <2>2 DEF Launched
<1>10. TruthfulRow'
  <2>1. perf # NoResult => perf.x = info.x
    BY DEF IInv, TruthfulRow
  <2>2. CASE IndexRaises
    BY <1>1, <1>4, <2>1, <2>2 DEF TruthfulRow
  <2>3. CASE ~IndexRaises
    BY <1>1, <1>5, <2>3 DEF TruthfulRow
  <2> QED
    BY <2>2, <2>3
<1> QED
  BY <1>6, <1>7, <1>8, <1>9, <1>10 DEF IInv

LEMMA SecondPhaseIInv == ASSUME IInv, SecondPhase PROVE IInv'
<1> DEFINE raises == RateSearched /\ perf = NoResult
<1>1. /\ pc = "second" /\ phase' = 2 /\ results' \in {NoResult, results}
      /\ pc' = IF raises THEN "finish" ELSE "bench"
      /\ info' = IF RateSearched /\ ~raises THEN [info EXCEPT !.rate = "derived"] ELSE info
      /\ UNCHANGED <<engine, tool, mode, attempt, n, perf, launches, alive, config, bench, rows>>
  BY DEF SecondPhase, setup, serverVars
<1>2. error' = raises
  BY DEF SecondPhase
<1>3. error' \in BOOLEAN /\ (error' = FALSE => ~raises)
  BY <1>2
<1>4. info \in Measurement /\ info.x <= n /\ n >= 1 /\ attempt < RetryNumber
  BY <1>1 DEF IInv, Attempts
<1>5. pc' \in {"finish", "bench"}
  BY <1>1
<1> HIDE DEF raises
<1>6. info' \in Measurement /\ info'.x = info.x
  BY <1>1, <1>4 DEF Measurement, Rate
<1>7. bench.state # "running"
  BY <1>1 DEF IInv, OneBenchmark
<1>8. TypeOK'
  <2>1. results' \in Measurement \cup {NoResult}
    BY <1>1 DEF IInv, TypeOK
  <2> QED
    BY <1>1, <1>3, <1>5, <1>6, <2>1, SetupStays DEF IInv, TypeOK
<1>9. Processes' /\ OneServer' /\ OneBenchmark' /\ DefaultConfig' /\ Cleared'
  BY <1>1, <1>5, <1>6, <1>7
  DEF IInv, Processes, OneServer, OneBenchmark, DefaultConfig, Cleared, Busy
<1>10. Attempts' /\ SimulatorStopped'
  BY <1>1, <1>4, <1>5, <1>6 DEF IInv, Attempts, SimulatorStopped
<1>11. Launched'
  <2>1. /\ n \in Nat /\ RetryNumber \in Nat \ {0} /\ attempt \in Nat /\ launches \in Nat
        /\ n * RetryNumber \in Nat
    BY Bounds, Times DEF IInv
  <2>2. launches + RetryNumber <= n * RetryNumber + attempt + 1
    BY <1>1 DEF IInv, Launched
  <2> QED
    BY <1>1, <1>4, <1>5, <2>1, <2>2 DEF Launched
<1>12. TruthfulRow'
  <2>1. perf # NoResult => perf.x = info.x
    BY DEF IInv, TruthfulRow
  <2>2. pc' = "finish" => error' # FALSE
    BY <1>1, <1>3
  <2> QED
    BY <1>1, <1>5, <1>6, <2>1, <2>2 DEF TruthfulRow
<1> QED
  BY <1>8, <1>9, <1>10, <1>11, <1>12 DEF IInv

-------------------------------------------------------------------------------
(* Steps that stop the server and the benchmark                            *)

LEMMA StopTypeOK ==
  ASSUME IInv, StopTargetServer,
         UNCHANGED <<engine, tool, mode, phase, n, info, perf>>,
         attempt' \in 0..RetryNumber, error' \in BOOLEAN,
         pc' \in {"launch", "finish", "save", "idle", "stopped"}
  PROVE  TypeOK'
<1>1. /\ launches' = launches /\ config' = 0
      /\ bench' \in [state : BenchState, rate : Rate \cup {"none"}]
      /\ results' \in {NoResult, results}
      /\ alive' \subseteq [launch : Nat, x : Evaluation, ready : BOOLEAN, told : BOOLEAN]
      /\ \A t \in alive' : \E s \in alive : t.launch = s.launch /\ t.x = s.x
  BY Stopping
<1>2. \A s \in alive : s.launch \in 1..launches
  BY DEF IInv, TypeOK
<1>3. \A t \in alive' : /\ t.launch \in 1..launches' /\ t.x \in Evaluation
                        /\ t.ready \in BOOLEAN /\ t.told \in BOOLEAN
  BY <1>1, <1>2
<1>4. config' \in 0..MaxEvaluations
  BY <1>1, Bounds DEF IInv
<1>5. bench'.state \in BenchState /\ results' \in Measurement \cup {NoResult}
  BY <1>1 DEF IInv, TypeOK
<1> QED
  BY <1>1, <1>3, <1>4, <1>5, SetupStays DEF IInv, TypeOK, BenchState

LEMMA StopParts ==
  ASSUME IInv, StopTargetServer, info' = info, engine' = engine,
         pc' \in {"launch", "finish", "save", "idle", "stopped"},
         pc' = "finish" => pc \in Busy
  PROVE  /\ Processes' /\ OneServer' /\ OneBenchmark' /\ DefaultConfig' /\ Cleared'
         /\ SimulatorStopped'
<1>1. /\ launches' = launches /\ config' = 0
      /\ bench' \in [state : BenchState, rate : Rate \cup {"none"}]
      /\ bench'.state # "running"
      /\ alive' \subseteq [launch : Nat, x : Evaluation, ready : BOOLEAN, told : BOOLEAN]
      /\ \A t \in alive' : \E s \in alive : t.launch = s.launch /\ t.x = s.x
      /\ engine = "vllm" => \A t \in alive' : t.told
  BY Stopping
<1>2. OneServer'
  <2> SUFFICES ASSUME NEW t \in alive'
               PROVE  t.launch = launches' /\ (pc' \in Busy => t.x = info'.x)
    BY DEF OneServer
  <2>1. PICK s \in alive : t.launch = s.launch /\ t.x = s.x
    BY <1>1
  <2> QED
    BY <1>1, <2>1 DEF IInv, OneServer, Busy
<1>3. Processes' /\ OneBenchmark' /\ DefaultConfig' /\ Cleared'
  BY <1>1 DEF Processes, OneBenchmark, DefaultConfig, Cleared
<1>4. SimulatorStopped'
  BY <1>1 DEF SimulatorStopped
<1> QED
  BY <1>2, <1>3, <1>4

LEMMA RetryIInv == ASSUME IInv, Retry PROVE IInv'
<1> DEFINE last == attempt + 1 = RetryNumber
<1>1. /\ pc = "retry" /\ StopTargetServer /\ attempt' = attempt + 1
      /\ pc' = IF last THEN "finish" ELSE "launch"
      /\ UNCHANGED <<engine, tool, mode, phase, n, info, perf, rows>>
  BY DEF Retry, setup
<1>2. error' = last
  BY DEF Retry
<1>3. error' \in BOOLEAN /\ (error' = FALSE => ~last)
  BY <1>2
<1>4. phase = 1 /\ attempt < RetryNumber /\ n >= 1 /\ info \in Measurement /\ info.x <= n
  BY <1>1 DEF IInv, Attempts
<1>5. /\ n \in Nat /\ RetryNumber \in Nat \ {0} /\ attempt \in Nat /\ launches \in Nat
      /\ n * RetryNumber \in Nat
  BY Bounds, Times DEF IInv
<1>6. pc' \in {"finish", "launch"} /\ attempt' \in 0..RetryNumber
  BY <1>1, <1>4, <1>5
<1>7. TypeOK'
  BY <1>1, <1>3, <1>6, StopTypeOK
<1>8. /\ Processes' /\ OneServer' /\ OneBenchmark' /\ DefaultConfig' /\ Cleared'
      /\ SimulatorStopped'
  BY <1>1, <1>6, StopParts DEF Busy
<1>9. Attempts'
  BY <1>1, <1>4, <1>5 DEF Attempts
<1>10. Launched'
  <2>1. launches + RetryNumber <= n * RetryNumber + attempt + 1
    BY <1>1 DEF IInv, Launched
  <2>2. launches' = launches
    BY <1>1, Stopping
  <2> QED
    BY <1>1, <1>4, <1>5, <2>1, <2>2 DEF Launched
<1>11. TruthfulRow'
  <2>1. perf # NoResult => perf.x = info.x
    BY DEF IInv, TruthfulRow
  <2>2. pc' = "finish" => error' # FALSE
    BY <1>1, <1>3
  <2> QED
    BY <1>1, <1>6, <2>1, <2>2 DEF TruthfulRow
<1> QED
  BY <1>7, <1>8, <1>9, <1>10, <1>11 DEF IInv

LEMMA StopAndSave ==
  ASSUME IInv, StopTargetServer,
         UNCHANGED <<setup, mode, phase, attempt, n, info, perf, error>>,
         \/ pc = "finish" /\ pc' = "save"
         \/ pc = "save" /\ pc' \in {"idle", "stopped"}
  PROVE  IInv'
<1>1. UNCHANGED <<engine, tool>>
  BY DEF setup
<1>2. attempt' \in 0..RetryNumber /\ error' \in BOOLEAN
  BY DEF IInv, TypeOK
<1>3. TypeOK'
  BY <1>1, <1>2, StopTypeOK
<1>4. /\ Processes' /\ OneServer' /\ OneBenchmark' /\ DefaultConfig' /\ Cleared'
      /\ SimulatorStopped'
  BY <1>1, StopParts
<1>5. Attempts' /\ TruthfulRow'
  BY DEF IInv, Attempts, TruthfulRow
<1>6. Launched'
  BY Stopping DEF IInv, Launched
<1> QED
  BY <1>3, <1>4, <1>5, <1>6 DEF IInv

LEMMA FinishIInv == ASSUME IInv, Finish PROVE IInv'
  BY StopAndSave DEF Finish

LEMMA SaveResultIInv == ASSUME IInv, SaveResult PROVE IInv'
  BY StopAndSave DEF SaveResult

LEMMA SaveFailsIInv == ASSUME IInv, SaveFails PROVE IInv'
<1>1. /\ pc = "save" /\ pc' = "ended"
      /\ UNCHANGED <<engine, tool, mode, phase, attempt, n, info, perf, error, launches, alive,
                     config, bench, results, rows>>
  BY DEF SaveFails, setup, serverVars, benchVars
<1>2. TypeOK'
  BY <1>1, SetupStays DEF IInv, TypeOK
<1>3. Processes' /\ OneServer' /\ OneBenchmark' /\ DefaultConfig' /\ Cleared'
  BY <1>1 DEF IInv, Processes, OneServer, OneBenchmark, DefaultConfig, Cleared, Busy
<1>4. Attempts' /\ Launched' /\ TruthfulRow' /\ SimulatorStopped'
  BY <1>1 DEF IInv, Attempts, Launched, TruthfulRow, SimulatorStopped
<1> QED
  BY <1>2, <1>3, <1>4 DEF IInv

-------------------------------------------------------------------------------
(* Steps of the processes                                                  *)

LEMMA ServerStep ==
  ASSUME IInv, UNCHANGED <<schedulerVars, launches, config, benchVars>>,
         alive' \subseteq [launch : Nat, x : Evaluation, ready : BOOLEAN, told : BOOLEAN],
         \A t \in alive' : \E s \in alive : t.launch = s.launch /\ t.x = s.x /\ t.told = s.told
  PROVE  IInv'
<1>1. UNCHANGED <<engine, tool, pc, mode, phase, attempt, n, info, perf, error, rows, launches,
                  config, bench, results>>
  BY DEF schedulerVars, setup, benchVars
<1>2. TypeOK'
  <2>1. \A t \in alive' : /\ t.launch \in 1..launches' /\ t.x \in Evaluation
                          /\ t.ready \in BOOLEAN /\ t.told \in BOOLEAN
    BY <1>1 DEF IInv, TypeOK
  <2> QED
    BY <1>1, <2>1, SetupStays DEF IInv, TypeOK
<1>3. Processes' /\ OneServer'
  BY <1>1 DEF IInv, Processes, OneServer
<1>4. OneBenchmark' /\ DefaultConfig' /\ Cleared' /\ Attempts' /\ Launched' /\ TruthfulRow'
  BY <1>1 DEF IInv, OneBenchmark, DefaultConfig, Cleared, Attempts, Launched, TruthfulRow
<1>5. SimulatorStopped'
  <2> SUFFICES ASSUME engine = "vllm", pc \in {"idle", "stopped"}, NEW t \in alive'
               PROVE  t.told
    BY <1>1 DEF SimulatorStopped
  <2>1. PICK s \in alive : t.told = s.told
    OBVIOUS
  <2>2. s.told
    BY DEF IInv, SimulatorStopped
  <2> QED
    BY <2>1, <2>2
<1> QED
  BY <1>2, <1>3, <1>4, <1>5 DEF IInv

LEMMA ServerReadyIInv == ASSUME IInv, ServerReady PROVE IInv'
<1>1. PICK s \in alive : alive' = (alive \ {s}) \cup {[s EXCEPT !.ready = TRUE]}
  BY DEF ServerReady
<1>2. alive \subseteq [launch : Nat, x : Evaluation, ready : BOOLEAN, told : BOOLEAN]
  BY DEF IInv, Processes
<1>3. s \in [launch : Nat, x : Evaluation, ready : BOOLEAN, told : BOOLEAN]
  BY <1>2
<1>4. ASSUME NEW t, t = [s EXCEPT !.ready = TRUE]
      PROVE  /\ t \in [launch : Nat, x : Evaluation, ready : BOOLEAN, told : BOOLEAN]
             /\ t.launch = s.launch /\ t.x = s.x /\ t.told = s.told
  <2>1. t = [launch |-> s.launch, x |-> s.x, ready |-> TRUE, told |-> s.told]
    BY <1>3, <1>4
  <2> QED
    BY <1>3, <2>1
<1>5. alive' \subseteq [launch : Nat, x : Evaluation, ready : BOOLEAN, told : BOOLEAN]
  BY <1>1, <1>2, <1>4
<1>6. \A t \in alive' : \E q \in alive : t.launch = q.launch /\ t.x = q.x /\ t.told = q.told
  BY <1>1, <1>4
<1> QED
  BY <1>5, <1>6, ServerStep DEF ServerReady

LEMMA ServerExitsIInv == ASSUME IInv, ServerExits PROVE IInv'
<1>1. alive' \subseteq alive
  BY DEF ServerExits
<1>2. alive' \subseteq [launch : Nat, x : Evaluation, ready : BOOLEAN, told : BOOLEAN]
  BY <1>1 DEF IInv, Processes
<1> QED
  BY <1>1, <1>2, ServerStep DEF ServerExits

LEMMA BenchmarkStep ==
  ASSUME IInv, UNCHANGED <<schedulerVars, serverVars>>, bench.state = "running",
         NEW v \in {"ok", "failed"}, bench' = [bench EXCEPT !.state = v],
         \/ results' = results
         \/ \E s \in alive : results' = [x |-> s.x, rate |-> bench.rate]
  PROVE  IInv'
<1>1. UNCHANGED <<engine, tool, pc, mode, phase, attempt, n, info, perf, error, rows, launches,
                  alive, config>>
  BY DEF schedulerVars, setup, serverVars
<1>2. bench \in [state : BenchState, rate : Rate \cup {"none"}]
  BY DEF IInv, Processes
<1>3. /\ bench' \in [state : BenchState, rate : Rate \cup {"none"}]
      /\ bench'.state = v
  BY <1>2 DEF BenchState
<1>4. pc \in {"monitor", "retry", "finish"} /\ bench.rate = info.rate
  BY DEF IInv, OneBenchmark
<1>5. info \in Measurement /\ info = [x |-> info.x, rate |-> info.rate]
  BY <1>4, Bounds DEF IInv, Attempts, Measurement
<1>6. results' = results \/ results' = info
  <2>1. ASSUME NEW s \in alive, results' = [x |-> s.x, rate |-> bench.rate]
        PROVE  results' = info
    <3>1. s.x = info.x
      BY <1>4 DEF IInv, OneServer, Busy
    <3> QED
      BY <1>4, <1>5, <2>1, <3>1
  <2> QED
    BY <2>1
<1>7. TypeOK'
  <2>1. results' \in Measurement \cup {NoResult}
    BY <1>5, <1>6 DEF IInv, TypeOK
  <2> QED
    BY <1>1, <1>3, <2>1, SetupStays DEF IInv, TypeOK
<1>8. Processes' /\ OneServer' /\ OneBenchmark' /\ DefaultConfig' /\ Cleared'
  BY <1>1, <1>3, <1>6 DEF IInv, Processes, OneServer, OneBenchmark, DefaultConfig, Cleared
<1>9. Attempts' /\ Launched' /\ TruthfulRow' /\ SimulatorStopped'
  BY <1>1 DEF IInv, Attempts, Launched, TruthfulRow, SimulatorStopped
<1> QED
  BY <1>7, <1>8, <1>9 DEF IInv

LEMMA BenchmarkSucceedsIInv == ASSUME IInv, BenchmarkSucceeds PROVE IInv'
  BY BenchmarkStep DEF BenchmarkSucceeds

LEMMA BenchmarkFailsIInv == ASSUME IInv, BenchmarkFails PROVE IInv'
  BY BenchmarkStep DEF BenchmarkFails

-------------------------------------------------------------------------------
LEMMA NextIInv == ASSUME IInv, [Next]_vars PROVE IInv'
<1>1. CASE \E m \in {"run", "rate"} : Begin(m)
  BY <1>1, BeginIInv
<1>2. CASE SchedulerStep
  BY <1>2, LaunchIInv, LaunchFailsIInv, WaitSimulateIInv, RunBenchmarkIInv,
     RunBenchmarkFailsIInv, MonitoringStatusIInv, MonitoringFailsIInv, RetryIInv,
     GetPerformanceIndexIInv, SecondPhaseIInv, FinishIInv, SaveResultIInv, SaveFailsIInv
  DEF SchedulerStep
<1>3. CASE UNCHANGED vars
  <2>1. UNCHANGED <<schedulerVars, launches, config, benchVars>> /\ alive' = alive
    BY <1>3 DEF vars, schedulerVars, serverVars
  <2>2. alive' \subseteq [launch : Nat, x : Evaluation, ready : BOOLEAN, told : BOOLEAN]
    BY <2>1 DEF IInv, Processes
  <2> QED
    BY <2>1, <2>2, ServerStep
<1> QED
  BY <1>1, <1>2, <1>3, BeginFailsIInv, ServerReadyIInv, ServerExitsIInv, BenchmarkSucceedsIInv,
     BenchmarkFailsIInv DEF Next

(* The inductive invariant holds in every reachable state.                 *)
THEOREM Invariance == Spec => []IInv
  BY InitIInv, NextIInv, PTL DEF Spec

(* Types, with the bounds on attempts and on the servers launched.         *)
THEOREM TypeCorrect == Spec => []TypeOK
<1>1. IInv => TypeOK
  BY DEF IInv
<1> QED
  BY <1>1, Invariance, PTL

(* A running benchmark can only reach the server of its own evaluation.    *)
THEOREM MeasuresOwnServer == Spec => []OwnServer
<1>1. IInv => OwnServer
  BY DEF IInv, OneBenchmark, OneServer, OwnServer, Busy
<1> QED
  BY <1>1, Invariance, PTL

(* Between evaluations no benchmark runs and the config is the default.    *)
THEOREM NothingBetweenRuns == Spec => []BetweenRuns
<1>1. IInv => BetweenRuns
  BY DEF IInv, OneBenchmark, DefaultConfig, BetweenRuns
<1> QED
  BY <1>1, Invariance, PTL

(* What is read was measured with these parameters at this rate.           *)
THEOREM FreshResults == Spec => []ReadIsFresh
<1>1. IInv => ReadIsFresh
  BY DEF IInv, Cleared, ReadIsFresh
<1> QED
  BY <1>1, Invariance, PTL

(* No server that was not told to end is left by an evaluation.            *)
THEOREM ServersAreTold == Spec => []SimulatorStopped
<1>1. IInv => SimulatorStopped
  BY DEF IInv
<1> QED
  BY <1>1, Invariance, PTL

-------------------------------------------------------------------------------
(* The service: there is one server at most, and from the moment health    *)
(* was asked until the evaluation is over it is one that serves.           *)

OneAlive == \A s, t \in alive : s = t

Serving == pc \in {"bench", "monitor", "read", "second"} => \A s \in alive : s.ready

ServiceInv == OneAlive /\ Serving

LEMMA InitServiceInv == Init => ServiceInv
<1> SUFFICES ASSUME Init PROVE ServiceInv
  OBVIOUS
<1>1. alive = {}
  BY DEF Init
<1> QED
  BY <1>1 DEF ServiceInv, OneAlive, Serving

(* Steps that leave the server alone and do not pass the wait for it.      *)
LEMMA ServiceStays ==
  ASSUME ServiceInv, alive' = alive,
         pc' \in {"bench", "monitor", "read", "second"} =>
             pc \in {"bench", "monitor", "read", "second"}
  PROVE  ServiceInv'
  BY DEF ServiceInv, OneAlive, Serving

LEMMA LaunchService ==
  ASSUME NEW started, SimulatorRun(started), \A s, t \in started : s = t,
         pc' \in {"wait", "retry"}
  PROVE  ServiceInv'
<1>1. alive' = started
  BY DEF SimulatorRun, Survivors
<1> QED
  BY <1>1 DEF ServiceInv, OneAlive, Serving

(* The server that answered the wait is the only one there is.             *)
LEMMA WaitService == ASSUME ServiceInv, WaitSimulate PROVE ServiceInv'
<1>1. alive' = alive
  BY DEF WaitSimulate, serverVars
<1>2. CASE Healthy /\ pc' = "bench"
  <2>1. PICK s \in alive : s.ready
    BY <1>2 DEF Healthy, HandleReady
  <2>2. \A t \in alive : t = s
    BY DEF ServiceInv, OneAlive
  <2>3. \A t \in alive : t.ready
    BY <2>1, <2>2
  <2> QED
    BY <1>1, <2>3 DEF ServiceInv, OneAlive, Serving
<1>3. CASE pc' = "retry"
  BY <1>1, <1>3, ServiceStays
<1> QED
  BY <1>2, <1>3 DEF WaitSimulate

LEMMA StopService ==
  ASSUME ServiceInv, StopTargetServer,
         pc' \notin {"bench", "monitor", "read", "second"}
  PROVE  ServiceInv'
<1>1. OneAlive'
  <2>1. CASE engine = "vllm"
    <3>1. alive' = {[s EXCEPT !.told = TRUE] : s \in alive}
      BY <2>1 DEF StopTargetServer, SimulatorStop
    <3> QED
      BY <3>1 DEF ServiceInv, OneAlive
  <2>2. CASE engine # "vllm"
    <3>1. alive' = alive
      BY <2>2 DEF StopTargetServer, SimulatorStop
    <3> QED
      BY <3>1 DEF ServiceInv, OneAlive
  <2> QED
    BY <2>1, <2>2
<1> QED
  BY <1>1 DEF ServiceInv, Serving

LEMMA ServerReadyService == ASSUME IInv, ServiceInv, ServerReady PROVE ServiceInv'
<1>1. PICK s \in alive : alive' = (alive \ {s}) \cup {[s EXCEPT !.ready = TRUE]}
  BY DEF ServerReady
<1>2. alive' = {[s EXCEPT !.ready = TRUE]}
  BY <1>1 DEF ServiceInv, OneAlive
<1>3. s \in [launch : Nat, x : Evaluation, ready : BOOLEAN, told : BOOLEAN]
  BY DEF IInv, Processes
<1>4. [s EXCEPT !.ready = TRUE].ready = TRUE
  BY <1>3
<1> QED
  BY <1>2, <1>4 DEF ServiceInv, OneAlive, Serving

LEMMA ServerExitsService == ASSUME ServiceInv, ServerExits PROVE ServiceInv'
<1>1. alive' \subseteq alive /\ pc' = pc
  BY DEF ServerExits, schedulerVars
<1> QED
  BY <1>1 DEF ServiceInv, OneAlive, Serving

LEMMA NextServiceInv == ASSUME IInv, ServiceInv, [Next]_vars PROVE ServiceInv'
<1>1. CASE Launch \/ LaunchFails
  BY <1>1, LaunchService DEF Launch, LaunchFails
<1>2. CASE Retry \/ Finish \/ SaveResult
  <2>1. StopTargetServer
    BY <1>2 DEF Retry, Finish, SaveResult
  <2>2. pc' \in {"finish", "launch", "save", "stopped", "idle"}
    BY <1>2 DEF Retry, Finish, SaveResult
  <2> QED
    BY <2>1, <2>2, StopService
<1>3. CASE (\E m \in {"run", "rate"} : Begin(m)) \/ BeginFails \/ SaveFails \/ UNCHANGED vars
  <2>1. alive' = alive /\ (pc' = pc \/ pc' \in {"launch", "ended", "save"})
    BY <1>3 DEF Begin, BeginFails, SaveFails, vars, serverVars
  <2> QED
    BY <2>1, ServiceStays
<1>4. CASE RunBenchmark \/ RunBenchmarkFails \/ MonitoringStatus \/ MonitoringFails
           \/ GetPerformanceIndex \/ SecondPhase
  <2>1. alive' = alive /\ pc \in {"bench", "monitor", "read", "second"}
    BY <1>4 DEF RunBenchmark, RunBenchmarkFails, MonitoringStatus, MonitoringFails,
       GetPerformanceIndex, SecondPhase, serverVars
  <2> QED
    BY <2>1, ServiceStays
<1>5. CASE BenchmarkSucceeds \/ BenchmarkFails
  <2>1. alive' = alive /\ pc' = pc
    BY <1>5 DEF BenchmarkSucceeds, BenchmarkFails, schedulerVars, serverVars
  <2> QED
    BY <2>1, ServiceStays
<1> QED
  BY <1>1, <1>2, <1>3, <1>4, <1>5, WaitService, ServerReadyService, ServerExitsService
  DEF Next, SchedulerStep

(* One server at most, and a benchmark's server serves.                    *)
THEOREM ServiceInvariance == Spec => []ServiceInv
  BY InitServiceInv, NextServiceInv, Invariance, PTL DEF Spec

(* A benchmark is started at a server that serves, in the first phase and  *)
(* in the second, which asks no health of its own.                         *)
THEOREM MeetsService == Spec => BenchmarkMeetsService
<1>1. ServiceInv /\ [Next]_vars =>
          [pc = "bench" /\ pc' = "monitor" => \A s \in alive : s.ready]_vars
  BY DEF ServiceInv, Serving
<1> QED
  BY <1>1, ServiceInvariance, PTL DEF Spec, BenchmarkMeetsService

-------------------------------------------------------------------------------
(* Refinement: an evaluation is open from Begin to the row.                *)

LEMMA RowIsTrue ==
  ASSUME IInv, pc = "save"
  PROVE  /\ SavedRow \in ER!Row /\ ER!Truthful(SavedRow) /\ SavedRow.x <= n /\ n # 0
<1>1. info \in Measurement /\ info.x <= n /\ n >= 1 /\ n \in Nat
  BY Bounds DEF IInv, Attempts
<1>2. error \in BOOLEAN /\ perf \in Measurement \cup {NoResult}
  BY DEF IInv, TypeOK
<1>3. /\ SavedRow.x = info.x /\ SavedRow.rate = info.rate /\ SavedRow.perf = perf
      /\ SavedRow.error = error
  BY DEF SavedRow
<1>4. SavedRow \in ER!Row
  BY <1>1, <1>2 DEF SavedRow, ER!Row, ER!Measurement, Measurement
<1>5. ER!Truthful(SavedRow)
  <2> SUFFICES ASSUME perf # NoResult
               PROVE  perf.x = info.x /\ (~error => perf.rate = info.rate)
    BY <1>3 DEF ER!Truthful
  <2>1. perf.x = info.x /\ (error = FALSE => perf.rate = info.rate)
    BY DEF IInv, TruthfulRow
  <2> QED
    BY <1>2, <2>1
<1> QED
  BY <1>1, <1>3, <1>4, <1>5

LEMMA StepMaps == ASSUME IInv, [Next]_vars PROVE [ER!Next]_(ER!vars)
<1>1. n \in Nat /\ (pc # "idle" => n >= 1)
  BY Bounds DEF IInv, Attempts
<1>2. CASE \/ \E m \in {"run", "rate"} : Begin(m)
           \/ BeginFails
  <2>1. pc = "idle" /\ pc' \in {"launch", "ended", "save"} /\ n' = n + 1 /\ rows' = rows
    BY <1>2 DEF Begin, BeginFails
  <2>2. ER!Begin
    BY <2>1 DEF ER!Begin
  <2> QED
    BY <2>2 DEF ER!Next
<1>3. CASE SaveResult
  <2>1. /\ pc = "save" /\ pc' \in {"idle", "stopped"} /\ n' = n
        /\ rows' = Append(rows, SavedRow)
    BY <1>3 DEF SaveResult
  <2>2. SavedRow \in ER!Row /\ ER!Truthful(SavedRow) /\ SavedRow.x <= n /\ n # 0
    BY <2>1, RowIsTrue
  <2>3. ER!Record
    BY <2>1, <2>2 DEF ER!Record
  <2> QED
    BY <2>3 DEF ER!Next
<1>4. CASE SchedulerStep /\ ~SaveResult
  <2>1. /\ pc \notin {"idle", "stopped"} /\ pc' \notin {"idle", "stopped"}
        /\ n' = n /\ rows' = rows
    BY <1>4 DEF SchedulerStep, Launch, LaunchFails, WaitSimulate, RunBenchmark,
       RunBenchmarkFails, MonitoringStatus, MonitoringFails, Retry, GetPerformanceIndex,
       SecondPhase, Finish, SaveFails, Failed
  <2> QED
    BY <2>1 DEF ER!vars
<1>5. CASE ServerReady \/ ServerExits \/ BenchmarkSucceeds \/ BenchmarkFails \/ UNCHANGED vars
  <2>1. UNCHANGED <<pc, n, rows>>
    BY <1>5 DEF ServerReady, ServerExits, BenchmarkSucceeds, BenchmarkFails, schedulerVars, vars
  <2> QED
    BY <2>1 DEF ER!vars
<1> QED
  BY <1>2, <1>3, <1>4, <1>5 DEF Next

(* The scheduler implements the specification of its result file: every    *)
(* evaluation ends in at most one row, and rows are truthful.              *)
THEOREM Implementation == Spec => ImplementsEvaluationRows
<1>1. Init => ER!Init
  BY DEF Init, ER!Init
<1> QED
  BY <1>1, Invariance, StepMaps, PTL DEF Spec, ImplementsEvaluationRows, ER!Spec

-------------------------------------------------------------------------------
(* The part of EvaluationEnds that no fairness is needed for.              *)

Places == <<"launch", "wait", "bench", "monitor", "retry", "read", "second",
            "finish", "save", "idle", "stopped", "ended">>

Later(a, b) == \E i, j \in DOMAIN Places : i < j /\ Places[i] = a /\ Places[j] = b

Over(p) == p \in {"idle", "stopped", "ended"}

(* The next attempt, the second phase, or a later place in the same one.   *)
Further ==
    \/ attempt' = attempt + 1
    \/ attempt' = attempt /\ phase < phase'
    \/ attempt' = attempt /\ phase' = phase /\ Later(pc, pc')

GoesForward ==
    [][~Over(pc) => n' = n /\ (Further \/ UNCHANGED schedulerVars)]_vars

(* What is monitored is a benchmark process that runs or has exited, and   *)
(* there is no third phase.                                                *)
Monitored ==
    /\ pc = "monitor" => bench.state \in {"running", "ok", "failed"}
    /\ pc = "second" => phase = 1

(* Where the scheduler is in an evaluation, one of its steps is possible.  *)
SomeStep ==
    ~Over(pc) =>
        \/ pc \in {"launch", "wait", "bench", "retry", "read", "second", "finish", "save"}
        \/ /\ pc = "monitor"
           /\ \/ bench.state \in {"ok", "failed"} /\ (engine = "vllm" => Healthy)
              \/ (engine = "vllm" /\ ~Healthy) \/ bench.state = "running"

LEMMA PlacesInOrder ==
  /\ Later("launch", "wait") /\ Later("launch", "retry")
  /\ Later("wait", "bench") /\ Later("wait", "retry")
  /\ Later("bench", "monitor") /\ Later("bench", "retry") /\ Later("bench", "finish")
  /\ Later("monitor", "read") /\ Later("monitor", "retry") /\ Later("monitor", "finish")
  /\ Later("read", "second") /\ Later("read", "finish")
  /\ Later("finish", "save")
  /\ Later("save", "idle") /\ Later("save", "stopped") /\ Later("save", "ended")
<1>1. /\ DOMAIN Places = 1..12
      /\ Places[1] = "launch" /\ Places[2] = "wait" /\ Places[3] = "bench"
      /\ Places[4] = "monitor" /\ Places[5] = "retry" /\ Places[6] = "read"
      /\ Places[7] = "second" /\ Places[8] = "finish" /\ Places[9] = "save"
      /\ Places[10] = "idle" /\ Places[11] = "stopped" /\ Places[12] = "ended"
  BY DEF Places
<1> HIDE DEF Places
<1>2. /\ Later("launch", "wait") /\ Later("launch", "retry")
      /\ Later("wait", "bench") /\ Later("wait", "retry")
      /\ Later("bench", "monitor") /\ Later("bench", "retry") /\ Later("bench", "finish")
  BY <1>1 DEF Later
<1>3. /\ Later("monitor", "read") /\ Later("monitor", "retry") /\ Later("monitor", "finish")
      /\ Later("read", "second") /\ Later("read", "finish") /\ Later("finish", "save")
  BY <1>1 DEF Later
<1>4. Later("save", "idle") /\ Later("save", "stopped") /\ Later("save", "ended")
  BY <1>1 DEF Later
<1> QED
  BY <1>2, <1>3, <1>4

LEMMA StepIsFurther ==
  ASSUME IInv, Monitored, SchedulerStep
  PROVE  n' = n /\ Further
<1>1. phase \in {1, 2} /\ attempt \in Nat
  BY Bounds DEF IInv, TypeOK
<1>2. CASE Launch \/ LaunchFails \/ WaitSimulate
  BY <1>2, PlacesInOrder DEF Launch, LaunchFails, WaitSimulate, Further
<1>3. CASE RunBenchmark \/ MonitoringStatus \/ GetPerformanceIndex
  BY <1>3, PlacesInOrder DEF RunBenchmark, MonitoringStatus, GetPerformanceIndex, Further
<1>4. CASE RunBenchmarkFails \/ MonitoringFails
  BY <1>4, PlacesInOrder DEF RunBenchmarkFails, MonitoringFails, Failed, Further
<1>5. CASE Retry
  BY <1>5 DEF Retry, Further
<1>6. CASE SecondPhase
  <2>1. pc = "second" /\ phase' = 2 /\ attempt' = attempt /\ n' = n
    BY <1>6 DEF SecondPhase
  <2>2. phase = 1
    BY <2>1 DEF Monitored
  <2> QED
    BY <2>1, <2>2 DEF Further
<1>7. CASE Finish \/ SaveResult \/ SaveFails
  BY <1>7, PlacesInOrder DEF Finish, SaveResult, SaveFails, Further
<1> QED
  BY <1>2, <1>3, <1>4, <1>5, <1>6, <1>7 DEF SchedulerStep

LEMMA NextMonitored == ASSUME IInv, Monitored, [Next]_vars PROVE Monitored'
<1>1. phase \in {1, 2}
  BY DEF IInv, TypeOK
<1>2. CASE (\E m \in {"run", "rate"} : Begin(m)) \/ BeginFails
  BY <1>2 DEF Begin, BeginFails, Monitored
<1>3. CASE Launch \/ LaunchFails \/ WaitSimulate \/ Retry \/ Finish \/ SaveResult \/ SaveFails
  BY <1>3 DEF Launch, LaunchFails, WaitSimulate, Retry, Finish, SaveResult, SaveFails, Monitored
<1>4. CASE RunBenchmark
  <2>1. pc' = "monitor" /\ bench'.state = "running"
    BY <1>4 DEF RunBenchmark
  <2> QED
    BY <2>1 DEF Monitored
<1>5. CASE RunBenchmarkFails \/ MonitoringStatus \/ MonitoringFails
  BY <1>5 DEF RunBenchmarkFails, MonitoringStatus, MonitoringFails, Failed, Monitored
<1>6. CASE GetPerformanceIndex
  BY <1>6 DEF GetPerformanceIndex, Monitored
<1>7. CASE SecondPhase
  BY <1>7 DEF SecondPhase, Monitored
<1>8. CASE ServerReady \/ ServerExits \/ UNCHANGED vars
  BY <1>8 DEF ServerReady, ServerExits, vars, schedulerVars, benchVars, Monitored
<1>9. CASE BenchmarkSucceeds \/ BenchmarkFails
  <2>1. pc' = pc /\ phase' = phase
    BY <1>9 DEF BenchmarkSucceeds, BenchmarkFails, schedulerVars
  <2>2. bench \in [state : BenchState, rate : Rate \cup {"none"}]
    BY DEF IInv, Processes
  <2>3. bench'.state \in {"ok", "failed"}
    BY <1>9, <2>2 DEF BenchmarkSucceeds, BenchmarkFails
  <2> QED
    BY <2>1, <2>3 DEF Monitored
<1> QED
  BY <1>2, <1>3, <1>4, <1>5, <1>6, <1>7, <1>8, <1>9 DEF Next, SchedulerStep

THEOREM MonitoredInvariance == Spec => []Monitored
<1>1. Init => Monitored
  BY DEF Init, Monitored
<1> QED
  BY <1>1, NextMonitored, Invariance, PTL DEF Spec

(* In an evaluation each step of the scheduler goes on to a later place,   *)
(* to the second phase or to the next attempt, of which there are          *)
(* RetryNumber, and the steps of the processes change nothing of that: an  *)
(* evaluation takes finitely many steps of the scheduler.                  *)
THEOREM ForwardTheorem == Spec => GoesForward
<1>1. IInv /\ Monitored /\ [Next]_vars =>
          [~Over(pc) => n' = n /\ (Further \/ UNCHANGED schedulerVars)]_vars
  <2> SUFFICES ASSUME IInv, Monitored, Next, ~Over(pc)
               PROVE  n' = n /\ (Further \/ UNCHANGED schedulerVars)
    OBVIOUS
  <2>1. pc # "idle"
    BY DEF Over
  <2>2. CASE SchedulerStep
    BY <2>2, StepIsFurther
  <2>3. CASE ServerReady \/ ServerExits \/ BenchmarkSucceeds \/ BenchmarkFails
    <3>1. UNCHANGED schedulerVars
      BY <2>3 DEF ServerReady, ServerExits, BenchmarkSucceeds, BenchmarkFails
    <3> QED
      BY <3>1 DEF schedulerVars
  <2>4. ~(\E m \in {"run", "rate"} : Begin(m)) /\ ~BeginFails
    BY <2>1 DEF Begin, BeginFails
  <2> QED
    BY <2>2, <2>3, <2>4 DEF Next
<1> QED
  BY <1>1, Invariance, MonitoredInvariance, PTL DEF Spec, GoesForward

(* Until the evaluation is over one of the scheduler's steps is possible,  *)
(* whatever the server and the benchmark have done: a benchmark that hangs *)
(* runs out of time, one that has exited is seen.                          *)
THEOREM NeverStuck == Spec => []SomeStep
<1>1. IInv /\ Monitored => SomeStep
  <2> SUFFICES ASSUME IInv, Monitored, ~Over(pc), pc = "monitor"
               PROVE  \/ bench.state \in {"ok", "failed"} /\ (engine = "vllm" => Healthy)
                      \/ (engine = "vllm" /\ ~Healthy) \/ bench.state = "running"
    BY DEF SomeStep, IInv, TypeOK, Over
  <2> QED
    BY DEF Monitored
<1> QED
  BY <1>1, Invariance, MonitoredInvariance, PTL
===============================================================================
