------------------------------ MODULE OpcheckPool ------------------------------
(***************************************************************************)
(* The operator check of msit: case_manager.py runs the collected cases in *)
(* one process or has several processes take them from a queue of a        *)
(* manager process, and writes what they put into a second queue to a      *)
(* table, to which opchecker.py adds the cases it has no operator for.     *)
(* The classes of check_case have one test each, so that a case gives one  *)
(* result; one entry of a table stands for the rows of that result, one    *)
(* for each of its out tensors.  Processes that run operators on a device  *)
(* can die, and what goes wrong in main goes to the caller of start_test.  *)
(***************************************************************************)
EXTENDS Integers, FiniteSets, Sequences, Functions

CONSTANTS
    Cases,     \* cases found under the tensor path
    Jobs,      \* numbers of processes asked for
    MaxDeaths  \* bound: processes that die

NoCase == "no case"

ASSUME ConstantsAssumption ==
    /\ IsFiniteSet(Cases) /\ NoCase \notin Cases
    /\ Jobs \subseteq Nat \ {0}
    /\ MaxDeaths \in Nat

VARIABLES
    jobs,         \* num_processes
    rerun,        \* operators are executed again: in this process
    added,        \* the cases add_case accepts
    main,         \* "start", "spawn", "join", "collect", "append", "done", "failed"
    next,         \* the process main starts or joins next
    pc,           \* of a process: "new", "empty", "get", "run", "ended", "dead"
    held,         \* the case a process runs
    caseQueue, resultQueue,
    results,      \* what main has collected
    report,       \* the rows of the table
    raised        \* cases whose run raised an exception

config == <<jobs, rerun, added>>
queues == <<caseQueue, resultQueue>>
vars == <<config, main, next, pc, held, queues, results, report, raised>>

Workers == 1..jobs
Alive(w) == pc[w] \in {"empty", "get", "run"}
Deaths == Cardinality({w \in Workers : pc[w] = "dead"})

(* The orders a set of cases can be queued in.                             *)
Orders(S) == Bijection(1..Cardinality(S), S)

Init ==
    /\ jobs \in Jobs /\ rerun \in BOOLEAN
    /\ added \in SUBSET Cases
    /\ main = "start" /\ next = 1
    /\ pc = [w \in Workers |-> "new"]
    /\ held = [w \in Workers |-> NoCase]
    /\ caseQueue = << >> /\ resultQueue = << >>
    /\ results = << >> /\ report = << >>
    /\ raised = {}

-------------------------------------------------------------------------------
(* A suite in this process, whose cases are all written.                   *)
SingleProcess ==
    /\ main = "start" /\ (jobs = 1 \/ rerun)
    /\ \E order \in Orders(added) : report' = order
    /\ main' = "append"
    /\ UNCHANGED <<config, next, pc, held, queues, results, raised>>

FillQueue ==
    /\ main = "start" /\ ~(jobs = 1 \/ rerun)
    /\ caseQueue' \in Orders(added)
    /\ main' = "spawn"
    /\ UNCHANGED <<config, next, pc, held, resultQueue, results, report, raised>>

StartProcess ==
    /\ main = "spawn"
    /\ pc' = [pc EXCEPT ![next] = "empty"]
    /\ next' = IF next = jobs THEN 1 ELSE next + 1
    /\ main' = IF next = jobs THEN "join" ELSE "spawn"
    /\ UNCHANGED <<config, held, queues, results, report, raised>>

(* excute_case: the test of the loop.                                      *)
LookForCase(w) ==
    /\ pc[w] = "empty"
    /\ pc' = [pc EXCEPT ![w] = IF caseQueue = << >> THEN "ended" ELSE "get"]
    /\ UNCHANGED <<config, main, next, held, queues, results, report, raised>>

(* A bug: get instead of get_nowait waits for a case another has taken.    *)
NothingLeftWaits(w) == FALSE

(* get_nowait on a queue that has become empty raises, and the loop goes   *)
(* on.                                                                     *)
NothingLeft(w) ==
    /\ pc[w] = "get" /\ caseQueue = << >>
    /\ pc' = [pc EXCEPT ![w] = "empty"]
    /\ UNCHANGED <<config, main, next, held, queues, results, report, raised>>

(* A bug: the case is looked at and not taken.                             *)
Peeked == caseQueue

Taken == Tail(caseQueue)

TakeCase(w) ==
    /\ pc[w] = "get" /\ caseQueue # << >>
    /\ held' = [held EXCEPT ![w] = Head(caseQueue)]
    /\ caseQueue' = Taken
    /\ pc' = [pc EXCEPT ![w] = "run"]
    /\ UNCHANGED <<config, main, next, resultQueue, results, report, raised>>

(* The test runs, whatever it finds, and its case is put into the queue.   *)
PutResult(w) ==
    /\ pc[w] = "run"
    /\ resultQueue' = Append(resultQueue, held[w])
    /\ held' = [held EXCEPT ![w] = NoCase]
    /\ pc' = [pc EXCEPT ![w] = "empty"]
    /\ UNCHANGED <<config, main, next, caseQueue, results, report, raised>>

(* Something outside the test raised: it is logged, and the loop goes on.  *)
Raise(w) ==
    /\ pc[w] = "run"
    /\ raised' = raised \cup {held[w]}
    /\ held' = [held EXCEPT ![w] = NoCase]
    /\ pc' = [pc EXCEPT ![w] = "empty"]
    /\ UNCHANGED <<config, main, next, queues, results, report>>

(* The case that is run goes with the process.                             *)
Die(w) ==
    /\ Alive(w) /\ Deaths < MaxDeaths
    /\ pc' = [pc EXCEPT ![w] = "dead"]
    /\ UNCHANGED <<config, main, next, held, queues, results, report, raised>>

Joined == IF next = jobs THEN next ELSE next + 1

(* join returns for the dead as for the ended.                             *)
Join ==
    /\ main = "join" /\ pc[next] \in {"ended", "dead"}
    /\ next' = Joined
    /\ main' = IF next = jobs THEN "collect" ELSE "join"
    /\ UNCHANGED <<config, pc, held, queues, results, report, raised>>

CollectResult ==
    /\ main = "collect" /\ resultQueue # << >>
    /\ results' = Append(results, Head(resultQueue))
    /\ resultQueue' = Tail(resultQueue)
    /\ UNCHANGED <<config, main, next, pc, held, caseQueue, report, raised>>

(* A bug: one result for each process is collected.                        *)
CollectedOnePerProcess == resultQueue = << >> \/ Len(results) = jobs

Collected == resultQueue = << >>

WriteResults ==
    /\ main = "collect" /\ Collected
    /\ report' = results
    /\ main' = "append"
    /\ UNCHANGED <<config, next, pc, held, queues, results, raised>>

(* start_test: rows for the cases that could not be added.                 *)
AppendFailed ==
    /\ main = "append"
    /\ \E order \in Orders(Cases \ added) : report' = report \o order
    /\ main' = "done"
    /\ UNCHANGED <<config, next, pc, held, queues, results, raised>>

(* Making the suite, running it in this process or writing a table raises, *)
(* and nobody here catches it.  Nothing is written of no results.          *)
CheckFails ==
    /\ \/ main = "start" /\ (jobs = 1 \/ rerun) /\ added # {}
       \/ main = "collect" /\ Collected /\ results # << >>
       \/ main = "append" /\ added # Cases
    /\ main' = "failed"
    /\ UNCHANGED <<config, next, pc, held, queues, results, report, raised>>

Work(w) ==
    \/ LookForCase(w) \/ NothingLeft(w) \/ TakeCase(w)
    \/ PutResult(w) \/ Raise(w)

Main ==
    \/ SingleProcess \/ FillQueue \/ StartProcess
    \/ Join \/ CollectResult \/ WriteResults \/ AppendFailed \/ CheckFails

Next == Main \/ \E w \in Workers : Work(w) \/ Die(w)

Spec == Init /\ [][Next]_vars

(* Processes are scheduled, and a test comes to an end.                    *)
LiveSpec ==
    /\ Spec
    /\ WF_vars(Main)
    /\ \A j \in Jobs : \A w \in 1..j : WF_vars(w \in Workers /\ Work(w))

-------------------------------------------------------------------------------
TypeOK ==
    /\ jobs \in Jobs /\ rerun \in BOOLEAN
    /\ added \subseteq Cases
    /\ main \in {"start", "spawn", "join", "collect", "append", "done", "failed"}
    /\ next \in Workers
    /\ pc \in [Workers -> {"new", "empty", "get", "run", "ended", "dead"}]
    /\ held \in [Workers -> added \cup {NoCase}]
    /\ caseQueue \in Seq(added) /\ resultQueue \in Seq(added)
    /\ results \in Seq(added) /\ report \in Seq(Cases)
    /\ raised \subseteq added

(* From the time the queue is filled a case is in one place, once: queued, *)
(* held by one process, put, collected or lost to an exception.  No case   *)
(* is run twice, whatever two processes see of the queue at a time.        *)
Moving == caseQueue \o resultQueue \o results

EachCaseOnce ==
    main \in {"spawn", "join", "collect"} =>
        /\ IsInjective(Moving)
        /\ Range(Moving) \cap raised = {}
        /\ \A w \in Workers : held[w] # NoCase =>
             /\ held[w] \notin Range(Moving) \cup raised
             /\ \A v \in Workers : held[v] = held[w] => v = w
        /\ added = Range(Moving) \cup raised
                      \cup {c \in added : \E w \in Workers : held[w] = c}

(* A case is missing in the table only if its run raised, the process that *)
(* ran it died, or all processes died before its turn; and no case has two *)
(* rows.  A process that finds the queue empty does not end another's      *)
(* case, and none is left in a queue when the results are written.         *)
ReportComplete ==
    main = "done" =>
        /\ IsInjective(report)
        /\ \A c \in Cases \ Range(report) :
             \/ c \in raised
             \/ \E w \in Workers : pc[w] = "dead" /\ held[w] = c
             \/ c \in Range(caseQueue) /\ \A w \in Workers : pc[w] = "dead"

(* The check comes to its end although processes die: none waits for a     *)
(* case that another took, and main waits for none that is gone.           *)
CheckEnds == <>(main \in {"done", "failed"})
===============================================================================
