# Models and proofs for msit

`src/` holds four tool sets around Ascend NPUs: `msit` (conversion, comparison
and debugging of models), `msmodelslim` (quantisation), `msprechecker`
(checks before a deployment) and `msserviceprofiler` (profiling and tuning of
inference services). Most of the code transforms tensors, tables and model
files. What has state, several actors and failures is a small part of it, and
this project models that part, the part where a mistake shows only in an order
of events nobody wrote a test for:

* the **optimizer** of `msserviceprofiler`, which starts an inference server
  and a benchmark again and again, with other parameters each time, on one
  machine or on two that talk through files, and which then adjusts the best
  ones by what they measured;
* the **distributed saving** of `msmodelslim`, where one process per device
  writes its part of a quantised model and one of them merges the parts;
* the **quantisation runners** of `msmodelslim`, which drive several processors
  through the layers of a model side by side, one layer on the device at a time;
* the **trace context** of the collection headers of `msserviceprofiler`, a
  stack of one thread that other threads may end spans of;
* the **graph** of `msit`'s surgeon, edited by way of maps that edits repair;
* the **pool** of `msit`'s operator check, processes that share two queues.

Paths below are relative to `src/`; `OPT/` stands for
`msserviceprofiler/msserviceprofiler/modelevalstate/optimizer/` and `SAVE/` for
`msmodelslim/msmodelslim/app/quant_service/modelslim_v1/save/`, `GRAPH/` for
`msit/components/debug/surgeon/auto_optimizer/graph_refactor/`.

## Inventory

| component | state | operations | meets | hard because |
|---|---|---|---|---|
| command channel, `OPT/communication.py`, `OPT/server.py` | `cmd_file`, `res_file`; the server's history, its simulator object | `send_command`, `clear_command`, `clear_res`; the server's `init`, `run`, `backup`, `start`, `check_success`, `process_poll`, `stop` | two programs through two files, each under a lock only while it is read or written | interleaving, stale files, time limits on both sides, ends and restarts |
| single-machine evaluation, `OPT/scheduler.py`, `OPT/interfaces/`, `OPT/plugins/` | `simulate_run_info`, `performance_index`, `error_info`, paths, two child processes, config file, output directory, logs, `data_storage_*.csv` | `run`, `run_with_request_rate`, `run_target_server`, `wait_simulate`, `monitoring_status`, `stop_target_server`, `save_result` | called by the search; starts, polls and kills processes | processes end or hang at any moment, retries, cleaning up, state kept between evaluations |
| `ScheduleWithMultiMachine`, `OPT/scheduler.py` | the above, and the channel to the other server | the same calls, each sent to the other machine as well | the channel | order of calls on two machines, failure of one half |
| search, `OPT/optimizer.py`, `global_best_custom.py` | swarm, best cost and position, history | `op_func`, `refine_optimization_candidates` | the scheduler | numerical; resuming from a history |
| fine tuning, `OPT/experience_fine_tunning.py`, `performance_tunner.py` | histories of the values and of the signs of changes, of request rate and of concurrency | `fine_tune_with_*`, `reset_history` | the search, the scheduler | two fields adjusted in turn by one history each, which calls extend in part |
| result store, `OPT/store.py` | the csv file | `save`, `load_history_position`, `get_best_result` | the scheduler, the search | - |
| kubectl simulator, `OPT/plugins/simulate.py` | pods of a cluster | scripts and log following | the scheduler | external |
| latency model, `modelevalstate/inference`, `train`, `analysis` | data frames, a regression model, a queue of predictions to write | features, training, prediction, a writer thread | - | numerical; the end of the writer |
| collection headers, `msserviceprofiler/include` | the trace context of a thread: a stack, a set of indices, a flag | `ExtractAndAttach`, `Attach`, `Unattach`, `GetCurrent`; `Span` and its `End` | collection library, the threads of the program | ends out of order and by other threads, a flag read without the mutex |
| `vllm_profiler` | wrapped functions of vllm | hooks | vllm | nesting of hooks |
| `ms_service_profiler_ext`, `msservice_advisor`, `msguard` | tables; none | offline analysis, rules, checks of paths | - | - |
| quantisation runners, `msmodelslim/core/runner` | the list of units, their generators, `data_recorder`, the device of each layer | `generated_schedule`, `make_progress`, `preprocess_processor` | processors, groups of them, adapters | several generators advanced in step, outputs of one round being the inputs of the next |
| distributed saving, `SAVE/ascendv1_distributed.py` | buffer, shards and directory of each rank, index, json description, config.json | `preprocess`, `postprocess`, `post_run`, merging on rank 0 | `torch.distributed`, `mp.spawn`, one file system | barriers, who saves what, files all ranks write |
| processors, adapters, pytorch and onnx tools | tensors | calibration, rotation, rounding | runners | numerical |
| `msit` surgeon, `GRAPH/` | nodes with their edges, the maps from an edge to who writes and who reads it | add, insert, remove, replace, connect, sort, remove what is unused | the knowledges, which rewrite patterns | every edit goes by the maps and has to repair them |
| `msit` llm opcheck, `case_manager.py` | cases, two queues of a manager process, rows | `add_case`, `excute_case` in several processes, `multi_process` | NPU | a queue that is empty when a process comes to it, processes that die |
| `msit` opcheck, compare, llm dump | tensors | run and compare | NPU | data processing |
| `msit` expert load balancing | table of experts per device | placement heuristics | - | numerical |
| other `msit` commands, `msprechecker` | none | wrappers of vendor tools, rules over settings | - | - |

What makes each correct:

* *channel*: an answer the master accepts is the answer to its own command;
  commands are carried out in order and once; none that is read is lost, except
  while the server looks for `init`; no answer is lost by an overwrite; every call returns; if nothing is slow the handshake needs no
  time limit.
* *evaluation*: a benchmark measures the server with the parameters being
  evaluated; nothing is read that an earlier run wrote; failed attempts leave
  nothing behind; each evaluation ends, in one row that tells the truth.
* *multi-machine evaluation*: the same, with both servers running the same
  parameters whenever a benchmark runs.
* *fine tuning*: values stay within their limits; after a change that went too
  far the next value lies between the last two; when it stops, what is over its
  limit cannot be lowered further.
* *runners*: one layer is on the device at a time, and each unit finds its own
  there; each processor is calibrated on what those in front have done; at the
  end every processor has changed every layer.
* *distributed saving*: the merged index names each tensor once and the shard
  that holds it; nobody merges before all have written.
* *surgeon*: after an edit every edge that is read has one writer, there is no
  cycle, the maps say what the nodes say, and who depends on whom is as before.
* *trace context*: a context that has not been ended is where its holder
  thinks it is; a new span gets no parent that is over.
* *operator check*: no case is run twice and none is missing without a reason;
  the check ends.

`PROJECT.json` lists the hazards, each at its line, with the properties that
would notice.

## Modules

| module | models | properties |
|---|---|---|
| `RemoteCall` | abstract: an at-most-once call to the other machine | is one |
| `CommandChannel` | `communication.py` and `server.py` | below |
| `CommandChannelProofs` | theorems on `CommandChannel` | see *Proofs* |
| `EvaluationRows` | abstract: evaluations follow one another, each ends in one truthful row | is one |
| `Scheduler` | `scheduler.py`, with the mindie and vllm plugins, as called by `optimizer.py` | below |
| `FineTune` | `experience_fine_tunning.py`, and the loop of `optimizer.py` that calls it | below |
| `FineTuneProofs` | theorems on `FineTune` | see *Proofs* |
| `MCFineTune` | limits and first values for TLC | - |
| `ShardedModel` | abstract: a model saved in parts, then published whole | is one |
| `DistributedSave` | `ascendv1_distributed.py` with its base class, the sharding writer and `DistHelper` | below |
| `DistributedSaveProofs` | theorems on `DistributedSave` | see *Proofs* |
| `SchedulerProofs` | theorems on `Scheduler` | see *Proofs* |
| `MCDistributedSave` | who holds what, sizes, types and leftovers for TLC | - |
| `GeneratedSchedule` | `generated_runner.py`, `layer_wise_runner.py`, with `GroupProcessor` and `LoadProcessor` | below |
| `GeneratedScheduleProofs` | theorems on `GeneratedSchedule` | see *Proofs* |
| `MCGeneratedSchedule` | the pipelines for TLC | - |
| `TraceContext` | `TraceContext` and `Span` of `Tracer.h` | below |
| `TraceContextProofs` | theorems on `TraceContext` | see *Proofs* |
| `OpcheckPool` | `case_manager.py`, `start_test` of `opchecker.py` | below |
| `OpcheckPoolProofs` | theorems on `OpcheckPool` | see *Proofs* |
| `SurgeonGraph` | the edits of `base_graph.py` | below |
| `SurgeonGraphProofs` | theorems on `SurgeonGraph` | see *Proofs* |
| `MCSurgeonGraph` | the graphs for TLC | - |

The constants of a run are given in its `.cfg`. Where they are operators,
pipelines or graphs, a module `MC...` defines them; all other constants are
numbers, strings, model values and sets of these. Every module has a `TypeOK`;
where it is proved (see *Proofs*) no run repeats it.

### CommandChannel

A call of the master is `send_command` (`MasterSend`: the command is written to
`cmd_file` with a new time stamp) followed by `clear_command`: poll `res_file`
until it holds an answer with this command in it (`MasterRead`) or time is up
(`MasterTimeout`), write the eof mark (`MasterPutEof`), then `clear_res`: wait
for the eof mark of the other side (`MasterClear`, `MasterClearTimeout`) and
write one's own once more (`MasterAckEof`). The server does the same with the
files swapped (`Reply`, `ServerClear`, `ServerClearTimeout`, `ServerAckEof`)
after it read a command that is not in its history (`Run`) and carried it out
(`Backup`, `Start`, `CheckSuccess`, `ProcessPoll`, `Stop`). Before its main
loop it looks for `init` a limited number of times (`InitAttempt`); `init` in
the main loop is dispatched to a method that reads the file again (`RunInit`)
and, the command being in the history by now, usually finds nothing.

Each access to a file is one step, because the code holds the lock of that file
just for the access. Time stamps are the numbers in which commands are issued,
`time_ns()` being increasing on the one machine that takes it. The parameters
of a command and the sleeps are left out; a poll that finds nothing changes no
state. `log` is not in the code: it records what was carried out, for the
properties and the refinement.

`Faults` selects what may go wrong: the two time limits run out, the server
ends at any point (an uncaught exception, a kill), the master ends in a call
and a new one goes on. A server that is started again (`ServerStarts`) has an
empty history and finds the files as they were.

| property | says |
|---|---|
| `AnswersAreOwn` | the status the master accepts, and the one its call returns, were computed for that command |
| `InOrderOnce` | commands are carried out in the order of issue and, but for `init`, once, also across restarts |
| `LostAroundInit` | a command that is read and not carried out was read before the first `init`, or next to one that is not answered, unless the server ended |
| `AnswerKept` | an answer the master still waits for is not overwritten |
| `ImplementsRemoteCall` | the whole is a `RemoteCall`: `pending` is the command of the call in progress |
| `CallReturns` | every call ends, whatever the server does |
| `HandshakeCompletes` | without faults, an answerable command is answered and all eof marks get through |

### Scheduler

`Begin` is `run` or `run_with_request_rate` up to the first attempt, in the order
of `run_plugin` (`Follows`): `run` for the default parameters, twice for mindie,
then `run_with_request_rate` for the swarm, then `run` for fine tuning. When the
default parameters fail the program ends (`PreparationFailed`, `pc = "stopped"`).
`Launch`/`LaunchFails`, `WaitSimulate`, `RunBenchmark`/`RunBenchmarkFails`,
`MonitoringStatus`/`MonitoringFails` and `Retry` are the body and the handlers
of `run_target_server`; `GetPerformanceIndex`, `SecondPhase` and `Finish` the
rest of both methods, with the `finally` clause; `SaveResult` is `save_result`
with the backup and the second `stop_target_server`. `BeginFails` and
`SaveFails` are exceptions outside of the `try` clauses, `op_func` being the
caller. Between any two of these steps the server becomes ready or exits and the
benchmark succeeds or fails.

`alive` holds every server process that exists, not only the one the handle
points to: for each, the parameters it was started with, whether it serves yet
and whether it was told to end. So a server that `stop` forgot is there for
the next benchmark to meet. `results` is the benchmark's output
directory, `config` the server's config file. The parameters of
evaluation *n* are called *n*, and the request rate is "given" or, for the second
benchmark of `run_with_request_rate`, "derived" from the throughput of the
first.

`engine` and `tool` are the plugins chosen on the command line and never change;
they differ in `health`, `stop` and
`get_performance_index`, and in whether the output directory is cleared by
`stop`. SIGKILL is taken to be effective (`kill_children` waits for the
processes); SIGTERM is not. `first_duration`, logs, backups and the values
of metrics are left out.

| property | says |
|---|---|
| `OwnServer` | while a benchmark runs, every server that exists is the one started last, with the parameters being evaluated |
| `BetweenRuns` | no benchmark is left when one may be started; the config file is the user's own again before each attempt |
| `ReadIsFresh` | what is read was measured in this evaluation at the rate in force |
| `ImplementsEvaluationRows` | evaluations end in one row each and rows are truthful |
| `EvaluationEnds` | every evaluation ends, though server and benchmark may hang |
| `BenchmarkMeetsService` | a benchmark is started at a server that serves, not just at a process |
| `SimulatorStopped` | between evaluations no vllm server is left that was not told to end (mindie's always is); proved, in no run |
| `LastRunIsResult` | what a docstring says; does not hold |

`EvaluationRows` promises that a row with a measurement has the measurement of
its own parameters, and that the request rate in it is the measured one *if no
error is reported*. The second half is the most the code keeps: see
`LastRunIsResult`. A row may repeat an earlier evaluation when an exception in
`set_back_up_path` kept this one from being set up.

### FineTune

`refine_optimization_candidates` takes one candidate after the other
(`NextCandidate`, with twice its request rate), has it evaluated (`Evaluated`,
`EvaluationFails`) and calls `FineTuneWithConcurrencyAndRequestRate` up to
`MaxFineTune` times; `Choose` has the new parameters evaluated unless they were
before, `GivesUp` is the end of the loop and the `ValueError` for a measurement
that is missing. `HandleConcurrency` and `HandleRequestRate` are the methods of
these names, `Moved` is `update_field`. When the concurrency changes, the request
rate goes back to its first value.

Of a measurement only its side is kept, over, within or under the interval
aimed at, of the time per token and of the time to the first one: the side decides the sign
of a change, and how far off the measurement is decides the factor, which is
taken from `Factors`. Values and factors are integers that count parts of
1/`Unit` and of 1/`Whole`. The concurrency that is run is a whole number
(`Run`), the one in `params` need not be: `field_to_param` puts the unrounded value
back. A change of less than 0.1 (`Effective`) counts as none, so that a small
value that is little off its interval stops the tuning as one at its limit does
(`SmallChange`). Two fields are modelled, `CONCURRENCY` and `REQUESTRATE`; other
parameters stay what they are in fine tuning.

| property | says |
|---|---|
| `ValuesForSigns` | whenever two signs of a field are in the history, so are two values: `[-2]` exists |
| `TurnsBack` | after a concurrency on the other side of the interval, the next lies between the last two |
| `StopExplained` | when tuning stops, what is not within its interval is at its limit or due for a change too small to count, but for a request rate whose value to turn back to is its present one |
| `StopMeansDone` | what the message and a comment say, for measurements that are over: without the exception; does not hold |

### DistributedSave

Every rank is a process with a program counter. For each layer it gathers the
names of the modules (`Preprocess`, the `DistHelper`), saves those it is
responsible for (`SaveModule`) and goes on (`LayerSaved`); in `post_run` rank 0
saves what is in no layer (`SaveRest`), each writer is closed (`Flush`, `Rename`)
and the files are counted (`CountFiles`). After a barrier rank 0 merges
(`MergeSafetensorFiles`, one directory a step, `MergeIndexFiles`,
`MergeJsonFiles`) while the others go straight on to `config.json`: copy
(`OpenConfig`, `WriteConfig`), `RemoveQuantizationConfig`, and the adapter's
`SavePostprocess` (deepseek's, `model/deepseek_v3/model_adapter.py:451`).

A collective is a count: a rank enters one by adding a call to `calls` and
leaves when nobody has fewer. That is what `all_gather_object` and `barrier` do
for ranks that call them in the same order; whether they do is `CollectivesMatch`.
`mp.spawn` terminates every rank once one has failed (`Terminate`). Exceptions of
the program's own (`Construct`, `Refused`, `MergeSafetensorFiles`,
`SavePostprocess`) are always modelled, those from outside (`Fail`) when
`Crashes`.

What an `on_` handler writes for a module is one tensor of one size.
Modules are numbered by their sorted names, which is what `[rank::world_size]`
takes its slice of. Files are pairs of a number and a total, as in their names,
since sorting, renaming and the offsets of the merge depend on both. A file that
an earlier run left has no tensors of this one. A temporary shard of the same
name, being read-only, stops the rank, unless it runs as root: both are possible.

`config.json` is empty, whole with some fields, or garbled. Opening truncates;
the content is written at once at the start of the file, small as it is: over
nothing it makes the file whole, over what another rank wrote in the meantime
whole or garbled, depending on which is longer.

| property | says |
|---|---|
| `IndexComplete` | the merged index names every tensor, at a file that holds it |
| `SavedOnce` | no tensor is saved by two ranks or into two files, when each module is on all ranks or on one |
| `MergeAfterClose` | while rank 0 merges, all writers are closed and the counts are right |
| `CollectivesMatch` | ranks that wait with equal counts wait in the same call, for the same layer |
| `WithinLimit` | a shard of several tensors is below the limit |
| `NoFileOverwritten` | no file of the save directory is replaced by another rank's |
| `ImplementsShardedModel` | together the ranks save every tensor, then publish one index of all |
| `RunEnds` | every run ends, whoever fails |
| `MergedAtEnd` | what a docstring says; does not hold |

### GeneratedSchedule

Every unit has a generator over the layers of the model. `generated_schedule`
resumes one after the other (`Process`, one unit's `make_progress`: preprocess,
the forward if it needs data, postprocess), so that all units are at the same
layer within a round; `EndRound` hands the outputs recorded in the round to
all generators as their next response and takes the exhausted units from the
list. `Start` is `pre_run` and `init_generators`, which fail without samples
when some unit needs data; `NoRequest` is the error for an empty list of them.
The units at either end, `Loader` and `Offloader`, are those
`preprocess_processor` adds.

A processor is abstracted to two bits, whether it needs data and whether it
changes a layer before or after the forward. An activation is abstracted to
what it *perceives*: the set of pairs of a layer and a processor that had
changed the layer when the activation was computed through it. `changed` holds
the processors that have changed each layer, `forwards` each run of a layer
with what it perceived. Generators of an adapter for visiting and for running
the model yield the same layers, as `pipeline_interface.py` asks.

| property | says |
|---|---|
| `OneLayerAtATime` | at most one layer is on the device, and whose turn it is finds its layer there |
| `PerceivesFront` | a forward perceives all processors in front, in its layer and in all before it |
| `SameLayerFromFront` | in its own layer it perceives no processor behind it |
| `AllLayersProcessed` | at the end every processor has changed every layer, with a forward if it needs data |
| `ScheduleEnds` | every schedule ends |

### TraceContext

The context of one thread, its owner. `ExtractAndAttach` and `StartSpan` push,
by the owner only; `End` begins an `Unattach` by any thread that holds the
span: it compares the index with the size, and then either pops (`UnattachTop`)
or puts the index into a set under the mutex (`Defer`). The owner
goes on to look at the flag (`ReadFlag`), without the mutex, and to pop what
waits on the top (`Sweep`). Steps are the accesses to what threads share, so
that other threads come in between any two of them. The size is read
without a lock while the owner pushes: see the head of the module for why the
torn values a reader can get have the effect of one of the two sizes.

| property | says |
|---|---|
| `LiveContextsStay` | a context that has not been ended is on the stack at the index `Attach` returned |
| `DeferredIsEnded` | an index waits only for an ended context that is on the stack; proved, in no run |
| `ParentBelow` | below the context of a span is its parent, sampled |
| `CurrentIsLive` | outside of `Unattach` the owner's current context has not been ended, unless another thread did so since the owner last looked |

### OpcheckPool

`main` fills the queue with the cases it has operators for (`FillQueue`),
starts the processes, joins them in order, reads the results until the
queue is empty and writes the table; `AppendFailed` adds a row for each case
without an operator. With one process, or with `rerun`, all this is done in
place (`SingleProcess`). A process looks whether the queue is empty
(`LookForCase`), takes a case without waiting (`TakeCase`, `NothingLeft`) and
puts the result (`PutResult`), unless something outside of the test raises
(`Raise`). A process may die at any moment (`Die`), with the case it runs. An
exception in the process of `main`, from the suite or while a table is written, goes
to the caller (`CheckFails`); nothing is written, and nothing raises, if there are no
results. Properties are about cases, not about what was measured, so that one entry
of `report` stands for all rows of a case, of which the code writes one for each of
its out tensors (see item 19 below).

| property | says |
|---|---|
| `EachCaseOnce` | a case is in one place, once: queued, held, put, collected or lost |
| `ReportComplete` | a row is missing only if its case raised, died with its process, or all processes died; none is there twice |
| `CheckEnds` | the check ends, whoever dies, with its table or with an exception |

### SurgeonGraph

One variable, `g`, is the graph: its nodes in order, the edges each reads and
writes, inputs, outputs, initializers, and the two maps `prev` and `next`. Every
operation is an operator from graphs to graphs, or to an exception
(`AddNode`, `InsertAfter`, `InsertBefore`, `RemoveNode`, `Replace`, `Toposort`,
`RemoveUnused`, `UpdateMap`), and the actions apply any of them to anything.
`op` is the last one, for the action properties. `InsertAtInput` and
`InsertAtOutput` are the cases in which `insert_node` is called at an edge of
the graph. After an exception nothing more happens.

A loop over a list is written as what it comes to where that can be said at once:
readers that are moved from one edge to another are moved "at the first place
where they still read the old", the k-th time at the k-th such place, and this is
what `Reroute` says of all places together. Where it cannot, it is a recursive
function over the places of the list (`RemoveNode`, `TakeOver`, `Enqueue`,
`Discard`); the two `while queue` loops are functions of the number of rounds, of
which there are at most as many as nodes (`Sorted`, `Discarded`).

| property | says |
|---|---|
| `EditsKeepGraph` | insertions, replacements and bypasses of a sound graph do not raise and leave one: each edge that is read has one writer, there is no cycle |
| `MapsFollow` | they leave the maps right, without `update_map` |
| `DependsKept` | after an insertion or bypass everything depends on what it depended on before |
| `SortsDag` | `toposort` finds an order, or raises if there is a cycle, whatever the maps were |
| `UnusedRemoved` | `remove_unused_nodes` keeps exactly what an output depends on, if no node reads two edges of a node or one twice |

The properties speak of *sound* graphs in which no node reads an edge twice and
no output of the graph is read inside (`Plain`), because the code is not right
for others: see *Where code and documents part*.

## Runs

| run | question | bounds |
|---|---|---|
| `channel_faults` | safety, refinement and `CallReturns` with every fault | 4 commands, 2 attempts at `init`, 1 restart |
| `channel_quiet` | `HandshakeCompletes` when nothing fails | 4 commands, 3 attempts |
| `scheduler` | all properties of the scheduler, either server with either benchmark, all troubles | 2 evaluations after those of the default parameters, 2 attempts each |
| `first_run_is_result` | is the last of two benchmarks the result? (not if it fails) | 2 evaluations |
| `save_merge` | safety, refinement and `RunEnds` of distributed saving, with leftovers and failures | 3 ranks, 2 layers of 3 modules, 2 of them shared; the third rank has nothing to save |
| `not_merged` | is everything merged when nothing fails from outside? (no) | 3 ranks, 1 layer of 5 modules |
| `generated_schedule` | safety and `ScheduleEnds` of the schedule, with, without and with no samples | 3 layers; up to two units of one or two processors each, or three units of one, of every kind |
| `trace_context` | safety of the trace context | 5 contexts, the owner and 2 other threads |
| `opcheck_pool` | safety and `CheckEnds` of the pool | 3 cases, any of them without an operator; 1 to 3 processes, 2 of which may die |
| `surgeon` | all properties that hold of the graph | 5 edits of each of 6 graphs, 2 added nodes |
| `fine_tune` | all properties that hold of fine tuning | 2 candidates of 2 kinds, 4 calls each, every sequence of measurements, changes by half |
| `stop_means_done` | is what is over its limit at the end of its range when tuning stops? (no) | 1 candidate, 4 calls, changes by a quarter and by half |

Why the bounds are enough. In the channel a hazard needs the text of an earlier
call in a file (one command), a call the master gave up on (one), `init` (one)
and a call that could be misled (one). Two attempts let the server swallow a
command and still find `init`; with one restart each command can be old news to
an empty history. What holds for every number of commands, attempts and restarts
is proved. In the scheduler state is handed from one evaluation to the next,
from one attempt to the next and from the first phase to the second; two
evaluations with two attempts have each of these. There are two evaluations
after those of the default parameters (two for mindie, one for vllm), so that
a server that was left behind or a failed set-up meets every kind of evaluation
before it. In distributed saving what ranks do
to each other takes two of them; the third has nothing to save, and makes two
ranks that fight over `config.json` while rank 0 merges. Two layers let a rank be
ahead by a collective. Sizes 1 and 2 under a limit of 4 make shards that reach
the limit exactly, spill in a layer, between layers and at the rest. Leftovers
are none, or a temporary shard and finished ones that sort before and after those
of this run and share a name with them. In a schedule what a forward perceives
comes from its own layer and, through one response, from the one before; the
third layer shows that it adds up. Two units make one in front and one behind, groups of
two mix processors with and without data, early and late ones. In a trace
context a mistake needs a context that is popped, one that is pushed in its
place, one below, and two ends on the way; five leave room for a request's. The
graphs of the surgeon are those the maps have trouble with: a chain, a residual
branch, a node that reads an edge twice, an output that is read inside, a node
of two outputs with an initializer among the inputs and nodes out of order, and
a cycle; five edits add two nodes, insert and remove them and sort. In fine tuning two candidates let the
histories of one leak into the next, and four calls are what it takes to put
the rate back twice and turn. Values in parts of 1/64 are exact for four changes
by half, and off by less than 1/64 for the last of four changes by a quarter, in
`stop_means_done`; the least change that counts is 0.1. What holds of schedules, trace
contexts, pools and fine tuning of any size is proved.

Deadlock is not checked in the runs of the optimizer: commands and evaluations are bounded, and the optimizer
may end (`pc` is "ended", or "stopped" after a row), so both models do stop. So
do the schedule and the pool when they are done, and the trace context, fine tuning and the
graph when the bound on contexts, candidates and edits is reached. In the runs of
`DistributedSave` it is checked, `Over` being the step of a run in which all ranks
have ended.

Fairness. `CallReturns` and `HandshakeCompletes` assume weak fairness of
`MasterStep` and of `ServerStep`: both are loops around a sleep, hold no lock
while they sleep and look at a clock on each turn, so a turn comes round and a
clock runs out. A dead server has no step to take; nothing is assumed of the
client, the faults or the simulator. `EvaluationEnds` assumes weak fairness of
`SchedulerStep` alone, the single thread of the program. Server and benchmark
may hang for ever. `RunEnds` assumes weak fairness of each rank's `Step`, an
operating system running every process, and of `Terminate`, since `mp.spawn`
joins its processes in a loop; nothing makes a rank fail. `ScheduleEnds` assumes
weak fairness of `Next`, one thread that runs a loop. `CheckEnds` assumes weak
fairness of `Main` and of each process's `Work`, tests that come to an end on
processes that are scheduled; no process need die.

## Proofs

`CommandChannelProofs` proves for every value of the constants that satisfies
`ConstantsAssumption` (the bounds are natural numbers, at least one attempt, and
`Ops` and `Faults` are subsets of what exists):

| theorem | property |
|---|---|
| `TypeCorrect` | `[]TypeOK` |
| `AnswersTheorem` | `[]AnswersAreOwn` |
| `OrderTheorem` | `[]InOrderOnce` |
| `LossTheorem` | `[]LostAroundInit` |
| `Refinement` | `ImplementsRemoteCall` |
| `AnswerKeptTheorem` | `AnswerKept` |
| `HandshakeTheorem` | when nothing fails, a call that will be answered goes from stage to stage (`HandshakeGoesOn`; in no run) |

None of these is inductive alone. `InOrderOnce` must know that whatever
the server is about to carry out is newer than all it has carried out. This is
easy while it has a history, since the log is in it, and not obvious after a
restart, when the history is empty and the old command still in the file. What
saves the code is that a server only leaves its attempts at `init` by reading an
`init`, so that the history of a server in its main loop is never empty and the
newest thing it has seen is at least as new as the file was. The inductive
invariant `IInv` says this in parts: `CallHasCommand` (a call in progress has the
newest command), `NothingFromTheFuture` (stamps in files, history and log were
issued), `FileNotOlder` (the command in the file is not older than what was
read), `LoggedIsRemembered`, `ExecutingIsNew`, `TextsAreLogged` (each answer in
`res_file` was computed), `AttemptLeft`.

`LostAroundInit` has an invariant of its own, `HInv`, on top of `IInv`. The server has read
nothing newer than what is in the file (`FileIsNewest`), and past its attempts what it
read last is the newest it knows of (`ReadLast`). So whatever it reads is newer than
all it has read: a command read in the attempts is older than any `init` to come, one
read in the place of a dispatched `init` comes right after that `init`, and later
reads put nothing between the two.

`AnswerKept` needs another, `KInv`: the command the master polls
for is the newest; an answer to it in the file is the answer the server sent last;
and if the server is about to write its eof mark then the master has put
its own, hence no longer waits.

`Refinement` shows that initial states map to initial states and each step to a
step of `RemoteCall` or a stutter: `CarriesOutMaps` covers the steps that carry
a command out, `MasterReturn` maps to `Answer` by `AnswersAreOwn`, time-outs and
restarts to `GiveUp`.

`HandshakeTheorem` is what can be proved of `HandshakeCompletes`. `At(c, k)` says
where both sides and both files are in stage `k` of ten: the command in the file,
executing, about to reply, the answer in the file, read, the master's eof mark,
seen by the server, the server's own, seen by the master, returned. In each stage
one side has a step to take and the other waits for a file to change, so that
the step of the first is what ends the stage (`Goes`). The answer to a command that
is still to be read must not be in the file already: for `init`, which is answered
afresh by each server, this takes an invariant (`InitUnderWay`).

`DistributedSaveProofs` proves for every number of ranks (two or more), layers
and modules, every placement, sizes and finite leftovers:

| theorem | property |
|---|---|
| `TypeCorrect` | `[]TypeOK` |
| `CollectivesTheorem` | `[]CollectivesMatch` |
| `MergeTheorem` | `[]MergeAfterClose` |
| `LimitTheorem` | `[]WithinLimit`, for sizes that are natural numbers (`SizesAssumption`) |
| `ForwardTheorem` | each step takes one rank further and none back (`GoesForward`; in no run) |
| `NoDeadlock` | ranks never all wait for one another (`NobodyStuck`; in no run) |

The first three rest on counting (`InStep`): how many collectives a rank has entered is a
function of where it is and of its layer. Two ranks that wait with equal counts
are then in the same call. A rank past the barrier has entered `Layers + 2`, and
left only when nobody had entered fewer; by `Closed` a rank that has entered more
than `Layers` has closed its writer and counted a directory that nobody touches
before the merge does. Failed and terminated ranks satisfy both, for they keep
the count they ended with. `MergeOrder` says that only rank 0 merges; `FiniteDirs`
that directories can be counted.

`LimitTheorem` needs that what a buffer weighs with one tensor more is its weight
and that of the tensor, whatever the order in which the sum is taken (`SizeAdd`).
The community modules define a sum over a set by recursion on sets that are chosen,
and the prover does no induction; but a set of sets that has a
member has a smallest one, if all are parts of a finite set (`SmallestSet`, from the
library's well-foundedness of strict inclusion). So the functions that sum
(`Sums`) are shown to exist and to agree, by a smallest set for which they do
not, and with them that elements may be taken in any order. The same lemmas give the sums
of counts that number the merged files.

The last two are what can be proved of `RunEnds`. `Stage` numbers the places in the
code, and a step takes its rank to a later layer, a later place of the same
layer, or past one module or directory more (`Further`), and no other rank back.
By `TypeOK` these are bounded for given constants, so no run of any number of ranks
goes on for ever. `NobodyStuck` says that while it goes on some rank does
not wait in a collective, or one has failed and the others are to be terminated:
of the ranks that have not ended take one that has entered the fewest
collectives (`Least`); those that are done have entered all, so it may leave.
That steps which can be taken are taken is the fairness `RunEnds` assumes, in TLC's
runs only.

It proves on top of these, for the same constants:

| theorem | property |
|---|---|
| `Implementation` | `ImplementsShardedModel` |
| `SavedOnceTheorem` | `[]SavedOnce`, assuming `AllOrOne`: each module is on all ranks or on one |
| `IndexTheorem` | `[]IndexComplete` |
| `NoFileOverwrittenTheorem` | `NoFileOverwritten` |

The invariant `Saved` says of each rank that it has saved just what it is to save
(`Own`) of what it has gone by (`Past`). As each module of a layer is some rank's to
save (`SomebodySaves`: the remainder of its place among the shared ones, or a holder
of it), all of the model is saved when all ranks have counted their files
(`Covers`), and by `MergeLate` no index is made before. `HasFiles` follows the
numbered files of a rank from its directory into `mapped`, so that the index then
names every tensor and `MergeIndexFiles` maps to `Publish`; a step that writes a
tensor maps to `Save`, all others to stutters. `SavedOnce` needs `FilesApart`
besides: what waits in a buffer is in no shard, the files of a directory share
nothing, renamed or not, nor do they with what is in the save directory. Without
`AllOrOne`, a module held by two ranks of three is saved by both.

The last two need no `AllOrOne`. Their invariant `MInv` follows a file through the
merge: what shard `i` of a rank holds is in its temporary file, then in the one
numbered `i`, then in the one this number maps to (`ContentsOf`); files in a
directory the merge has not emptied are as many as were counted (`CountedOf`); and
what has been merged has numbers up to the sum of the counts of the directories that were
(`Numbering`). So the numbers of the next directory are free and stay
below those of the one after it, which is `NoFileOverwritten`; and an index made from
the maps names, for each tensor, the file it is in (`IndexLast`).

`SchedulerProofs` proves for every number of evaluations and attempts, every
choice of plugins and troubles:

| theorem | property |
|---|---|
| `TypeCorrect` | `[]TypeOK` |
| `MeasuresOwnServer` | `[]OwnServer` |
| `NothingBetweenRuns` | `[]BetweenRuns` |
| `FreshResults` | `[]ReadIsFresh` |
| `ServersAreTold` | `[]SimulatorStopped` |
| `MeetsService` | `BenchmarkMeetsService` |
| `Implementation` | `ImplementsEvaluationRows` |
| `ForwardTheorem` | each of the scheduler's steps goes on in the evaluation (`GoesForward`; in no run) |
| `NeverStuck` | until it is over one of them can be taken (`SomeStep`; in no run) |

The inductive invariant says where processes may exist at each point of the
scheduler: `OneServer` (between the launch of a server and the end of its
attempt, whatever is alive was launched last, for the parameters in `info`),
`OneBenchmark` (a benchmark runs only while it is monitored or its attempt is being
given up, with the rate in `info`), `DefaultConfig`, `Cleared` (results are either
of this evaluation and rate or gone, from the start of a benchmark to its
reading), `Attempts` and `Launched` (the counts behind the bounds), and
`TruthfulRow`, what a row would say if it were saved now. `OwnServer` alone is not inductive: it speaks of
running benchmarks only, and a server left behind by an attempt before must be known
to be gone when the next one starts. `Implementation` maps `SaveResult` to the step that
closes an evaluation, `Begin` and `BeginFails` to those that open one, and all
others to stutters; the row is truthful by `TruthfulRow`.

`MeetsService` has an invariant of its own, `ServiceInv`: there is one server at
most (`OneAlive`), and from the answer to the health check until the measurement has
been read it is one that serves (`Serving`). It takes both: the check is answered by
some server, and the benchmark runs against whatever is there.

The last two are the part of `EvaluationEnds` that needs no fairness. A step leads to
the next attempt, to the second phase, or to a later place of the same
attempt and phase (`Further`), and nothing the processes do changes where the
scheduler is. It can always go on because what it monitors is a
benchmark that runs or has exited (`Monitored`), never one that was not started
or that it has killed: then neither the time limit nor an exit code would be seen.

`TraceContextProofs` proves for any number of contexts and other threads:

| theorem | property |
|---|---|
| `TypeCorrect` | `[]TypeOK` |
| `LiveContextsAreKept` | `[]LiveContextsStay` |
| `DeferredEndsAreMeant` | `[]DeferredIsEnded` |
| `ParentsAreBelow` | `[]ParentBelow` |
| `CurrentStaysLive` | `[]CurrentIsLive` |

The four hold only together: a live context stays because whatever is popped is
either what the owner is ending or waits in the set, and what waits is ended; that
is so because no context on the stack is there twice and each is where its index
says. The invariant adds what a thread in `Unattach` holds
(its own context, in state "ending", by no other thread: `OwnEnd`), where each
context is (`Placed`), that the flag says exactly whether the set is empty
(`EndedIsDeferred`), and when an ended context may be on top (`TopIsLate`).

`GeneratedScheduleProofs` proves for every pipeline and every number of layers:

| theorem | property |
|---|---|
| `TypeCorrect` | `[]TypeOK` |
| `OneLayerOnTheDevice` | `[]OneLayerAtATime` |
| `FrontIsPerceived` | `[]PerceivesFront` |
| `OwnLayerFromFront` | `[]SameLayerFromFront` |
| `LayersAreProcessed` | `[]AllLayersProcessed` |
| `ForwardTheorem` | each step comes to a later turn or round, or ends the schedule (`GoesForward`; in no run) |
| `TurnsAreTaken` | the unit whose turn it is is in the list (`SomeTurn`; in no run) |

The key is that units go in step (`SideBySide`): those whose turn has been are one layer
ahead of the others. Then what has changed each layer, and where it is, is a
function of the round and the turn; and what the recorder holds, as input, is
what the last unit with data perceived in the round before, hence all
processors of the layers before. It also gives the part of `ScheduleEnds` that
needs no fairness: there are no more rounds than layers and one, in which all
units are exhausted together.

`OpcheckPoolProofs` proves for every finite set of cases, any numbers of
processes and deaths:

| theorem | property |
|---|---|
| `TypeCorrect` | `[]TypeOK` |
| `NoCaseTwice` | `[]EachCaseOnce` |
| `ReportIsComplete` | `[]ReportComplete` |
| `ForwardTheorem` | each step takes main, the queue, one process or the results further (`GoesForward`; in no run) |
| `JoinsStarted` | what main joins was started, and is over or can go on (`WaitsForStarted`; in no run) |

`EachCaseOnce` is nearly inductive: taking, putting and collecting move a case
from one place to the next. `ReportComplete` needs besides that a process has
ended only with the queue empty, that main has passed only processes that are over, and that
only the dead hold cases once all are joined. The last two are the part of
`CheckEnds` that needs no fairness: a process may find the queue empty although it has
just seen a case in it, and look again, but only once after the last case is taken,
as `Course` says; no process waits for another.

`FineTuneProofs` proves for all limits, factors, candidates and numbers of
calls that satisfy `ConstantsAssumption` (limits are positive, first values
within them, as `get_target_field_from_case_data` takes them from evaluations;
factors are at most `Step`):

| theorem | property |
|---|---|
| `TypeCorrect` | `[]TypeOK`, values within their limits included |
| `ValuesAreKnown` | `[]ValuesForSigns` |
| `BracketTheorem` | `TurnsBack` |
| `StopTheorem` | `[]StopExplained` |

`TurnsBack` speaks of two calls, and the invariant carries what the first leaves
for the second: `HistoryInRange` (what is in the histories was within the limits),
and `LastMove`: if the concurrency that is evaluated differs from the one
noted last, then the last sign is that of the change. So a sign of the other
side leads back towards it, by a part of the distance of at most `Step` in
`Whole`. `MovedWithin`, the lemma on `Moved`, is arithmetic of division and
limits.

`StopExplained` needs only that what is tuned by has been measured (`Measured`), and
arithmetic: a field that was to move and did not either cannot go further that
way, or the change is small (`MovedLittle`). The proof is where the small changes
came from: "within its interval or at its limit" fails for a value that is just
outside, for then the factor is small and the change below the threshold
(`OPT/experience_fine_tunning.py:84`). The factors of the runs are too large for that.

`SurgeonGraphProofs` proves for any graphs to start from, any nodes to add, any
ways of removing and any number of edits:

| theorem | property |
|---|---|
| `TypeCorrect` | `[]TypeOK` |
| `ToposortIsOrder` | `SortsDag` |
| `EditsAreSound` | `EditsKeepGraph` |
| `MapsStayRight` | `MapsFollow` |
| `PathsStay` | `DependsKept` |
| `UnusedGo` | `UnusedRemoved` |

It assumes that a graph to start from lists each node once, with edges
(`InitialsAssumption`), and of names (`NamesAssumption`) that no node has the name
that stands for none, and no edge has from the start one of the names
`f'{a}/{b}'` that `insert_node` makes, for which the code does not look.
`IInv` says that the graph is one over the nodes there are (`Graphs`): lists of
edges for each, each listed once, maps that lead to nodes. It also has to say who
holds which name (`NamesTaken`): an edge named after two nodes is there only if both
have been inserted or have had something inserted beside them, so that the next
insertion, of a node without edges, makes a name that is new. There is a
lemma for each edit, and one for each loop: a recursive function exists and its
values are those of its equation (`Loop`, by a least place at which it fails, as the
prover does no induction). What is left of `SurgeonGraph!RemoveNode` after an
exception is a graph as well.

`ToposortIsOrder` takes what depends on what apart. `Upstream` follows edges back
until nothing is added; what it comes to is the least set that is closed, in that
with an edge it has those its writer reads (`UpstreamIs`). So `u` feeds
`v` exactly if no closed set has what `v` takes and lacks what `u` gives
(`FeedsIs`), and to show that something does not depend on another it is enough to
name such a set. The loop keeps `Sorting`: sorted and queued
nodes are each there once and apart, the queue has exactly the others all of whose
writers are sorted, and each sorted node comes after those that write what it reads.
Then what the sorted nodes up to a place write is closed with the inputs, which is the
order (`InOrder`); and if the queue is empty before all are sorted, each that is left
reads an edge of one that is left, and so there is a cycle (`Stuck`): the edges
upstream of one of those nodes, with as few of these as can be.

The three on single edits say of one step, from a graph that is `Good` (over its nodes,
`Sound` and `Plain`), what it leads to (`EditGood`). For an insertion and for a bypass
this is one relation between two graphs, read in either direction: `Split(h, i, n, a, b, c)`,
where `n` lies in the way of an edge in `i` and does not in `h`: it reads `a` and
writes `b`, which in `h` are the one edge `c`. This is `a` or `b`, according to
which of `insert_node`'s cases it is, and any of the readers may have been taken along. If sets of edges
are moved across (`Lift`, `Drop`), those that are closed stay so, and as dependence is a
matter of closed sets (`FeedsIs`), what feeds what is the same in both (`SplitFeeds`); no
cycle comes or goes, and well-formedness carries over, in both directions. A
replacement renames a node (`Swapped`). That the code arrives at such a graph takes what
the maps say: `Told` says of an edge that they name its writer and its readers,
each once, and every loop over readers is shown to change just the lists it
should (`RerouteRows`) and to raise nothing, as a reader the map names does read
the edge. What the maps say afterwards is shown edge by edge (`BeforeTold`,
`PassedTold`). The removal of the node before an output of the graph
(`OutputGood`) keeps dependence and not the maps.

`UnusedGo` first says what the counts of `remove_unused_nodes` count (`Pruning`): the
readers of a node that are not discarded yet, each once as nobody reads two of a node's
edges (`OnePlace`), and the outputs it writes. A count that comes to zero has
therefore none left, in whichever order, and a node is queued once. When the queue is
empty, the nodes discarded are just those that write no output and all of
whose readers are discarded (`DiscardedIs`). That none of these is needed is again a
closed set; that all others are is where the graph must have no cycle: were some
not needed, each of them would be read by another (`Endless`).

Only model-checked are the liveness properties (`CallReturns`,
`HandshakeCompletes`, `EvaluationEnds`, `RunEnds`, `ScheduleEnds`, `CheckEnds`), as
reasoning with fairness is out of the prover's reach. For all but `CallReturns`,
in which the master passes four places and looks at a clock where it waits, the theorems
above prove what they rest on: that there are finitely many steps, or stages, to take, and that
until the end one of them can be taken. What is left to TLC is that steps which can
be taken are taken.

## Where code and documents part

Items 3, 8 and 17 are runs that find the quoted statement violated (`findings`
in `PROJECT.json`). The others are read off the code; most happen in every
execution that comes to the line.

1. `OPT/server.py:64` calls `check_success` of a class that has none; the server
   ends and the master waits in vain.
   `msserviceprofiler/test/ut/test_optimizer/optimizer/test_server.py:110` expects an answer.
2. `run` says that it stops the simulator; `SimulatorInterface.stop` is empty and
   precedes `CustomProcess.stop`, so the mindie server runs on until the next
   one is started (`OPT/interfaces/simulator.py:61`). `SimulatorStopped` is
   stated for vllm only.
3. When the second benchmark of `run_with_request_rate` fails, the row has the
   metrics of the first and the request rate of the second.
4. A benchmark that exits with an error is treated as one that finished; with
   vllm the row then has no error (`OPT/scheduler.py:101`).
5. `run` removes the log of a successful benchmark before `save_result` backs it
   up (`OPT/interfaces/custom_process.py:82` says that it is backed up).
6. Above its size limit the backup is switched off for the tools and not for the
   row, which names the directory of an earlier evaluation (`OPT/scheduler.py:54`).
7. Ranks edit `config.json` without waiting for each other: one may write back
   the `quantization_config` that another has removed.
8. For the same reason an adapter may read the file half-written and fail, and
   the run is terminated before rank 0 has merged.
9. `model_quant_type` of a merged model is that of what the last rank saved;
   `group_size` and `metadata` are merged the same way.
10. `part_file_size: 0`, documented as saving in one file, fails in every
    distributed run. It is not modelled.
11. `remove_unused_nodes` removes a node an output depends on, if a node that is
    unused reads it twice: the count is by readers and comes down by reads
    (`GRAPH/interface/base_graph.py:524`, `:536`).
12. `remove` of a node before an output leaves the maps as they were
    (`GRAPH/interface/base_graph.py:453`), and a bypass enters a node that reads the
    edge twice twice. If the removed node's output is both an output of the graph
    and read inside, the readers are moved and the output loses its writer; the
    same if the node lay between an input and an output. Inserting a node of a
    name that was used at the same place before gives two edges one name.
13. "Only perceive the processors in front" (`layer_wise_runner.py:36`) holds for
    the layer itself, `SameLayerFromFront`. The inputs of a layer come from the
    last unit with data, hence perceive all processors of the layers before.
14. `GroupProcessor.support_distributed` is true if any member's is
    (`quant/processor/container/group.py:75`), the runner needs all.
15. The writer threads of `modelevalstate/inference` are no daemons and get
    their end mark from `atexit`, which runs after they have been joined: the
    process does not end (`simulate.py:119`, `state_eval_v1.py:133`).
16. `msprechecker/collectors/hccl.py:139` shares one generator of addresses among
    the threads of all devices, so that each address is tried from one device only.
17. Fine tuning may stop with the first-token time over its limit though the
    request rate could be lowered. When the side of the measurement changes,
    `handle_request_rate` takes the distance to the last rate but one
    (`OPT/experience_fine_tunning.py:165`), without asking, as `handle_concurrency`
    does (`:140`), whether the two differ; after the concurrency has put the
    rate back to its first value twice they do not, the rate does not move, and
    `StopFineTune` ("reached its boundary or did not change") is taken for
    "the best value that satisfies the constraints" (`OPT/optimizer.py:203`).
18. Fine tuning leaves a concurrency in the parameters that is not whole and
    runs its whole part (`modelevalstate/config/config.py:276`, `:219`), so that
    `params_in_records` does not notice when the same whole numbers are evaluated again.
19. `_update_single_op_result` fills one dict per case and returns it, so that all rows of a case with several
    out tensors are the same object and show the last tensor
    (`msit/components/llm/msit_llm/opcheck/case_manager.py:146`).

Two more need no model to be seen. The user guide
(`msserviceprofiler/docs/服务化自动寻优工具.md:208`) starts the second machine by
setting `service` to slave; `plugin_main` imports the server's `main`
(`OPT/optimizer.py:488`) and always builds the single-machine `Scheduler`.
`ScheduleWithMultiMachine` calls `prepare` and `check_success` of its benchmark,
which no shipped benchmark has. So the channel is modelled with a master that may
issue any command at any time, which covers `ScheduleWithMultiMachine` and
whatever replaces it.

## Plan

In this order:

1. `connect_node` of the surgeon, and replacing a node by an input.
2. `PredictionQueues`: the writer threads of the latency model with the cache
   they save, once their end is settled (item 15 above).
3. `MultiMachine` (once a shipped plugin supports it): the order in which
   `ScheduleWithMultiMachine` sends its
   commands, composed with `CommandChannel` through `RemoteCall`: whenever a
   benchmark runs, both servers run the same parameters; a failure on one
   machine stops the other. Known hazard: its `monitoring_status` has no time
   limit.

## Not modelled

Tensor arithmetic, regression models, feature extraction, file formats, command
lines and rules are computations on data without protocol or lasting state. The
kubectl simulator drives an external cluster through scripts; its states are not
in this code. Backups and logs of evaluations, saving in one file, `connect_node`
and the writer threads of the latency model are left out although they have state:
the first two are wrong in every execution, which items 5, 6 and 10 above say
without a model, the others are in the plan. The repository has some 150 000 lines,
nearly all of them of the kind this section begins with; the modules stand for the
part in which an order of events matters. Durations are not modelled anywhere: a time limit may run out
whenever it is looked at, so that nothing is shown about *when* something ends.
