# Formal models of the testing and benchmarking scripts

This directory holds TLA+ models of the scripts under `src/script`, TLC
configurations that check them on small instances, and TLAPS proofs about
them. The scripts are these:

- the replication log-throughput test
  (`testing/replication/log_throughput/log_throughput.py`);
- the micro-benchmark runner (`micro_bench/run_micro_bench.py`);
- the model trainer (`model/mini_trainer.py`);
- the process utilities the test scripts share (`testing/util/common.py`).

Sections 1 to 4 describe the log-throughput test in detail, since it has the
most moving parts. The other scripts follow in section 2. Section 5 lists what
is not modelled and why.

## 1. The system

`log_throughput()` measures how many log records a NoisePage server produces
(a primary) or applies (a replica) per millisecond. It has these parts:

| Part | Code | State it keeps | Operations |
|---|---|---|---|
| Orchestrator | `log_throughput` (lines 21-87) | the chosen metrics file, the server list, where it is in the sequence | pick the file, build the servers, setup loop, clear start-up metrics, run loop, the `RuntimeError` handler, sync, teardown loop, collect |
| Module state | `METRICS_FILES` (constants module) | the list of candidate metrics files, shared by every call in the process | mutated by `other_metrics_files.remove` (line 52) |
| Node | `NodeServer`, `PrimaryNode`, `ReplicaNode` (not under `src/`) | an external process: alive or not, its phase | `setup`, `run`, `is_running`, `teardown`; the process writes metrics rows on its own |
| SyncCoordinator | `sync_servers` (119-139) and `replica_sync` (not under `src/`) | the poll count | return early, raise on two primaries, poll until the replica caught up or a timeout |
| MetricsStore | `metrics_file_util` (not under `src/`) | one CSV per metrics file | delete, move to the results directory |
| ThroughputAggregator | `aggregate_log_throughput` (142-168) | none (a pure function) | drop the first row, require more rows, window, sum, divide |

How they interact: the orchestrator is sequential. The server processes run
concurrently with it and append rows to the metrics files whenever they are
alive. Only after teardown does the orchestrator delete the other metrics
files, move its own one and aggregate it. `METRICS_FILES` and the metrics
files themselves outlive a call, so one call can affect the next one.

The hard behaviours are these:

- A setup or run may fail, and a process may die at any time.
- A teardown may raise. In the handler (line 71) and in the final loop
  (line 80) nothing catches it.
- The sync poll must end even when the replica never catches up.
- Rows written by a process left over from an earlier call can reach a later
  call's file.
- The aggregation has edge cases at one or two rows and at a zero window.

What makes each part correct:

- every call returns;
- no process outlives the call that started it;
- a result holds only rows of that call's servers written after start-up;
- the other metrics files are gone after a measurement;
- the primary is torn down last (spec section 5);
- the aggregate follows spec sections 4.3 and 8.

## 2. Modules

| Module | Models |
|---|---|
| `LogThroughput.tla` | The orchestrator, sync, the servers as an environment, the metrics files and `METRICS_FILES`, over a bounded number of calls. |
| `MCLogThroughput.tla` | Gives the metrics files as model values (`LogSerializerCsv`, `RecoveryManagerCsv` and a third file `OtherCsv`). |
| `LogThroughput_proofs.tla` | TLAPS proof of type correctness. |
| `ThroughputAggregator.tla` | `aggregate_log_throughput` as an operator, plus the spec's definition (`SpecThroughput`) as the reference it is checked against. |
| `MCThroughputAggregator.tla` | Enumerates every metrics file of time-ordered rows up to a bound and checks the operator on each. |
| `ThroughputAggregator_proofs.tla` | TLAPS proof of `WindowCoversSamples` for files of every length. |
| `MicroBench.tla` | `run_micro_bench.py` run as a script, possibly several times in one directory: the benchmark loop with its exit code and JUnit conversion, the fold of the results of historical builds, the printed means and the exit. |
| `MCMicroBench.tla` | Two benchmark binaries, one suite with two tests, two time units, exit codes 0, 1 and 2. |
| `MiniTrainer.tla` | `MiniTrainer.train` of `mini_trainer.py`: the data, transformer and method loops, the model selection, the recorded predictions and the pickled map. |
| `MCMiniTrainer.tla` | Three opunits (arithmetic, with a transformer, without one), two methods, test errors 0..2 where 2 stands for 1.0. |
| `MiniTrainer_proofs.tla` | TLAPS proofs of type correctness and of `SelectedIsBest`. |
| `BenchmarkScript.tla` | The abstract specification of what an execution of `run_micro_bench.py` promises: each benchmark runs once, and the exit status is 0, a failed benchmark's code, or 1 on a crash. |
| `MicroBench_proofs.tla` | TLAPS proof that `MicroBench` implements `BenchmarkScript` and of type correctness. |
| `MicroBenchReport_proofs.tla` | TLAPS proof of `ReportedMeanTime`: the printed means are the sums over the results added. |
| `ProcessUtil.tla` | `common.py`: `run_command`'s polling loop against a child process writing to two bounded pipes, the wrappers `expect_command`, `run_check_pids`, `run_kill_server` and `run_collect_mem_info`, and `kill_pids_on_port`. |
| `MCProcessUtil.tla` | Two pids that may listen on the port. |
| `ProcessUtil_proofs.tla` | TLAPS proofs of `AnswerIsChildsAnswer` and `ListedListenersKilled`. |

### LogThroughput: state

- `metricsFiles` is `METRICS_FILES`, the list that persists across calls.
- `invocation` is the number of calls made so far.
- `pc` says which statement of `log_throughput` runs next: `idle` means not inside a call.
- `metricsFile` and `servers` are the locals of lines 50 and 54.
- `i` is the loop index.
- `node[s]` says whether server `s` has a live process and what its phase is.
- `leaked` holds the processes of earlier calls that were never torn down.
- `files[f]` holds the rows of each CSV. A row records the call that wrote it and whether it is a start-up row.
- `produced` and `applied` are the log positions of the primary and the replica.
- `polls` counts the polls of `replica_sync`.
- `outcome` is the sequence of what each call returned: a result with its rows, not enough data, aborted, or an exception.

### LogThroughput: actions

Each statement of the code with a side effect is one action:

- `LogThroughputCall` covers lines 47-55. The removal from the shared list raises `ValueError` when the file is no longer in it.
- `SetupServer` and `SetupServerFails` cover lines 57-59. A failed setup may or may not leave the process alive.
- `ClearStartupMetrics` covers lines 61-62.
- `RunServer` and `RunServerFails` cover lines 64-65.
- `CleanupServer`, `CleanupServerRaises` and `Abort` cover lines 67-72.
- `SyncServers` covers lines 74-77 with 119-139. `ReplicaSyncWaits` and `ReplicaSyncReturns` cover `replica_sync` and the `except` of line 76.
- `TeardownServer` and `TeardownServerRaises` cover lines 79-80.
- A raising teardown (`CleanupServerRaises`, `TeardownServerRaises`) leaves the server's process alive and marks its phase `teardownraised`, so a property can tell a server whose own teardown failed from one whose teardown never ran.
- `CollectResults` covers lines 82-87. It empties the other files and the moved file, and applies the aggregator's row-count test (lines 151-156).

The environment has four actions:

- `Produce`: a running primary writes a row.
- `Apply`: a running replica applies up to what was produced, or up to the bound when it replays a file without a primary.
- `Crash`: a live process dies.
- `LeakedWrite`: a process left over from an earlier call writes a row.

The `Node`, `replica_sync` and metrics-file code is not under `src/`, so these parts are modelled from the spec. They are marked `spec_modelled` in `PROJECT.json`.

### Fairness

Only `OrchestratorStep` is weakly fair. The orchestrator is one sequential
function, and each of its statements returns: `replica_sync` has a timeout,
and setup, run and teardown either return or raise. The servers and the
caller of `log_throughput` get no fairness. A server may never write, and
nobody is obliged to call again.

### MicroBench: state and actions

The variables are the following:

- `json[b]` and `xml[b]` are the files on disk. Each records whether it exists and which execution wrote it. A JSON file may also be unusable: empty or cut short.
- `bi`, `retVal`, `ran` and `ranCode` hold the benchmark loop.
- `results` holds the `GBBenchResultProcessor` of each (suite, test) key.
- `pending` holds the parsed results of the current artifact.
- `seen` is a history of every result added.
- `reported` holds what the script printed.
- `exitCode` is the script's exit status.

The actions are these:

- `RunBenchmark` is one iteration of `run_all_benchmarks` (lines 399-403). It runs the binary, which may exit with any code and may or may not write its JSON, then converts the JSON file found on disk. An absent file raises `IOError` and an empty one fails an `assert`, and both end the script.
- `ParseArtifact` covers lines 544-552. `GBResult` parses every name first, and a one-part name raises `IndexError`.
- `AddGbResult` covers lines 133-143 with `add_gbresult`. It checks the `time_unit` assert and `get_time`'s attribute lookup, then accumulates through `Accumulate`.
- `JenkinsFails` models a failed web request.
- `Report` covers lines 554-562.
- `Rerun` starts a new execution of the script.

### MiniTrainer: state and actions

Training is abstracted to the test error on `elapsed_us` that a trained
model yields, drawn from a small set. The data list is any sequence of
opunits.

- `StartData` covers lines 53-76.
- `TrainModel` is one iteration of the transformer and method loops (lines 78-117), including the selection of lines 103-107.
- `RecordPredictions` covers line 120.
- `SaveModelMap` covers line 145.
- `trained` is a history of the candidates trained on the current data set.

### MicroBench refines BenchmarkScript

`MicroBench.tla` instantiates `BenchmarkScript` under this mapping:

- `done` is `ran`, the benchmarks run in this execution;
- `failures` is `FailuresOf`, the non-zero exit codes of those benchmarks;
- `status` is `running` until `pc` is `exited` or `crashed`;
- `exit` is `exitCode`.

`ScriptContract == Script!Spec` is checked as a property by
`MicroBenchSafety` and proved in `MicroBench_proofs.tla`. Each
`RunBenchmark` maps to `Bench` of its binary, or to `Crash` when the
conversion fails. `ParseArtifact` and `AddGbResult` map to a stutter or to
`Crash`. `JenkinsFails` maps to `Crash`. `Report` maps to `Exit` or `Crash`,
and `Rerun` maps to `Rerun`. The refinement needs `benchmark_list` to name
each binary once (lines 385-386). With a repeated name, the second run would
overwrite the first one's code in `ranCode`.

### ProcessUtil: state and actions

One call of one wrapper is modelled, chosen in `Init`. The child process is
a helper script: a sequence of lines it prints on stdout or stderr and then
exits, or `kill -9 <pid>`. Each pipe holds `PipeCapacity` lines. A write to a
full pipe blocks, as the kernel's 64 KiB pipe buffer does.

The variables are the following:

- `wrapper` and `pc` say which function runs and where it is;
- `alive`, `script`, `target` and `childRc` describe the child;
- `out` and `err` are the pipes;
- `logged` holds what the loop logged;
- `written` is a history of every stdout line the child printed;
- `result` is what the wrapper returned, raised or exited with;
- `listeners`, `listed` and `k` belong to `kill_pids_on_port`: the processes
  on the port, the pids lsof printed, and the loop index.

The parent's actions are these:

- `Poll` covers lines 31-33. The loop goes on while `p.poll()` is None, and
  reads only when `printable`.
- `ReadLine` covers lines 34-36. `readline` blocks until stdout has a line
  or the child has exited.
- `Return` covers lines 38-39 together with the caller's use of the return
  code: `ExpectCommandResult`, `CheckPidsResult`, `KillServerResult`,
  `MemInfoResult`, and in `kill_pids_on_port` the next kill or the raise.
- `KillPidsOnPort` covers lines 118-133. It checks root, lists the
  listeners, and kills the first one.

The environment's actions are these, modelled from the operating system's
behaviour:

- `ChildWrite`: the child prints a line, blocking while the pipe is full.
- `ChildExit`: the child exits.
- `ChildKill`: `kill -9` kills its target, or fails with 1 when the target
  is gone.
- `ListenerExits`: a listening process exits on its own.

Fairness: the parent and the child are processes the operating system keeps
scheduling, so `ParentStep` and `ChildStep` are each weakly fair. A listener
is not obliged to exit. Weak fairness does not unblock a blocked step: a child
whose pipe is full and a parent in `readline` on an empty pipe both stay
disabled.

## 3. Runs

The runs of `MCLogThroughput` share these bounds:

- three metrics files;
- `MaxRows = 4` rows per file;
- `MaxLog = 3` log records;
- `SyncTimeout = 2` polls.

Two calls (`MaxInvocations = 2`) is the least that shows one call affecting
the next, through `METRICS_FILES` and through leaked processes. The safety run
lets teardowns raise (`TeardownMayFail = TRUE`), so its properties state what
the code guarantees in spite of a raising teardown. Four rows are
enough for a start-up row, two measured rows and a stale row. A timeout of two
polls lets the sync both wait and time out.

| Run | Expect | Properties | What it shows |
|---|---|---|---|
| LogThroughputSafety | pass | TypeOK, ResultIsFresh, LeaksOnlyFromRaisedCalls, InvocationReturns | With setup and run failures, crashes, sync timeouts and raising teardowns: a result never holds start-up rows; a row or a live process of an earlier call comes only from a call that raised; every call returns, because the poll is bounded. |
| TeardownOrder | violation | PrimaryTornDownLast | The teardown loops stop the primary before its replica. |
| TeardownFailure | violation | FailedTeardownLeaksOnlyItself | When a call has returned, a server of it may still run only if its own teardown raised; the trace has the primary's teardown raise and the replica, whose teardown never ran, left running. |
| MetricsFilesAlias | violation | OtherMetricsFilesDeleted | The second call no longer deletes the first call's file. |
| Aggregate | pass | WindowCoversSamples | The window divided by spans every counted interval, exactly when they are contiguous. |
| AggregateSpec | violation | AggregateMatchesSpec | A two-row file is refused by the code and accepted by spec section 4.3. |
| MicroBenchSafety | pass | TypeOK, ReportedMeanTime, ScriptContract | Over two executions, with binaries that fail, write nothing or write an empty file, and up to two artifact files of up to two results: the printed count and total time of every key cover every result read; and the script implements `BenchmarkScript`. |
| MeanItemsPerSecond | violation | MeanItemsPerSecondIsMean | `add_gbresult` keeps the last `items_per_second` instead of the sum. |
| StaleJUnit | violation | JUnitFromThisRun | A binary that fails before writing leaves the previous execution's JSON to be reported as this run's XML. |
| MiniTrainerSafety | pass | TypeOK, SelectedIsBest | When the predictions of a data set are recorded, the stored model is the lowest-error eligible candidate of that data set, and the predictions are that model's. |
| ProcessSafety | pass | TypeOK, AnswerIsChildsAnswer, ListedListenersKilled, ReturnsExactlyWhenPipesHold | Every wrapper, with helpers printing up to three lines into pipes of one line and up to three lsof lines over two pids: the answer is read from the line the helper printed first; `ok` from `kill_pids_on_port` means every listed listener is dead; a call returns exactly when no pipe it leaves unread overflows, so a printable call that drains a long stdout returns and any other overflow blocks. |
| PipeDeadlock | violation | WrapperReturns | With a helper that prints more on stderr than the pipe holds, `run_command` never returns. |

`MCThroughputAggregator` checks every file of up to 4 rows. Each row has an
elapsed time of 0..2, starts 0..1 after the previous row ends, and counts
0..1 records. That covers files with zero to three kept rows, gaps and zero
windows.

Every property of a passing run has a mutant in `PROJECT.json`: a plausible
bug in a mapped action that TLC catches. The mutants are:

- `ClearStartupMetricsSkipped`
- `CleanupServerWrongGuard`
- `ReplicaSyncReturnsNoTimeout`
- `ReplicaSyncWaitsOffByOne`
- `AggregateNoElapsed`
- `AccumulateAssignTime`
- `AccumulateSubtractTime`
- `StartDataKeepsMin`
- `MethodLoopDoneLate`
- `NextRetValGeneric`
- `SpawnKillSkipAhead`
- `PrintableDefault`
- `MoreToKillEarlyExit`
- `LoopGoesOnReturncode`

`MicroBenchSafety` uses these bounds:

- two executions, the least that shows a file outliving an execution;
- two artifacts of up to two results each, enough for two results of one key from different files;
- times and `items_per_second` fixed at 1. Sums then count results, which is enough to tell an assignment from an accumulation.

`MiniTrainerSafety` runs two data sets, which covers two data sets of the same
opunit as well as of different ones.

`ProcessSafety` uses pipes of one line and helpers of up to three lines. That
covers an answer line together with an error line, in either order. It also
covers a stdout longer than the pipe, which a printable call must drain
before the child can go on, and a stderr longer than the pipe, which nobody
reads. `ReturnsExactlyWhenPipesHold` states both sides: when no unread pipe
overflows the call returns, and when one does it never returns. The run sets
`CHECK_DEADLOCK FALSE` because a call blocked on a full pipe is a state the
code really reaches; that it is reached only by an overflow is what the
property checks.
Three lsof lines over two pids cover a pid listed twice, and a listed pid
that has already exited. `PipeDeadlock` shrinks the pipe to one line; a real
pipe holds 64 KiB, and a helper or a command that prints more than that
behaves the same way.

### What the violations say about the code

- **Shared list.** `other_metrics_files = METRICS_FILES` aliases the
  module-level list, and line 52 mutates it. A second call in the same process
  raises `ValueError` (same test type) or leaves stale metrics files behind
  (the other test type).
- **Teardown order.** Teardown goes in list order, so the primary goes first.
  Spec section 5 asks for reverse order.
- **Teardown is not best-effort.** Spec sections 4.1, 4.4 and 7 require
  best-effort cleanup. The code lets the first teardown exception escape.
  The remaining servers keep running, and a later call may measure their
  rows. `FailedTeardownLeaksOnlyItself` is what best-effort cleanup would
  give; the code breaks it. `ResultIsFresh` and `LeaksOnlyFromRaisedCalls`
  show that a raising call is the only way a stale row or a leaked process
  arises.
- **Row threshold.** The aggregator drops a row before its size test, so it
  needs 3 rows where the spec says 2.
- **Mean items per second.** `GBBenchResultProcessor.add_gbresult`
  (`run_micro_bench.py:273`) assigns `items_per_second` where it should add
  it.
- **Stale JUnit report.** `run_single_benchmark` converts whatever
  `<benchmark>.json` is on disk, including the JSON of an earlier
  execution.
- **Transformer restriction.** This one is not a run. `mini_trainer.py`
  only considers models of the last transformer (line 103), although its
  comments (lines 68 and 101-102) speak of the lowest error. It may be
  intended, so it is noted as a hazard. `SelectedIsBest` states the rule the
  code follows.
- **Missing model.** This one is not a run. `mini_trainer.py` starts
  `min_percentage_error` at 1 (line 74), so an opunit whose every model has
  an error of at least 1.0 gets no model. That may be intended as a sanity
  bound, so it is noted as a hazard.
- **Pipe deadlock.** `run_command` (`common.py:31-36`) reads only stdout,
  and only when `printable`. A child that fills its stderr pipe blocks in
  `write`, while the parent blocks in `readline` on an empty stdout. With
  `printable=False` nobody reads stdout either. Popen's documentation warns
  of this and recommends `communicate()`.
- **Spurious kill failure.** This one is not a run. `kill_pids_on_port`
  raises when a `kill -9` fails (lines 139-142). That happens when a listed
  process exits on its own before its kill, or when lsof lists a pid twice
  (one line per listening socket), although the port is then free.
  `ListedListenersKilled` checks that an `ok` is never wrong; the model
  allows the spurious raise.
- **Zero window.** This one is not a run. The spec allows non-decreasing
  timestamps, and these allow a zero window, for example equal start times
  with zero elapsed time. Line 166 divides without a guard.

## 4. Proofs

`LogThroughput_proofs.tla` proves `THEOREM TypeCorrect == Spec => []TypeOK`
for every value of the constants that satisfies `ConstantsAssumption`:

- the two metrics files are distinct members of a finite `METRICS_FILES`;
- `MaxInvocations` is positive;
- the other bounds are naturals.

`TypeOK` alone is not inductive. A row or a leaked process is tagged with the
current call number, which lies in `1..MaxInvocations` only because servers
exist once a call has started. The inductive invariant is therefore
`IInv == TypeOK /\ (Len(servers) > 0 => invocation \in 1..MaxInvocations)`.

The proof shows `Init => IInv` and `IInv /\ [Next]_vars => IInv'`, with one
step per action. It rests on lemmas about `AppendRow`: it keeps a file a
bounded sequence of rows. The temporal step combines these with PTL.

The same module proves `THEOREM ResultIsFreshHolds == Spec => []ResultIsFresh`
and `THEOREM LeaksOnlyFromRaisedCallsHolds == Spec => []LeaksOnlyFromRaisedCalls`.
Both rest on the stronger invariant `LInv`. It is `IInv` plus six parts:

- `OutcomeCount`: one outcome is recorded per finished call, so the current
  call's number is `Len(outcome) + 1` while it runs;
- `LeakedRaised`: a leaked server belongs to a call whose outcome is
  "raised". Only a call that raised skips the teardown that stops its servers;
- `IdleRunningRaised`: between calls, a running server means the last call
  raised;
- `StoppedBelow`: in the cleanup and teardown loops, every server slot below
  the loop index has been stopped;
- `FilesFresh`: from the clear of the metrics file (line 62) to the teardown,
  every row in it was written by a server that is not a startup row and
  belongs to this call or to a call that raised;
- `ResultsFresh`: the rows of every recorded result obey the same rule.

`FilesFresh` is the key part. A stale row can come only from a leaked server,
and `LeakedRaised` says such a server belongs to a call that raised.
`ResultsFresh` then follows, because a result is read from the file at the
sync step. Each primed part is proved as its own step under each action. A
lemma says that the parts which speak only of outcomes and leaks keep holding
when those variables are unchanged.

`MicroBench_proofs.tla` proves `THEOREM Refinement == Spec => ScriptContract`.
It holds for
every value of the constants that satisfies `MicroBenchAssumption`: a
non-empty benchmark list without repeats, and exit codes that include 0 and
1. The inductive invariant `RInv` says these things outside a crash:

- the benchmarks run are exactly the first `bi - 1` of the list;
- `ret_val` is 0 exactly when none of them failed, and otherwise the code of
  one that failed;
- the exit status is 0 while the script runs, and `ret_val` once it has
  exited.

A lemma projects every step of `Next` onto six kinds of step (a benchmark, a
crash, an artifact step, the exit, a rerun, a stutter). The invariance and
refinement proofs then take one step per kind. That the script never exits 0
after a failed benchmark is part of `ScriptContract`, so it needs no theorem
of its own.

The same module proves `THEOREM TypeCorrect == Spec => []TypeOK`. `TypeOK`
alone is not inductive. `RunBenchmark` reads `BenchmarkList[bi]`, and that
entry is a benchmark only because `bi` stays within the list while the script
is at `"bench"`. `RInv` states that. The inductive invariant is
`TInv == RInv /\ DataOK`, where `DataOK` types the files, the processors, the
artifact being added and the printed means. Two lemmas support it:

- an artifact file is a sequence of results;
- `Accumulate` keeps a processor a processor.

`MiniTrainer_proofs.tla` proves `THEOREM TypeCorrect == Spec => []TypeOK` and
`THEOREM SelectedIsBestHolds == Spec => []SelectedIsBest`. `SelectedIsBest`
is not inductive: it speaks only of the state at line 120. The invariant
`IInv` adds `BestSoFar`, which holds throughout the training of a data set:

- the model stored for the opunit is the best eligible candidate so far;
- `min_percentage_error` is its error, or still 1.0 when no candidate is
  eligible;
- `pred_results` is that model's.

The key step is a new candidate that is not selected. If it is eligible, it
was trained with the last transformer and has an error below 1.0, and the
selection test failed. So an eligible candidate existed before, and its error
is at most the new one.

`ProcessUtil_proofs.tla` proves `THEOREM AnswerIsChildsAnswerHolds ==
Spec => []AnswerIsChildsAnswer` and `THEOREM ListedListenersKilledHolds ==
Spec => []ListedListenersKilled`. They hold for every pipe capacity, script
length, listing length and finite set of positive pids (`ProcessUtilAssumption`).
Neither property is inductive: each speaks only of the returned state. The
invariant `PInv` is a conjunction of three parts:

- `PType`: the variables are well typed, and only `kill_pids_on_port`
  starts at `"start"`;
- `PAns`: a wrapper that answers from stdout has no kill target, and its
  pipe still holds every line the child printed (`out = written`), because it
  passes `printable=False` and never reaches `readline`. Once it has
  returned, the child is gone and the result was computed from that pipe;
- `PKill`: in `kill_pids_on_port` the child kills `listed[k]`. Every pid
  listed before it has stopped listening, and so has `listed[k]` once the
  kill has exited. An empty listing means no child runs, and a return with
  `"ok"` comes only at the last pid.

One proof step is given per action, and under it one per part. A kill of a
pid that already exited fails and ends the loop, so the "has stopped
listening" facts survive `ListenerExits`. The lemmas say that a script and a
listing are sequences, and that the answer depends only on the child's code
and stdout.

The module also proves `THEOREM TypeCorrect == Spec => []TypeOK`. The hard
conjuncts are the pipe bounds `Len(out) <= PipeCapacity` and
`Len(err) <= PipeCapacity`. `ChildWrite` checks for room before it appends.
`ChildKill` appends kill's error message without that check. `TypeOK` alone
therefore does not prove the bound on `err`.

The inductive invariant is `TInv == TypeOK /\ PInv /\ KillErrEmpty`.
`KillErrEmpty` says that only `kill_pids_on_port` has a kill target, and that
stderr is empty while the kill runs. A kill child is spawned with fresh pipes
and prints nothing before it exits, so the one error line fits in any pipe of
capacity at least 1. The proof also rests on two lemmas. One says that a
script is a sequence of at most `MaxLines` lines. The other says that a kill
child's empty script is one.

`MicroBenchReport_proofs.tla` proves `THEOREM ReportedMeanTimeHolds ==
Spec => []ReportedMeanTime` under `MicroBenchAssumption`. `SumOf(s, k, V)`
is a recursive function over the positions `0..Len(s)` of the list of
results. Two lemmas say what it computes:

- `SumEmpty`: the sum over the empty list is 0;
- `SumAppend`: appending a result `b` adds `V(b)` when `b` has key `k`,
  and nothing otherwise.

Neither lemma needs induction. `FiniteNatInductiveDef` of the library turns
the definition into an equation for every position. `FiniteNatInductiveUnique`
shows that the function for `Append(s, b)`, cut to `0..Len(s)`, is the
function for `s`. The inductive invariant `SInv` is `TInv` plus two parts
for every key:

- `ProcessorSums`: the processor's count and total time are the sums over
  the results `add_artifact_file` added in this execution (`seen`), and it
  exists exactly when the count is positive;
- `PrintedFromProcessor`: once the script has exited, what it printed for
  the key is what that processor holds.

`AddGbResult` changes one processor and appends one result, and `SumAppend`
matches the two. `Rerun` empties both.

`ThroughputAggregator_proofs.tla` proves `THEOREM WindowCoversSamplesHolds ==
Spec => []WindowCoversSamples` under `BoundsAssumption`, for files of any
length. The file grows one row at a time. Each row starts `gap` after the
end of the previous row. Let `Rest` be the rows after the first. Let
`Window` be the time from the start of the first of them to the end of the
last. The inductive invariant `AInv` says:

- `SumElapsed(Rest)` is a natural number;
- with two rows or more, `Window` is at least `SumElapsed(Rest)`;
- it is equal when the kept rows are contiguous.

A new row adds `gap + elapsed` to the window and `elapsed` to the sum. The
rows are contiguous afterwards only if they were before and `gap = 0`. Two
lemmas carry the step:

- `RestAppend`: the kept rows of a longer file are the old kept rows and the
  new row;
- `SumElapsedAppend`: appending a row adds its interval to the sum.

`SumElapsedAppend` is proved like `SumAppend`.

The first part of `AInv` is there because the library's
`FiniteNatInductiveDefType` cannot be instantiated. Its operator parameter is
applied inside its own hypothesis. So whether the sum is a number is carried
by the invariant, not by a lemma.

What stays with TLC:

- liveness (`InvocationReturns`, `ReturnsExactlyWhenPipesHold`, `WrapperReturns`), because TLAPS does not
  prove liveness under fairness;
- the properties of the violation runs (`AggregateMatchesSpec`,
  `MeanItemsPerSecondIsMean`, `JUnitFromThisRun`, `PrimaryTornDownLast`,
  `FailedTeardownLeaksOnlyItself`, `OtherMetricsFilesDeleted`). They are false of the code,
  and TLC's counterexamples show it;
- what a recursive definition computes for every input, when that needs
  induction over the data. The library's induction theorems (`NatInduction`
  and its relatives) take the property as an operator parameter, and the
  installed provers cannot instantiate one. The two sums above avoid this:
  their step lemmas need only the one-step unfolding of the definition.

## 5. Not modelled

- `__main__.py` only parses arguments. It calls `log_throughput` with 7
  positional arguments, but the function takes 9, so every command-line run
  raises `TypeError` before any state change. The model starts at the
  function.
- `run_micro_bench.py` has parts that are not modelled:
  - the XML and JSON text;
  - the Jenkins HTTP traffic, except for its failure;
  - the deprecated `Jenkins` helpers (lines 477-531) and the empty
    `TestConfig` methods, which nothing calls.

  The mixing of `real_time` and `cpu_time` under one key (lines 216-218) is
  modelled. It is not yet told apart by a property, because the bounds give
  both the same value.
- In `common.py`, `print_file`, `print_pipe`, `format_time`,
  `check_pid_exists`, `collect_mem_info` and `update_mem_info` are not
  modelled. They log, or make one psutil call, and change no state of the
  script. Two of them have defects that need no model checker:
  - `print_pipe` logs stdout in its stderr branch (line 94);
  - `update_mem_info` stores `False` when the helper fails (line 183).
- `test_oltpbench.py`, `report_result.py` and `gbench_run_result.py` are
  HTTP, shell and JSON I/O, with no state machine worth checking.
- In `run_micro_bench.py` the `Artifact` and `Build` classes (lines 39-115)
  are abstracted. The model has only the artifacts they yield and the failure
  of a request. The main loop passes every artifact of every successful build
  to `json.loads`, JSON or not (line 552).
- The multiple-primary `RuntimeError` of `sync_servers` is in the model, but
  `get_servers` never builds two primaries, so it cannot happen. The spec
  calls this case fatal, while the code (line 76) would downgrade it to a
  warning.
