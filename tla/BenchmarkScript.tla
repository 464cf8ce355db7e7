---------------------------- MODULE BenchmarkScript ----------------------------
(***************************************************************************)
(* What an execution of run_micro_bench.py promises the CI job that runs   *)
(* it, stated without the files, the JUnit conversion or the Jenkins       *)
(* results: every benchmark binary is run once; the script exits with 0    *)
(* when all of them ran and none failed, with the exit code of one that    *)
(* failed when some did, and with 1 when it crashes on the way.  The       *)
(* script may be executed again afterwards.                                *)
(***************************************************************************)
EXTENDS Naturals

CONSTANTS
    Benchmarks,     \* the benchmark binaries of benchmark_list
    ExitCodes,      \* the exit codes a binary may return
    MaxExecutions   \* executions of the script

VARIABLES
    execution,  \* which execution this is
    status,     \* "running", "exited" or "crashed"
    done,       \* the benchmarks run in this execution
    failures,   \* the non-zero exit codes they returned
    exit        \* the exit status of the script

vars == <<execution, status, done, failures, exit>>

Failed == ExitCodes \ {0}

Init ==
    /\ execution = 1
    /\ status = "running"
    /\ done = {}
    /\ failures = {}
    /\ exit = 0

\* Benchmark b, not yet run in this execution, runs and returns code c.
Bench(b, c) ==
    /\ status = "running"
    /\ b \in Benchmarks \ done
    /\ done' = done \cup {b}
    /\ failures' = failures \cup ({c} \ {0})
    /\ UNCHANGED <<execution, status, exit>>

\* The script ends with an exception, possibly while a benchmark runs.
Crash ==
    /\ status = "running"
    /\ status' = "crashed"
    /\ exit' = 1
    /\ done \subseteq done' /\ done' \subseteq Benchmarks
    /\ failures \subseteq failures' /\ failures' \subseteq Failed
    /\ UNCHANGED execution

\* Every benchmark ran; the script exits with 0 or with a failure's code.
Exit ==
    /\ status = "running"
    /\ done = Benchmarks
    /\ status' = "exited"
    /\ exit' \in (IF failures = {} THEN {0} ELSE failures)
    /\ UNCHANGED <<execution, done, failures>>

\* The script is executed again.
Rerun ==
    /\ status # "running"
    /\ execution < MaxExecutions
    /\ execution' = execution + 1
    /\ status' = "running"
    /\ done' = {}
    /\ failures' = {}
    /\ exit' = 0

Next ==
    \/ \E b \in Benchmarks, c \in ExitCodes : Bench(b, c)
    \/ Crash
    \/ Exit
    \/ Rerun

Spec == Init /\ [][Next]_vars

================================================================================
