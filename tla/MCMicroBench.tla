----------------------------- MODULE MCMicroBench -----------------------------
(* The two benchmark binaries of run_micro_bench.py, one suite with two    *)
(* tests, two time units and three exit codes (success and two failures,   *)
(* so that "the last failure" differs from "the first").                   *)
EXTENDS MicroBench

CONSTANTS DataTableBenchmark, TupleAccessStrategyBenchmark, S, T1, T2, Ms, Ns

MCBenchmarkList == <<DataTableBenchmark, TupleAccessStrategyBenchmark>>
MCSuites == {S}
MCTests == {T1, T2}
MCUnits == {Ms, Ns}
MCExitCodes == {0, 1, 2}

=============================================================================
