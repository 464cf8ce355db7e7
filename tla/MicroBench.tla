------------------------------ MODULE MicroBench ------------------------------
(***************************************************************************)
(* run_micro_bench.py run as a script (lines 533-562): run every           *)
(* micro-benchmark binary and convert its JSON output to JUnit XML         *)
(* (RunMicroBenchmarks, GBenchToJUnit), then fold the benchmark results of *)
(* the successful Jenkins builds into one GBBenchResultProcessor per       *)
(* (suite, test) (ArtifactProcessor), print the means and exit with the    *)
(* code of the benchmark run.  The script may be executed several times in *)
(* the same directory: the JSON and XML files outlive an execution.        *)
(***************************************************************************)
EXTENDS Naturals, Sequences, FiniteSets

CONSTANTS
    BenchmarkList,   \* RunMicroBenchmarks.benchmark_list (lines 385-386)
    Suites, Tests,   \* suite and test names of Google Benchmark results
    Units,           \* time_unit values
    ExitCodes,       \* exit codes a benchmark binary may return
    MaxExecutions,   \* executions of the script in one directory
    MaxArtifacts,    \* artifact files of the successful builds
    MaxFileLen,      \* benchmarks in one artifact file
    MaxTime,         \* largest real_time / cpu_time
    MaxItems         \* largest items_per_second

Benchmarks == {BenchmarkList[j] : j \in DOMAIN BenchmarkList}

ASSUME MicroBenchAssumption ==
    /\ BenchmarkList \in Seq(Benchmarks) /\ Len(BenchmarkList) > 0
    \* lines 385-386 name each binary once
    /\ \A j1, j2 \in DOMAIN BenchmarkList :
          BenchmarkList[j1] = BenchmarkList[j2] => j1 = j2
    /\ 0 \in ExitCodes /\ 1 \in ExitCodes /\ ExitCodes \subseteq Nat
    /\ {MaxExecutions, MaxArtifacts, MaxFileLen, MaxTime, MaxItems}
          \subseteq Nat \ {0}

(* The shape of a result's "name": "Suite", "Suite/Test",                  *)
(* "Suite/Test/real_time", or a third part that names no attribute, as     *)
(* Google Benchmark writes for arguments ("Suite/Test/1024").              *)
Shapes == {"suite", "suite/test", "suite/test/real_time", "suite/test/arg"}

\* One entry of the "benchmarks" list of a Google Benchmark JSON file.
GBBench == [suite : Suites, test : Tests, shape : Shapes, time_unit : Units,
            real_time : 1..MaxTime, cpu_time : 1..MaxTime,
            items_per_second : 1..MaxItems]

\* An artifact file: the "benchmarks" list of one JSON file.
ArtifactFiles == UNION {[1..n -> GBBench] : n \in 1..MaxFileLen}

Keys == Suites \X Tests

\* A benchmark JSON (or JUnit XML) file on disk and the execution that wrote it;
\* "usable" is FALSE for a file without benchmarks or cut short.
JsonFile == [present : BOOLEAN, run : 0..MaxExecutions, usable : BOOLEAN]
XmlFile == [present : BOOLEAN, run : 0..MaxExecutions]
NoFile == [present |-> FALSE, run |-> 0, usable |-> FALSE]

\* GBBenchResultProcessor fields (lines 239-247); the suite and test names are
\* those of its key, so the asserts of lines 254-263 always hold.
Processor == [exists : BOOLEAN, time_unit : Units \cup {"None"},
              num_results : Nat, sum_time : Nat, sum_items_per_second : Nat]
NoProcessor == [exists |-> FALSE, time_unit |-> "None", num_results |-> 0,
                sum_time |-> 0, sum_items_per_second |-> 0]
Printed == [shown : BOOLEAN, sum_time : Nat, num : Nat]
NotPrinted == [shown |-> FALSE, sum_time |-> 0, num |-> 0]

PCs == {"bench", "collect", "add", "exited", "crashed"}

VARIABLES
    execution,  \* which execution of the script this is
    pc,         \* where the script is
    bi,         \* index into benchmark_list (line 399)
    retVal,     \* ret_val of run_all_benchmarks (line 396)
    ran,        \* the benchmarks run in this execution
    ranCode,    \* the exit code of each of them
    json,       \* <benchmark>.json on disk
    xml,        \* <benchmark>.xml on disk
    results,    \* ArtifactProcessor.results
    artifacts,  \* artifact files read so far
    pending,    \* GBResult.benchmarks of the artifact being added
    seen,       \* every result added in this execution, in order (history)
    reported,   \* what lines 554-561 printed for each key
    exitCode    \* the exit status of the script

vars == <<execution, pc, bi, retVal, ran, ranCode, json, xml, results,
          artifacts, pending, seen, reported, exitCode>>

-----------------------------------------------------------------------------
\* GBBenchResult._process_name (lines 196-208) splits the name; a name with one
\* part raises IndexError at line 202.
Parses(b) == b.shape # "suite"

\* GBBenchResult.get_time (lines 216-218): the attribute named by the third
\* part of the name, else cpu_time; a third part that names no attribute
\* raises AttributeError.
HasTimeAttr(b) == b.shape # "suite/test/arg"
GetTime(b) ==
    IF b.shape = "suite/test/real_time" THEN b.real_time ELSE b.cpu_time

KeyOf(b) == <<b.suite, b.test>>

\* The sum of V over the results of key k in the sequence s.
SumOf(s, k, V(_)) ==
    LET f[n \in 0..Len(s)] ==
            IF n = 0 THEN 0
            ELSE f[n - 1] + (IF KeyOf(s[n]) = k THEN V(s[n]) ELSE 0)
    IN  f[Len(s)]

ItemsOf(b) == b.items_per_second
One(b) == 1

Init ==
    /\ execution = 1
    /\ pc = "bench"
    /\ bi = 1
    /\ retVal = 0
    /\ ran = {}
    /\ ranCode = [b \in Benchmarks |-> 0]
    /\ json = [b \in Benchmarks |-> NoFile]
    /\ xml = [b \in Benchmarks |-> [present |-> FALSE, run |-> 0]]
    /\ results = [k \in Keys |-> NoProcessor]
    /\ artifacts = 0
    /\ pending = <<>>
    /\ seen = <<>>
    /\ reported = [k \in Keys |-> NotPrinted]
    /\ exitCode = 0

-----------------------------------------------------------------------------
\* Mutant: line 403 records a generic failure, ret_val = 1.
NextRetValGeneric(code) == IF code # 0 THEN 1 ELSE retVal

\* Lines 401-403: a benchmark that failed replaces ret_val with its code.
NextRetVal(code) == IF code # 0 THEN code ELSE retVal

(* RunMicroBenchmarks.run_all_benchmarks (lines 392-406), one iteration:  *)
(* run_single_benchmark (408-437) runs the binary, which writes its JSON   *)
(* output or not, and GBenchToJUnit (295-377) converts whatever           *)
(* <benchmark>.json is on disk: a missing file raises IOError (line 327),  *)
(* a file without benchmarks fails the assert of line 339, and both end    *)
(* the script.  Line 401 keeps the code of the last benchmark that failed. *)
RunBenchmark ==
    LET b == BenchmarkList[bi] IN
    /\ pc = "bench"
    /\ \E code \in ExitCodes, writes \in BOOLEAN, usable \in BOOLEAN :
          LET out == IF writes
                     THEN [present |-> TRUE, run |-> execution, usable |-> usable]
                     ELSE json[b]
          IN  /\ code = 0 => writes
              /\ json' = [json EXCEPT ![b] = out]
              /\ ran' = ran \cup {b}
              /\ ranCode' = [ranCode EXCEPT ![b] = code]
              /\ IF out.present /\ out.usable
                 THEN /\ xml' = [xml EXCEPT ![b] = [present |-> TRUE, run |-> out.run]]
                      /\ retVal' = NextRetVal(code)
                      /\ bi' = bi + 1
                      /\ pc' = IF bi = Len(BenchmarkList) THEN "collect" ELSE "bench"
                      /\ UNCHANGED exitCode
                 ELSE /\ pc' = "crashed"
                      /\ exitCode' = 1
                      /\ UNCHANGED <<xml, retVal, bi>>
    /\ UNCHANGED <<execution, results, artifacts, pending, seen, reported>>

(* Lines 544-552 and ArtifactProcessor.add_artifact_file (125-131): the    *)
(* next artifact of a successful build is fetched and parsed; GBResult     *)
(* builds every GBBenchResult first (lines 168-170), so a name of one part *)
(* anywhere in the file raises before any of its results is added.         *)
ParseArtifact ==
    /\ pc = "collect"
    /\ artifacts < MaxArtifacts
    /\ \E file \in ArtifactFiles :
          IF \A j \in 1..Len(file) : Parses(file[j])
          THEN /\ pending' = file
               /\ pc' = "add"
               /\ UNCHANGED exitCode
          ELSE /\ pc' = "crashed"
               /\ exitCode' = 1
               /\ UNCHANGED pending
    /\ artifacts' = artifacts + 1
    /\ UNCHANGED <<execution, bi, retVal, ran, ranCode, json, xml, results, seen,
                   reported>>

\* Mutant: line 272 assigns sum_time instead of adding to it.
AccumulateAssignTime(p, b) ==
    [exists |-> TRUE,
     time_unit |-> b.time_unit,
     num_results |-> p.num_results + 1,
     sum_time |-> GetTime(b),
     sum_items_per_second |-> b.items_per_second]

\* Mutant: line 272 written with -= for +=.
AccumulateSubtractTime(p, b) ==
    [exists |-> TRUE,
     time_unit |-> b.time_unit,
     num_results |-> p.num_results + 1,
     sum_time |-> p.sum_time - GetTime(b),
     sum_items_per_second |-> b.items_per_second]

\* add_gbresult, lines 265-274, once the checks passed: the unit is set and
\* the result accumulated; line 273 assigns items_per_second, not adds it.
Accumulate(p, b) ==
    [exists |-> TRUE,
     time_unit |-> b.time_unit,
     num_results |-> p.num_results + 1,
     sum_time |-> p.sum_time + GetTime(b),
     sum_items_per_second |-> b.items_per_second]

(* One iteration of the loop of add_artifact_file (lines 133-143) with           *)
(* GBBenchResultProcessor.add_gbresult (249-275): find or create the       *)
(* processor of the result's key, assert the time unit agrees (line 267),  *)
(* and accumulate.  A failed assert or a missing time attribute ends the   *)
(* script.                                                                 *)
AddGbResult ==
    LET b == Head(pending)
        k == KeyOf(b)
        p == results[k]
    IN
    /\ pc = "add"
    /\ pending # <<>>
    /\ IF (p.time_unit = "None" \/ p.time_unit = b.time_unit) /\ HasTimeAttr(b)
       THEN /\ results' = [results EXCEPT ![k] = Accumulate(p, b)]
            /\ seen' = Append(seen, b)
            /\ pending' = Tail(pending)
            /\ pc' = IF Len(pending) = 1 THEN "collect" ELSE "add"
            /\ UNCHANGED exitCode
       ELSE /\ pc' = "crashed"
            /\ exitCode' = 1
            /\ UNCHANGED <<results, seen, pending>>
    /\ UNCHANGED <<execution, bi, retVal, ran, ranCode, json, xml, artifacts,
                   reported>>

\* Jenkins.get_builds or Build.get_artifacts (lines 444-475, 74-93): the web
\* request or the eval of its answer raises.
JenkinsFails ==
    /\ pc = "collect"
    /\ pc' = "crashed"
    /\ exitCode' = 1
    /\ UNCHANGED <<execution, bi, retVal, ran, ranCode, json, xml, results,
                   artifacts, pending, seen, reported>>

(* Lines 554-562: print the mean time (get_mean_time, line 278) and the     *)
(* count of every key, then sys.exit(ret).                                 *)
Report ==
    /\ pc = "collect"
    /\ reported' = [k \in Keys |->
                      IF results[k].exists
                      THEN [shown |-> TRUE, sum_time |-> results[k].sum_time,
                            num |-> results[k].num_results]
                      ELSE NotPrinted]
    /\ IF \E k \in Keys : results[k].exists /\ results[k].num_results = 0
       THEN pc' = "crashed" /\ exitCode' = 1
       ELSE pc' = "exited" /\ exitCode' = retVal
    /\ UNCHANGED <<execution, bi, retVal, ran, ranCode, json, xml, results,
                   artifacts, pending, seen>>

\* The script is executed again in the same directory.
Rerun ==
    /\ pc \in {"exited", "crashed"}
    /\ execution < MaxExecutions
    /\ execution' = execution + 1
    /\ pc' = "bench"
    /\ bi' = 1
    /\ retVal' = 0
    /\ ran' = {}
    /\ ranCode' = [b \in Benchmarks |-> 0]
    /\ results' = [k \in Keys |-> NoProcessor]
    /\ artifacts' = 0
    /\ pending' = <<>>
    /\ seen' = <<>>
    /\ reported' = [k \in Keys |-> NotPrinted]
    /\ exitCode' = 0
    /\ UNCHANGED <<json, xml>>

Terminated ==
    /\ pc \in {"exited", "crashed"}
    /\ execution = MaxExecutions
    /\ UNCHANGED vars

Next ==
    \/ RunBenchmark \/ ParseArtifact \/ AddGbResult \/ JenkinsFails \/ Report
    \/ Rerun \/ Terminated

Spec == Init /\ [][Next]_vars

-----------------------------------------------------------------------------
(* Properties                                                              *)

TypeOK ==
    /\ execution \in 1..MaxExecutions
    /\ pc \in PCs
    /\ bi \in 1..Len(BenchmarkList) + 1
    /\ retVal \in ExitCodes
    /\ ran \subseteq Benchmarks
    /\ ranCode \in [Benchmarks -> ExitCodes]
    /\ json \in [Benchmarks -> JsonFile]
    /\ xml \in [Benchmarks -> XmlFile]
    /\ results \in [Keys -> Processor]
    /\ artifacts \in 0..MaxArtifacts
    /\ pending \in Seq(GBBench)
    /\ seen \in Seq(GBBench)
    /\ reported \in [Keys -> Printed]
    /\ exitCode \in ExitCodes

(* What lines 554-561 print for each (suite, test) is the number and the   *)
(* total time of all the results of that key in every artifact read, so    *)
(* get_mean_time is their mean (GBBenchResultProcessor, lines 233-237).    *)
ReportedMeanTime ==
    pc = "exited" =>
        \A k \in Keys :
            /\ reported[k].shown <=> SumOf(seen, k, One) > 0
            /\ reported[k].num = SumOf(seen, k, One)
            /\ reported[k].sum_time = SumOf(seen, k, GetTime)

\* The refinement mapping: the codes of the benchmarks run that failed, and
\* whether the script still runs.
FailuresOf == {ranCode[b] : b \in ran} \ {0}
StatusOf == IF pc \in {"exited", "crashed"} THEN pc ELSE "running"

Script == INSTANCE BenchmarkScript
            WITH done <- ran, failures <- FailuresOf, status <- StatusOf,
                 exit <- exitCode

(* The script keeps the promise of BenchmarkScript: each binary of         *)
(* benchmark_list is run once per execution, and the exit status is 0      *)
(* only when all ran and none failed, else the code of a failed one        *)
(* (ret_val, lines 396-406, returned by main at line 562), or 1 on a       *)
(* crash.                                                                  *)
ScriptContract == Script!Spec

(* The docstring of GBBenchResultProcessor (lines 233-237) promises the    *)
(* mean items_per_second: the processor of a key holds the sum of the      *)
(* items_per_second of every result added to it.                           *)
MeanItemsPerSecondIsMean ==
    \A k \in Keys :
        results[k].sum_items_per_second = SumOf(seen, k, ItemsOf)

(* The JUnit XML written for a benchmark in this execution (lines 432-434) *)
(* describes the results of this execution's run of that benchmark, as the *)
(* script's purpose (lines 3-5: measure the PR being built) requires.      *)
JUnitFromThisRun ==
    \A j \in 1..bi - 1 : xml[BenchmarkList[j]].run = execution

====
