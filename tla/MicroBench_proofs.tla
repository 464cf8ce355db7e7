--------------------------- MODULE MicroBench_proofs ---------------------------
(***************************************************************************)
(* Proofs about run_micro_bench.py: the script implements BenchmarkScript  *)
(* (its exit status reflects the benchmarks of the execution), and in      *)
(* particular never exits with 0 after a failed benchmark, for every       *)
(* benchmark list, every set of exit codes and every number of executions. *)
(***************************************************************************)
EXTENDS MicroBench, SequenceTheorems, TLAPS

\* The benchmarks of the first n entries of benchmark_list.
Prefix(n) == {BenchmarkList[j] : j \in 1..n}

\* The places where the script is still running.
Busy == {"bench", "collect", "add"}

(***************************************************************************)
(* The inductive invariant.  Outside a crash, the benchmarks run are       *)
(* exactly those before bi in the list, and ret_val is 0 exactly when none *)
(* of them failed, else the code of one that failed; the exit status is 0  *)
(* while the script runs and ret_val once it has exited.                   *)
(***************************************************************************)
RInv ==
    /\ execution \in 1..MaxExecutions
    /\ pc \in PCs
    /\ bi \in 1..Len(BenchmarkList) + 1
    /\ retVal \in ExitCodes
    /\ ran \subseteq Benchmarks
    /\ ranCode \in [Benchmarks -> ExitCodes]
    /\ exitCode \in ExitCodes
    /\ pc # "crashed" => ran = Prefix(bi - 1)
    /\ pc = "bench" => bi <= Len(BenchmarkList)
    /\ pc \in {"collect", "add", "exited"} => bi = Len(BenchmarkList) + 1
    /\ pc \in Busy => exitCode = 0
    /\ pc = "exited" => exitCode = retVal
    /\ pc # "crashed" => (retVal = 0 <=> FailuresOf = {})
    /\ pc # "crashed" => (retVal # 0 => retVal \in FailuresOf)

(***************************************************************************)
(* The steps of the script, projected on the variables the exit status     *)
(* depends on.                                                             *)
(***************************************************************************)
\* run_single_benchmark and its conversion succeed (lines 399-403).
BenchStep(code) ==
    /\ pc = "bench"
    /\ ran' = ran \cup {BenchmarkList[bi]}
    /\ ranCode' = [ranCode EXCEPT ![BenchmarkList[bi]] = code]
    /\ retVal' = NextRetVal(code)
    /\ bi' = bi + 1
    /\ pc' = IF bi = Len(BenchmarkList) THEN "collect" ELSE "bench"
    /\ UNCHANGED <<execution, exitCode>>

\* An exception ends the script, possibly after a benchmark ran.
CrashStep ==
    /\ pc \in Busy
    /\ pc' = "crashed"
    /\ exitCode' = 1
    /\ UNCHANGED <<execution, bi, retVal>>
    /\ \/ UNCHANGED <<ran, ranCode>>
       \/ /\ pc = "bench"
          /\ \E code \in ExitCodes :
                /\ ran' = ran \cup {BenchmarkList[bi]}
                /\ ranCode' = [ranCode EXCEPT ![BenchmarkList[bi]] = code]

\* An artifact is parsed or one of its results added.
QuietStep ==
    /\ pc \in {"collect", "add"}
    /\ pc' \in {"collect", "add"}
    /\ UNCHANGED <<execution, bi, retVal, ran, ranCode, exitCode>>

\* The means are printed and the script exits with ret_val (line 562).
ExitStep ==
    /\ pc = "collect"
    /\ pc' = "exited"
    /\ exitCode' = retVal
    /\ UNCHANGED <<execution, bi, retVal, ran, ranCode>>

\* The script is executed again.
RerunStep ==
    /\ pc \in {"exited", "crashed"}
    /\ execution < MaxExecutions
    /\ execution' = execution + 1
    /\ pc' = "bench"
    /\ bi' = 1
    /\ retVal' = 0
    /\ ran' = {}
    /\ ranCode' = [b \in Benchmarks |-> 0]
    /\ exitCode' = 0

StutterStep == UNCHANGED <<execution, pc, bi, retVal, ran, ranCode, exitCode>>

-----------------------------------------------------------------------------
(* Facts about the constants.                                              *)

LEMMA ListFacts ==
    /\ Len(BenchmarkList) \in Nat \ {0}
    /\ DOMAIN BenchmarkList = 1..Len(BenchmarkList)
    /\ \A j \in 1..Len(BenchmarkList) : BenchmarkList[j] \in Benchmarks
    /\ \A j1, j2 \in 1..Len(BenchmarkList) :
          BenchmarkList[j1] = BenchmarkList[j2] => j1 = j2
    /\ 0 \in ExitCodes /\ 1 \in ExitCodes /\ ExitCodes \subseteq Nat
    /\ MaxExecutions \in Nat \ {0}
BY MicroBenchAssumption DEF Benchmarks

\* The whole list holds every benchmark.
LEMMA PrefixAll == Prefix(Len(BenchmarkList)) = Benchmarks
BY ListFacts DEF Prefix, Benchmarks

\* Extending a prefix by one entry adds that entry, which was not in it.
LEMMA PrefixSucc ==
    ASSUME NEW n \in 1..Len(BenchmarkList)
    PROVE  /\ Prefix(n) = Prefix(n - 1) \cup {BenchmarkList[n]}
           /\ BenchmarkList[n] \notin Prefix(n - 1)
<1>1. Prefix(n) = Prefix(n - 1) \cup {BenchmarkList[n]}
  BY ListFacts DEF Prefix
<1>2. BenchmarkList[n] \notin Prefix(n - 1)
  BY ListFacts DEF Prefix
<1>. QED BY <1>1, <1>2

\* A benchmark run for the first time adds its code to the failures.
LEMMA FailuresAfterRun ==
    ASSUME NEW b \in Benchmarks, NEW code \in ExitCodes,
           ran \subseteq Benchmarks, ranCode \in [Benchmarks -> ExitCodes],
           b \notin ran,
           ran' = ran \cup {b},
           ranCode' = [ranCode EXCEPT ![b] = code]
    PROVE  FailuresOf' = FailuresOf \cup ({code} \ {0})
BY DEF FailuresOf

-----------------------------------------------------------------------------
(* Every step of the script is one of the projected steps.                 *)

LEMMA NextSteps ==
    ASSUME [Next]_vars
    PROVE  \/ \E code \in ExitCodes : BenchStep(code)
           \/ CrashStep
           \/ QuietStep
           \/ ExitStep
           \/ RerunStep
           \/ StutterStep
<1>1. CASE RunBenchmark
  <2>1. PICK code \in ExitCodes, writes \in BOOLEAN, usable \in BOOLEAN :
            LET b == BenchmarkList[bi]
                out == IF writes
                       THEN [present |-> TRUE, run |-> execution, usable |-> usable]
                       ELSE json[b]
            IN  /\ pc = "bench"
                /\ ran' = ran \cup {b}
                /\ ranCode' = [ranCode EXCEPT ![b] = code]
                /\ IF out.present /\ out.usable
                   THEN /\ retVal' = NextRetVal(code)
                        /\ bi' = bi + 1
                        /\ pc' = IF bi = Len(BenchmarkList) THEN "collect"
                                 ELSE "bench"
                        /\ UNCHANGED exitCode
                   ELSE /\ pc' = "crashed"
                        /\ exitCode' = 1
                        /\ UNCHANGED <<retVal, bi>>
                /\ UNCHANGED execution
    BY <1>1 DEF RunBenchmark
  <2>. QED BY <2>1 DEF BenchStep, CrashStep, Busy
<1>2. CASE ParseArtifact
  BY <1>2 DEF ParseArtifact, CrashStep, QuietStep, Busy
<1>3. CASE AddGbResult
  BY <1>3 DEF AddGbResult, CrashStep, QuietStep, Busy
<1>4. CASE JenkinsFails
  BY <1>4 DEF JenkinsFails, CrashStep, Busy
<1>5. CASE Report
  BY <1>5 DEF Report, CrashStep, ExitStep, Busy
<1>6. CASE Rerun
  BY <1>6 DEF Rerun, RerunStep
<1>7. CASE Terminated \/ UNCHANGED vars
  BY <1>7 DEF Terminated, vars, StutterStep
<1>. QED BY <1>1, <1>2, <1>3, <1>4, <1>5, <1>6, <1>7 DEF Next

-----------------------------------------------------------------------------
(* RInv is an inductive invariant.                                         *)

LEMMA InitRInv == Init => RInv
BY ListFacts DEF Init, RInv, Prefix, PCs, FailuresOf, Busy

LEMMA NextRInv == RInv /\ [Next]_vars => RInv'
<1> SUFFICES ASSUME RInv, [Next]_vars PROVE RInv'
  OBVIOUS
<1>1. CASE \E code \in ExitCodes : BenchStep(code)
  <2>1. PICK code \in ExitCodes : BenchStep(code)
    BY <1>1
  <2>2. /\ pc = "bench" /\ bi \in 1..Len(BenchmarkList)
        /\ ran = Prefix(bi - 1)
    BY <2>1 DEF RInv, BenchStep
  <2>3. /\ ran' = Prefix(bi)
        /\ BenchmarkList[bi] \notin ran
        /\ BenchmarkList[bi] \in Benchmarks
    BY <2>1, <2>2, PrefixSucc, ListFacts DEF BenchStep
  <2>4. FailuresOf' = FailuresOf \cup ({code} \ {0})
    BY <2>1, <2>3, FailuresAfterRun DEF RInv, BenchStep
  <2>5. /\ ran' \subseteq Benchmarks
        /\ ranCode' \in [Benchmarks -> ExitCodes]
    BY <2>1, <2>3 DEF RInv, BenchStep
  <2>6. /\ retVal' \in ExitCodes
        /\ retVal' = 0 <=> FailuresOf' = {}
        /\ retVal' # 0 => retVal' \in FailuresOf'
    BY <2>1, <2>2, <2>4 DEF RInv, BenchStep, NextRetVal
  <2>7. ran' = Prefix(bi' - 1)
    BY <2>1, <2>2, <2>3 DEF BenchStep
  <2>8. /\ bi' \in 1..Len(BenchmarkList) + 1
        /\ pc' \in PCs \cap Busy
        /\ pc' = "bench" => bi' <= Len(BenchmarkList)
        /\ pc' \in {"collect", "add", "exited"} => bi' = Len(BenchmarkList) + 1
    BY <2>1, <2>2 DEF BenchStep, PCs, Busy
  <2>9. exitCode' = 0 /\ execution' = execution
    BY <2>1, <2>2 DEF RInv, BenchStep, Busy
  <2>. QED BY <2>5, <2>6, <2>7, <2>8, <2>9, ListFacts DEF RInv, Busy
<1>2. CASE CrashStep
  <2>1. /\ ran' \subseteq Benchmarks
        /\ ranCode' \in [Benchmarks -> ExitCodes]
    <3>1. CASE UNCHANGED <<ran, ranCode>>
      BY <3>1 DEF RInv
    <3>2. CASE /\ pc = "bench"
               /\ \E code \in ExitCodes :
                     /\ ran' = ran \cup {BenchmarkList[bi]}
                     /\ ranCode' = [ranCode EXCEPT ![BenchmarkList[bi]] = code]
      BY <3>2, ListFacts DEF RInv
    <3>. QED BY <1>2, <3>1, <3>2 DEF CrashStep
  <2>2. pc' = "crashed" /\ exitCode' = 1
        /\ UNCHANGED <<execution, bi, retVal>>
    BY <1>2 DEF CrashStep
  <2>. QED BY <2>1, <2>2, ListFacts DEF RInv, PCs, Busy
<1>3. CASE QuietStep
  BY <1>3 DEF RInv, QuietStep, PCs, Busy, FailuresOf
<1>4. CASE ExitStep
  BY <1>4 DEF RInv, ExitStep, PCs, Busy, FailuresOf
<1>5. CASE RerunStep
  BY <1>5, ListFacts DEF RInv, RerunStep, PCs, Busy, FailuresOf, Prefix
<1>6. CASE StutterStep
  BY <1>6 DEF RInv, StutterStep, FailuresOf
<1>. QED BY <1>1, <1>2, <1>3, <1>4, <1>5, <1>6, NextSteps

-----------------------------------------------------------------------------
(* The refinement: run_micro_bench.py implements BenchmarkScript under the *)
(* mapping of MicroBench (done is ran, failures the non-zero codes of ran, *)
(* the status is running until the script exits or crashes).              *)

LEMMA InitRefines == Init => Script!Init
BY DEF Init, Script!Init, FailuresOf, StatusOf

LEMMA NextRefines ==
    RInv /\ [Next]_vars => [Script!Next]_Script!vars
<1> SUFFICES ASSUME RInv, [Next]_vars PROVE [Script!Next]_Script!vars
  OBVIOUS
<1>1. CASE \E code \in ExitCodes : BenchStep(code)
  <2>1. PICK code \in ExitCodes : BenchStep(code)
    BY <1>1
  <2>2. /\ bi \in 1..Len(BenchmarkList)
        /\ ran = Prefix(bi - 1)
    BY <2>1 DEF RInv, BenchStep
  <2>5. /\ BenchmarkList[bi] \notin ran
        /\ BenchmarkList[bi] \in Benchmarks
    BY <2>2, PrefixSucc, ListFacts
  <2>3. FailuresOf' = FailuresOf \cup ({code} \ {0})
    BY <2>1, <2>5, FailuresAfterRun DEF RInv, BenchStep
  <2>4. Script!Bench(BenchmarkList[bi], code)
    BY <2>1, <2>5, <2>3 DEF Script!Bench, BenchStep, StatusOf
  <2>. QED BY <2>5, <2>4 DEF Script!Next
<1>2. CASE CrashStep
  <2>1. /\ ran \subseteq ran' /\ ran' \subseteq Benchmarks
        /\ FailuresOf \subseteq FailuresOf'
        /\ FailuresOf' \subseteq ExitCodes \ {0}
    <3>1. CASE UNCHANGED <<ran, ranCode>>
      BY <3>1 DEF RInv, FailuresOf
    <3>2. CASE /\ pc = "bench"
               /\ \E code \in ExitCodes :
                     /\ ran' = ran \cup {BenchmarkList[bi]}
                     /\ ranCode' = [ranCode EXCEPT ![BenchmarkList[bi]] = code]
      <4>1. PICK code \in ExitCodes :
                     /\ ran' = ran \cup {BenchmarkList[bi]}
                     /\ ranCode' = [ranCode EXCEPT ![BenchmarkList[bi]] = code]
        BY <3>2
      <4>4. bi \in 1..Len(BenchmarkList) /\ ran = Prefix(bi - 1)
        BY <3>2 DEF RInv
      <4>2. /\ BenchmarkList[bi] \notin ran
            /\ BenchmarkList[bi] \in Benchmarks
        BY <4>4, PrefixSucc, ListFacts
      <4>3. FailuresOf' = FailuresOf \cup ({code} \ {0})
        BY <4>1, <4>2, FailuresAfterRun DEF RInv
      <4>. QED BY <4>1, <4>2, <4>3 DEF RInv, FailuresOf
    <3>. QED BY <1>2, <3>1, <3>2 DEF CrashStep
  <2>2. Script!Crash
    BY <1>2, <2>1 DEF Script!Crash, Script!Failed, CrashStep, StatusOf, Busy
  <2>. QED BY <2>2 DEF Script!Next
<1>3. CASE QuietStep
  BY <1>3 DEF QuietStep, Script!vars, StatusOf, FailuresOf
<1>4. CASE ExitStep
  <2>1. ran = Benchmarks
    BY <1>4, PrefixAll DEF RInv, ExitStep
  <2>2. Script!Exit
    BY <1>4, <2>1 DEF RInv, ExitStep, Script!Exit, StatusOf, FailuresOf
  <2>. QED BY <2>2 DEF Script!Next
<1>5. CASE RerunStep
  <2>1. Script!Rerun
    BY <1>5 DEF RerunStep, Script!Rerun, StatusOf, FailuresOf
  <2>. QED BY <2>1 DEF Script!Next
<1>6. CASE StutterStep
  BY <1>6 DEF StutterStep, Script!vars, StatusOf, FailuresOf
<1>. QED BY <1>1, <1>2, <1>3, <1>4, <1>5, <1>6, NextSteps

(* run_micro_bench.py implements BenchmarkScript: the property             *)
(* ScriptContract that MicroBenchSafety checks holds for every benchmark   *)
(* list without repeats, every set of exit codes and every number of       *)
(* executions.                                                             *)
THEOREM Refinement == Spec => ScriptContract
<1>1. Init => RInv
  BY InitRInv
<1>2. RInv /\ [Next]_vars => RInv'
  BY NextRInv
<1>3. Init => Script!Init
  BY InitRefines
<1>4. RInv /\ [Next]_vars => [Script!Next]_Script!vars
  BY NextRefines
<1>. QED BY <1>1, <1>2, <1>3, <1>4, PTL DEF Spec, ScriptContract, Script!Spec



-----------------------------------------------------------------------------
(* Type correctness.  RInv types the variables the exit status depends on; *)
(* DataOK types the files, the processors and the artifact being added.    *)

DataOK ==
    /\ json \in [Benchmarks -> JsonFile]
    /\ xml \in [Benchmarks -> XmlFile]
    /\ results \in [Keys -> Processor]
    /\ artifacts \in 0..MaxArtifacts
    /\ pending \in Seq(GBBench)
    /\ seen \in Seq(GBBench)
    /\ reported \in [Keys -> Printed]

\* The invariant behind type correctness.
TInv == RInv /\ DataOK
\* An artifact file is a sequence of Google Benchmark results.
LEMMA ArtifactFilesAreSeqs == ArtifactFiles \subseteq Seq(GBBench)
<1> SUFFICES ASSUME NEW f \in ArtifactFiles PROVE f \in Seq(GBBench)
    OBVIOUS
<1>1. PICK n \in 1..MaxFileLen : f \in [1..n -> GBBench]
    BY DEF ArtifactFiles
<1>2. n \in Nat
    BY MicroBenchAssumption
<1>3. QED
    BY <1>1, <1>2, SeqDef

\* add_gbresult keeps a processor a processor.
LEMMA AccumulateType ==
    ASSUME NEW p \in Processor, NEW b \in GBBench
    PROVE  Accumulate(p, b) \in Processor
<1>1. GetTime(b) \in Nat /\ b.items_per_second \in Nat /\ b.time_unit \in Units
    BY DEF GBBench, GetTime
<1>2. QED
    BY <1>1 DEF Accumulate, Processor

LEMMA InitTInv == Init => TInv
<1> SUFFICES ASSUME Init PROVE TInv
    OBVIOUS
<1>1. RInv
    BY InitRInv
<1>2. NoFile \in JsonFile /\ [present |-> FALSE, run |-> 0] \in XmlFile
    BY MicroBenchAssumption DEF NoFile, JsonFile, XmlFile
<1>3. NoProcessor \in Processor /\ NotPrinted \in Printed
    BY DEF NoProcessor, Processor, NotPrinted, Printed
<1>4. DataOK
    BY <1>2, <1>3, MicroBenchAssumption, EmptySeq DEF Init, DataOK
<1>5. QED
    BY <1>1, <1>4 DEF TInv

\* Every step keeps the files, the processors and the reports in their types.
LEMMA NextTInv == TInv /\ [Next]_vars => TInv'
<1> SUFFICES ASSUME TInv, [Next]_vars PROVE TInv'
    OBVIOUS
<1>0. RInv'
    BY NextRInv DEF TInv
<1> USE DEF TInv
<1> SUFFICES DataOK'
    BY <1>0
<1>1. CASE RunBenchmark
    <2>1. pc = "bench" /\ bi \in 1..Len(BenchmarkList)
        BY <1>1 DEF RunBenchmark, RInv
    <2>2. BenchmarkList[bi] \in Benchmarks /\ execution \in 0..MaxExecutions
        BY <2>1, ListFacts DEF RInv
    <2>3. PICK code \in ExitCodes, writes \in BOOLEAN, usable \in BOOLEAN :
            LET b == BenchmarkList[bi]
                out == IF writes
                       THEN [present |-> TRUE, run |-> execution, usable |-> usable]
                       ELSE json[b]
            IN  /\ json' = [json EXCEPT ![b] = out]
                /\ \/ xml' = [xml EXCEPT ![b] = [present |-> TRUE, run |-> out.run]]
                   \/ xml' = xml
                /\ UNCHANGED <<results, artifacts, pending, seen, reported>>
        BY <1>1 DEF RunBenchmark
    <2> DEFINE b == BenchmarkList[bi]
               out == IF writes
                      THEN [present |-> TRUE, run |-> execution, usable |-> usable]
                      ELSE json[b]
    <2>4. out \in JsonFile
        BY <2>2 DEF DataOK, JsonFile
    <2>5. json' \in [Benchmarks -> JsonFile]
        BY <2>2, <2>3, <2>4 DEF DataOK
    <2>6. xml' \in [Benchmarks -> XmlFile]
        <3>1. [present |-> TRUE, run |-> out.run] \in XmlFile
            BY <2>4 DEF JsonFile, XmlFile
        <3>2. QED
            BY <2>2, <2>3, <3>1 DEF DataOK
    <2>7. QED
        BY <2>3, <2>5, <2>6 DEF DataOK
<1>2. CASE ParseArtifact
    <2>1. /\ artifacts' = artifacts + 1 /\ artifacts < MaxArtifacts
          /\ \/ \E file \in ArtifactFiles : pending' = file
             \/ pending' = pending
          /\ UNCHANGED <<json, xml, results, seen, reported>>
        BY <1>2 DEF ParseArtifact
    <2>2. pending' \in Seq(GBBench)
        BY <2>1, ArtifactFilesAreSeqs DEF DataOK
    <2>3. artifacts' \in 0..MaxArtifacts
        BY <2>1, MicroBenchAssumption DEF DataOK
    <2>4. QED
        BY <2>1, <2>2, <2>3 DEF DataOK
<1>3. CASE AddGbResult
    <2>1. pending # <<>> /\ pending \in Seq(GBBench)
        BY <1>3 DEF AddGbResult, DataOK
    <2>2. Head(pending) \in GBBench /\ Tail(pending) \in Seq(GBBench)
        BY <2>1, HeadTailProperties
    <2>3. KeyOf(Head(pending)) \in Keys
        BY <2>2 DEF KeyOf, Keys, GBBench
    <2>4. Accumulate(results[KeyOf(Head(pending))], Head(pending)) \in Processor
        BY <2>2, <2>3, AccumulateType DEF DataOK
    <2>5. Append(seen, Head(pending)) \in Seq(GBBench)
        BY <2>2, AppendProperties DEF DataOK
    <2>6. \/ /\ results' = [results EXCEPT ![KeyOf(Head(pending))] =
                 Accumulate(results[KeyOf(Head(pending))], Head(pending))]
             /\ seen' = Append(seen, Head(pending))
             /\ pending' = Tail(pending)
          \/ UNCHANGED <<results, seen, pending>>
        BY <1>3 DEF AddGbResult
    <2>7. UNCHANGED <<json, xml, artifacts, reported>>
        BY <1>3 DEF AddGbResult
    <2>8. QED
        BY <2>2, <2>3, <2>4, <2>5, <2>6, <2>7 DEF DataOK
<1>4. CASE JenkinsFails
    BY <1>4 DEF JenkinsFails, DataOK
<1>5. CASE Report
    <2>1. ASSUME NEW k \in Keys, results[k].exists
          PROVE  [shown |-> TRUE, sum_time |-> results[k].sum_time,
                  num |-> results[k].num_results] \in Printed
        BY DEF DataOK, Processor, Printed
    <2>2. NotPrinted \in Printed
        BY DEF NotPrinted, Printed
    <2>3. reported' \in [Keys -> Printed]
        BY <1>5, <2>1, <2>2 DEF Report
    <2>4. QED
        BY <1>5, <2>3 DEF Report, DataOK
<1>6. CASE Rerun
    <2>1. NoProcessor \in Processor /\ NotPrinted \in Printed
        BY DEF NoProcessor, Processor, NotPrinted, Printed
    <2>2. QED
        BY <1>6, <2>1, EmptySeq, MicroBenchAssumption DEF Rerun, DataOK
<1>7. CASE Terminated \/ UNCHANGED vars
    BY <1>7 DEF Terminated, vars, DataOK
<1>8. QED
    BY <1>1, <1>2, <1>3, <1>4, <1>5, <1>6, <1>7 DEF Next

(* Type correctness of run_micro_bench.py for every benchmark list without *)
(* repeats and every bound: the index of run_all_benchmarks stays within   *)
(* benchmark_list, every exit status is a benchmark's code or 1, and the   *)
(* files, processors and printed means keep their shape over executions.   *)
THEOREM TypeCorrect == Spec => []TypeOK
<1>1. TInv => TypeOK
    BY DEF TInv, RInv, DataOK, TypeOK
<1>2. QED
    BY <1>1, InitTInv, NextTInv, PTL DEF Spec

================================================================================
