CONSTANTS
    DataTableBenchmark = DataTableBenchmark
    TupleAccessStrategyBenchmark = TupleAccessStrategyBenchmark
    S = S
    T1 = T1
    T2 = T2
    Ms = Ms
    Ns = Ns
    BenchmarkList <- MCBenchmarkList
    Suites <- MCSuites
    Tests <- MCTests
    Units <- MCUnits
    ExitCodes <- MCExitCodes
    MaxExecutions = 2
    MaxArtifacts = 2
    MaxFileLen = 2
    MaxTime = 1
    MaxItems = 1

SPECIFICATION Spec

\* A benchmark of the second execution fails before writing its JSON file;
\* the file of the first execution is converted instead.
INVARIANT JUnitFromThisRun
