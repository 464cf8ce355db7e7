--------------------------- MODULE MCLogThroughput ---------------------------
(* Model values for the metrics files of LogThroughput.                    *)
EXTENDS LogThroughput

CONSTANTS LogSerializerCsv, RecoveryManagerCsv, OtherCsv

\* METRICS_FILES holds the two files the test can measure and one more.
MCMetricsFiles == {LogSerializerCsv, RecoveryManagerCsv, OtherCsv}

=============================================================================
