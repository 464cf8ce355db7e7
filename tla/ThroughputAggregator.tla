------------------------- MODULE ThroughputAggregator -------------------------
(***************************************************************************)
(* aggregate_log_throughput (log_throughput.py lines 142-168): the average *)
(* log throughput of a metrics file, and the reference computation of      *)
(* section 4.3 of the specification.  A throughput is kept as the pair     *)
(* (total_records, total_time); records per millisecond is                 *)
(* total_records * 1000 / total_time, and two pairs are compared by cross  *)
(* multiplication so that no division is performed in the model.          *)
(***************************************************************************)
EXTENDS Integers, Sequences

\* One row of a metrics CSV file: times in microseconds.
Sample == [start_time : Nat, elapsed_time : Nat, num_records : Nat]

\* The outcome of an aggregation: "not enough data", or the two totals.
NotEnoughData == [ok |-> FALSE, total_records |-> 0, total_time |-> 0]
Totals(records, time) == [ok |-> TRUE, total_records |-> records, total_time |-> time]

\* df[METRICS_NUM_RECORDS_COL].sum() (line 163).
SumRecords(df) ==
    LET sum[k \in 0..Len(df)] ==
            IF k = 0 THEN 0 ELSE sum[k - 1] + df[k].num_records
    IN  sum[Len(df)]

\* Mutant: the end of the window is the start of the last row (line 159
\* without its elapsed time).
AggregateNoElapsed(df) ==
    LET rest == SubSeq(df, 2, Len(df))
    IN  IF Len(rest) <= 1
        THEN NotEnoughData
        ELSE Totals(SumRecords(rest),
                    rest[Len(rest)].start_time - rest[1].start_time)

\* Lines 148-166: drop the first row, refuse one row or none, and divide the
\* records of the remaining rows by the time from the start of the first
\* remaining row to the end of the last one.
AggregateLogThroughput(df) ==
    LET rest == SubSeq(df, 2, Len(df))
        last == rest[Len(rest)]
    IN  IF Len(rest) <= 1
        THEN NotEnoughData
        ELSE Totals(SumRecords(rest),
                    last.start_time + last.elapsed_time - rest[1].start_time)

(* Specification 4.3: at least two records are required; the first one is  *)
(* discarded and the same totals are taken over the others.                *)
SpecThroughput(df) ==
    LET rest == SubSeq(df, 2, Len(df))
        last == rest[Len(rest)]
    IN  IF Len(df) < 2
        THEN NotEnoughData
        ELSE Totals(SumRecords(rest),
                    last.start_time + last.elapsed_time - rest[1].start_time)

\* Two outcomes state the same throughput.
SameThroughput(a, b) ==
    /\ a.ok = b.ok
    /\ a.ok => a.total_records * b.total_time = b.total_records * a.total_time

\* Sum of the sampled intervals of a sequence of rows.
SumElapsed(df) ==
    LET sum[k \in 0..Len(df)] ==
            IF k = 0 THEN 0 ELSE sum[k - 1] + df[k].elapsed_time
    IN  sum[Len(df)]

(* The reference reproduces the example of specification section 8: 95   *)
(* records over 300 us.                                                    *)
ASSUME ExampleOfSection8 ==
    LET df == << [start_time |-> 0,   elapsed_time |-> 100, num_records |-> 5],
                 [start_time |-> 100, elapsed_time |-> 100, num_records |-> 50],
                 [start_time |-> 300, elapsed_time |-> 100, num_records |-> 45] >>
    IN  SpecThroughput(df) = Totals(95, 300)

=============================================================================
