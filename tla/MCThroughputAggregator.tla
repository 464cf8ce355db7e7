------------------------ MODULE MCThroughputAggregator ------------------------
(***************************************************************************)
(* A metrics file written by one server: rows are appended one at a time,  *)
(* each sampled interval starting when or after the previous one ended, as *)
(* the server's metrics thread writes them.  Every prefix of every such    *)
(* file is aggregated.                                                      *)
(***************************************************************************)
EXTENDS ThroughputAggregator

CONSTANTS
    MaxSamples, \* rows in a file
    MaxElapsed, \* longest sampled interval
    MaxGap,     \* longest pause between two sampled intervals
    MaxRecords  \* records counted in one row

ASSUME BoundsAssumption ==
    {MaxSamples, MaxElapsed, MaxGap, MaxRecords} \subseteq Nat

VARIABLE df

EndOf(row) == row.start_time + row.elapsed_time

Init == df = <<>>

\* The server appends a row for the next sampling interval.
AppendSample ==
    /\ Len(df) < MaxSamples
    /\ \E gap \in 0..MaxGap, elapsed \in 0..MaxElapsed, n \in 0..MaxRecords :
          LET start == IF df = <<>> THEN 0 ELSE EndOf(df[Len(df)]) + gap
          IN  df' = Append(df, [start_time |-> start, elapsed_time |-> elapsed,
                                num_records |-> n])

Spec == Init /\ [][AppendSample]_df

TypeOK == df \in Seq(Sample) /\ Len(df) <= MaxSamples

(* The time the code divides by covers every sampled interval it counts    *)
(* records of, and equals their sum when the intervals are contiguous: the *)
(* window runs from the start of the first kept row to the end of the last *)
(* (lines 159-161), so no counted record falls outside it.                 *)
WindowCoversSamples ==
    LET res  == AggregateLogThroughput(df)
        rest == SubSeq(df, 2, Len(df))
        contiguous == \A k \in 1..Len(rest) - 1 :
                          rest[k + 1].start_time = EndOf(rest[k])
    IN  res.ok => /\ res.total_time >= SumElapsed(rest)
                  /\ contiguous => res.total_time = SumElapsed(rest)

(* Specification 8: a file of at least two rows yields the throughput of   *)
(* section 4.3, a shorter one "not enough data".                           *)
AggregateMatchesSpec ==
    SameThroughput(AggregateLogThroughput(df), SpecThroughput(df))

=============================================================================
