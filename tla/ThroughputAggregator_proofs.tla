---------------------- MODULE ThroughputAggregator_proofs ----------------------
(***************************************************************************)
(* Proofs about aggregate_log_throughput (log_throughput.py lines 142-168) *)
(* over a metrics file written row by row: the window it divides by covers *)
(* the sampled intervals of the rows it counts, for every number of rows,  *)
(* every interval length, every gap and every record count.               *)
(***************************************************************************)
EXTENDS MCThroughputAggregator, SequenceTheorems, NaturalsInduction, TLAPS

\* The rows aggregate_log_throughput keeps (line 150).
Rest == SubSeq(df, 2, Len(df))

\* Every kept row starts where the one before it ended.
Contiguous(rest) ==
    \A k \in 1..Len(rest) - 1 : rest[k + 1].start_time = EndOf(rest[k])

\* The time from the start of the first kept row to the end of the last.
Window == EndOf(df[Len(df)]) - df[2].start_time

(***************************************************************************)
(* The inductive invariant: the sampled time of the kept rows is a         *)
(* natural number, the window spans at least it, and exactly it when the   *)
(* kept rows are contiguous.                                               *)
(***************************************************************************)
AInv ==
    /\ TypeOK
    /\ SumElapsed(Rest) \in Nat
    /\ Len(df) >= 2 => Window >= SumElapsed(Rest)
    /\ Len(df) >= 2 /\ Contiguous(Rest) => Window = SumElapsed(Rest)

-----------------------------------------------------------------------------
(* Lemmas about the operators.                                             *)

\* The recursive function behind SumElapsed(s), before it is applied.
ElapsedFcn(s) ==
    LET sum[k \in 0..Len(s)] ==
            IF k = 0 THEN 0 ELSE sum[k - 1] + s[k].elapsed_time
    IN  sum

\* Appending a row adds its sampled interval to the sum.
LEMMA SumElapsedAppend ==
    ASSUME NEW s \in Seq(Sample), NEW r \in Sample
    PROVE  SumElapsed(Append(s, r)) = SumElapsed(s) + r.elapsed_time
<1> DEFINE t == Append(s, r)
           L == Len(s)
           F == ElapsedFcn(t)
           G == ElapsedFcn(s)
           H == [i \in 0..L |-> F[i]]
           DefS(v, i) == v + s[i].elapsed_time
           DefT(v, i) == v + t[i].elapsed_time
<1>1. /\ L \in Nat /\ t \in Seq(Sample) /\ Len(t) = L + 1 /\ Len(t) \in Nat
      /\ \A i \in 1..L : t[i] = s[i]
      /\ t[L + 1] = r
    BY AppendProperties, LenProperties
<1>2. FiniteNatInductiveDefConclusion(F, 0, DefT, 0, Len(t))
    <2>1. FiniteNatInductiveDefHypothesis(F, 0, DefT, 0, Len(t))
        BY DEF FiniteNatInductiveDefHypothesis, ElapsedFcn
    <2>2. QED
        BY <1>1, <2>1, FiniteNatInductiveDef
<1>3. FiniteNatInductiveDefConclusion(G, 0, DefS, 0, L)
    <2>1. FiniteNatInductiveDefHypothesis(G, 0, DefS, 0, L)
        BY DEF FiniteNatInductiveDefHypothesis, ElapsedFcn
    <2>2. QED
        BY <1>1, <2>1, FiniteNatInductiveDef
<1>4. FiniteNatInductiveDefConclusion(H, 0, DefS, 0, L)
    <2>1. \A i \in 0..L : F[i] = IF i = 0 THEN 0 ELSE DefT(F[i - 1], i)
        BY <1>1, <1>2 DEF FiniteNatInductiveDefConclusion
    <2>2. \A i \in 0..L : H[i] = IF i = 0 THEN 0 ELSE DefS(H[i - 1], i)
        BY <1>1, <2>1
    <2>3. QED
        BY <2>2 DEF FiniteNatInductiveDefConclusion
<1>5. H = G
    BY <1>1, <1>3, <1>4, FiniteNatInductiveUnique
<1>6. F[L + 1] = F[L] + r.elapsed_time
    BY <1>1, <1>2 DEF FiniteNatInductiveDefConclusion
<1>7. F[L] = G[L]
    BY <1>1, <1>5
<1>8. QED
    BY <1>1, <1>6, <1>7 DEF SumElapsed, ElapsedFcn

\* A length is zero, one, or at least two.
LEMMA LenCases ==
    ASSUME NEW i \in Nat
    PROVE  /\ i = 0 \/ i = 1 \/ i >= 2
           /\ i = 0 \/ i \in 1..2 \/ i >= 3
OBVIOUS

\* The length SubSeq gives the rows after the first of a file of n rows.
LEMMA TailLen ==
    ASSUME NEW n \in Nat, n >= 1
    PROVE  /\ (IF 2 <= n THEN n - 2 + 1 ELSE 0) = n - 1
           /\ (IF 2 <= n + 1 THEN n + 1 - 2 + 1 ELSE 0) = n
OBVIOUS

\* No row, no sampled time.
LEMMA SumElapsedEmpty == SumElapsed(<<>>) = 0
<1> DEFINE F == ElapsedFcn(<<>>)
           Def(v, i) == v + <<>>[i].elapsed_time
<1>1. Len(<<>>) = 0
    BY EmptySeq
<1>2. FiniteNatInductiveDefConclusion(F, 0, Def, 0, Len(<<>>))
    <2>1. FiniteNatInductiveDefHypothesis(F, 0, Def, 0, Len(<<>>))
        BY DEF FiniteNatInductiveDefHypothesis, ElapsedFcn
    <2>2. QED
        BY <1>1, <2>1, FiniteNatInductiveDef
<1>3. QED
    BY <1>1, <1>2 DEF FiniteNatInductiveDefConclusion, SumElapsed, ElapsedFcn

(* The rows kept of a file with one more row are the rows kept before and  *)
(* that row.                                                               *)
LEMMA RestAppend ==
    ASSUME NEW s \in Seq(Sample), NEW r \in Sample, Len(s) >= 1
    PROVE  /\ SubSeq(s, 2, Len(s)) \in Seq(Sample)
           /\ Len(SubSeq(s, 2, Len(s))) = Len(s) - 1
           /\ \A i \in 1..Len(s) - 1 : SubSeq(s, 2, Len(s))[i] = s[i + 1]
           /\ SubSeq(Append(s, r), 2, Len(Append(s, r))) =
                  Append(SubSeq(s, 2, Len(s)), r)
<1> DEFINE t == Append(s, r)
           u == SubSeq(s, 2, Len(s))
<1>0. Len(s) \in Nat /\ Len(s) >= 1
    BY LenProperties
<1>1. Len(s) \in Nat /\ t \in Seq(Sample) /\ Len(t) = Len(s) + 1
      /\ \A i \in 1..Len(s) : t[i] = s[i] /\ t[Len(s) + 1] = r
    BY AppendProperties, LenProperties
<1>2. /\ u \in Seq(Sample) /\ Len(u) = Len(s) - 1
      /\ \A i \in 1..Len(s) - 1 : u[i] = s[i + 1]
    <2>1. \A i \in 2..Len(s) : s[i] \in Sample
        BY <1>1, ElementOfSeq
    <2>2. /\ u \in Seq(Sample)
          /\ Len(u) = IF 2 <= Len(s) THEN Len(s) - 2 + 1 ELSE 0
          /\ \A i \in 1..Len(s) - 2 + 1 : u[i] = s[2 + i - 1]
        BY <1>1, <2>1, SubSeqProperties
    <2>3. Len(u) = Len(s) - 1
        <3>1. Len(u) = IF 2 <= Len(s) THEN Len(s) - 2 + 1 ELSE 0
            BY <2>2
        <3>2. QED
            BY <1>0, <3>1, TailLen, Zenon
    <2>4. ASSUME NEW i \in 1..Len(s) - 1 PROVE u[i] = s[i + 1]
        <3>1. i \in 1..Len(s) - 2 + 1 /\ 2 + i - 1 = i + 1
            BY <1>0, <1>1
        <3>2. QED
            BY <2>2, <3>1
    <2>5. QED
        BY <2>2, <2>3, <2>4
<1>3. /\ SubSeq(t, 2, Len(t)) \in Seq(Sample)
      /\ Len(SubSeq(t, 2, Len(t))) = Len(s)
      /\ \A i \in 1..Len(s) : SubSeq(t, 2, Len(t))[i] = t[i + 1]
    <2>1. \A i \in 2..Len(t) : t[i] \in Sample
        BY <1>1, ElementOfSeq
    <2>2. /\ SubSeq(t, 2, Len(t)) \in Seq(Sample)
          /\ Len(SubSeq(t, 2, Len(t))) = IF 2 <= Len(t) THEN Len(t) - 2 + 1 ELSE 0
          /\ \A i \in 1..Len(t) - 2 + 1 : SubSeq(t, 2, Len(t))[i] = t[2 + i - 1]
        BY <1>1, <2>1, SubSeqProperties
    <2>3. Len(SubSeq(t, 2, Len(t))) = Len(s)
        <3>1. Len(SubSeq(t, 2, Len(t))) = IF 2 <= Len(t) THEN Len(t) - 2 + 1 ELSE 0
            BY <2>2
        <3>2. Len(t) = Len(s) + 1
            BY <1>1
        <3>3. Len(SubSeq(t, 2, Len(t))) =
                  IF 2 <= Len(s) + 1 THEN Len(s) + 1 - 2 + 1 ELSE 0
            BY <3>1, <3>2
        <3>4. QED
            BY <1>0, <3>3, TailLen, Zenon
    <2>4. ASSUME NEW i \in 1..Len(s) PROVE SubSeq(t, 2, Len(t))[i] = t[i + 1]
        <3>1. i \in 1..Len(t) - 2 + 1 /\ 2 + i - 1 = i + 1
            BY <1>0, <1>1
        <3>2. QED
            BY <2>2, <3>1
    <2>5. QED
        BY <2>2, <2>3, <2>4
<1>4. /\ Append(u, r) \in Seq(Sample) /\ Len(Append(u, r)) = Len(s)
      /\ \A i \in 1..Len(s) - 1 : Append(u, r)[i] = u[i]
      /\ Append(u, r)[Len(s)] = r
    BY <1>1, <1>2, AppendProperties
<1>5. \A i \in 1..Len(s) : SubSeq(t, 2, Len(t))[i] = Append(u, r)[i]
    BY <1>1, <1>2, <1>3, <1>4
<1>6. QED
    BY <1>2, <1>3, <1>4, <1>5, SeqEqual

-----------------------------------------------------------------------------
(* AInv is an inductive invariant.                                         *)

LEMMA InitAInv == Init => AInv
<1> SUFFICES ASSUME Init PROVE AInv
    OBVIOUS
<1>1. df \in Seq(Sample) /\ Len(df) = 0
    BY EmptySeq DEF Init
<1>2. SumElapsed(Rest) = 0
    <2>1. Rest = <<>>
        BY <1>1, SubSeqEmpty DEF Rest
    <2>2. QED
        BY <2>1, SumElapsedEmpty
<1>3. QED
    BY <1>1, <1>2, BoundsAssumption DEF AInv, TypeOK

\* A new row keeps the window at least, and on contiguous rows exactly, the
\* sum of the sampled intervals.
LEMMA NextAInv == AInv /\ [AppendSample]_df => AInv'
<1> SUFFICES ASSUME AInv, [AppendSample]_df PROVE AInv'
    OBVIOUS
<1>0. df \in Seq(Sample) /\ Len(df) <= MaxSamples /\ Len(df) \in Nat
    BY LenProperties DEF AInv, TypeOK
<1>1. CASE AppendSample
    <2>1. PICK gap \in 0..MaxGap, elapsed \in 0..MaxElapsed, n \in 0..MaxRecords :
              df' = Append(df, [start_time |->
                                    IF df = <<>> THEN 0 ELSE EndOf(df[Len(df)]) + gap,
                                elapsed_time |-> elapsed, num_records |-> n])
        BY <1>1 DEF AppendSample
    <2> DEFINE row == [start_time |->
                           IF df = <<>> THEN 0 ELSE EndOf(df[Len(df)]) + gap,
                       elapsed_time |-> elapsed, num_records |-> n]
    <2>2. row \in Sample
        <3>1. CASE df = <<>>
            BY <3>1, BoundsAssumption DEF Sample
        <3>2. CASE df # <<>>
            <4>1. df[Len(df)] \in Sample
                BY <1>0, <3>2, ElementOfSeq, EmptySeq
            <4>2. QED
                BY <3>2, <4>1, BoundsAssumption DEF Sample, EndOf
        <3>3. QED
            BY <3>1, <3>2
    <2>3. /\ df' \in Seq(Sample) /\ Len(df') = Len(df) + 1
          /\ \A i \in 1..Len(df) : df'[i] = df[i]
          /\ df'[Len(df) + 1] = row
        BY <1>0, <2>1, <2>2, AppendProperties
    <2>4. TypeOK'
        <3>1. Len(df) < MaxSamples
            BY <1>1 DEF AppendSample
        <3>2. QED
            BY <1>0, <2>3, <3>1, BoundsAssumption DEF TypeOK
    <2>5. CASE Len(df) = 0
        <3>1. SumElapsed(Rest') = 0
            <4>1. Rest' = <<>>
                BY <2>3, <2>5, SubSeqEmpty DEF Rest
            <4>2. QED
                BY <4>1, SumElapsedEmpty
        <3>2. QED
            BY <2>3, <2>4, <2>5, <3>1 DEF AInv
    <2>6. CASE Len(df) = 1
        <3>1. Rest = <<>>
            BY <2>6, SubSeqEmpty DEF Rest
        <3>2. Rest' = Append(Rest, row)
            BY <1>0, <2>1, <2>2, <2>6, RestAppend DEF Rest
        <3>3. SumElapsed(Rest') = elapsed
            <4>1. <<>> \in Seq(Sample)
                BY EmptySeq
            <4>2. SumElapsed(Append(<<>>, row)) = SumElapsed(<<>>) + row.elapsed_time
                BY <2>2, <4>1, SumElapsedAppend
            <4>3. QED
                BY <3>1, <3>2, <4>2, SumElapsedEmpty
        <3>4. Window' = elapsed
            <4>1. df'[2] = row /\ df'[Len(df')] = row
                BY <2>3, <2>6
            <4>2. row.start_time \in Nat
                BY <2>2 DEF Sample
            <4>3. QED
                BY <4>1, <4>2 DEF Window, EndOf
        <3>5. elapsed \in Nat
            BY BoundsAssumption
        <3>6. QED
            BY <2>4, <3>3, <3>4, <3>5 DEF AInv
    <2>7. CASE Len(df) >= 2
        <3> DEFINE m == Len(df) - 1
        <3>1. /\ Rest \in Seq(Sample) /\ Len(Rest) = m
              /\ \A i \in 1..m : Rest[i] = df[i + 1]
              /\ Rest' = Append(Rest, row)
            BY <1>0, <2>1, <2>2, <2>7, RestAppend DEF Rest
        <3>2. /\ Len(Rest') = m + 1
              /\ \A i \in 1..m : Rest'[i] = Rest[i]
              /\ Rest'[m + 1] = row
            BY <2>2, <3>1, AppendProperties
        <3>3. SumElapsed(Rest') = SumElapsed(Rest) + elapsed
            BY <2>2, <3>1, SumElapsedAppend
        <3>0. /\ gap \in Nat /\ elapsed \in Nat /\ m \in Nat
              /\ SumElapsed(Rest) \in Nat
            BY <1>0, <2>7, BoundsAssumption DEF AInv
        <3>4. /\ df # <<>>
              /\ df[Len(df)] \in Sample /\ df[2] \in Sample
              /\ row.start_time = EndOf(df[Len(df)]) + gap
            BY <1>0, <2>7, ElementOfSeq
        <3>9. /\ EndOf(df[Len(df)]) \in Nat /\ df[2].start_time \in Nat
              /\ EndOf(row) = EndOf(df[Len(df)]) + gap + elapsed
            BY <3>0, <3>4 DEF EndOf, Sample
        <3>10. Window \in Int
            BY <3>9 DEF Window
        <3>5. Window' = Window + gap + elapsed
            <4>1. df'[2] = df[2] /\ df'[Len(df')] = row
                BY <2>3, <2>7
            <4>2. QED
                BY <3>9, <4>1 DEF Window
        <3>6. Window >= SumElapsed(Rest)
            BY <2>7 DEF AInv
        <3>7. Len(df') >= 2 => Window' >= SumElapsed(Rest')
            BY <3>0, <3>3, <3>5, <3>6, <3>10
        <3>8. Contiguous(Rest') => Window' = SumElapsed(Rest')
            <4> SUFFICES ASSUME Contiguous(Rest') PROVE Window' = SumElapsed(Rest')
                OBVIOUS
            <4>1. Contiguous(Rest)
                <5> SUFFICES ASSUME NEW k \in 1..m - 1
                             PROVE  Rest[k + 1].start_time = EndOf(Rest[k])
                    BY <3>1 DEF Contiguous
                <5>1. Rest'[k + 1].start_time = EndOf(Rest'[k])
                    BY <3>0, <3>2 DEF Contiguous
                <5>2. Rest'[k + 1] = Rest[k + 1] /\ Rest'[k] = Rest[k]
                    BY <3>0, <3>2
                <5>3. QED
                    BY <5>1, <5>2
            <4>2. Rest'[m + 1].start_time = EndOf(Rest'[m])
                BY <2>7, <3>2 DEF Contiguous
            <4>3. Rest'[m] = df[Len(df)]
                BY <2>7, <3>1, <3>2
            <4>4. gap = 0
                BY <3>2, <3>4, <4>2, <4>3 DEF EndOf, Sample
            <4>5. Window = SumElapsed(Rest)
                BY <2>7, <4>1 DEF AInv
            <4>6. QED
                BY <3>0, <3>3, <3>5, <3>10, <4>4, <4>5
        <3>11. QED
            BY <2>4, <3>0, <3>3, <3>7, <3>8 DEF AInv
    <2>8. Len(df) = 0 \/ Len(df) = 1 \/ Len(df) >= 2
        BY <1>0, LenCases
    <2>9. QED
        BY <2>5, <2>6, <2>7, <2>8
<1>2. CASE UNCHANGED df
    BY <1>2 DEF AInv, TypeOK, Rest, Window, Contiguous
<1>3. QED
    BY <1>1, <1>2

(* For every metrics file a server writes, of any length and with any      *)
(* interval lengths, gaps and record counts, the time aggregate_log_       *)
(* throughput divides by (lines 159-161) is at least the sum of the        *)
(* sampled intervals of the rows it counts, and equal to it when they are  *)
(* contiguous: no counted record falls outside the window.                 *)
THEOREM WindowCoversSamplesHolds == Spec => []WindowCoversSamples
<1>1. AInv => WindowCoversSamples
    <2> SUFFICES ASSUME AInv, AggregateLogThroughput(df).ok
                 PROVE  /\ AggregateLogThroughput(df).total_time >= SumElapsed(Rest)
                        /\ Contiguous(Rest) =>
                               AggregateLogThroughput(df).total_time = SumElapsed(Rest)
        BY DEF WindowCoversSamples, Rest, Contiguous
    <2>1. df \in Seq(Sample) /\ Len(df) \in Nat
        BY LenProperties DEF AInv, TypeOK
    <2>2. Len(df) >= 3
        <3>1. CASE Len(df) = 0
            <4>1. Rest = <<>>
                BY <3>1, SubSeqEmpty DEF Rest
            <4>2. QED
                BY <4>1, EmptySeq DEF AggregateLogThroughput, Rest, NotEnoughData
        <3>2. CASE Len(df) \in 1..2
            <4>1. Len(Rest) = Len(df) - 1
                BY <2>1, <3>2, SubSeqProperties, ElementOfSeq DEF Rest
            <4>2. QED
                BY <3>2, <4>1 DEF AggregateLogThroughput, Rest, NotEnoughData
        <3>3. CASE Len(df) >= 3
            BY <3>3
        <3>4. QED
            <4>1. Len(df) = 0 \/ Len(df) \in 1..2 \/ Len(df) >= 3
                BY <2>1, LenCases
            <4>2. QED
                BY <3>1, <3>2, <3>3, <4>1
    <2>3. /\ Len(Rest) = Len(df) - 1
          /\ Rest[Len(Rest)] = df[Len(df)] /\ Rest[1] = df[2]
        BY <2>1, <2>2, SubSeqProperties, ElementOfSeq DEF Rest
    <2>4. AggregateLogThroughput(df).total_time = Window
        <3>1. ~(Len(Rest) <= 1)
            BY <2>1, <2>2, <2>3
        <3>2. AggregateLogThroughput(df) =
                  Totals(SumRecords(Rest),
                         Rest[Len(Rest)].start_time + Rest[Len(Rest)].elapsed_time
                           - Rest[1].start_time)
            BY <3>1 DEF AggregateLogThroughput, Rest
        <3>3. Rest[Len(Rest)] = df[Len(df)] /\ Rest[1] = df[2]
            BY <2>3
        <3>4. AggregateLogThroughput(df).total_time =
                  Rest[Len(Rest)].start_time + Rest[Len(Rest)].elapsed_time
                    - Rest[1].start_time
            <4>1. \A r, t : Totals(r, t).total_time = t
                BY DEF Totals
            <4>2. QED
                BY <3>2, <4>1
        <3>5. /\ Rest[Len(Rest)].start_time = df[Len(df)].start_time
              /\ Rest[Len(Rest)].elapsed_time = df[Len(df)].elapsed_time
              /\ Rest[1].start_time = df[2].start_time
              /\ df[Len(df)] \in Sample /\ df[2] \in Sample
            BY <2>1, <2>2, <3>3, ElementOfSeq
        <3>6. QED
            BY <3>4, <3>5 DEF Window, EndOf, Sample
    <2>5. QED
        BY <2>2, <2>4 DEF AInv
<1>2. QED
    BY <1>1, InitAInv, NextAInv, PTL DEF Spec

================================================================================
