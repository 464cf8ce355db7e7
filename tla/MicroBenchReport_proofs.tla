------------------------ MODULE MicroBenchReport_proofs ------------------------
(***************************************************************************)
(* Proofs about what run_micro_bench.py prints (lines 554-561): the count  *)
(* and the total time shown for a (suite, test) key are those of every     *)
(* result of that key added by ArtifactProcessor in this execution, for    *)
(* every benchmark list and every bound.                                   *)
(*                                                                         *)
(* SumOf is a recursive function over the results; it is unfolded with     *)
(* the library's theorems on functions defined by recursion over an        *)
(* interval of naturals, and two such functions that agree on their        *)
(* definition are equal by its uniqueness theorem.                         *)
(***************************************************************************)
EXTENDS MicroBench_proofs, NaturalsInduction

\* The recursive function behind SumOf(s, k, V), before it is applied.
SumFcn(s, k, V(_)) ==
    LET f[n \in 0..Len(s)] ==
            IF n = 0 THEN 0
            ELSE f[n - 1] + (IF KeyOf(s[n]) = k THEN V(s[n]) ELSE 0)
    IN  f

\* SumOf applies that function to the length of the sequence.
LEMMA SumOfFcn ==
    ASSUME NEW s, NEW k, NEW V(_)
    PROVE  SumOf(s, k, V) = SumFcn(s, k, V)[Len(s)]
BY DEF SumOf, SumFcn

\* What one result adds to the sum of key k.
SumTerm(b, k, V(_)) == IF KeyOf(b) = k THEN V(b) ELSE 0

(* Adding a result to the end adds its value to the sum of its key and     *)
(* leaves the sums of the other keys alone.                                *)
LEMMA SumAppend ==
    ASSUME NEW s \in Seq(GBBench), NEW b \in GBBench, NEW k, NEW V(_)
    PROVE  SumOf(Append(s, b), k, V) = SumOf(s, k, V) + SumTerm(b, k, V)
<1> DEFINE t == Append(s, b)
           L == Len(s)
           F == SumFcn(t, k, V)
           G == SumFcn(s, k, V)
           H == [i \in 0..L |-> F[i]]
           DefS(v, i) == v + (IF KeyOf(s[i]) = k THEN V(s[i]) ELSE 0)
           DefT(v, i) == v + (IF KeyOf(t[i]) = k THEN V(t[i]) ELSE 0)
<1>1. /\ L \in Nat /\ t \in Seq(GBBench) /\ Len(t) = L + 1 /\ Len(t) \in Nat
      /\ \A i \in 1..L : t[i] = s[i]
      /\ t[L + 1] = b
    BY AppendProperties, LenProperties
<1>2. FiniteNatInductiveDefConclusion(F, 0, DefT, 0, Len(t))
    <2>1. FiniteNatInductiveDefHypothesis(F, 0, DefT, 0, Len(t))
        BY DEF FiniteNatInductiveDefHypothesis, SumFcn
    <2>2. QED
        BY <1>1, <2>1, FiniteNatInductiveDef
<1>3. FiniteNatInductiveDefConclusion(G, 0, DefS, 0, L)
    <2>1. FiniteNatInductiveDefHypothesis(G, 0, DefS, 0, L)
        BY DEF FiniteNatInductiveDefHypothesis, SumFcn
    <2>2. QED
        BY <1>1, <2>1, FiniteNatInductiveDef
<1>4. FiniteNatInductiveDefConclusion(H, 0, DefS, 0, L)
    <2>1. \A i \in 0..L : F[i] = IF i = 0 THEN 0 ELSE DefT(F[i - 1], i)
        BY <1>1, <1>2 DEF FiniteNatInductiveDefConclusion
    <2>2. \A i \in 0..L : H[i] = IF i = 0 THEN 0 ELSE DefS(H[i - 1], i)
        BY <1>1, <2>1
    <2>3. QED
        BY <2>2 DEF FiniteNatInductiveDefConclusion
<1>5. H = G
    BY <1>1, <1>3, <1>4, FiniteNatInductiveUnique
<1>6. F[L + 1] = F[L] + (IF KeyOf(b) = k THEN V(b) ELSE 0)
    BY <1>1, <1>2 DEF FiniteNatInductiveDefConclusion
<1>7. F[L] = G[L]
    BY <1>1, <1>5
<1>8. QED
    BY <1>1, <1>6, <1>7, SumOfFcn DEF SumTerm

\* No result, no sum.
LEMMA SumEmpty ==
    ASSUME NEW k, NEW V(_)
    PROVE  SumOf(<<>>, k, V) = 0
<1> DEFINE F == SumFcn(<<>>, k, V)
           Def(v, i) == v + (IF KeyOf(<<>>[i]) = k THEN V(<<>>[i]) ELSE 0)
<1>1. Len(<<>>) = 0
    BY EmptySeq
<1>2. FiniteNatInductiveDefConclusion(F, 0, Def, 0, Len(<<>>))
    <2>1. FiniteNatInductiveDefHypothesis(F, 0, Def, 0, Len(<<>>))
        BY DEF FiniteNatInductiveDefHypothesis, SumFcn
    <2>2. QED
        BY <1>1, <2>1, FiniteNatInductiveDef
<1>3. QED
    BY <1>1, <1>2, SumOfFcn DEF FiniteNatInductiveDefConclusion

-----------------------------------------------------------------------------
(***************************************************************************)
(* The inductive invariant.  The processor of every key holds the count    *)
(* and the total time of the results of that key added so far, exists      *)
(* exactly when one was added, and is blank otherwise; once the script has *)
(* exited, what it printed for the key is what its processor held.         *)
(***************************************************************************)
ProcessorSums(k) ==
    /\ results[k].num_results = SumOf(seen, k, One)
    /\ results[k].sum_time = SumOf(seen, k, GetTime)
    /\ results[k].exists <=> results[k].num_results > 0
    /\ ~results[k].exists => results[k].sum_time = 0

PrintedFromProcessor(k) ==
    pc = "exited" =>
        reported[k] = IF results[k].exists
                      THEN [shown |-> TRUE, sum_time |-> results[k].sum_time,
                            num |-> results[k].num_results]
                      ELSE NotPrinted

SInv == TInv /\ \A k \in Keys : ProcessorSums(k) /\ PrintedFromProcessor(k)

\* A step that leaves the results, the processors and the printout alone
\* and does not exit keeps the invariant.
LEMMA SumsUnchanged ==
    ASSUME SInv, TInv',
           UNCHANGED <<seen, results, reported>>, pc' # "exited"
    PROVE  SInv'
BY DEF SInv, ProcessorSums, PrintedFromProcessor

LEMMA InitSInv == Init => SInv
<1> SUFFICES ASSUME Init PROVE SInv
    OBVIOUS
<1>1. TInv
    BY InitTInv
<1>2. ASSUME NEW k \in Keys, NEW V(_) PROVE SumOf(seen, k, V) = 0
    BY SumEmpty DEF Init
<1>3. \A k \in Keys : ProcessorSums(k) /\ PrintedFromProcessor(k)
    BY <1>2 DEF Init, ProcessorSums, PrintedFromProcessor, NoProcessor
<1>4. QED
    BY <1>1, <1>3 DEF SInv

\* Every step keeps the processors equal to the sums over the results added.
LEMMA NextSInv == SInv /\ [Next]_vars => SInv'
<1> SUFFICES ASSUME SInv, [Next]_vars PROVE SInv'
    OBVIOUS
<1>0. TInv'
    BY NextTInv DEF SInv
<1>1. CASE RunBenchmark
    <2>1. pc' \in {"bench", "collect", "crashed"}
        BY <1>1 DEF RunBenchmark
    <2>2. QED
        BY <1>0, <1>1, <2>1, SumsUnchanged DEF RunBenchmark
<1>2. CASE ParseArtifact
    <2>1. pc' \in {"add", "crashed"}
        BY <1>2 DEF ParseArtifact
    <2>2. QED
        BY <1>0, <1>2, <2>1, SumsUnchanged DEF ParseArtifact
<1>3. CASE JenkinsFails
    BY <1>0, <1>3, SumsUnchanged DEF JenkinsFails
<1>4. CASE AddGbResult
    <2> DEFINE b == Head(pending)
               kb == KeyOf(b)
    <2>1. /\ pending # <<>> /\ pending \in Seq(GBBench)
          /\ seen \in Seq(GBBench)
          /\ results \in [Keys -> Processor]
        BY <1>4 DEF AddGbResult, SInv, TInv, DataOK
    <2>2. b \in GBBench /\ kb \in Keys
        <3>1. b \in GBBench
            BY <2>1, HeadTailProperties
        <3>2. b.suite \in Suites /\ b.test \in Tests
            BY <3>1 DEF GBBench
        <3>3. QED
            BY <3>1, <3>2 DEF KeyOf, Keys
    <2>3. CASE pc' = "crashed"
        BY <1>0, <1>4, <2>3, SumsUnchanged DEF AddGbResult
    <2>4. CASE pc' # "crashed"
        <3>1. /\ results' = [results EXCEPT ![kb] = Accumulate(results[kb], b)]
              /\ seen' = Append(seen, b)
              /\ pc' \in {"collect", "add"}
              /\ reported' = reported
            BY <1>4, <2>4 DEF AddGbResult
        <3>2. ASSUME NEW k \in Keys PROVE ProcessorSums(k)'
            <4>1. /\ SumOf(seen', k, One) = SumOf(seen, k, One) + SumTerm(b, k, One)
                  /\ SumOf(seen', k, GetTime) =
                         SumOf(seen, k, GetTime) + SumTerm(b, k, GetTime)
                BY <2>1, <2>2, <3>1, SumAppend
            <4>2. ProcessorSums(k)
                BY DEF SInv
            <4>3. results[k].num_results \in Nat
                BY <2>1 DEF Processor
            <4>4. CASE k = kb
                <5>1. /\ SumTerm(b, k, One) = 1
                      /\ SumTerm(b, k, GetTime) = GetTime(b)
                    BY <4>4 DEF SumTerm, One
                <5>2. results'[k] = Accumulate(results[k], b)
                    BY <2>1, <3>1, <4>4
                <5>3. /\ results'[k].num_results = results[k].num_results + 1
                      /\ results'[k].sum_time = results[k].sum_time + GetTime(b)
                      /\ results'[k].exists
                    BY <5>2 DEF Accumulate
                <5>4. /\ results'[k].num_results = SumOf(seen', k, One)
                      /\ results'[k].sum_time = SumOf(seen', k, GetTime)
                    BY <4>1, <4>2, <5>1, <5>3 DEF ProcessorSums
                <5>5. results'[k].num_results > 0
                    BY <4>3, <5>3
                <5>6. QED
                    BY <5>3, <5>4, <5>5 DEF ProcessorSums
            <4>5. CASE k # kb
                <5>1. SumTerm(b, k, One) = 0 /\ SumTerm(b, k, GetTime) = 0
                    BY <4>5 DEF SumTerm
                <5>2. results'[k] = results[k]
                    BY <2>1, <3>1, <4>5
                <5>3. SumOf(seen, k, One) \in Nat
                    BY <4>2, <4>3 DEF ProcessorSums
                <5>4. results[k].sum_time \in Nat
                    BY <2>1 DEF Processor
                <5>5. QED
                    BY <4>1, <4>2, <5>1, <5>2, <5>3, <5>4 DEF ProcessorSums
            <4>6. QED
                BY <4>4, <4>5
        <3>3. QED
            BY <1>0, <3>1, <3>2 DEF SInv, PrintedFromProcessor
    <2>5. QED
        BY <2>3, <2>4
<1>5. CASE Report
    <2>1. UNCHANGED <<seen, results>>
        BY <1>5 DEF Report
    <2>2. \A k \in Keys : ProcessorSums(k)'
        BY <2>1 DEF SInv, ProcessorSums
    <2>3. \A k \in Keys : PrintedFromProcessor(k)'
        BY <1>5, <2>1 DEF Report, PrintedFromProcessor
    <2>4. QED
        BY <1>0, <2>2, <2>3 DEF SInv
<1>6. CASE Rerun
    <2>1. seen' = <<>> /\ results' = [k \in Keys |-> NoProcessor] /\ pc' = "bench"
        BY <1>6 DEF Rerun
    <2>2. ASSUME NEW k \in Keys, NEW V(_) PROVE SumOf(seen', k, V) = 0
        BY <2>1, SumEmpty
    <2>3. \A k \in Keys : ProcessorSums(k)' /\ PrintedFromProcessor(k)'
        BY <2>1, <2>2 DEF ProcessorSums, PrintedFromProcessor, NoProcessor
    <2>4. QED
        BY <1>0, <2>3 DEF SInv
<1>7. CASE Terminated \/ UNCHANGED vars
    BY <1>0, <1>7 DEF Terminated, vars, SInv, ProcessorSums, PrintedFromProcessor
<1>8. QED
    BY <1>1, <1>2, <1>3, <1>4, <1>5, <1>6, <1>7 DEF Next

(* What run_micro_bench.py prints when it exits (lines 554-561) is, for    *)
(* every (suite, test), the number and the total time of all the results   *)
(* of that key that add_artifact_file added in this execution, and a key   *)
(* is printed exactly when it has one: get_mean_time divides that total by *)
(* that number.  This holds for every benchmark list, every artifact size  *)
(* and every time bound.                                                   *)
THEOREM ReportedMeanTimeHolds == Spec => []ReportedMeanTime
<1>1. SInv => ReportedMeanTime
    <2> SUFFICES ASSUME SInv, pc = "exited", NEW k \in Keys
                 PROVE  /\ reported[k].shown <=> SumOf(seen, k, One) > 0
                        /\ reported[k].num = SumOf(seen, k, One)
                        /\ reported[k].sum_time = SumOf(seen, k, GetTime)
        BY DEF ReportedMeanTime
    <2>1. ProcessorSums(k) /\ PrintedFromProcessor(k)
          /\ results[k] \in Processor
        BY DEF SInv, TInv, DataOK
    <2>2. CASE results[k].exists
        BY <2>1, <2>2 DEF ProcessorSums, PrintedFromProcessor
    <2>3. CASE ~results[k].exists
        <3>1. results[k].num_results = 0
            BY <2>1, <2>3 DEF ProcessorSums, Processor
        <3>2. QED
            BY <2>1, <2>3, <3>1 DEF ProcessorSums, PrintedFromProcessor, NotPrinted
    <2>4. QED
        BY <2>2, <2>3
<1>2. QED
    BY <1>1, InitSInv, NextSInv, PTL DEF Spec

================================================================================
