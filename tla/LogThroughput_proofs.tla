------------------------- MODULE LogThroughput_proofs -------------------------
(***************************************************************************)
(* Proofs about the log_throughput orchestrator model, for every value of  *)
(* the constants that satisfies ConstantsAssumption.                       *)
(***************************************************************************)
EXTENDS LogThroughput, SequenceTheorems, TLAPS

(* TypeOK is not inductive by itself: a metrics row or a leaked process is *)
(* tagged with the current call number, which is a positive number only    *)
(* because servers exist only once log_throughput has been called.         *)
IInv ==
    /\ TypeOK
    /\ Len(servers) > 0 => invocation \in 1..MaxInvocations

LEMMA InitIInv == Init => IInv
BY ConstantsAssumption DEF Init, IInv, TypeOK, FreshNode, PCs, Phases, Slots

(* AppendRow keeps a metrics file a sequence of at most MaxRows rows.      *)
LEMMA AppendRowType ==
    ASSUME TypeOK, NEW f \in METRICS_FILES, NEW r \in Row
    PROVE  /\ AppendRow(f, r) \in Seq(Row)
           /\ Len(AppendRow(f, r)) <= MaxRows
<1>1. files[f] \in Seq(Row) /\ Len(files[f]) <= MaxRows
    BY DEF TypeOK
<1>2. CASE Len(files[f]) < MaxRows
    <2>1. AppendRow(f, r) = Append(files[f], r)
        BY <1>2 DEF AppendRow
    <2>2. QED
        BY <1>1, <1>2, <2>1, AppendProperties, ConstantsAssumption
<1>3. CASE ~(Len(files[f]) < MaxRows)
    BY <1>1, <1>3 DEF AppendRow
<1>4. QED
    BY <1>2, <1>3

(* Appending a row to one metrics file keeps every file well typed.       *)
LEMMA FilesAppend ==
    ASSUME TypeOK, NEW f \in METRICS_FILES, NEW r \in Row,
           NEW nf, nf = [files EXCEPT ![f] = AppendRow(f, r)]
    PROVE  /\ nf \in [METRICS_FILES -> Seq(Row)]
           /\ \A g \in METRICS_FILES : Len(nf[g]) <= MaxRows
<1>1. AppendRow(f, r) \in Seq(Row) /\ Len(AppendRow(f, r)) <= MaxRows
    BY AppendRowType
<1>2. QED
    BY <1>1 DEF TypeOK

(* A metrics file of either role is one of METRICS_FILES.                  *)
LEMMA FileOfType ==
    ASSUME NEW role
    PROVE  FileOf(role) \in METRICS_FILES
BY ConstantsAssumption DEF FileOf

(* get_servers returns one or two servers.                                *)
LEMMA ServersType ==
    ASSUME NEW tt, NEW re
    PROVE  /\ GetServers(tt, re) \in Seq(Roles)
           /\ 1 <= Len(GetServers(tt, re)) /\ Len(GetServers(tt, re)) <= 2
<1>1. <<"Primary", "Replica">> \in Seq(Roles) /\ Len(<<"Primary", "Replica">>) = 2
    BY DEF Roles
<1>2. <<"Primary">> \in Seq(Roles) /\ Len(<<"Primary">>) = 1
    BY DEF Roles
<1>3. <<"Replica">> \in Seq(Roles) /\ Len(<<"Replica">>) = 1
    BY DEF Roles
<1>4. QED
    BY <1>1, <1>2, <1>3 DEF GetServers

LEMMA NextIInv == IInv /\ [Next]_vars => IInv'
<1> SUFFICES ASSUME IInv, [Next]_vars PROVE IInv'
    OBVIOUS
<1> USE ConstantsAssumption DEF IInv, TypeOK
<1>1. ASSUME NEW tt \in TestTypes, NEW re \in BOOLEAN,
             LogThroughputCall(tt, re)
      PROVE  IInv'
    <2>1. invocation' \in 1..MaxInvocations
        BY <1>1 DEF LogThroughputCall
    <2>2. leaked' \subseteq Proc
        <3>1. ASSUME NEW s \in Running
              PROVE  [role |-> servers[s], inv |-> invocation] \in Proc
            <4>1. s \in 1..Len(servers)
                BY <3>1 DEF Running, ServerSlots
            <4>2. servers[s] \in Roles
                BY <4>1, LenProperties
            <4>3. invocation \in 1..MaxInvocations
                BY <4>1
            <4>4. QED
                BY <4>2, <4>3 DEF Proc
        <3>2. QED
            BY <3>1, <1>1 DEF LogThroughputCall
    <2>3. node' \in [Slots -> [alive : BOOLEAN, phase : Phases]]
        BY <1>1 DEF LogThroughputCall, FreshNode, Phases
    <2>4. CASE MetricsFileOf(tt) \in metricsFiles
        <3>1. /\ metricsFiles' \subseteq METRICS_FILES
              /\ metricsFile' \in {LOG_SERIALIZER_CSV, RECOVERY_MANAGER_CSV}
              /\ servers' = GetServers(tt, re)
              /\ pc' = "setup" /\ i' = 1
              /\ produced' = 0 /\ applied' = 0 /\ polls' = 0
              /\ UNCHANGED <<files, outcome>>
            BY <1>1, <2>4 DEF LogThroughputCall, MetricsFileOf
        <3>2. GetServers(tt, re) \in Seq(Roles)
              /\ 1 <= Len(GetServers(tt, re))
              /\ Len(GetServers(tt, re)) <= 2
            BY ServersType
        <3>3. /\ servers' \in Seq(Roles)
              /\ Len(servers') <= 2
              /\ Len(servers') > 0
            BY <3>1, <3>2
        <3>4. /\ files' \in [METRICS_FILES -> Seq(Row)]
              /\ \A f \in METRICS_FILES : Len(files'[f]) <= MaxRows
              /\ outcome' \in Seq(Outcome)
            BY <3>1
        <3>5. QED
            BY <2>1, <2>2, <2>3, <3>1, <3>3, <3>4 DEF PCs
    <2>5. CASE MetricsFileOf(tt) \notin metricsFiles
        <3>1. /\ outcome' = Append(outcome, [kind |-> "raised", rows |-> <<>>])
              /\ UNCHANGED <<metricsFiles, metricsFile, servers, pc, i, files,
                             produced, applied, polls>>
            BY <1>1, <2>5 DEF LogThroughputCall
        <3>2. [kind |-> "raised", rows |-> <<>>] \in Outcome
            BY EmptySeq DEF Outcome, Kinds
        <3>3. outcome' \in Seq(Outcome)
            BY <3>1, <3>2, AppendProperties
        <3>4. QED
            BY <2>1, <2>2, <2>3, <3>1, <3>3
    <2>6. QED
        BY <2>4, <2>5
<1>2. CASE SetupServer
    <2>1. i \in 1..Len(servers) /\ invocation \in 1..MaxInvocations
        BY <1>2 DEF SetupServer, ServerSlots
    <2>2. [inv |-> invocation, startup |-> TRUE] \in Row
        BY <2>1 DEF Row
    <2>3. files' = [files EXCEPT ![FileOf(servers[i])] =
                       AppendRow(FileOf(servers[i]), [inv |-> invocation, startup |-> TRUE])]
        BY <1>2 DEF SetupServer
    <2>6. /\ files' \in [METRICS_FILES -> Seq(Row)]
          /\ \A g \in METRICS_FILES : Len(files'[g]) <= MaxRows
        BY <2>2, <2>3, FileOfType, FilesAppend
    <2>4. node' \in [Slots -> [alive : BOOLEAN, phase : Phases]]
        BY <1>2, <2>1 DEF SetupServer, Slots, Phases
    <2>7. i' \in 1..3
        BY <1>2, <2>1 DEF SetupServer
    <2>8. UNCHANGED <<metricsFiles, invocation, pc, metricsFile, servers, leaked,
                      produced, applied, polls, outcome>>
        BY <1>2 DEF SetupServer
    <2>5. QED
        BY <2>1, <2>6, <2>4, <2>7, <2>8
<1>3. CASE SetupServerFails
    BY <1>3 DEF SetupServerFails, ServerSlots, Slots, Phases, PCs
<1>4. CASE ClearStartupMetrics
    BY <1>4 DEF ClearStartupMetrics, PCs
<1>5. CASE RunServer
    <2>1. node' \in [Slots -> [alive : BOOLEAN, phase : Phases]]
        BY <1>5 DEF RunServer, ServerSlots, Slots, Phases
    <2>2. QED
        BY <1>5, <2>1 DEF RunServer, ServerSlots
<1>6. CASE RunServerFails
    BY <1>6 DEF RunServerFails, ServerSlots, PCs
<1>7. CASE CleanupServer
    BY <1>7 DEF CleanupServer, ServerSlots, Slots, Phases
<1>8. CASE CleanupServerRaises
    <2>1. node' \in [Slots -> [alive : BOOLEAN, phase : Phases]]
        BY <1>8 DEF CleanupServerRaises, ServerSlots, Slots, Phases
    <2>2. QED
        BY <1>8, <2>1 DEF CleanupServerRaises, PCs, Outcome, Kinds
<1>9. CASE Abort
    BY <1>9 DEF Abort, PCs, Outcome, Kinds
<1>10. CASE SyncServers
    BY <1>10 DEF SyncServers, PCs
<1>11. CASE ReplicaSyncReturns
    BY <1>11 DEF ReplicaSyncReturns, PCs
<1>12. CASE ReplicaSyncWaits
    BY <1>12 DEF ReplicaSyncWaits
<1>13. CASE TeardownServer
    BY <1>13 DEF TeardownServer, ServerSlots, Slots, Phases
<1>14. CASE TeardownServerRaises
    <2>1. node' \in [Slots -> [alive : BOOLEAN, phase : Phases]]
        BY <1>14 DEF TeardownServerRaises, ServerSlots, Slots, Phases
    <2>2. QED
        BY <1>14, <2>1 DEF TeardownServerRaises, PCs, Outcome, Kinds
<1>15. CASE CollectResults
    BY <1>15 DEF CollectResults, PCs, Outcome, Kinds
<1>16. ASSUME NEW s \in ServerSlots, Produce(s) PROVE IInv'
    <2>1. [inv |-> invocation, startup |-> FALSE] \in Row
        BY DEF ServerSlots, Row
    <2>2. files' = [files EXCEPT ![LOG_SERIALIZER_CSV] =
                       AppendRow(LOG_SERIALIZER_CSV, [inv |-> invocation, startup |-> FALSE])]
        BY <1>16 DEF Produce
    <2>3. /\ files' \in [METRICS_FILES -> Seq(Row)]
          /\ \A g \in METRICS_FILES : Len(files'[g]) <= MaxRows
        BY <2>1, <2>2, FilesAppend
    <2>4. produced' \in 0..MaxLog
        BY <1>16 DEF Produce
    <2>5. QED
        BY <1>16, <2>3, <2>4 DEF Produce
<1>17. ASSUME NEW s \in ServerSlots, Apply(s) PROVE IInv'
    <2>1. [inv |-> invocation, startup |-> FALSE] \in Row
        BY DEF ServerSlots, Row
    <2>5. files' = [files EXCEPT ![RECOVERY_MANAGER_CSV] =
                       AppendRow(RECOVERY_MANAGER_CSV, [inv |-> invocation, startup |-> FALSE])]
        BY <1>17 DEF Apply
    <2>2. /\ files' \in [METRICS_FILES -> Seq(Row)]
          /\ \A g \in METRICS_FILES : Len(files'[g]) <= MaxRows
        BY <2>1, <2>5, FilesAppend
    <2>3. applied' \in 0..MaxLog
        <3>1. applied < MaxLog
            <4>1. CASE HasPrimary
                BY <1>17, <4>1 DEF Apply
            <4>2. CASE ~HasPrimary
                BY <1>17, <4>2 DEF Apply
            <4>3. QED
                BY <4>1, <4>2
        <3>2. QED
            BY <1>17, <3>1 DEF Apply
    <2>4. QED
        BY <1>17, <2>2, <2>3 DEF Apply
<1>18. ASSUME NEW s \in ServerSlots, Crash(s) PROVE IInv'
    BY <1>18 DEF Crash, ServerSlots, Slots
<1>19. ASSUME NEW p \in leaked, LeakedWrite(p) PROVE IInv'
    <2>1. [inv |-> p.inv, startup |-> FALSE] \in Row
        BY DEF Proc, Row
    <2>2. FileOf(p.role) \in METRICS_FILES
        BY FileOfType
    <2>3. files' = [files EXCEPT ![FileOf(p.role)] =
                       AppendRow(FileOf(p.role), [inv |-> p.inv, startup |-> FALSE])]
        BY <1>19, <2>2 DEF LeakedWrite, AppendRow
    <2>4. /\ files' \in [METRICS_FILES -> Seq(Row)]
          /\ \A g \in METRICS_FILES : Len(files'[g]) <= MaxRows
        BY <2>1, <2>2, <2>3, FilesAppend
    <2>5. QED
        BY <1>19, <2>4 DEF LeakedWrite
<1>20. CASE Terminated
    BY <1>20 DEF Terminated, vars
<1>21. CASE UNCHANGED vars
    BY <1>21 DEF vars
<1>22. QED
    BY <1>1, <1>2, <1>3, <1>4, <1>5, <1>6, <1>7, <1>8, <1>9, <1>10, <1>11,
       <1>12, <1>13, <1>14, <1>15, <1>16, <1>17, <1>18, <1>19, <1>20, <1>21
    DEF Next, OrchestratorStep, Environment

-----------------------------------------------------------------------------
(* The outcomes of the calls and the processes and rows they leave.        *)

\* The n-th call of log_throughput has ended with an exception.
Raised(n) == n \in 1..Len(outcome) /\ outcome[n].kind = "raised"

\* A row the current call may measure: not a start-up row, and written by
\* its own servers or by a process of a call that raised.
FreshRow(r) == ~r.startup /\ (r.inv = invocation \/ Raised(r.inv))

(***************************************************************************)
(* The inductive invariant behind ResultIsFresh and                        *)
(* LeaksOnlyFromRaisedCalls.                                               *)
(*  - One outcome per finished call: the current call, when there is one,  *)
(*    has none yet.                                                        *)
(*  - A leaked process belongs to a call that raised, and so do the live   *)
(*    servers of the last call while no call runs.                         *)
(*  - The teardown loops of the abort path and of the normal path have     *)
(*    stopped every server before the loop index.                          *)
(*  - From the clear of line 62 on, the metrics file of the call holds     *)
(*    only rows it may measure.                                            *)
(*  - The rows of every result were fresh when it was collected.           *)
(***************************************************************************)
OutcomeCount == Len(outcome) = IF pc = "idle" THEN invocation ELSE invocation - 1

LeakedRaised == \A p \in leaked : Raised(p.inv)

IdleRunningRaised == pc = "idle" /\ Running # {} => Raised(invocation)

StoppedBelow ==
    pc \in {"cleanup", "teardown"} =>
        \A s \in ServerSlots : s < i => ~node[s].alive

FilesFresh ==
    pc \in {"run", "sync", "teardown"} =>
        \A r \in Range(files[metricsFile]) : FreshRow(r)

ResultsFresh ==
    \A k \in 1..Len(outcome) :
        outcome[k].kind \in {"result", "insufficient"} =>
            \A r \in Range(outcome[k].rows) :
                ~r.startup /\ (r.inv = k \/ Raised(r.inv))

LInv ==
    /\ IInv
    /\ OutcomeCount
    /\ LeakedRaised
    /\ IdleRunningRaised
    /\ StoppedBelow
    /\ FilesFresh
    /\ ResultsFresh

(* The values of a sequence after an append are its old values and the    *)
(* new one.                                                                *)
LEMMA RangeAppend ==
    ASSUME NEW S, NEW q \in Seq(S), NEW e \in S
    PROVE  Range(Append(q, e)) = Range(q) \cup {e}
<1>1. /\ Len(Append(q, e)) = Len(q) + 1
      /\ \A n \in 1..Len(q) : Append(q, e)[n] = q[n]
      /\ Append(q, e)[Len(q) + 1] = e
      /\ DOMAIN Append(q, e) = 1..Len(q) + 1
      /\ DOMAIN q = 1..Len(q) /\ Len(q) \in Nat
    BY AppendProperties, LenProperties
<1>2. QED
    BY <1>1 DEF Range

(* A row appended to a metrics file is the only row it may add.           *)
LEMMA RangeAppendRow ==
    ASSUME TypeOK, NEW f \in METRICS_FILES, NEW r \in Row
    PROVE  Range(AppendRow(f, r)) \subseteq Range(files[f]) \cup {r}
<1>1. files[f] \in Seq(Row)
    BY DEF TypeOK
<1>2. CASE Len(files[f]) < MaxRows
    BY <1>1, <1>2, RangeAppend DEF AppendRow
<1>3. CASE ~(Len(files[f]) < MaxRows)
    BY <1>3 DEF AppendRow
<1>4. QED
    BY <1>2, <1>3

(* A call that ended with an exception stays so once more outcomes follow. *)
LEMMA RaisedAppend ==
    ASSUME TypeOK, NEW o \in Outcome, outcome' = Append(outcome, o),
           NEW n, Raised(n)
    PROVE  Raised(n)'
<1>1. outcome \in Seq(Outcome)
    BY DEF TypeOK
<1>2. /\ Len(outcome') = Len(outcome) + 1
      /\ \A m \in 1..Len(outcome) : outcome'[m] = outcome[m]
    BY <1>1, AppendProperties
<1>3. QED
    BY <1>2 DEF Raised

(* An outcome appended with fresh rows, or with no result, keeps every     *)
(* result fresh.                                                           *)
LEMMA ResultsAppend ==
    ASSUME TypeOK, ResultsFresh, NEW o \in Outcome,
           outcome' = Append(outcome, o),
           o.kind \in {"result", "insufficient"} =>
               \A r \in Range(o.rows) :
                   ~r.startup /\ (r.inv = Len(outcome) + 1 \/ Raised(r.inv))
    PROVE  ResultsFresh'
<1>1. outcome \in Seq(Outcome)
    BY DEF TypeOK
<1>2. /\ Len(outcome') = Len(outcome) + 1
      /\ \A m \in 1..Len(outcome) : outcome'[m] = outcome[m]
      /\ outcome'[Len(outcome) + 1] = o
      /\ Len(outcome) \in Nat
    BY <1>1, AppendProperties, LenProperties
<1> SUFFICES ASSUME NEW k \in 1..Len(outcome'),
                    outcome'[k].kind \in {"result", "insufficient"},
                    NEW r \in Range(outcome'[k].rows)
             PROVE  ~r.startup /\ (r.inv = k \/ Raised(r.inv)')
    BY DEF ResultsFresh
<1>3. \A n : Raised(n) => Raised(n)'
    BY RaisedAppend
<1>4. CASE k \in 1..Len(outcome)
    BY <1>2, <1>3, <1>4 DEF ResultsFresh
<1>5. CASE k = Len(outcome) + 1
    BY <1>2, <1>3, <1>5
<1>6. QED
    BY <1>2, <1>4, <1>5

(* Steps that leave the outcomes, the call number and the leaked processes *)
(* alone keep what is said about them.                                     *)
LEMMA OutcomeUnchanged ==
    ASSUME LeakedRaised, ResultsFresh,
           outcome' = outcome, invocation' = invocation, leaked' = leaked
    PROVE  /\ LeakedRaised' /\ ResultsFresh'
           /\ \A r : FreshRow(r)' = FreshRow(r)
           /\ \A n : Raised(n)' = Raised(n)
<1>1. \A n : Raised(n)' = Raised(n)
    BY DEF Raised
<1>2. QED
    BY <1>1 DEF LeakedRaised, ResultsFresh, FreshRow

LEMMA InitLInv == Init => LInv
<1> SUFFICES ASSUME Init PROVE LInv
    OBVIOUS
<1>1. IInv
    BY InitIInv
<1>2. Running = {}
    BY DEF Init, Running, ServerSlots
<1>3. QED
    BY <1>1, <1>2 DEF Init, LInv, OutcomeCount, LeakedRaised,
       IdleRunningRaised, StoppedBelow, FilesFresh, ResultsFresh

(* Every step of the orchestrator, of a server or of a leaked process      *)
(* preserves LInv.                                                         *)
LEMMA NextLInv == LInv /\ [Next]_vars => LInv'
<1> SUFFICES ASSUME LInv, [Next]_vars PROVE LInv'
    OBVIOUS
<1>0. IInv' /\ TypeOK /\ IInv
    BY NextIInv DEF LInv, IInv
<1> USE <1>0 DEF LInv
<1>1. ASSUME NEW tt \in TestTypes, NEW re \in BOOLEAN,
             LogThroughputCall(tt, re)
      PROVE  LInv'
    <2>1. /\ invocation' = invocation + 1 /\ pc = "idle"
          /\ Len(outcome) = invocation
          /\ leaked' = leaked \cup
               {[role |-> servers[s], inv |-> invocation] : s \in Running}
          /\ node' = [s \in Slots |-> FreshNode]
        BY <1>1 DEF LogThroughputCall, OutcomeCount
    <2>2. Running # {} => Raised(invocation)
        BY <2>1 DEF IdleRunningRaised
    <2>3. CASE MetricsFileOf(tt) \in metricsFiles
        <3>1. /\ pc' = "setup" /\ UNCHANGED <<outcome, files>>
            BY <1>1, <2>3 DEF LogThroughputCall
        <3>2. \A n : Raised(n)' = Raised(n)
            BY <3>1 DEF Raised
        <3>3. LeakedRaised'
            BY <2>1, <2>2, <3>2 DEF LeakedRaised
        <3>4. ResultsFresh'
            BY <3>1, <3>2 DEF ResultsFresh
        <3>5. OutcomeCount'
            BY <2>1, <3>1 DEF OutcomeCount
        <3>6. IdleRunningRaised' /\ StoppedBelow' /\ FilesFresh'
            BY <3>1 DEF IdleRunningRaised, StoppedBelow, FilesFresh
        <3>7. QED
            BY <3>3, <3>4, <3>5, <3>6
    <2>4. CASE MetricsFileOf(tt) \notin metricsFiles
        <3>1. /\ outcome' = Append(outcome, [kind |-> "raised", rows |-> <<>>])
              /\ UNCHANGED <<servers, pc>>
            BY <1>1, <2>4 DEF LogThroughputCall
        <3>2. [kind |-> "raised", rows |-> <<>>] \in Outcome
            BY EmptySeq DEF Outcome, Kinds
        <3>3. \A n : Raised(n) => Raised(n)'
            BY <3>1, <3>2, RaisedAppend
        <3>4. OutcomeCount'
            BY <2>1, <3>1, <3>2, AppendProperties DEF TypeOK, OutcomeCount
        <3>5. LeakedRaised'
            BY <2>1, <2>2, <3>3 DEF LeakedRaised
        <3>6. Running' = {}
            BY <2>1, <3>1 DEF Running, ServerSlots, FreshNode, TypeOK, Slots
        <3>7. ResultsFresh'
            BY <3>1, <3>2, ResultsAppend
        <3>8. IdleRunningRaised' /\ StoppedBelow' /\ FilesFresh'
            BY <2>1, <3>1, <3>6 DEF IdleRunningRaised, StoppedBelow, FilesFresh
        <3>9. QED
            BY <3>4, <3>5, <3>7, <3>8
    <2>5. QED
        BY <2>3, <2>4
<1>2. CASE SetupServer
    <2>1. /\ UNCHANGED <<outcome, invocation, leaked>>
          /\ pc = "setup" /\ pc' = "setup"
        BY <1>2 DEF SetupServer
    <2>2. LeakedRaised' /\ ResultsFresh'
        BY <2>1, OutcomeUnchanged
    <2>3. OutcomeCount' /\ IdleRunningRaised' /\ StoppedBelow' /\ FilesFresh'
        BY <2>1 DEF OutcomeCount, IdleRunningRaised, StoppedBelow, FilesFresh
    <2>4. QED
        BY <2>2, <2>3
<1>3. CASE SetupServerFails
    <2>1. /\ UNCHANGED <<outcome, invocation, leaked>>
          /\ pc = "setup" /\ pc' = "cleanup" /\ i' = 1
        BY <1>3 DEF SetupServerFails
    <2>2. LeakedRaised' /\ ResultsFresh'
        BY <2>1, OutcomeUnchanged
    <2>3. OutcomeCount' /\ IdleRunningRaised' /\ StoppedBelow' /\ FilesFresh'
        BY <2>1 DEF OutcomeCount, IdleRunningRaised, StoppedBelow, FilesFresh,
           ServerSlots
    <2>4. QED
        BY <2>2, <2>3
<1>4. CASE ClearStartupMetrics
    <2>1. /\ UNCHANGED <<outcome, invocation, leaked, metricsFile>>
          /\ pc = "setup" /\ pc' = "run"
        BY <1>4 DEF ClearStartupMetrics
    <2>2. LeakedRaised' /\ ResultsFresh'
        BY <2>1, OutcomeUnchanged
    <2>3. files'[metricsFile] = <<>>
        BY <1>4, ConstantsAssumption DEF ClearStartupMetrics, TypeOK
    <2>4. Range(files'[metricsFile]) = {}
        BY <2>3 DEF Range
    <2>5. OutcomeCount' /\ IdleRunningRaised' /\ StoppedBelow' /\ FilesFresh'
        BY <2>1, <2>4 DEF OutcomeCount, IdleRunningRaised, StoppedBelow,
           FilesFresh
    <2>6. QED
        BY <2>2, <2>5
<1>5. CASE RunServer
    <2>1. /\ UNCHANGED <<outcome, invocation, leaked, pc, files, metricsFile>>
          /\ pc = "run"
        BY <1>5 DEF RunServer
    <2>2. /\ LeakedRaised' /\ ResultsFresh'
          /\ \A r : FreshRow(r)' = FreshRow(r)
        BY <2>1, OutcomeUnchanged
    <2>3. OutcomeCount' /\ IdleRunningRaised' /\ StoppedBelow'
        BY <2>1 DEF OutcomeCount, IdleRunningRaised, StoppedBelow
    <2>4. FilesFresh'
        BY <2>1, <2>2 DEF FilesFresh
    <2>5. QED
        BY <2>2, <2>3, <2>4
<1>6. CASE RunServerFails
    <2>1. /\ UNCHANGED <<outcome, invocation, leaked>>
          /\ pc = "run" /\ pc' = "cleanup" /\ i' = 1
        BY <1>6 DEF RunServerFails
    <2>2. LeakedRaised' /\ ResultsFresh'
        BY <2>1, OutcomeUnchanged
    <2>3. OutcomeCount' /\ IdleRunningRaised' /\ StoppedBelow' /\ FilesFresh'
        BY <2>1 DEF OutcomeCount, IdleRunningRaised, StoppedBelow, FilesFresh,
           ServerSlots
    <2>4. QED
        BY <2>2, <2>3
<1>7. CASE CleanupServer
    <2>1. /\ UNCHANGED <<outcome, invocation, leaked, servers>>
          /\ pc = "cleanup" /\ pc' = "cleanup"
          /\ i' = i + 1 /\ i \in ServerSlots
        BY <1>7 DEF CleanupServer
    <2>2. LeakedRaised' /\ ResultsFresh'
        BY <2>1, OutcomeUnchanged
    <2>3. \A s \in ServerSlots : s < i + 1 => ~node'[s].alive
        <3>1. i \in Slots /\ ServerSlots \subseteq Slots
            BY <2>1 DEF ServerSlots, TypeOK, Slots
        <3>2. ~node'[i].alive
            BY <1>7, <3>1 DEF CleanupServer, TypeOK
        <3>3. \A s \in ServerSlots : s < i => ~node'[s].alive
            BY <1>7, <2>1, <3>1 DEF CleanupServer, StoppedBelow, TypeOK
        <3>4. QED
            BY <3>2, <3>3, <2>1 DEF ServerSlots
    <2>4. StoppedBelow'
        BY <2>1, <2>3 DEF StoppedBelow, ServerSlots
    <2>5. OutcomeCount' /\ IdleRunningRaised' /\ FilesFresh'
        BY <2>1 DEF OutcomeCount, IdleRunningRaised, FilesFresh
    <2>6. QED
        BY <2>2, <2>4, <2>5
<1>8. CASE CleanupServerRaises
    <2>1. /\ outcome' = Append(outcome, [kind |-> "raised", rows |-> <<>>])
          /\ pc' = "idle" /\ pc = "cleanup"
          /\ invocation' = invocation /\ leaked' = leaked
        BY <1>8 DEF CleanupServerRaises
    <2>2. [kind |-> "raised", rows |-> <<>>] \in Outcome
        BY EmptySeq DEF Outcome, Kinds
    <2>3. /\ Len(outcome') = Len(outcome) + 1
          /\ outcome'[Len(outcome) + 1].kind = "raised"
          /\ Len(outcome) = invocation - 1
        BY <2>1, <2>2, AppendProperties DEF TypeOK, OutcomeCount
    <2>4. Raised(invocation)'
        BY <2>1, <2>3 DEF Raised, TypeOK
    <2>5. \A n : Raised(n) => Raised(n)'
        BY <2>1, <2>2, RaisedAppend
    <2>6. ResultsFresh'
        BY <2>1, <2>2, ResultsAppend
    <2>7. LeakedRaised'
        BY <2>1, <2>5 DEF LeakedRaised
    <2>8. OutcomeCount'
        BY <2>1, <2>3 DEF OutcomeCount, TypeOK
    <2>10. IdleRunningRaised'
        BY <2>4 DEF IdleRunningRaised
    <2>11. StoppedBelow' /\ FilesFresh'
        BY <2>1 DEF StoppedBelow, FilesFresh
    <2>9. QED
        BY <2>6, <2>7, <2>8, <2>10, <2>11
<1>9. CASE Abort
    <2>1. /\ outcome' = Append(outcome, [kind |-> "aborted", rows |-> <<>>])
          /\ pc' = "idle" /\ pc = "cleanup" /\ i = Len(servers) + 1
          /\ UNCHANGED <<invocation, leaked, node, servers>>
        BY <1>9 DEF Abort
    <2>2. [kind |-> "aborted", rows |-> <<>>] \in Outcome
        BY EmptySeq DEF Outcome, Kinds
    <2>3. OutcomeCount'
        BY <2>1, <2>2, AppendProperties DEF TypeOK, OutcomeCount
    <2>4. Running' = {}
        BY <2>1 DEF StoppedBelow, Running, ServerSlots
    <2>5. \A n : Raised(n) => Raised(n)'
        BY <2>1, <2>2, RaisedAppend
    <2>6. ResultsFresh'
        BY <2>1, <2>2, ResultsAppend
    <2>7. LeakedRaised'
        BY <2>1, <2>5 DEF LeakedRaised
    <2>8. IdleRunningRaised' /\ StoppedBelow' /\ FilesFresh'
        BY <2>1, <2>4 DEF IdleRunningRaised, StoppedBelow, FilesFresh
    <2>9. QED
        BY <2>3, <2>6, <2>7, <2>8
<1>10. CASE SyncServers
    <2>1. /\ UNCHANGED <<outcome, invocation, leaked, files, metricsFile>>
          /\ pc = "run" /\ pc' \in {"sync", "teardown"}
          /\ pc' = "teardown" => i' = 1
        BY <1>10 DEF SyncServers
    <2>2. /\ LeakedRaised' /\ ResultsFresh'
          /\ \A r : FreshRow(r)' = FreshRow(r)
        BY <2>1, OutcomeUnchanged
    <2>3. OutcomeCount' /\ IdleRunningRaised' /\ StoppedBelow'
        BY <2>1 DEF OutcomeCount, IdleRunningRaised, StoppedBelow, ServerSlots
    <2>4. FilesFresh'
        BY <2>1, <2>2 DEF FilesFresh
    <2>5. QED
        BY <2>2, <2>3, <2>4
<1>11. CASE ReplicaSyncReturns
    <2>1. /\ UNCHANGED <<outcome, invocation, leaked, files, metricsFile>>
          /\ pc = "sync" /\ pc' = "teardown" /\ i' = 1
        BY <1>11 DEF ReplicaSyncReturns
    <2>2. /\ LeakedRaised' /\ ResultsFresh'
          /\ \A r : FreshRow(r)' = FreshRow(r)
        BY <2>1, OutcomeUnchanged
    <2>3. OutcomeCount' /\ IdleRunningRaised' /\ StoppedBelow'
        BY <2>1 DEF OutcomeCount, IdleRunningRaised, StoppedBelow, ServerSlots
    <2>4. FilesFresh'
        BY <2>1, <2>2 DEF FilesFresh
    <2>5. QED
        BY <2>2, <2>3, <2>4
<1>12. CASE ReplicaSyncWaits
    <2>1. /\ UNCHANGED <<outcome, invocation, leaked, files, metricsFile, i,
                         node, servers>>
          /\ pc = "sync" /\ pc' = "sync"
        BY <1>12 DEF ReplicaSyncWaits
    <2>2. /\ LeakedRaised' /\ ResultsFresh'
          /\ \A r : FreshRow(r)' = FreshRow(r)
        BY <2>1, OutcomeUnchanged
    <2>3. OutcomeCount' /\ IdleRunningRaised' /\ StoppedBelow'
        BY <2>1 DEF OutcomeCount, IdleRunningRaised, StoppedBelow
    <2>4. FilesFresh'
        BY <2>1, <2>2 DEF FilesFresh
    <2>5. QED
        BY <2>2, <2>3, <2>4
<1>13. CASE TeardownServer
    <2>1. /\ UNCHANGED <<outcome, invocation, leaked, servers, files,
                         metricsFile>>
          /\ pc' = "teardown" /\ pc = "teardown"
          /\ i' = i + 1 /\ i \in ServerSlots
        BY <1>13 DEF TeardownServer
    <2>2. /\ LeakedRaised' /\ ResultsFresh'
          /\ \A r : FreshRow(r)' = FreshRow(r)
        BY <2>1, OutcomeUnchanged
    <2>3. \A s \in ServerSlots : s < i + 1 => ~node'[s].alive
        <3>1. i \in Slots /\ ServerSlots \subseteq Slots
            BY <2>1 DEF ServerSlots, TypeOK, Slots
        <3>2. ~node'[i].alive
            BY <1>13, <3>1 DEF TeardownServer, TypeOK
        <3>3. \A s \in ServerSlots : s < i => ~node'[s].alive
            BY <1>13, <2>1, <3>1 DEF TeardownServer, StoppedBelow, TypeOK
        <3>4. QED
            BY <3>2, <3>3, <2>1 DEF ServerSlots
    <2>4. StoppedBelow'
        BY <2>1, <2>3 DEF StoppedBelow, ServerSlots
    <2>5. OutcomeCount' /\ IdleRunningRaised'
        BY <2>1 DEF OutcomeCount, IdleRunningRaised
    <2>6. FilesFresh'
        BY <2>1, <2>2 DEF FilesFresh
    <2>7. QED
        BY <2>2, <2>4, <2>5, <2>6
<1>14. CASE TeardownServerRaises
    <2>1. /\ outcome' = Append(outcome, [kind |-> "raised", rows |-> <<>>])
          /\ pc' = "idle" /\ pc = "teardown"
          /\ invocation' = invocation /\ leaked' = leaked
        BY <1>14 DEF TeardownServerRaises
    <2>2. [kind |-> "raised", rows |-> <<>>] \in Outcome
        BY EmptySeq DEF Outcome, Kinds
    <2>3. /\ Len(outcome') = Len(outcome) + 1
          /\ outcome'[Len(outcome) + 1].kind = "raised"
          /\ Len(outcome) = invocation - 1
        BY <2>1, <2>2, AppendProperties DEF TypeOK, OutcomeCount
    <2>4. Raised(invocation)'
        BY <2>1, <2>3 DEF Raised, TypeOK
    <2>5. \A n : Raised(n) => Raised(n)'
        BY <2>1, <2>2, RaisedAppend
    <2>6. ResultsFresh'
        BY <2>1, <2>2, ResultsAppend
    <2>7. LeakedRaised'
        BY <2>1, <2>5 DEF LeakedRaised
    <2>8. OutcomeCount'
        BY <2>1, <2>3 DEF OutcomeCount, TypeOK
    <2>10. IdleRunningRaised'
        BY <2>4 DEF IdleRunningRaised
    <2>11. StoppedBelow' /\ FilesFresh'
        BY <2>1 DEF StoppedBelow, FilesFresh
    <2>9. QED
        BY <2>6, <2>7, <2>8, <2>10, <2>11
<1>15. CASE CollectResults
    <2> DEFINE o == [kind |-> IF Len(files[metricsFile]) - 1 <= 1
                              THEN "insufficient" ELSE "result",
                     rows |-> files[metricsFile]]
    <2>1. /\ outcome' = Append(outcome, o)
          /\ pc' = "idle" /\ pc = "teardown" /\ i = Len(servers) + 1
          /\ UNCHANGED <<invocation, leaked, node, servers>>
        BY <1>15 DEF CollectResults
    <2>2. o \in Outcome
        BY ConstantsAssumption DEF Outcome, Kinds, TypeOK
    <2>3. /\ Len(outcome') = invocation'
          /\ Len(outcome) + 1 = invocation
        BY <2>1, <2>2, AppendProperties DEF TypeOK, OutcomeCount
    <2>4. Running' = {}
        BY <2>1 DEF StoppedBelow, Running, ServerSlots
    <2>5. \A n : Raised(n) => Raised(n)'
        BY <2>1, <2>2, RaisedAppend
    <2>6. \A r \in Range(o.rows) :
              ~r.startup /\ (r.inv = Len(outcome) + 1 \/ Raised(r.inv))
        BY <2>1, <2>3 DEF FilesFresh, FreshRow
    <2>7. ResultsFresh'
        BY <2>1, <2>2, <2>6, ResultsAppend
    <2>8. LeakedRaised'
        BY <2>1, <2>5 DEF LeakedRaised
    <2>9. OutcomeCount' /\ IdleRunningRaised' /\ StoppedBelow' /\ FilesFresh'
        BY <2>1, <2>3, <2>4 DEF OutcomeCount, IdleRunningRaised, StoppedBelow,
           FilesFresh
    <2>10. QED
        BY <2>7, <2>8, <2>9
<1>16. ASSUME NEW s \in ServerSlots, Produce(s) PROVE LInv'
    <2> DEFINE r == [inv |-> invocation, startup |-> FALSE]
    <2>1. /\ UNCHANGED <<outcome, invocation, leaked, pc, i, node, servers,
                         metricsFile>>
          /\ files' = [files EXCEPT ![LOG_SERIALIZER_CSV] =
                          AppendRow(LOG_SERIALIZER_CSV, r)]
        BY <1>16 DEF Produce
    <2>2. r \in Row /\ FreshRow(r)
        BY DEF Row, ServerSlots, FreshRow, IInv
    <2>3. Range(files'[metricsFile]) \subseteq Range(files[metricsFile]) \cup {r}
        <3>1. LOG_SERIALIZER_CSV \in METRICS_FILES
              /\ metricsFile \in METRICS_FILES
            BY ConstantsAssumption DEF TypeOK
        <3>2. CASE metricsFile = LOG_SERIALIZER_CSV
            BY <2>1, <2>2, <3>1, <3>2, RangeAppendRow DEF TypeOK
        <3>3. CASE metricsFile # LOG_SERIALIZER_CSV
            BY <2>1, <3>1, <3>3 DEF TypeOK
        <3>4. QED
            BY <3>2, <3>3
    <2>4. /\ LeakedRaised' /\ ResultsFresh'
          /\ \A q : FreshRow(q)' = FreshRow(q)
          /\ \A n : Raised(n)' = Raised(n)
        BY <2>1, OutcomeUnchanged
    <2>5. OutcomeCount' /\ IdleRunningRaised' /\ StoppedBelow'
        BY <2>1, <2>4 DEF OutcomeCount, IdleRunningRaised, StoppedBelow,
           Running, ServerSlots
    <2>6. FilesFresh'
        BY <2>1, <2>2, <2>3, <2>4 DEF FilesFresh
    <2>7. QED
        BY <2>4, <2>5, <2>6
<1>17. ASSUME NEW s \in ServerSlots, Apply(s) PROVE LInv'
    <2> DEFINE r == [inv |-> invocation, startup |-> FALSE]
    <2>1. /\ UNCHANGED <<outcome, invocation, leaked, pc, i, node, servers,
                         metricsFile>>
          /\ files' = [files EXCEPT ![RECOVERY_MANAGER_CSV] =
                          AppendRow(RECOVERY_MANAGER_CSV, r)]
        BY <1>17 DEF Apply
    <2>2. r \in Row /\ FreshRow(r)
        BY DEF Row, ServerSlots, FreshRow, IInv
    <2>3. Range(files'[metricsFile]) \subseteq Range(files[metricsFile]) \cup {r}
        <3>1. RECOVERY_MANAGER_CSV \in METRICS_FILES
              /\ metricsFile \in METRICS_FILES
            BY ConstantsAssumption DEF TypeOK
        <3>2. CASE metricsFile = RECOVERY_MANAGER_CSV
            BY <2>1, <2>2, <3>1, <3>2, RangeAppendRow DEF TypeOK
        <3>3. CASE metricsFile # RECOVERY_MANAGER_CSV
            BY <2>1, <3>1, <3>3 DEF TypeOK
        <3>4. QED
            BY <3>2, <3>3
    <2>4. /\ LeakedRaised' /\ ResultsFresh'
          /\ \A q : FreshRow(q)' = FreshRow(q)
          /\ \A n : Raised(n)' = Raised(n)
        BY <2>1, OutcomeUnchanged
    <2>5. OutcomeCount' /\ IdleRunningRaised' /\ StoppedBelow'
        BY <2>1, <2>4 DEF OutcomeCount, IdleRunningRaised, StoppedBelow,
           Running, ServerSlots
    <2>6. FilesFresh'
        BY <2>1, <2>2, <2>3, <2>4 DEF FilesFresh
    <2>7. QED
        BY <2>4, <2>5, <2>6
<1>18. ASSUME NEW s \in ServerSlots, Crash(s) PROVE LInv'
    <2>1. UNCHANGED <<outcome, invocation, leaked, pc, i, servers, files,
                      metricsFile>>
        BY <1>18 DEF Crash
    <2>2. /\ LeakedRaised' /\ ResultsFresh'
          /\ \A q : FreshRow(q)' = FreshRow(q)
          /\ \A n : Raised(n)' = Raised(n)
        BY <2>1, OutcomeUnchanged
    <2>3. \A t \in ServerSlots : node'[t].alive => node[t].alive
        BY <1>18 DEF Crash, ServerSlots, TypeOK, Slots
    <2>4. Running' \subseteq Running
        BY <2>1, <2>3 DEF Running, ServerSlots
    <2>5. OutcomeCount' /\ IdleRunningRaised'
        BY <2>1, <2>2, <2>4 DEF OutcomeCount, IdleRunningRaised
    <2>6. StoppedBelow'
        BY <2>1, <2>3 DEF StoppedBelow, ServerSlots
    <2>7. FilesFresh'
        BY <2>1, <2>2 DEF FilesFresh
    <2>8. QED
        BY <2>2, <2>5, <2>6, <2>7
<1>19. ASSUME NEW p \in leaked, LeakedWrite(p) PROVE LInv'
    <2> DEFINE r == [inv |-> p.inv, startup |-> FALSE]
    <2>1. /\ UNCHANGED <<outcome, invocation, leaked, pc, i, node, servers,
                         metricsFile>>
          /\ files' = [files EXCEPT ![FileOf(p.role)] =
                          AppendRow(FileOf(p.role), r)]
        BY <1>19 DEF LeakedWrite, AppendRow
    <2>2. r \in Row /\ FreshRow(r)
        BY DEF Row, Proc, TypeOK, FreshRow, LeakedRaised, IInv
    <2>3. Range(files'[metricsFile]) \subseteq Range(files[metricsFile]) \cup {r}
        <3>1. FileOf(p.role) \in METRICS_FILES
              /\ metricsFile \in METRICS_FILES
            BY FileOfType, ConstantsAssumption DEF TypeOK
        <3>2. CASE metricsFile = FileOf(p.role)
            BY <2>1, <2>2, <3>1, <3>2, RangeAppendRow DEF TypeOK
        <3>3. CASE metricsFile # FileOf(p.role)
            BY <2>1, <3>1, <3>3 DEF TypeOK
        <3>4. QED
            BY <3>2, <3>3
    <2>4. /\ LeakedRaised' /\ ResultsFresh'
          /\ \A q : FreshRow(q)' = FreshRow(q)
          /\ \A n : Raised(n)' = Raised(n)
        BY <2>1, OutcomeUnchanged
    <2>5. OutcomeCount' /\ IdleRunningRaised' /\ StoppedBelow'
        BY <2>1, <2>4 DEF OutcomeCount, IdleRunningRaised, StoppedBelow,
           Running, ServerSlots
    <2>6. FilesFresh'
        BY <2>1, <2>2, <2>3, <2>4 DEF FilesFresh
    <2>7. QED
        BY <2>4, <2>5, <2>6
<1>20. CASE Terminated \/ UNCHANGED vars
    <2>1. UNCHANGED vars
        BY <1>20 DEF Terminated
    <2>2. UNCHANGED <<outcome, invocation, leaked, pc, i, node, servers, files,
                      metricsFile>>
        BY <2>1 DEF vars
    <2>3. /\ LeakedRaised' /\ ResultsFresh'
          /\ \A q : FreshRow(q)' = FreshRow(q)
          /\ \A n : Raised(n)' = Raised(n)
        BY <2>2, OutcomeUnchanged
    <2>4. OutcomeCount' /\ IdleRunningRaised' /\ StoppedBelow'
        BY <2>2, <2>3 DEF OutcomeCount, IdleRunningRaised, StoppedBelow,
           Running, ServerSlots
    <2>5. FilesFresh'
        BY <2>2, <2>3 DEF FilesFresh
    <2>6. QED
        BY <2>3, <2>4, <2>5
<1>21. QED
    BY <1>1, <1>2, <1>3, <1>4, <1>5, <1>6, <1>7, <1>8, <1>9, <1>10, <1>11,
       <1>12, <1>13, <1>14, <1>15, <1>16, <1>17, <1>18, <1>19, <1>20
    DEF Next, OrchestratorStep, Environment

(* Type correctness of the model of log_throughput: every reachable state  *)
(* gives every variable a value of its type, whatever the constants.       *)
THEOREM TypeCorrect == Spec => []TypeOK
<1>1. IInv => TypeOK
    BY DEF IInv
<1>2. QED
    BY <1>1, InitIInv, NextIInv, PTL DEF Spec


\* LInv holds in every state of every behaviour.
THEOREM LInvHolds == Spec => []LInv
BY InitLInv, NextLInv, PTL DEF Spec

(* The rows a call of log_throughput aggregates are never start-up rows,   *)
(* and come from its own servers or from processes left by a call that     *)
(* raised, for every number of calls, rows and metrics files: the clear of *)
(* line 62 and the teardown loops of lines 69-71 and 79-80 see to it.      *)
THEOREM ResultIsFreshHolds == Spec => []ResultIsFresh
<1>1. LInv => ResultIsFresh
    BY DEF LInv, ResultsFresh, ResultIsFresh, Raised
<1>2. QED
    BY <1>1, LInvHolds, PTL

(* Between calls of log_throughput, a live server or a leaked process      *)
(* always belongs to a call that raised: the abort path and the normal     *)
(* path stop every server they started.                                    *)
THEOREM LeaksOnlyFromRaisedCallsHolds == Spec => []LeaksOnlyFromRaisedCalls
<1>1. LInv => LeaksOnlyFromRaisedCalls
    BY DEF LInv, IdleRunningRaised, LeakedRaised, LeaksOnlyFromRaisedCalls,
           Raised
<1>2. QED
    BY <1>1, LInvHolds, PTL

=============================================================================
