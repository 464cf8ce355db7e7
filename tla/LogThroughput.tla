---------------------------- MODULE LogThroughput ----------------------------
(***************************************************************************)
(* The log-throughput test driver of script/testing/replication/           *)
(* log_throughput: the orchestrator function log_throughput (setup -> run  *)
(* -> sync -> teardown -> collect), the node servers it drives, the        *)
(* replica synchronisation and the metrics files the servers append to.    *)
(*                                                                         *)
(* The orchestrator is one sequential Python function; the servers are     *)
(* external processes that append metrics rows, ship and apply log records *)
(* and may die at any moment.  Several calls of log_throughput in one      *)
(* Python process are modelled (MaxInvocations) because the function       *)
(* mutates the module-level list METRICS_FILES.                            *)
(*                                                                         *)
(* NodeServer, PrimaryNode, ReplicaNode, replica_sync and the metrics-file *)
(* helpers are not in the source tree; their behaviour is taken from the   *)
(* contract in the specification (sections 4.1, 4.2 and 6).               *)
(***************************************************************************)
EXTENDS Naturals, Sequences, FiniteSets, Functions

CONSTANTS
    LOG_SERIALIZER_CSV,   \* metrics file of log records created (primary)
    RECOVERY_MANAGER_CSV, \* metrics file of log records applied (replica)
    METRICS_FILES,        \* initial value of the module-level list METRICS_FILES
    MaxInvocations,       \* calls of log_throughput made by the Python process
    MaxRows,              \* rows kept per metrics file (a model bound)
    MaxLog,               \* log records a primary produces or a replay file holds
    SyncTimeout,          \* polls replica_sync makes before it gives up
    TeardownMayFail       \* whether NodeServer.teardown may raise

ASSUME ConstantsAssumption ==
    /\ LOG_SERIALIZER_CSV # RECOVERY_MANAGER_CSV
    /\ {LOG_SERIALIZER_CSV, RECOVERY_MANAGER_CSV} \subseteq METRICS_FILES
    /\ IsFiniteSet(METRICS_FILES)
    /\ MaxInvocations \in Nat \ {0}
    /\ MaxRows \in Nat
    /\ MaxLog \in Nat
    /\ SyncTimeout \in Nat
    /\ TeardownMayFail \in BOOLEAN

TestTypes == {"primary", "replica"}         \* TestType values
Roles == {"Primary", "Replica"}             \* PrimaryNode, ReplicaNode
Slots == 1..2                               \* get_servers returns <= 2 servers
Phases == {"created", "ready", "running", "failed", "torndown", "teardownraised"}
PCs == {"idle", "setup", "run", "cleanup", "sync", "teardown"}
Kinds == {"result", "insufficient", "aborted", "raised"}

(* A metrics row is abstracted to the call of log_throughput whose servers *)
(* wrote it and whether it was written while the server was starting up.  *)
Row == [inv : 1..MaxInvocations, startup : BOOLEAN]
Proc == [role : Roles, inv : 1..MaxInvocations]
Outcome == [kind : Kinds, rows : Seq(Row)]

VARIABLES
    metricsFiles, \* the module-level list METRICS_FILES
    invocation,   \* calls of log_throughput made so far
    pc,           \* where the current call of log_throughput is
    metricsFile,  \* its local metrics_file
    servers,      \* its local servers, as the sequence of their roles
    i,            \* index of the for-loop over servers
    node,         \* node[s]: process liveness and lifecycle phase of servers[s]
    leaked,       \* processes of earlier calls that are still alive
    files,        \* rows of every metrics file in the working directory
    produced,     \* last log position produced by the primary
    applied,      \* last log position applied by the replica
    polls,        \* polls made by replica_sync
    outcome       \* outcome[k]: how the k-th call of log_throughput ended

vars == <<metricsFiles, invocation, pc, metricsFile, servers, i, node, leaked,
          files, produced, applied, polls, outcome>>

-----------------------------------------------------------------------------
(* Helpers                                                                 *)

\* log_throughput line 50: the one relevant metrics file of a test type.
MetricsFileOf(testType) ==
    IF testType = "primary" THEN LOG_SERIALIZER_CSV ELSE RECOVERY_MANAGER_CSV

\* The metrics file a server of a role appends to (spec 3, MetricsFile).
FileOf(role) ==
    IF role = "Primary" THEN LOG_SERIALIZER_CSV ELSE RECOVERY_MANAGER_CSV

\* get_servers: a primary (followed by a replica when replication is
\* enabled) for the primary test, a lone replica for the replica test.
GetServers(testType, replicationEnabled) ==
    IF testType = "primary"
    THEN IF replicationEnabled THEN <<"Primary", "Replica">> ELSE <<"Primary">>
    ELSE <<"Replica">>

ServerSlots == 1..Len(servers)

\* NodeServer.is_running for every server of the current call.
Running == {s \in ServerSlots : node[s].alive}

\* A metrics file keeps at most MaxRows rows in the model.
AppendRow(f, row) ==
    IF Len(files[f]) < MaxRows THEN Append(files[f], row) ELSE files[f]

HasPrimary == \E s \in ServerSlots : servers[s] = "Primary"

FreshNode == [alive |-> FALSE, phase |-> "created"]

-----------------------------------------------------------------------------
Init ==
    /\ metricsFiles = METRICS_FILES
    /\ invocation = 0
    /\ pc = "idle"
    /\ metricsFile = LOG_SERIALIZER_CSV
    /\ servers = <<>>
    /\ i = 1
    /\ node = [s \in Slots |-> FreshNode]
    /\ leaked = {}
    /\ files = [f \in METRICS_FILES |-> <<>>]
    /\ produced = 0
    /\ applied = 0
    /\ polls = 0
    /\ outcome = <<>>

-----------------------------------------------------------------------------
(* The orchestrator: one call of log_throughput, statement by statement.   *)

\* Lines 47-55: pick the metrics file, remove it from the module-level list
\* METRICS_FILES (other_metrics_files is that very list, not a copy) and
\* build the servers.  list.remove raises ValueError when the file is no
\* longer in the list, which a previous call left it as.
LogThroughputCall(testType, replicationEnabled) ==
    LET mf == MetricsFileOf(testType) IN
    /\ pc = "idle"
    /\ invocation < MaxInvocations
    /\ invocation' = invocation + 1
    /\ leaked' = leaked \cup
                 {[role |-> servers[s], inv |-> invocation] : s \in Running}
    /\ node' = [s \in Slots |-> FreshNode]
    /\ \/ /\ mf \in metricsFiles
          /\ metricsFiles' = metricsFiles \ {mf}
          /\ metricsFile' = mf
          /\ servers' = GetServers(testType, replicationEnabled)
          /\ pc' = "setup"
          /\ i' = 1
          /\ produced' = 0
          /\ applied' = 0
          /\ polls' = 0
          /\ UNCHANGED <<files, outcome>>
       \/ /\ mf \notin metricsFiles
          /\ outcome' = Append(outcome, [kind |-> "raised", rows |-> <<>>])
          /\ UNCHANGED <<metricsFiles, metricsFile, servers, pc, i, files,
                         produced, applied, polls>>

\* Lines 58-59: server.setup() starts the server process, which writes its
\* start-up log records to its metrics file.
SetupServer ==
    LET f == FileOf(servers[i]) IN
    /\ pc = "setup"
    /\ i \in ServerSlots
    /\ node' = [node EXCEPT ![i] = [alive |-> TRUE, phase |-> "ready"]]
    /\ files' = [files EXCEPT ![f] =
                    AppendRow(f, [inv |-> invocation, startup |-> TRUE])]
    /\ i' = i + 1
    /\ UNCHANGED <<metricsFiles, invocation, pc, metricsFile, servers, leaked,
                   produced, applied, polls, outcome>>

\* Lines 59 and 67-68: setup() raises RuntimeError; the process may or may
\* not have been spawned.  The handler walks the servers from the first.
SetupServerFails ==
    /\ pc = "setup"
    /\ i \in ServerSlots
    /\ \E alive \in BOOLEAN :
          node' = [node EXCEPT ![i] = [alive |-> alive, phase |-> "failed"]]
    /\ pc' = "cleanup"
    /\ i' = 1
    /\ UNCHANGED <<metricsFiles, invocation, metricsFile, servers, leaked,
                   files, produced, applied, polls, outcome>>

\* Mutant: the delete_metrics_file of line 62 is left out.
ClearStartupMetricsSkipped ==
    /\ pc = "setup"
    /\ i = Len(servers) + 1
    /\ pc' = "run"
    /\ i' = 1
    /\ UNCHANGED <<metricsFiles, invocation, metricsFile, servers, node, leaked,
                   files, produced, applied, polls, outcome>>

\* Lines 61-62: after every setup, delete_metrics_file(metrics_file) drops
\* the start-up rows; then the loop of line 64 begins.
ClearStartupMetrics ==
    /\ pc = "setup"
    /\ i = Len(servers) + 1
    /\ files' = [files EXCEPT ![metricsFile] = <<>>]
    /\ pc' = "run"
    /\ i' = 1
    /\ UNCHANGED <<metricsFiles, invocation, metricsFile, servers, node, leaked,
                   produced, applied, polls, outcome>>

\* Lines 64-65: server.run() starts the workload of a live server.
RunServer ==
    /\ pc = "run"
    /\ i \in ServerSlots
    /\ node[i].alive
    /\ node' = [node EXCEPT ![i].phase = "running"]
    /\ i' = i + 1
    /\ UNCHANGED <<metricsFiles, invocation, pc, metricsFile, servers, leaked,
                   files, produced, applied, polls, outcome>>

\* Lines 65 and 67-68: run() raises RuntimeError.
RunServerFails ==
    /\ pc = "run"
    /\ i \in ServerSlots
    /\ pc' = "cleanup"
    /\ i' = 1
    /\ UNCHANGED <<metricsFiles, invocation, metricsFile, servers, node, leaked,
                   files, produced, applied, polls, outcome>>

\* Mutant: the is_running() test of line 70 is negated.
CleanupServerWrongGuard ==
    /\ pc = "cleanup"
    /\ i \in ServerSlots
    /\ node' = IF ~node[i].alive
               THEN [node EXCEPT ![i] = [alive |-> FALSE, phase |-> "torndown"]]
               ELSE node
    /\ i' = i + 1
    /\ UNCHANGED <<metricsFiles, invocation, pc, metricsFile, servers, leaked,
                   files, produced, applied, polls, outcome>>

\* Lines 69-71: tear down the server if server.is_running().
CleanupServer ==
    /\ pc = "cleanup"
    /\ i \in ServerSlots
    /\ node' = IF node[i].alive
               THEN [node EXCEPT ![i] = [alive |-> FALSE, phase |-> "torndown"]]
               ELSE node
    /\ i' = i + 1
    /\ UNCHANGED <<metricsFiles, invocation, pc, metricsFile, servers, leaked,
                   files, produced, applied, polls, outcome>>

\* Line 71: teardown() raises inside the except block and the process stays
\* alive; the exception leaves log_throughput and the later servers are
\* never torn down.
CleanupServerRaises ==
    /\ TeardownMayFail
    /\ pc = "cleanup"
    /\ i \in ServerSlots
    /\ node[i].alive
    /\ node' = [node EXCEPT ![i].phase = "teardownraised"]
    /\ outcome' = Append(outcome, [kind |-> "raised", rows |-> <<>>])
    /\ pc' = "idle"
    /\ UNCHANGED <<metricsFiles, invocation, metricsFile, servers, i,
                   leaked, files, produced, applied, polls>>

\* Line 72: return without a result.
Abort ==
    /\ pc = "cleanup"
    /\ i = Len(servers) + 1
    /\ outcome' = Append(outcome, [kind |-> "aborted", rows |-> <<>>])
    /\ pc' = "idle"
    /\ UNCHANGED <<metricsFiles, invocation, metricsFile, servers, i, node,
                   leaked, files, produced, applied, polls>>

\* Lines 74-77 and sync_servers (119-139): with fewer than two servers, or
\* without exactly one primary (the RuntimeError of line 131 is caught by
\* line 76 and logged), there is nothing to wait for; otherwise
\* replica_sync(primary, replicas) starts polling.
SyncServers ==
    /\ pc = "run"
    /\ i = Len(servers) + 1
    /\ IF Len(servers) >= 2
          /\ Cardinality({s \in ServerSlots : servers[s] = "Primary"}) = 1
       THEN /\ pc' = "sync"
            /\ UNCHANGED i
       ELSE /\ pc' = "teardown"
            /\ i' = 1
    /\ polls' = 0
    /\ UNCHANGED <<metricsFiles, invocation, metricsFile, servers, node, leaked,
                   files, produced, applied, outcome>>

\* Mutant: replica_sync without a timeout.
ReplicaSyncReturnsNoTimeout ==
    /\ pc = "sync"
    /\ \/ \E s \in ServerSlots : ~node[s].alive
       \/ applied >= produced
    /\ pc' = "teardown"
    /\ i' = 1
    /\ UNCHANGED <<metricsFiles, invocation, metricsFile, servers, node, leaked,
                   files, produced, applied, polls, outcome>>

\* replica_sync, one poll that ends the wait: every replica has applied
\* what the primary produced, or a server cannot be queried (the exception
\* is caught at line 76), or the timeout expired (also caught at line 76).
ReplicaSyncReturns ==
    /\ pc = "sync"
    /\ \/ \E s \in ServerSlots : ~node[s].alive
       \/ applied >= produced
       \/ polls = SyncTimeout
    /\ pc' = "teardown"
    /\ i' = 1
    /\ UNCHANGED <<metricsFiles, invocation, metricsFile, servers, node, leaked,
                   files, produced, applied, polls, outcome>>

\* Mutant: the poll limit is checked with <= instead of <.
ReplicaSyncWaitsOffByOne ==
    /\ pc = "sync"
    /\ \A s \in ServerSlots : node[s].alive
    /\ applied < produced
    /\ polls <= SyncTimeout
    /\ polls' = polls + 1
    /\ UNCHANGED <<metricsFiles, invocation, pc, metricsFile, servers, i, node,
                   leaked, files, produced, applied, outcome>>

\* replica_sync, one poll that finds the replica behind: wait and poll again.
ReplicaSyncWaits ==
    /\ pc = "sync"
    /\ \A s \in ServerSlots : node[s].alive
    /\ applied < produced
    /\ polls < SyncTimeout
    /\ polls' = polls + 1
    /\ UNCHANGED <<metricsFiles, invocation, pc, metricsFile, servers, i, node,
                   leaked, files, produced, applied, outcome>>

\* Lines 79-80: server.teardown() for every server, alive or not.
TeardownServer ==
    /\ pc = "teardown"
    /\ i \in ServerSlots
    /\ node' = [node EXCEPT ![i] = [alive |-> FALSE, phase |-> "torndown"]]
    /\ i' = i + 1
    /\ UNCHANGED <<metricsFiles, invocation, pc, metricsFile, servers, leaked,
                   files, produced, applied, polls, outcome>>

\* Line 80: teardown() raises and the process stays as it was; nothing
\* catches the exception.
TeardownServerRaises ==
    /\ TeardownMayFail
    /\ pc = "teardown"
    /\ i \in ServerSlots
    /\ node' = [node EXCEPT ![i].phase = "teardownraised"]
    /\ outcome' = Append(outcome, [kind |-> "raised", rows |-> <<>>])
    /\ pc' = "idle"
    /\ UNCHANGED <<metricsFiles, invocation, metricsFile, servers, i,
                   leaked, files, produced, applied, polls>>

\* Lines 82-87 and aggregate_log_throughput (148-156): delete the files
\* left in other_metrics_files, move metrics_file to the results directory
\* and aggregate it; after dropping the first row, one row or none is
\* "not enough data".
CollectResults ==
    LET rows == files[metricsFile] IN
    /\ pc = "teardown"
    /\ i = Len(servers) + 1
    /\ files' = [f \in METRICS_FILES |->
                    IF f \in metricsFiles \/ f = metricsFile THEN <<>>
                    ELSE files[f]]
    /\ outcome' = Append(outcome,
                    [kind |-> IF Len(rows) - 1 <= 1 THEN "insufficient"
                                                    ELSE "result",
                     rows |-> rows])
    /\ pc' = "idle"
    /\ UNCHANGED <<metricsFiles, invocation, metricsFile, servers, i, node,
                   leaked, produced, applied, polls>>

-----------------------------------------------------------------------------
(* The server processes, which run independently of the orchestrator.     *)

\* A running primary produces a log record and samples it to its file.
Produce(s) ==
    /\ servers[s] = "Primary"
    /\ node[s].alive
    /\ node[s].phase = "running"
    /\ produced < MaxLog
    /\ produced' = produced + 1
    /\ files' = [files EXCEPT ![LOG_SERIALIZER_CSV] =
                    AppendRow(LOG_SERIALIZER_CSV,
                              [inv |-> invocation, startup |-> FALSE])]
    /\ UNCHANGED <<metricsFiles, invocation, pc, metricsFile, servers, i, node,
                   leaked, applied, polls, outcome>>

\* A running replica applies a log record shipped by the primary or, in the
\* replica test, read from the log messages file.
Apply(s) ==
    /\ servers[s] = "Replica"
    /\ node[s].alive
    /\ node[s].phase = "running"
    /\ applied < (IF HasPrimary THEN produced ELSE MaxLog)
    /\ applied' = applied + 1
    /\ files' = [files EXCEPT ![RECOVERY_MANAGER_CSV] =
                    AppendRow(RECOVERY_MANAGER_CSV,
                              [inv |-> invocation, startup |-> FALSE])]
    /\ UNCHANGED <<metricsFiles, invocation, pc, metricsFile, servers, i, node,
                   leaked, produced, polls, outcome>>

\* A server process dies.
Crash(s) ==
    /\ node[s].alive
    /\ node' = [node EXCEPT ![s].alive = FALSE]
    /\ UNCHANGED <<metricsFiles, invocation, pc, metricsFile, servers, i,
                   leaked, files, produced, applied, polls, outcome>>

\* A process left alive by an earlier call keeps writing its metrics file.
LeakedWrite(p) ==
    /\ Len(files[FileOf(p.role)]) < MaxRows
    /\ files' = [files EXCEPT ![FileOf(p.role)] =
                    Append(files[FileOf(p.role)],
                           [inv |-> p.inv, startup |-> FALSE])]
    /\ UNCHANGED <<metricsFiles, invocation, pc, metricsFile, servers, i, node,
                   leaked, produced, applied, polls, outcome>>

\* The Python process has made all its calls.
Terminated ==
    /\ pc = "idle"
    /\ invocation = MaxInvocations
    /\ UNCHANGED vars

-----------------------------------------------------------------------------
OrchestratorStep ==
    \/ SetupServer \/ SetupServerFails \/ ClearStartupMetrics
    \/ RunServer \/ RunServerFails
    \/ CleanupServer \/ CleanupServerRaises \/ Abort
    \/ SyncServers \/ ReplicaSyncReturns \/ ReplicaSyncWaits
    \/ TeardownServer \/ TeardownServerRaises \/ CollectResults

Environment ==
    \/ \E s \in ServerSlots : Produce(s) \/ Apply(s) \/ Crash(s)
    \/ \E p \in leaked : LeakedWrite(p)

Next ==
    \/ \E testType \in TestTypes, replicationEnabled \in BOOLEAN :
          LogThroughputCall(testType, replicationEnabled)
    \/ OrchestratorStep
    \/ Environment
    \/ Terminated

(* The orchestrator is a sequential function whose every statement returns *)
(* (replica_sync has a timeout), so it is weakly fair; the servers and the *)
(* caller of log_throughput are not.                                       *)
Spec == Init /\ [][Next]_vars /\ WF_vars(OrchestratorStep)


-----------------------------------------------------------------------------
(* Properties                                                              *)

TypeOK ==
    /\ metricsFiles \subseteq METRICS_FILES
    /\ invocation \in 0..MaxInvocations
    /\ pc \in PCs
    /\ metricsFile \in {LOG_SERIALIZER_CSV, RECOVERY_MANAGER_CSV}
    /\ servers \in Seq(Roles) /\ Len(servers) <= 2
    /\ i \in 1..3
    /\ node \in [Slots -> [alive : BOOLEAN, phase : Phases]]
    /\ leaked \subseteq Proc
    /\ files \in [METRICS_FILES -> Seq(Row)]
    /\ \A f \in METRICS_FILES : Len(files[f]) <= MaxRows
    /\ produced \in 0..MaxLog
    /\ applied \in 0..MaxLog
    /\ polls \in 0..SyncTimeout
    /\ outcome \in Seq(Outcome)

(* The result of a call of log_throughput is measured on its own servers   *)
(* after their start-up: no row of the file it moves and aggregates is a   *)
(* start-up row (the clear of line 62), and a row written by a process of  *)
(* an earlier call can only come from a call that raised, whose teardown   *)
(* loop (lines 69-71 or 79-80) stopped early; a call that returned or      *)
(* aborted stopped all its servers.                                        *)
ResultIsFresh ==
    \A k \in 1..Len(outcome) :
        outcome[k].kind \in {"result", "insufficient"} =>
            \A r \in Range(outcome[k].rows) :
                /\ ~r.startup
                /\ r.inv = k \/ outcome[r.inv].kind = "raised"

(* Between calls, every server process still alive was started by a call  *)
(* that raised: the abort path (lines 69-72) and the normal path (79-80)   *)
(* tear down every live server unless a teardown raises.                   *)
LeaksOnlyFromRaisedCalls ==
    pc = "idle" =>
        /\ Running # {} => outcome[invocation].kind = "raised"
        /\ \A p \in leaked : outcome[p.inv].kind = "raised"

(* Spec 4.4 step 3 and spec 5: cleanup is best-effort and every server is *)
(* torn down once setup has begun, whatever fails later.  So when          *)
(* log_throughput has returned, a server of the call is still running only *)
(* if its own teardown (line 71 or 80) raised: one failing teardown does   *)
(* not keep the other servers of the list alive.                           *)
FailedTeardownLeaksOnlyItself ==
    pc = "idle" => \A s \in Running : node[s].phase = "teardownraised"

(* Every call of log_throughput returns, whatever the servers do: a dead   *)
(* or stalled replica cannot hold the orchestrator in replica_sync forever. *)
InvocationReturns ==
    [](pc # "idle" => <>(pc = "idle"))

(* Spec 5: servers are torn down in reverse setup order, so that the       *)
(* primary, which a replica may still need, is torn down last: once the    *)
(* primary of a call is torn down no replica of the call is still alive.   *)
PrimaryTornDownLast ==
    \A s, t \in ServerSlots :
        /\ servers[s] = "Primary"
        /\ node[s].phase = "torndown"
        /\ servers[t] = "Replica"
        => ~node[t].alive

(* Spec 4.4 step 7 and 8: after a call that produced a measurement, the    *)
(* relevant file has been moved and every other candidate metrics file     *)
(* deleted, so no metrics file is left behind for a later run.             *)
OtherMetricsFilesDeleted ==
    /\ pc = "idle"
    /\ Len(outcome) > 0
    /\ outcome[Len(outcome)].kind \in {"result", "insufficient"}
    => \A f \in METRICS_FILES : files[f] = <<>>

=============================================================================
