----------------------------- MODULE ProcessUtil -----------------------------
(***************************************************************************)
(* script/testing/util/common.py: run_command, through which the test      *)
(* scripts run a subprocess, the wrappers built on it (expect_command,     *)
(* run_check_pids, run_kill_server, run_collect_mem_info) and              *)
(* kill_pids_on_port, which runs "kill -9" through run_command for every   *)
(* process lsof lists on a port.                                           *)
(*                                                                         *)
(* run_command starts the child with its stdout and stderr on pipes and    *)
(* loops while the child is alive, reading one stdout line per iteration   *)
(* when printable.  A pipe holds PipeCapacity lines (the kernel's 64 KiB); *)
(* a child writing to a full pipe blocks until the parent reads from it.   *)
(* One call of one wrapper is modelled; the helper scripts it runs are     *)
(* external processes that print a few lines and exit.                    *)
(***************************************************************************)
EXTENDS Naturals, Sequences, FiniteSets

CONSTANTS
    PipeCapacity,  \* lines a pipe buffers before a write to it blocks
    MaxLines,      \* lines a helper script writes at most
    Pids,          \* processes that may listen on the port
    MaxListed      \* lines of lsof output at most

NoPid == 0

ASSUME ProcessUtilAssumption ==
    /\ PipeCapacity \in Nat \ {0}
    /\ MaxLines \in Nat
    /\ Pids \subseteq Nat \ {NoPid} /\ IsFiniteSet(Pids)
    /\ MaxListed \in Nat

Wrappers == {"expect_command", "run_check_pids", "run_kill_server",
             "run_collect_mem_info", "kill_pids_on_port"}

(* A line a child prints: the stream and its text, abstracted to the       *)
(* answers the helper scripts give ("True"/"False" from check_pids, the    *)
(* "rss,vms" pair from collect_mem_info) and kill's error message.         *)
Texts == {"True", "False", "rss,vms", "No such process"}
Line == [stream : {"out", "err"}, text : Texts]
Scripts == UNION {[1..n -> Line] : n \in 0..MaxLines}

\* The lines lsof prints: every listening process, once per listening socket.
Listings(S) ==
    {l \in UNION {[1..n -> S] : n \in 0..MaxListed} :
        {l[j] : j \in DOMAIN l} = S}

Results == {"none", "ok", "exit", "true", "false", "mem", "raised"}
PCs == {"start", "poll", "readline", "returned"}

VARIABLES
    wrapper,   \* the function of common.py being called
    pc,        \* where it is
    alive,     \* the child started by run_command has not exited
    script,    \* the lines the child (a helper script) has still to print
    target,    \* the pid the child kills, for "kill -9 <pid>", else NoPid
    childRc,   \* the child's exit code
    out, err,  \* the stdout and stderr pipes of the child
    logged,    \* the stdout lines the loop of run_command logged
    written,   \* every line the child printed on stdout (history)
    result,    \* what the wrapper returned, raised or exited with
    listeners, \* the processes listening on the port
    listed,    \* the pids lsof printed (kill_pids_on_port)
    k          \* index of the loop over them

vars == <<wrapper, pc, alive, script, target, childRc, out, err, logged,
          written, result, listeners, listed, k>>

-----------------------------------------------------------------------------
\* Mutant: run_check_pids and run_collect_mem_info keep the default printable.
PrintableDefault(w) == w # "kill_pids_on_port"

\* The printable argument each caller passes to run_command (default True,
\* line 19; False at lines 139, 194 and 229).
Printable(w) == w \in {"expect_command", "run_kill_server"}

(* Lines 24-29: Popen has started the child with fresh pipes; for        *)
(* kill_pids_on_port nothing runs yet.                                     *)
Init ==
    /\ wrapper \in Wrappers
    /\ listeners \in SUBSET Pids
    /\ listed = <<>>
    /\ k = 1
    /\ logged = <<>>
    /\ written = <<>>
    /\ result = "none"
    /\ IF wrapper = "kill_pids_on_port"
       THEN /\ pc = "start"
            /\ alive = FALSE /\ out = <<>> /\ err = <<>> /\ script = <<>>
            /\ childRc = 0 /\ target = NoPid
       ELSE /\ pc = "poll"
            /\ alive = TRUE /\ out = <<>> /\ err = <<>> /\ target = NoPid
            /\ script \in Scripts /\ childRc \in {0, 1}

-----------------------------------------------------------------------------
(* The child processes.                                                    *)

\* A helper script prints its next line; the write blocks while that pipe
\* is full.
ChildWrite ==
    LET l == Head(script) IN
    /\ alive
    /\ script # <<>>
    /\ IF l.stream = "out"
       THEN /\ Len(out) < PipeCapacity
            /\ out' = Append(out, l.text)
            /\ written' = Append(written, l.text)
            /\ UNCHANGED err
       ELSE /\ Len(err) < PipeCapacity
            /\ err' = Append(err, l.text)
            /\ UNCHANGED <<out, written>>
    /\ script' = Tail(script)
    /\ UNCHANGED <<wrapper, pc, alive, target, childRc, logged, result,
                   listeners, listed, k>>

\* A helper script that has printed everything exits.
ChildExit ==
    /\ alive
    /\ script = <<>>
    /\ target = NoPid
    /\ alive' = FALSE
    /\ UNCHANGED <<wrapper, pc, script, target, childRc, out, err, logged,
                   written, result, listeners, listed, k>>

\* "kill -9 <pid>": kills the process, or prints an error and exits with 1
\* when there is no such process.
ChildKill ==
    /\ alive
    /\ target # NoPid
    /\ IF target \in listeners
       THEN /\ listeners' = listeners \ {target}
            /\ childRc' = 0
            /\ UNCHANGED err
       ELSE /\ childRc' = 1
            /\ err' = Append(err, "No such process")
            /\ UNCHANGED listeners
    /\ alive' = FALSE
    /\ UNCHANGED <<wrapper, pc, script, target, out, logged, written, result,
                   listed, k>>

\* A process listening on the port exits by itself (a server shutting down).
ListenerExits ==
    /\ wrapper = "kill_pids_on_port"
    /\ \E p \in listeners : listeners' = listeners \ {p}
    /\ UNCHANGED <<wrapper, pc, alive, script, target, childRc, out, err,
                   logged, written, result, listed, k>>

-----------------------------------------------------------------------------
(* run_command (lines 15-39).                                              *)

\* Mutant: the loop tests p.returncode, which nothing sets, for p.poll().
LoopGoesOnReturncode == TRUE

\* Line 31: p.poll() is None, the child has not exited.
LoopGoesOn == alive

(* Lines 31-33: the child is alive, so the loop goes on and, when          *)
(* printable, reads a line.  Without printable an iteration changes        *)
(* nothing: the loop spins until the child exits.                          *)
Poll ==
    /\ pc = "poll"
    /\ LoopGoesOn
    /\ Printable(wrapper)
    /\ pc' = "readline"
    /\ UNCHANGED <<wrapper, alive, script, target, childRc, out, err, logged,
                   written, result, listeners, listed, k>>

\* readline returns a line, or "" at end of file once the child has exited.
ReadLineReturns == out # <<>> \/ ~alive

\* Lines 34-36: out = p.stdout.readline(); a line read is logged.
ReadLine ==
    /\ pc = "readline"
    /\ ReadLineReturns
    /\ IF out # <<>>
       THEN /\ logged' = Append(logged, Head(out))
            /\ out' = Tail(out)
       ELSE UNCHANGED <<logged, out>>
    /\ pc' = "poll"
    /\ UNCHANGED <<wrapper, alive, script, target, childRc, err, written,
                   result, listeners, listed, k>>

-----------------------------------------------------------------------------
(* What the callers do with the return code and the pipes.                 *)

\* expect_command, lines 56-59: a failure is logged and ends the script.
ExpectCommandResult == IF childRc # 0 THEN "exit" ELSE "ok"

\* run_check_pids, lines 196-202: the first line left on stdout is compared
\* with "True".
CheckPidsResult ==
    IF childRc # 0 THEN "false"
    ELSE IF out # <<>> /\ Head(out) = "True" THEN "true" ELSE "false"

\* run_kill_server, lines 215-217.
KillServerResult == IF childRc # 0 THEN "raised" ELSE "ok"

\* run_collect_mem_info, lines 231-241: the first line left on stdout is
\* split in two; a line without the separator raises ValueError.
MemInfoResult ==
    IF childRc # 0 THEN "false"
    ELSE IF out # <<>> /\ Head(out) = "rss,vms" THEN "mem" ELSE "raised"

\* Mutant: the loop over the lsof lines stops one line early.
MoreToKillEarlyExit == k < Len(listed) - 1

\* Line 134: lsof printed more pids than those killed so far.
MoreToKill == k < Len(listed)

\* Mutant: the loop position moves one past the pid being killed.
SpawnKillSkipAhead(j) ==
    /\ alive' = TRUE
    /\ out' = <<>>
    /\ err' = <<>>
    /\ script' = <<>>
    /\ childRc' = 0
    /\ target' = listed'[j]
    /\ k' = j + 1

\* Line 137: run "kill -9 <pid>" for the j-th pid.
SpawnKill(j) ==
    /\ alive' = TRUE
    /\ out' = <<>>
    /\ err' = <<>>
    /\ script' = <<>>
    /\ childRc' = 0
    /\ target' = listed'[j]
    /\ k' = j

(* Lines 38-39: the child has exited, so run_command returns its code and  *)
(* pipes, and the caller goes on; in kill_pids_on_port (lines 139-142) a   *)
(* failed kill raises, and a successful one moves to the next pid.         *)
Return ==
    /\ pc = "poll"
    /\ ~alive
    /\ IF wrapper = "kill_pids_on_port"
       THEN IF childRc = 0 /\ MoreToKill
            THEN /\ UNCHANGED <<pc, result, listed>>
                 /\ SpawnKill(k + 1)
            ELSE /\ result' = IF childRc # 0 THEN "raised" ELSE "ok"
                 /\ pc' = "returned"
                 /\ UNCHANGED <<alive, script, target, childRc, out, err,
                                listed, k>>
       ELSE /\ result' = CASE wrapper = "expect_command" -> ExpectCommandResult
                           [] wrapper = "run_check_pids" -> CheckPidsResult
                           [] wrapper = "run_kill_server" -> KillServerResult
                           [] OTHER -> MemInfoResult
            /\ pc' = "returned"
            /\ UNCHANGED <<alive, script, target, childRc, out, err, listed, k>>
    /\ UNCHANGED <<wrapper, logged, written, listeners>>

(* kill_pids_on_port, lines 118-133: refuse unless root, then list the     *)
(* pids listening on the port and kill the first one.                      *)
KillPidsOnPort ==
    /\ pc = "start"
    /\ \/ \* line 118: not root
          /\ result' = "raised"
          /\ pc' = "returned"
          /\ UNCHANGED <<alive, script, target, childRc, out, err, listed, k>>
       \/ /\ listed' \in Listings(listeners)
          /\ IF listed' = <<>>
             THEN /\ result' = "ok"
                  /\ pc' = "returned"
                  /\ UNCHANGED <<alive, script, target, childRc, out, err, k>>
             ELSE /\ SpawnKill(1)
                  /\ pc' = "poll"
                  /\ UNCHANGED result
    /\ UNCHANGED <<wrapper, logged, written, listeners>>

Terminated ==
    /\ pc = "returned"
    /\ UNCHANGED vars

ParentStep == KillPidsOnPort \/ Poll \/ ReadLine \/ Return

ChildStep == ChildWrite \/ ChildExit \/ ChildKill

Next == ParentStep \/ ChildStep \/ ListenerExits \/ Terminated

(* The parent and the child are processes the operating system keeps      *)
(* scheduling, so each is weakly fair; the listeners exit or not.          *)
Spec == Init /\ [][Next]_vars /\ WF_vars(ParentStep) /\ WF_vars(ChildStep)

-----------------------------------------------------------------------------
(* Properties                                                              *)

TypeOK ==
    /\ wrapper \in Wrappers
    /\ pc \in PCs
    /\ alive \in BOOLEAN
    /\ script \in Scripts
    /\ target \in Pids \cup {NoPid}
    /\ childRc \in {0, 1}
    /\ out \in Seq(Texts) /\ Len(out) <= PipeCapacity
    /\ err \in Seq(Texts) /\ Len(err) <= PipeCapacity
    /\ logged \in Seq(Texts)
    /\ written \in Seq(Texts)
    /\ result \in Results
    /\ listeners \subseteq Pids
    /\ listed \in Seq(Pids)
    /\ k \in 1..Len(listed) \/ (listed = <<>> /\ k = 1)

\* The answer line of the helper run_check_pids and run_collect_mem_info run.
AnswerText(w) == IF w = "run_check_pids" THEN "True" ELSE "rss,vms"

(* run_check_pids and run_collect_mem_info answer from the first line the  *)
(* helper script printed on stdout (lines 201 and 236): the loop of        *)
(* run_command must leave that line in the pipe for them.                  *)
AnswerIsChildsAnswer ==
    /\ pc = "returned"
    /\ wrapper \in {"run_check_pids", "run_collect_mem_info"}
    /\ childRc = 0
    => (result \in {"true", "mem"} <=>
            written # <<>> /\ written[1] = AnswerText(wrapper))

(* When kill_pids_on_port returns normally, no process lsof listed on the  *)
(* port is still alive (lines 134-144 kill every one of them).             *)
ListedListenersKilled ==
    pc = "returned" /\ wrapper = "kill_pids_on_port" /\ result = "ok" =>
        \A j \in 1..Len(listed) : listed[j] \notin listeners

\* The number of lines the child has still to print on a stream.
LinesOn(stream) == Cardinality({j \in DOMAIN script : script[j].stream = stream})

\* The child's output never fills a pipe the parent does not read: stderr
\* is never read, stdout is read only by a printable call (lines 33-34).
PipesHoldOutput ==
    /\ LinesOn("err") <= PipeCapacity
    /\ Printable(wrapper) \/ LinesOn("out") <= PipeCapacity

(* A call of a wrapper returns exactly when the helper's output does not   *)
(* fill a pipe the loop of lines 31-36 leaves unread: a printable call     *)
(* drains stdout line by line however much the child prints, and any       *)
(* other call (a child blocked on a full stderr pipe, or on a full stdout  *)
(* pipe when not printable) never returns.                                 *)
ReturnsExactlyWhenPipesHold ==
    /\ PipesHoldOutput => <>(pc = "returned")
    /\ ~PipesHoldOutput => [](pc # "returned")

(* Every call of a wrapper of run_command returns: the loop of lines       *)
(* 31-36 ends once the child exits, and the child is never stuck.          *)
WrapperReturns == <>(pc = "returned")

=============================================================================
