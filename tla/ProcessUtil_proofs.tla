--------------------------- MODULE ProcessUtil_proofs ---------------------------
(***************************************************************************)
(* Proofs about the process utilities of common.py: the wrappers that read *)
(* an answer from a helper script read the line it printed first, and      *)
(* kill_pids_on_port reports success only when every pid lsof listed is    *)
(* dead, for every pipe capacity, script length and set of pids.           *)
(***************************************************************************)
EXTENDS ProcessUtil, SequenceTheorems, TLAPS

\* The wrappers that pass printable=False and read their answer from stdout.
Answering == {"run_check_pids", "run_collect_mem_info"}

\* The result the caller computes from the pipes once the child has exited.
AnswerResult ==
    IF wrapper = "run_check_pids" THEN CheckPidsResult ELSE MemInfoResult

(***************************************************************************)
(* The inductive invariant.                                                *)
(*  - A wrapper that answers from stdout never reads it in the loop, so    *)
(*    the pipe holds everything the child printed there, and once it has   *)
(*    returned the child is gone and its result was computed from it.      *)
(*  - In kill_pids_on_port the child kills listed[k]; every pid listed     *)
(*    before it is dead, and so is listed[k] once the kill has exited.     *)
(***************************************************************************)
PType ==
    /\ wrapper \in Wrappers
    /\ pc \in PCs
    /\ out \in Seq(Texts) /\ written \in Seq(Texts)
    /\ script \in Seq(Line)
    /\ listeners \subseteq Pids
    /\ listed \in Seq(Pids)
    /\ k \in Nat
    /\ pc = "start" => wrapper = "kill_pids_on_port"

PAns ==
    wrapper \in Answering =>
        /\ target = NoPid
        /\ out = written
        /\ pc \in {"poll", "returned"}
        /\ pc = "returned" => ~alive /\ result = AnswerResult

PKill ==
    wrapper = "kill_pids_on_port" =>
        /\ script = <<>>
        /\ pc \in {"start", "poll", "returned"}
        /\ pc = "start" => listed = <<>>
        /\ listed = <<>> => ~alive
        /\ pc = "poll" => listed # <<>>
        /\ pc # "start" /\ listed # <<>> =>
              /\ k \in 1..Len(listed)
              /\ target = listed[k]
              /\ \A j \in 1..k - 1 : listed[j] \notin listeners
              /\ ~alive => listed[k] \notin listeners
        /\ pc = "returned" /\ listed # <<>> =>
              ~alive /\ (result = "ok" => k = Len(listed))

PInv == PType /\ PAns /\ PKill

(* Only kill_pids_on_port runs "kill -9", and the stderr of the kill is    *)
(* empty until it exits: ChildKill writes its error without waiting for    *)
(* room in the pipe.                                                       *)
KillErrEmpty ==
    target # NoPid => wrapper = "kill_pids_on_port" /\ (alive => err = <<>>)

\* The invariant behind type correctness.
TInv == TypeOK /\ PInv /\ KillErrEmpty

-----------------------------------------------------------------------------
\* Every helper script is a sequence of lines, every lsof listing one of pids.
LEMMA ScriptsAreSeqs == Scripts \subseteq Seq(Line)
BY ProcessUtilAssumption DEF Scripts

LEMMA ListingsAreSeqs ==
    ASSUME NEW S \in SUBSET Pids
    PROVE  Listings(S) \subseteq Seq(Pids)
<1> SUFFICES ASSUME NEW l \in Listings(S) PROVE l \in Seq(Pids)
  OBVIOUS
<1>1. PICK n \in 0..MaxListed : l \in [1..n -> S]
  BY DEF Listings
<1>2. n \in Nat
  BY ProcessUtilAssumption
<1>3. l \in [1..n -> Pids]
  BY <1>1
<1>4. QED
  BY <1>2, <1>3, SeqDef

\* The answer of a wrapper depends only on the child's code and stdout.
LEMMA AnswerResultUnchanged ==
    ASSUME UNCHANGED <<wrapper, childRc, out>>
    PROVE  AnswerResult' = AnswerResult
BY DEF AnswerResult, CheckPidsResult, MemInfoResult

\* The initial states of run_command and of kill_pids_on_port satisfy PInv.
LEMMA InitPInv == Init => PInv
<1> SUFFICES ASSUME Init PROVE PInv
  OBVIOUS
<1>1. CASE wrapper = "kill_pids_on_port"
  BY <1>1 DEF Init, PInv, PType, PAns, PKill, Wrappers, PCs, Answering
<1>2. CASE wrapper # "kill_pids_on_port"
  <2>1. script \in Seq(Line)
    BY <1>2, ScriptsAreSeqs DEF Init
  <2>2. QED
    BY <1>2, <2>1 DEF Init, PInv, PType, PAns, PKill, Wrappers, PCs, Answering
<1>3. QED
  BY <1>1, <1>2

\* Every step of the parent, the child or a listener preserves PInv.
LEMMA NextPInv == PInv /\ [Next]_vars => PInv'
<1> SUFFICES ASSUME PInv, [Next]_vars PROVE PInv'
  OBVIOUS
<1> USE DEF PInv
<1>1. CASE ChildWrite
  <2>1. wrapper # "kill_pids_on_port"
    BY <1>1 DEF ChildWrite, PKill
  <2>2. Head(script) \in Line /\ Tail(script) \in Seq(Line)
    BY <1>1 DEF ChildWrite, PType
  <2>3. out' \in Seq(Texts) /\ written' \in Seq(Texts)
    <3>1. Head(script).text \in Texts
      BY <2>2 DEF Line
    <3>2. CASE Head(script).stream = "out"
      <4>1. /\ out' = Append(out, Head(script).text)
            /\ written' = Append(written, Head(script).text)
        BY <1>1, <3>2 DEF ChildWrite
      <4>2. out \in Seq(Texts) /\ written \in Seq(Texts)
        BY DEF PType
      <4>3. QED
        BY <3>1, <4>1, <4>2, AppendProperties
    <3>3. CASE Head(script).stream # "out"
      BY <1>1, <3>3 DEF ChildWrite, PType
    <3>4. QED
      BY <3>2, <3>3
  <2>6. PType'
    BY <1>1, <2>2, <2>3 DEF ChildWrite, PType
  <2>4. PAns'
    BY <1>1 DEF ChildWrite, PAns
  <2>5. QED
    BY <1>1, <2>1, <2>6, <2>4 DEF ChildWrite, PKill
<1>2. CASE ChildExit
  <2>1. wrapper # "kill_pids_on_port"
    <3> SUFFICES ASSUME wrapper = "kill_pids_on_port" PROVE FALSE
      OBVIOUS
    <3>1. pc = "poll" /\ listed # <<>>
      BY <1>2 DEF ChildExit, PKill, PType, PCs
    <3>2. k \in 1..Len(listed) /\ target = listed[k]
      BY <3>1 DEF PKill
    <3>3. target \in Pids
      BY <3>2 DEF PType
    <3>4. QED
      BY <1>2, <3>3, ProcessUtilAssumption DEF ChildExit, NoPid
  <2>2. PAns'
    BY <1>2, AnswerResultUnchanged DEF ChildExit, PAns
  <2>3. QED
    BY <1>2, <2>1, <2>2 DEF ChildExit, PType, PKill
<1>3. CASE ChildKill
  <2>1. wrapper \notin Answering
    BY <1>3, ProcessUtilAssumption DEF ChildKill, PAns
  <2>2. PType'
    BY <1>3 DEF ChildKill, PType
  <2>3. PKill'
    <3> SUFFICES ASSUME wrapper = "kill_pids_on_port" PROVE PKill'
      BY <1>3 DEF ChildKill, PKill
    <3>1. pc = "poll" /\ listed # <<>>
      BY <1>3 DEF ChildKill, PKill, PType, PCs
    <3>2. k \in 1..Len(listed) /\ target = listed[k]
      BY <3>1 DEF PKill
    <3>3. listed[k] \notin listeners' /\ listeners' \subseteq listeners
      BY <1>3, <3>2 DEF ChildKill
    <3>4. QED
      BY <1>3, <3>1, <3>2, <3>3 DEF ChildKill, PKill
  <2>4. QED
    BY <1>3, <2>1, <2>2, <2>3 DEF ChildKill, PAns
<1>4. CASE ListenerExits
  <2>1. PType'
    BY <1>4 DEF ListenerExits, PType
  <2>2. PKill'
    BY <1>4 DEF ListenerExits, PKill
  <2>3. QED
    BY <1>4, <2>1, <2>2 DEF ListenerExits, PAns, Answering
<1>5. CASE Poll
  <2>1. wrapper \in {"expect_command", "run_kill_server"}
    BY <1>5 DEF Poll, Printable
  <2>2. QED
    BY <1>5, <2>1 DEF Poll, PType, PAns, PKill, PCs, Answering
<1>6. CASE ReadLine
  <2>1. wrapper \notin Answering \cup {"kill_pids_on_port"}
    BY <1>6 DEF ReadLine, PAns, PKill
  <2>2. out' \in Seq(Texts)
    <3>1. CASE out # <<>>
      <4>1. out' = Tail(out) /\ out \in Seq(Texts)
        BY <1>6, <3>1 DEF ReadLine, PType
      <4>2. QED
        BY <3>1, <4>1, HeadTailProperties
    <3>2. CASE out = <<>>
      BY <1>6, <3>2 DEF ReadLine
    <3>3. QED
      BY <3>1, <3>2
  <2>3. QED
    BY <1>6, <2>1, <2>2 DEF ReadLine, PType, PAns, PKill, PCs
<1>7. CASE Return
  <2>1. CASE wrapper = "kill_pids_on_port"
    <3>1. /\ listed # <<>> /\ k \in 1..Len(listed) /\ ~alive
          /\ \A j \in 1..k : listed[j] \notin listeners
      <4>1. listed # <<>> /\ k \in 1..Len(listed) /\ ~alive
        BY <1>7, <2>1 DEF Return, PKill
      <4>2. \A j \in 1..k - 1 : listed[j] \notin listeners
        BY <1>7, <2>1, <4>1 DEF Return, PKill
      <4>3. listed[k] \notin listeners
        BY <1>7, <2>1, <4>1 DEF Return, PKill
      <4>4. QED
        BY <4>1, <4>2, <4>3
    <3>2. CASE childRc = 0 /\ MoreToKill
      <4>1. /\ k' = k + 1 /\ k + 1 \in 1..Len(listed)
            /\ target' = listed[k + 1] /\ listed' = listed
            /\ alive' /\ script' = <<>> /\ pc' = "poll"
            /\ UNCHANGED <<wrapper, listeners>>
        BY <1>7, <2>1, <3>1, <3>2 DEF Return, SpawnKill, MoreToKill
      <4>2. out' \in Seq(Texts)
        BY <1>7, <2>1, <3>2 DEF Return, SpawnKill, MoreToKill
      <4>3. PType'
        BY <1>7, <2>1, <3>2, <4>1, <4>2 DEF Return, SpawnKill, PType, PCs
      <4>4. PKill'
        BY <2>1, <3>1, <4>1 DEF PKill
      <4>5. QED
        BY <2>1, <4>1, <4>3, <4>4 DEF PAns, Answering
    <3>3. CASE ~(childRc = 0 /\ MoreToKill)
      <4>1. /\ pc' = "returned"
            /\ result' = IF childRc # 0 THEN "raised" ELSE "ok"
            /\ UNCHANGED <<wrapper, alive, script, target, out, written,
                           listed, k, listeners>>
        BY <1>7, <2>1, <3>3 DEF Return
      <4>2. result' = "ok" => k = Len(listed)
        BY <3>1, <3>3, <4>1 DEF MoreToKill
      <4>3. PKill'
        BY <2>1, <3>1, <4>1, <4>2 DEF PKill
      <4>4. QED
        BY <2>1, <4>1, <4>3 DEF PType, PAns, PCs, Answering
    <3>4. QED
      BY <3>2, <3>3
  <2>2. CASE wrapper \in Answering
    <3>1. result' = AnswerResult
      BY <1>7, <2>2 DEF Return, Answering, AnswerResult
    <3>2. AnswerResult' = AnswerResult
      <4>1. UNCHANGED <<wrapper, childRc, out>>
        BY <1>7, <2>2 DEF Return, Answering
      <4>2. QED
        BY <4>1, AnswerResultUnchanged
    <3>3. QED
      BY <1>7, <2>2, <3>1, <3>2 DEF Return, PType, PAns, PKill, Answering, PCs
  <2>3. CASE wrapper \notin Answering \cup {"kill_pids_on_port"}
    BY <1>7, <2>3 DEF Return, PType, PAns, PKill, PCs
  <2>4. QED
    BY <2>1, <2>2, <2>3
<1>8. CASE KillPidsOnPort
  <2>1. wrapper = "kill_pids_on_port" /\ listed = <<>> /\ ~alive
    BY <1>8 DEF KillPidsOnPort, PType, PKill
  <2>2. listed' \in Seq(Pids)
    BY <1>8, <2>1, ListingsAreSeqs DEF KillPidsOnPort, PType
  <2>3. PType'
    <3>1. out' \in Seq(Texts) /\ k' \in Nat /\ pc' \in PCs
      <4>1. CASE listed' = <<>>
        <5>1. pc' = "returned" /\ UNCHANGED <<out, k>>
          BY <1>8, <4>1 DEF KillPidsOnPort
        <5>2. QED
          BY <5>1 DEF PType, PCs
      <4>2. CASE listed' # <<>>
        <5>1. out' = <<>> /\ k' = 1 /\ pc' = "poll"
          BY <1>8, <2>1, <4>2 DEF KillPidsOnPort, SpawnKill
        <5>2. QED
          BY <5>1, EmptySeq DEF PCs
      <4>3. QED
        BY <4>1, <4>2
    <3>2. script' \in Seq(Line)
      BY <1>8, <2>1 DEF KillPidsOnPort, SpawnKill, PType, PKill
    <3>3. QED
      BY <1>8, <2>1, <2>2, <3>1, <3>2 DEF KillPidsOnPort, PType
  <2>4. PKill'
    BY <1>8, <2>1, <2>2 DEF KillPidsOnPort, SpawnKill, PKill
  <2>5. QED
    BY <1>8, <2>1, <2>3, <2>4 DEF KillPidsOnPort, PAns, Answering
<1>9. CASE Terminated \/ UNCHANGED vars
  <2>1. UNCHANGED vars
    BY <1>9 DEF Terminated
  <2>2. QED
    BY <2>1, AnswerResultUnchanged DEF vars, PType, PAns, PKill
<1>10. QED
  BY <1>1, <1>2, <1>3, <1>4, <1>5, <1>6, <1>7, <1>8, <1>9
     DEF Next, ParentStep, ChildStep

-----------------------------------------------------------------------------
(* Type correctness.                                                       *)

\* A helper script is a sequence of at most MaxLines lines.
LEMMA ScriptsLen ==
    ASSUME NEW q
    PROVE  q \in Scripts <=> q \in Seq(Line) /\ Len(q) <= MaxLines
<1>1. ASSUME q \in Scripts PROVE q \in Seq(Line) /\ Len(q) <= MaxLines
    <2>1. PICK n \in 0..MaxLines : q \in [1..n -> Line]
        BY <1>1 DEF Scripts
    <2>2. n \in Nat
        BY ProcessUtilAssumption
    <2>3. q \in Seq(Line)
        BY <2>1, <2>2, SeqDef
    <2>4. Len(q) = n
        BY <2>1, <2>3, LenProperties
    <2>5. QED
        BY <2>3, <2>4
<1>2. ASSUME q \in Seq(Line), Len(q) <= MaxLines PROVE q \in Scripts
    <2>1. Len(q) \in 0..MaxLines /\ q \in [1..Len(q) -> Line]
        BY <1>2, LenProperties
    <2>2. QED
        BY <2>1 DEF Scripts
<1>3. QED
    BY <1>1, <1>2

\* The script of kill -9 prints nothing.
LEMMA EmptyScript == <<>> \in Scripts
<1>1. <<>> \in Seq(Line) /\ Len(<<>>) = 0
    BY EmptySeq
<1>2. 0 <= MaxLines
    BY ProcessUtilAssumption
<1>3. QED
    BY <1>1, <1>2, ScriptsLen

LEMMA InitTInv == Init => TInv
<1> SUFFICES ASSUME Init PROVE TInv
    OBVIOUS
<1>1. PInv
    BY InitPInv
<1>2. /\ wrapper \in Wrappers /\ listeners \in SUBSET Pids
      /\ listed = <<>> /\ k = 1 /\ result = "none"
      /\ logged = <<>> /\ written = <<>> /\ out = <<>> /\ err = <<>>
      /\ target = NoPid
    BY DEF Init
<1>3. /\ pc \in PCs /\ alive \in BOOLEAN /\ script \in Scripts
      /\ childRc \in {0, 1}
    <2>1. CASE wrapper = "kill_pids_on_port"
        BY <2>1, EmptyScript DEF Init, PCs
    <2>2. CASE wrapper # "kill_pids_on_port"
        BY <2>2 DEF Init, PCs
    <2>3. QED
        BY <2>1, <2>2
<1>4. TypeOK
    BY <1>2, <1>3, EmptySeq, ProcessUtilAssumption DEF TypeOK, Results
<1>5. KillErrEmpty
    BY <1>2 DEF KillErrEmpty
<1>6. QED
    BY <1>1, <1>4, <1>5 DEF TInv

\* Every step keeps the variables in their types.
LEMMA NextTInv == TInv /\ [Next]_vars => TInv'
<1> SUFFICES ASSUME TInv, [Next]_vars PROVE TInv'
    OBVIOUS
<1>0. PInv' /\ PInv /\ TypeOK /\ KillErrEmpty
    BY NextPInv DEF TInv
<1> USE <1>0, ProcessUtilAssumption DEF TInv
<1>1. CASE ChildWrite
    <2>1. target = NoPid
        BY <1>1 DEF ChildWrite, KillErrEmpty, PInv, PKill
    <2>2. Head(script) \in Line /\ script # <<>>
        BY <1>1, HeadTailProperties DEF ChildWrite, TypeOK, PInv, PType
    <2>3. Tail(script) \in Scripts
        <3>1. script \in Seq(Line) /\ Len(script) <= MaxLines
            BY ScriptsLen DEF TypeOK
        <3>2. Tail(script) \in Seq(Line) /\ Len(Tail(script)) <= MaxLines
            BY <2>2, <3>1, HeadTailProperties
        <3>3. QED
            BY <3>2, ScriptsLen
    <2>4. Head(script).text \in Texts
        BY <2>2 DEF Line
    <2>5. /\ out' \in Seq(Texts) /\ Len(out') <= PipeCapacity
          /\ err' \in Seq(Texts) /\ Len(err') <= PipeCapacity
          /\ written' \in Seq(Texts)
        <3>0. /\ out \in Seq(Texts) /\ Len(out) <= PipeCapacity
              /\ err \in Seq(Texts) /\ Len(err) <= PipeCapacity
              /\ written \in Seq(Texts)
            BY DEF TypeOK
        <3>1. CASE Head(script).stream = "out"
            <4>1. /\ Len(out) < PipeCapacity
                  /\ out' = Append(out, Head(script).text)
                  /\ written' = Append(written, Head(script).text)
                  /\ err' = err
                BY <1>1, <3>1 DEF ChildWrite
            <4>2. QED
                BY <2>4, <3>0, <4>1, AppendProperties
        <3>2. CASE Head(script).stream # "out"
            <4>1. /\ Len(err) < PipeCapacity
                  /\ err' = Append(err, Head(script).text)
                  /\ out' = out /\ written' = written
                BY <1>1, <3>2 DEF ChildWrite
            <4>2. QED
                BY <2>4, <3>0, <4>1, AppendProperties
        <3>3. QED
            BY <3>1, <3>2
    <2>6. TypeOK'
        BY <1>1, <2>3, <2>5 DEF ChildWrite, TypeOK
    <2>7. KillErrEmpty'
        BY <1>1, <2>1 DEF ChildWrite, KillErrEmpty
    <2>8. QED
        BY <2>6, <2>7
<1>2. CASE ChildExit
    BY <1>2 DEF ChildExit, TypeOK, KillErrEmpty
<1>3. CASE ChildKill
    <2>1. err = <<>> /\ wrapper = "kill_pids_on_port"
        BY <1>3 DEF ChildKill, KillErrEmpty
    <2>2. err' \in Seq(Texts) /\ Len(err') <= PipeCapacity
        <3>1. CASE target \in listeners
            BY <1>3, <3>1 DEF ChildKill, TypeOK
        <3>2. CASE target \notin listeners
            \* kill's message is left to Zenon: a string with blanks trips SMT.
            <4>1. \E x \in Texts : err' = Append(err, x)
                BY <1>3, <3>2, Zenon DEF ChildKill, Texts
            <4>2. PICK x \in Texts : err' = Append(err, x)
                BY <4>1
            <4>3. err' \in Seq(Texts) /\ Len(err') = 1
                <5>1. err \in Seq(Texts) /\ Len(err) = 0
                    BY <2>1, EmptySeq DEF TypeOK
                <5>2. QED
                    BY <4>2, <5>1, AppendProperties
            <4>4. PipeCapacity \in Nat /\ 1 <= PipeCapacity
                BY ProcessUtilAssumption
            <4>5. QED
                BY <4>3, <4>4
        <3>3. QED
            BY <3>1, <3>2
    <2>3. TypeOK'
        BY <1>3, <2>2 DEF ChildKill, TypeOK
    <2>4. KillErrEmpty'
        BY <1>3 DEF ChildKill, KillErrEmpty
    <2>5. QED
        BY <2>3, <2>4
<1>4. CASE ListenerExits
    BY <1>4 DEF ListenerExits, TypeOK, KillErrEmpty
<1>5. CASE Poll
    BY <1>5 DEF Poll, TypeOK, KillErrEmpty, PCs
<1>6. CASE ReadLine
    <2>1. /\ out' \in Seq(Texts) /\ Len(out') <= PipeCapacity
          /\ logged' \in Seq(Texts)
        <3>1. CASE out # <<>>
            <4>1. /\ out' = Tail(out) /\ logged' = Append(logged, Head(out))
                  /\ out \in Seq(Texts) /\ logged \in Seq(Texts)
                  /\ Len(out) <= PipeCapacity
                BY <1>6, <3>1 DEF ReadLine, TypeOK
            <4>2. Head(out) \in Texts /\ Tail(out) \in Seq(Texts)
                  /\ Len(Tail(out)) = Len(out) - 1
                BY <3>1, <4>1, HeadTailProperties
            <4>3. QED
                BY <4>1, <4>2, AppendProperties
        <3>2. CASE out = <<>>
            BY <1>6, <3>2 DEF ReadLine, TypeOK
        <3>3. QED
            BY <3>1, <3>2
    <2>2. QED
        BY <1>6, <2>1 DEF ReadLine, TypeOK, KillErrEmpty, PCs
<1>7. CASE Return
    <2>1. CASE wrapper = "kill_pids_on_port" /\ childRc = 0 /\ MoreToKill
        <3>1. /\ listed # <<>> /\ k \in 1..Len(listed)
              /\ listed \in Seq(Pids)
            BY <1>7, <2>1 DEF Return, PInv, PKill, PType
        <3>2. /\ k' = k + 1 /\ k + 1 \in 1..Len(listed)
              /\ target' = listed[k + 1] /\ listed' = listed
              /\ out' = <<>> /\ err' = <<>> /\ script' = <<>>
              /\ childRc' = 0 /\ alive'
              /\ UNCHANGED <<wrapper, pc, result, logged, written, listeners>>
            BY <1>7, <2>1, <3>1 DEF Return, SpawnKill, MoreToKill
        <3>3. target' \in Pids
            BY <3>1, <3>2, ElementOfSeq
        <3>4. <<>> \in Scripts
            BY EmptyScript
        <3>5. QED
            BY <2>1, <3>2, <3>3, <3>4, EmptySeq DEF TypeOK, KillErrEmpty
    <2>2. CASE ~(wrapper = "kill_pids_on_port" /\ childRc = 0 /\ MoreToKill)
        <3>0. /\ pc' = "returned"
              /\ UNCHANGED <<wrapper, alive, script, target, childRc, out, err,
                             logged, written, listeners, listed, k>>
            BY <1>7, <2>2 DEF Return
        <3>1. result' \in Results
            <4>1. CASE wrapper = "kill_pids_on_port"
                BY <1>7, <2>2, <4>1 DEF Return, Results
            <4>2. CASE wrapper # "kill_pids_on_port"
                BY <1>7, <4>2 DEF Return, Results, ExpectCommandResult,
                   CheckPidsResult, KillServerResult, MemInfoResult
            <4>3. QED
                BY <4>1, <4>2
        <3>2. QED
            BY <3>0, <3>1 DEF TypeOK, KillErrEmpty, PCs
    <2>3. QED
        BY <2>1, <2>2
<1>8. CASE KillPidsOnPort
    <2>1. wrapper = "kill_pids_on_port" /\ listed = <<>> /\ k = 1
        BY <1>8 DEF KillPidsOnPort, PInv, PType, PKill, TypeOK
    <2>2. CASE listed' # <<>> /\ pc' = "poll"
        <3>1. listed' \in Seq(Pids)
            BY <1>8, <2>1, <2>2, ListingsAreSeqs DEF KillPidsOnPort, TypeOK
        <3>2. /\ k' = 1 /\ target' = listed'[1]
              /\ out' = <<>> /\ err' = <<>> /\ script' = <<>>
              /\ childRc' = 0 /\ result' = result /\ alive' = TRUE
              /\ UNCHANGED <<wrapper, logged, written, listeners>>
            BY <1>8, <2>1, <2>2 DEF KillPidsOnPort, SpawnKill
        <3>3. 1 \in 1..Len(listed') /\ target' \in Pids
            <4>1. Len(listed') \in Nat /\ Len(listed') # 0
                BY <2>2, <3>1, EmptySeq, LenProperties
            <4>2. 1 \in 1..Len(listed')
                BY <4>1
            <4>3. listed'[1] \in Pids
                BY <3>1, <4>2, ElementOfSeq
            <4>4. QED
                BY <3>2, <4>2, <4>3
        <3>4. <<>> \in Scripts
            BY EmptyScript
        <3>5. QED
            BY <2>1, <2>2, <3>1, <3>2, <3>3, <3>4, EmptySeq
            DEF TypeOK, KillErrEmpty, PCs
    <2>3. CASE ~(listed' # <<>> /\ pc' = "poll")
        <3>1. /\ pc' = "returned" /\ result' \in Results /\ listed' = <<>>
              /\ UNCHANGED <<wrapper, alive, script, target, childRc, out, err,
                             logged, written, listeners, k>>
            BY <1>8, <2>1, <2>3 DEF KillPidsOnPort, SpawnKill, Results
        <3>2. QED
            BY <2>1, <3>1, EmptySeq DEF TypeOK, KillErrEmpty, PCs
    <2>4. QED
        BY <2>2, <2>3
<1>9. CASE Terminated \/ UNCHANGED vars
    <2>1. UNCHANGED vars
        BY <1>9 DEF Terminated
    <2>2. QED
        BY <2>1 DEF vars, TypeOK, KillErrEmpty
<1>10. QED
    BY <1>1, <1>2, <1>3, <1>4, <1>5, <1>6, <1>7, <1>8, <1>9
    DEF Next, ParentStep, ChildStep

(* Type correctness of the model of common.py: the pipes never hold more   *)
(* than their capacity, a helper script stays within its bound and the    *)
(* loop index of kill_pids_on_port stays within the lsof listing, for      *)
(* every capacity, script length and set of pids.                         *)
THEOREM TypeCorrect == Spec => []TypeOK
<1>1. TInv => TypeOK
    BY DEF TInv
<1>2. QED
    BY <1>1, InitTInv, NextTInv, PTL DEF Spec

\* PInv holds in every state of every behaviour.
THEOREM PInvHolds == Spec => []PInv
BY InitPInv, NextPInv, PTL DEF Spec

(* run_check_pids and run_collect_mem_info answer "true" or a memory       *)
(* reading exactly when the helper script's first stdout line is its       *)
(* answer, whatever the pipe capacity and the script.                      *)
THEOREM AnswerIsChildsAnswerHolds == Spec => []AnswerIsChildsAnswer
<1>1. PInv => AnswerIsChildsAnswer
  <2> SUFFICES ASSUME PInv, pc = "returned", wrapper \in Answering,
                      childRc = 0
               PROVE  result \in {"true", "mem"} <=>
                          written # <<>> /\ written[1] = AnswerText(wrapper)
    BY DEF AnswerIsChildsAnswer, Answering
  <2>1. result = AnswerResult /\ out = written /\ out \in Seq(Texts)
    BY DEF PInv, PAns, PType
  <2>2. CASE wrapper = "run_check_pids"
    BY <2>1, <2>2 DEF AnswerResult, CheckPidsResult, AnswerText
  <2>3. CASE wrapper = "run_collect_mem_info"
    <3>1. result = MemInfoResult /\ AnswerText(wrapper) = "rss,vms"
      BY <2>1, <2>3 DEF AnswerResult, AnswerText
    <3>2. out # <<>> => Head(out) = written[1]
      BY <2>1
    <3>3. QED
      BY <2>1, <3>1, <3>2 DEF MemInfoResult
  <2>4. QED
    BY <2>2, <2>3 DEF Answering
<1>2. QED
  BY <1>1, PInvHolds, PTL

(* When kill_pids_on_port returns "ok", none of the pids lsof listed is    *)
(* listening any more, whatever the pids and the listing.                  *)
THEOREM ListedListenersKilledHolds == Spec => []ListedListenersKilled
<1>1. PInv => ListedListenersKilled
  BY DEF PInv, PKill, ListedListenersKilled
<1>2. QED
  BY <1>1, PInvHolds, PTL

================================================================================
