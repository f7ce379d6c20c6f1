------------------------- MODULE ServiceDaemonProofs -------------------------
(***************************************************************************)
(* Proofs about ServiceDaemon, for every set of clients, services and pids *)
(* and every bound.                                                        *)
(***************************************************************************)
EXTENDS ServiceDaemon, TLAPS

(***************************************************************************)
(* Type correctness                                                        *)
(***************************************************************************)

\* An idle task is a task.
LEMMA IdleType == Idle \in TaskType
  BY BoundsAssumption DEF Idle, TaskType, Ops, NoProc, Pcs, VerdictType

\* The updates of a task that the actions make keep it a task.
LEMMA TaskUpdate ==
    ASSUME NEW t \in TaskType, NEW pc \in Pcs \ {"apply"},
           NEW todo \in SUBSET Services, NEW done \in SUBSET Services,
           NEW n \in 0..MaxProcs
    PROVE  /\ [t EXCEPT !.pc = pc] \in TaskType
           /\ [t EXCEPT !.pc = pc, !.todo = todo] \in TaskType
           /\ [t EXCEPT !.todo = todo, !.pc = pc] \in TaskType
           /\ [t EXCEPT !.pc = pc, !.proc = n] \in TaskType
           /\ [t EXCEPT !.todo = todo, !.proc = n, !.verdict = "none", !.pc = pc] \in TaskType
           /\ [t EXCEPT !.pc = pc, !.todo = todo, !.done = done, !.proc = n] \in TaskType
  BY DEF TaskType, VerdictType

\* Moving an actor, or making it idle, keeps the tasks in their type.
LEMMA GotoType ==
    ASSUME task \in [Actors -> TaskType], NEW a \in Actors, NEW pc \in Pcs \ {"apply"},
           Goto(a, pc) \/ Answer(a)
    PROVE  task' \in [Actors -> TaskType]
  <1>1. [task[a] EXCEPT !.pc = pc] \in TaskType
    BY DEF TaskType
  <1>2. QED
    BY <1>1, IdleType DEF Goto, Answer

\* The records that the actions write are records.
LEMMA RecordsHaveTypes ==
    /\ Absent \in RecordType /\ Preparing \in RecordType
    /\ Stopped \in RecordType /\ Exited \in RecordType
    /\ \A st \in Status, h \in BOOLEAN, n \in 0..MaxProcs : Record(st, h, n) \in RecordType
  BY BoundsAssumption
  DEF Absent, Preparing, Stopped, Exited, Record, RecordType, Status, NoProc

\* A new process is entered in the process table with its type.
LEMMA NewProcessType ==
    ASSUME procs \in [Instances -> ProcType], NEW pid \in Pids,
           NEW owner \in Services \cup {Foreign}, NewProcess(pid, owner)
    PROVE  procs' \in [Instances -> ProcType]
  <1>1. [pid |-> pid, owner |-> owner, life |-> "alive", sig |-> "none",
         parent |-> IF owner = Foreign THEN "other" ELSE "daemon"] \in ProcType
    BY DEF ProcType
  <1>2. QED
    BY <1>1 DEF NewProcess

\* Init gives every variable a value of its type.
LEMMA InitTypeOK == Init => TypeOK
  <1> SUFFICES ASSUME Init PROVE TypeOK
    OBVIOUS
  <1>1. (CHOOSE p \in Pids : TRUE) \in Pids
    BY PidsAssumption
  <1>2. procs \in [Instances -> ProcType]
    BY <1>1 DEF Init, ProcType, Foreign
  <1>3. [Idle EXCEPT !.pc = "serving"] \in TaskType
    BY IdleType DEF TaskType, Pcs
  <1>4. QED
    BY <1>2, <1>3, IdleType, RecordsHaveTypes, BoundsAssumption DEF Init, TypeOK

\* A step of a start keeps every variable in its type.
LEMMA StartTypeOK ==
    ASSUME TypeOK, NEW c \in Clients, StartStep(c) PROVE TypeOK'
  <1>0. c \in Actors /\ task[c] \in TaskType
    BY DEF TypeOK, Actors
  <1> USE DEF TypeOK
  <1>1. CASE Prepare(c)
    <2> DEFINE plans == {s \in Selected(c) : ~AlreadyRunning(s)}
    <2>1. plans \in SUBSET Services
      BY <1>0 DEF TaskType, Selected
    <2>2. (IF plans = {} THEN "finish" ELSE "before") \in Pcs \ {"apply"}
      BY DEF Pcs
    <2>3. [task[c] EXCEPT !.todo = plans,
                !.pc = IF plans = {} THEN "finish" ELSE "before"] \in TaskType
      <3> HIDE DEF plans
      <3> QED BY <1>0, <2>1, <2>2, TaskUpdate, BoundsAssumption
    <2>4. task' \in [Actors -> TaskType]
      BY <1>1, <2>3 DEF Prepare
    <2>5. rec' \in [Services -> RecordType]
      BY <1>1, RecordsHaveTypes DEF Prepare
    <2>6. QED
      BY <1>1, <2>4, <2>5 DEF Prepare
  <1>2. CASE PrepareFails(c) \/ SpawnFails(c) \/ RecordSpawnFails(c) \/ Finish(c)
    <2>1. task' \in [Actors -> TaskType]
      BY <1>0, <1>2, GotoType DEF PrepareFails, SpawnFails, RecordSpawnFails, Finish, Pcs
    <2>2. QED
      BY <1>2, <2>1 DEF PrepareFails, SpawnFails, RecordSpawnFails, Finish
  <1>3. CASE BeforeStart(c)
    <2>1. task' \in [Actors -> TaskType]
      BY <1>0, <1>3, GotoType DEF BeforeStart, Pcs
    <2>2. QED
      BY <1>3, <2>1 DEF BeforeStart
  <1>4. CASE MarkFailed(c)
    <2>1. task' \in [Actors -> TaskType]
      BY <1>0, <1>4, GotoType DEF MarkFailed, Pcs
    <2>2. rec' \in [Services -> RecordType]
      BY <1>4 DEF MarkFailed, RecordType, Status
    <2>3. QED
      BY <1>4, <2>1, <2>2 DEF MarkFailed
  <1>5. CASE SpawnProcess(c)
    <2>1. born + 1 \in 0..MaxProcs /\ born + 1 \in Instances
      BY <1>5, BoundsAssumption DEF SpawnProcess, NewProcess, Instances
    <2>2. task' \in [Actors -> TaskType]
      <3>1. [task[c] EXCEPT !.pc = "record", !.proc = born + 1] \in TaskType
        BY <1>0, <2>1 DEF TaskType, Pcs
      <3>2. QED BY <1>5, <3>1 DEF SpawnProcess
    <2>3. procs' \in [Instances -> ProcType]
      BY <1>5, NewProcessType DEF SpawnProcess
    <2>4. QED
      BY <1>0, <1>5, <2>1, <2>2, <2>3 DEF SpawnProcess, NewProcess
  <1>7. CASE RecordSpawn(c)
    <2>1. task' \in [Actors -> TaskType]
      BY <1>0, <1>7, GotoType DEF RecordSpawn, Pcs
    <2>2. task[c].proc \in 0..MaxProcs
      BY <1>0 DEF TaskType
    <2>3. Record("starting", FALSE, task[c].proc) \in RecordType
      BY <2>2 DEF Record, RecordType, Status, RunningStatus
    <2>4. rec' \in [Services -> RecordType]
      BY <1>7, <2>3 DEF RecordSpawn
    <2>5. QED
      BY <1>7, <2>1, <2>4 DEF RecordSpawn
  <1>9. CASE ObserveHealth(c)
    <2>1. PICK v \in VerdictType \ {"none"} :
              task' = [task EXCEPT ![c].pc = "apply", ![c].verdict = v]
      BY <1>9 DEF ObserveHealth, Verdicts, VerdictType
    <2>2. [task[c] EXCEPT !.pc = "apply", !.verdict = v] \in TaskType
      BY <1>0 DEF TaskType, Pcs
    <2>3. QED
      BY <1>9, <2>1, <2>2 DEF ObserveHealth
  <1>10. CASE ApplyHealth(c)
    <2>1. task' \in [Actors -> TaskType]
      <3>1. PICK s \in Services : NextPlan(c, s) \/ Answer(c)
        BY <1>10 DEF ApplyHealth
      <3>2. CASE NextPlan(c, s)
        <4> DEFINE left == task[c].todo \ {s}
                   next == [task[c] EXCEPT !.todo = left, !.proc = NoProc,
                              !.verdict = "none",
                              !.pc = IF left = {} THEN "finish" ELSE "before"]
        <4>1. left \in SUBSET Services
          BY <1>0 DEF TaskType
        <4>2. next \in TaskType
          <5>1. (IF left = {} THEN "finish" ELSE "before") \in Pcs \ {"apply"}
            BY DEF Pcs
          <5>2. NoProc \in 0..MaxProcs
            BY BoundsAssumption DEF NoProc
          <5> HIDE DEF left
          <5>3. QED BY <1>0, <4>1, <5>1, <5>2, TaskUpdate
        <4>3. task' = [task EXCEPT ![c] = next]
          BY <3>2 DEF NextPlan
        <4> HIDE DEF next
        <4>4. QED BY <4>2, <4>3
      <3>3. QED
        BY <1>0, <3>1, <3>2, GotoType DEF Pcs
    <2>2. task[c].verdict \in Status
      BY <1>0, <1>10 DEF ApplyHealth, At, TaskType, VerdictType, Status, RunningStatus
    <2>3. rec' \in [Services -> RecordType]
      BY <1>10, <2>2 DEF ApplyHealth, HealthResult, RecordType
    <2>4. QED
      BY <1>10, <2>1, <2>3 DEF ApplyHealth
  <1>11. QED
    BY <1>1, <1>2, <1>3, <1>4, <1>5, <1>7, <1>9, <1>10 DEF StartStep

\* Signals keep the process table in its type.
LEMMA SignalledType ==
    ASSUME procs \in [Instances -> ProcType], NEW pid, NEW sig \in {"term", "kill"}
    PROVE  Signalled(pid, sig) \in [Instances -> ProcType]
  BY DEF Signalled, ProcType

\* A step of the loop that terminates processes keeps every variable in its
\* type, whether a client's stop or the shutdown runs it.
LEMMA TerminateTypeOK ==
    ASSUME TypeOK, NEW a \in Actors, TerminateStep(a) PROVE TypeOK'
  <1>0. task[a] \in TaskType
    BY DEF TypeOK
  <1> USE DEF TypeOK
  <1>1. CASE TerminateService(a)
    <2>1. PICK s \in Services :
              LET left == task[a].todo \ {s}
                  done == task[a].done \cup {s}
              IN  \/ /\ procs' = Signalled(procs[rec[s].proc].pid, "term")
                     /\ task' = [task EXCEPT ![a] = [@ EXCEPT !.pc = "waiting", !.todo = left,
                                                      !.done = done, !.proc = rec[s].proc]]
                  \/ /\ procs' = procs
                     /\ task' = [task EXCEPT ![a] = [@ EXCEPT !.todo = left,
                                      !.done = IF a = Main THEN task[a].done ELSE done]]
      BY <1>1 DEF TerminateService
    <2> DEFINE left == task[a].todo \ {s}
               done == task[a].done \cup {s}
               kept == IF a = Main THEN task[a].done ELSE done
    <2>2. /\ left \in SUBSET Services /\ done \in SUBSET Services
          /\ task[a].done \in SUBSET Services /\ kept \in SUBSET Services
          /\ rec[s].proc \in 0..MaxProcs
      BY <1>0 DEF TaskType, RecordType
    <2>3. /\ procs' = procs \/ procs' = Signalled(procs[rec[s].proc].pid, "term")
          /\ \/ task' = [task EXCEPT ![a] = [task[a] EXCEPT !.pc = "waiting", !.todo = left,
                                               !.done = done, !.proc = rec[s].proc]]
             \/ task' = [task EXCEPT ![a] = [task[a] EXCEPT !.todo = left, !.done = kept]]
      BY <2>1
    <2>4. task' \in [Actors -> TaskType]
      <3> HIDE DEF left, done, kept
      <3>1. [task[a] EXCEPT !.pc = "waiting", !.todo = left, !.done = done,
                            !.proc = rec[s].proc] \in TaskType
        BY <1>0, <2>2, TaskUpdate DEF Pcs
      <3>2. [task[a] EXCEPT !.todo = left, !.done = kept] \in TaskType
        BY <1>0, <2>2 DEF TaskType
      <3>3. QED
        BY <2>3, <3>1, <3>2
    <2>5. procs' \in [Instances -> ProcType]
      BY <2>3, SignalledType
    <2>6. QED
      BY <1>1, <2>4, <2>5 DEF TerminateService
  <1>2. CASE ProcessGone(a)
    <2>1. task' \in [Actors -> TaskType]
      BY <1>0, <1>2, GotoType DEF ProcessGone, Pcs
    <2>2. QED
      BY <1>2, <2>1 DEF ProcessGone
  <1>3. CASE GraceOver(a)
    <2>1. task' \in [Actors -> TaskType]
      BY <1>0, <1>3, GotoType DEF GraceOver, Pcs
    <2>2. procs' \in [Instances -> ProcType]
      BY <1>3, SignalledType DEF GraceOver
    <2>3. QED
      BY <1>3, <2>1, <2>2 DEF GraceOver
  <1>4. CASE SaveStopped(a)
    <2>1. task' \in [Actors -> TaskType]
      BY <1>0, <1>4, GotoType DEF SaveStopped, Pcs
    <2>2. rec' \in [Services -> RecordType]
      BY <1>4, RecordsHaveTypes DEF SaveStopped
    <2>3. QED
      BY <1>4, <2>1, <2>2 DEF SaveStopped
  <1>5. QED
    BY <1>1, <1>2, <1>3, <1>4 DEF TerminateStep

\* The other steps of stop, of the shutdown and of status keep every variable
\* in its type.
LEMMA RequestTypeOK ==
    ASSUME TypeOK,
           \/ \E c \in Clients : \/ Request(c) \/ StopLock(c) \/ StopFails(c)
                                 \/ OnClose(c) \/ StatusRequest(c)
           \/ ShutdownLock \/ ShutdownRequest
    PROVE  TypeOK'
  <1> USE DEF TypeOK
  <1>1. ASSUME NEW c \in Clients, Request(c) PROVE TypeOK'
    <2>1. PICK op \in Ops, names \in Requests :
              task' = [task EXCEPT ![c] = [Idle EXCEPT !.pc = Entry(op), !.op = op,
                                                       !.names = names]]
      BY <1>1 DEF Request
    <2>2. [Idle EXCEPT !.pc = Entry(op), !.op = op, !.names = names] \in TaskType
      BY IdleType, SelectionAssumption DEF TaskType, Entry, Ops, Pcs
    <2>3. QED
      BY <1>1, <2>1, <2>2 DEF Request
  <1>2. ASSUME NEW c \in Clients, StopLock(c) PROVE TypeOK'
    <2>1. c \in Actors /\ task[c] \in TaskType
      BY DEF Actors
    <2>2. StopSelection(c) \in SUBSET Services
      BY <2>1 DEF StopSelection, Present, TaskType
    <2>3. [task[c] EXCEPT !.pc = "stopping", !.todo = StopSelection(c)] \in TaskType
      BY <2>1, <2>2 DEF TaskType, Pcs
    <2>4. QED
      BY <1>2, <2>1, <2>3 DEF StopLock
  <1>3. ASSUME NEW c \in Clients, StopFails(c) PROVE TypeOK'
    <2>1. task' \in [Actors -> TaskType]
      BY <1>3, IdleType DEF StopFails, Answer
    <2>2. QED
      BY <1>3, <2>1 DEF StopFails
  <1>4. ASSUME NEW c \in Clients, OnClose(c) PROVE TypeOK'
    <2>1. task[c] \in TaskType
      BY DEF Actors
    <2>2. [Idle EXCEPT !.pc = "start", !.op = "start", !.names = task[c].names] \in TaskType
      BY <2>1, IdleType DEF TaskType, Ops, Pcs
    <2>3. task' \in [Actors -> TaskType]
      BY <1>4, <2>2, IdleType DEF OnClose, Answer
    <2>4. QED
      BY <1>4, <2>3 DEF OnClose
  <1>5. ASSUME NEW c \in Clients, StatusRequest(c) PROVE TypeOK'
    <2>1. task' \in [Actors -> TaskType]
      BY <1>5, IdleType DEF StatusRequest, Answer
    <2>2. ASSUME NEW s \in Services, NEW answering
          PROVE  Refreshed(s, s \in answering) \in RecordType
      BY RecordsHaveTypes DEF Refreshed, Record, RecordType, Status, RunningStatus
    <2>3. rec' \in [Services -> RecordType]
      BY <1>5, <2>2 DEF StatusRequest
    <2>4. QED
      BY <1>5, <2>1, <2>3 DEF StatusRequest
  <1>6. CASE ShutdownLock
    <2>1. Main \in Actors /\ task[Main] \in TaskType /\ Present \in SUBSET Services
      BY DEF Actors, Present
    <2>2. [task[Main] EXCEPT !.pc = "stopping", !.todo = Present] \in TaskType
      BY <2>1 DEF TaskType, Pcs
    <2>3. QED
      BY <1>6, <2>1, <2>2 DEF ShutdownLock
  <1>7. CASE ShutdownRequest
    <2>1. task' \in [Actors -> TaskType]
      BY <1>7, GotoType DEF ShutdownRequest, Pcs, Actors
    <2>2. QED
      BY <1>7, <2>1 DEF ShutdownRequest
  <1>8. QED
    BY <1>1, <1>2, <1>3, <1>4, <1>5, <1>6, <1>7

\* Deaths, exit watchers, other programs and the daemon's end and start keep
\* every variable in its type.
LEMMA EnvironmentTypeOK ==
    ASSUME TypeOK,
           \/ \E n \in Instances : Die(n) \/ Reap(n) \/ RecordExit(n)
           \/ \E pid \in Pids : ForeignStart(pid)
           \/ DaemonEnds \/ Boot
    PROVE  TypeOK'
  <1> USE DEF TypeOK
  <1>1. ASSUME NEW n \in Instances, Die(n) \/ Reap(n) PROVE TypeOK'
    BY <1>1 DEF Die, Reap, ProcType
  <1>2. ASSUME NEW n \in Instances, RecordExit(n) PROVE TypeOK'
    BY <1>2, RecordsHaveTypes DEF RecordExit, ExitRecord
  <1>3. ASSUME NEW pid \in Pids, ForeignStart(pid) PROVE TypeOK'
    <2>1. procs' \in [Instances -> ProcType]
      BY <1>3, NewProcessType DEF ForeignStart
    <2>2. QED
      BY <1>3, <2>1, BoundsAssumption DEF ForeignStart, NewProcess
  <1>4. CASE DaemonEnds
    <2>1. task' \in [Actors -> TaskType]
      BY <1>4, IdleType DEF DaemonEnds
    <2>2. procs' \in [Instances -> ProcType]
      BY <1>4 DEF DaemonEnds, ProcType
    <2>3. QED
      BY <1>4, <2>1, <2>2 DEF DaemonEnds
  <1>5. CASE Boot
    <2>1. [task[Main] EXCEPT !.pc = "serving"] \in TaskType
      BY DEF Actors, TaskType, Pcs
    <2>2. ASSUME NEW s \in Services, NEW answering
          PROVE  Recovered(s, s \in answering) \in RecordType
      <3>1. rec[s].proc \in 0..MaxProcs
        BY DEF RecordType
      <3>2. QED
        BY <3>1, RecordsHaveTypes DEF Recovered, Record, RecordType, Status, RunningStatus
    <2>3. rec' \in [Services -> RecordType]
      BY <1>5, <2>2 DEF Boot
    <2>4. QED
      BY <1>5, <2>1, <2>3, BoundsAssumption DEF Boot, Actors
  <1>6. QED
    BY <1>1, <1>2, <1>3, <1>4, <1>5

\* Every step keeps every variable in its type.
LEMMA TypeOKStep == TypeOK /\ [Next]_vars => TypeOK'
  <1> SUFFICES ASSUME TypeOK, [Next]_vars PROVE TypeOK'
    OBVIOUS
  <1>1. CASE \E c \in Clients : StartStep(c)
    BY <1>1, StartTypeOK
  <1>2. CASE \E a \in Actors : TerminateStep(a)
    BY <1>2, TerminateTypeOK
  <1>3. CASE \/ \E c \in Clients : \/ Request(c) \/ StopLock(c) \/ StopFails(c)
                                   \/ OnClose(c) \/ StatusRequest(c)
             \/ ShutdownLock \/ ShutdownRequest
    BY <1>3, RequestTypeOK
  <1>4. CASE \/ \E n \in Instances : Die(n) \/ Reap(n) \/ RecordExit(n)
             \/ \E pid \in Pids : ForeignStart(pid)
             \/ DaemonEnds \/ Boot
    BY <1>4, EnvironmentTypeOK
  <1>5. CASE UNCHANGED vars
    BY <1>5 DEF TypeOK, vars
  <1>6. QED
    BY <1>1, <1>2, <1>3, <1>4, <1>5
    DEF Next, Handler, StopStep, MainStep, Exit, Crash, Actors

\* Every variable always has its type, for every choice of the constants.
THEOREM TypeCorrect == Spec => []TypeOK
  BY InitTypeOK, TypeOKStep, PTL DEF Spec

(***************************************************************************)
(* The process table                                                       *)
(***************************************************************************)

\* What a step does to the process table: nothing, a new process, a signal to
\* a pid that is ours, a death, a wait, or the end of the daemon.
ProcsStep ==
    \/ UNCHANGED <<procs, born>> /\ exits' \subseteq exits
    \/ \E pid \in Pids, s \in Services : NewProcess(pid, s) /\ UNCHANGED exits
    \/ \E pid \in Pids : ForeignStart(pid)
    \/ \E pid \in Pids, sig \in {"term", "kill"} :
          /\ FastReuse \/ \A n \in Instances :
                InTable(n) /\ procs[n].pid = pid => procs[n].owner # Foreign
          /\ procs' = Signalled(pid, sig) /\ UNCHANGED <<born, exits>>
    \/ \E n \in Instances : Die(n) \/ Reap(n)
    \/ DaemonEnds

\* Every step is of one of these forms: a record that is tracked, and a stop
\* that polls, are about a process that the daemon started.
LEMMA EveryProcsStep ==
    ASSUME IInv, [Next]_vars PROVE ProcsStep
  <1>0. \A n \in Instances : procs[n].pid \in Pids
    BY DEF IInv, TypeOK, ProcType
  <1>1. CASE \E c \in Clients : StartStep(c)
    <2>1. PICK c \in Clients : StartStep(c)
      BY <1>1
    <2>2. CASE SpawnProcess(c)
      BY <2>2 DEF SpawnProcess, ProcsStep
    <2>3. QED
      BY <2>1, <2>2
      DEF StartStep, Prepare, PrepareFails, BeforeStart, MarkFailed, SpawnFails,
          RecordSpawn, RecordSpawnFails, ObserveHealth, ApplyHealth, Finish, ProcsStep
  <1>2. CASE \E a \in Actors : TerminateStep(a)
    <2>1. PICK a \in Actors : TerminateStep(a)
      BY <1>2
    <2>2. CASE TerminateService(a)
      <3>1. PICK s \in Services :
                \/ Tracks(s) /\ procs' = Signalled(procs[rec[s].proc].pid, "term")
                \/ procs' = procs
        BY <2>2 DEF TerminateService, ToTerminate
      <3>2. UNCHANGED <<born, exits>>
        BY <2>2 DEF TerminateService
      <3>3. CASE Tracks(s) /\ procs' = Signalled(procs[rec[s].proc].pid, "term")
        <4>1. rec[s].proc \in Instances /\ procs[rec[s].proc].owner \in Services
          BY <3>3 DEF IInv, TypeOK, RecordType, OwnershipInv, Tracks, Matches, Instances, NoProc
        <4>2. \A n \in Instances :
                 InTable(n) /\ procs[n].pid = procs[rec[s].proc].pid => procs[n].owner # Foreign
          BY <3>3, <4>1, ServicesAssumption DEF IInv, ProcessTableInv, Tracks, Matches, Foreign
        <4>3. QED
          BY <1>0, <3>2, <3>3, <4>1, <4>2 DEF ProcsStep
      <3>4. QED
        BY <3>1, <3>2, <3>3 DEF ProcsStep
    <2>3. CASE GraceOver(a)
      <3>1. task[a].proc \in 1..born
        BY <2>3 DEF GraceOver, IInv, HandlerInv
      <3>2. task[a].proc \in Instances
        BY <3>1, BoundsAssumption DEF IInv, TypeOK, Instances
      <3>3. FastReuse \/ \A n \in Instances :
                InTable(n) /\ procs[n].pid = procs[task[a].proc].pid => procs[n].owner # Foreign
        BY <2>3 DEF GraceOver, IInv, HandlerInv
      <3>4. QED
        BY <1>0, <2>3, <3>2, <3>3 DEF GraceOver, ProcsStep
    <2>4. CASE ProcessGone(a) \/ SaveStopped(a)
      BY <2>4 DEF ProcessGone, SaveStopped, ProcsStep
    <2>5. QED
      BY <2>1, <2>2, <2>3, <2>4 DEF TerminateStep
  <1>3. CASE \/ \E c \in Clients : \/ Request(c) \/ StopLock(c) \/ StopFails(c)
                                   \/ OnClose(c) \/ StatusRequest(c)
             \/ ShutdownLock \/ ShutdownRequest \/ Boot
             \/ \E n \in Instances : RecordExit(n)
    BY <1>3 DEF Request, StopLock, StopFails, OnClose, StatusRequest, ShutdownLock,
                ShutdownRequest, Boot, RecordExit, ProcsStep
  <1>4. CASE \/ \E n \in Instances : Die(n) \/ Reap(n)
             \/ \E pid \in Pids : ForeignStart(pid)
             \/ DaemonEnds
    BY <1>4 DEF ProcsStep
  <1>5. CASE UNCHANGED vars
    BY <1>5 DEF vars, ProcsStep
  <1>6. QED
    BY <1>1, <1>2, <1>3, <1>4, <1>5
    DEF Next, Handler, StopStep, MainStep, Exit, Crash, Actors

\* Every such step keeps the process table in order.
LEMMA ProcessTableStep ==
    ASSUME TypeOK, ProcessTableInv, ProcsStep
    PROVE  ProcessTableInv'
  <1> USE DEF TypeOK, InTable, Instances
  <1>0. \A n \in Instances : procs[n] \in ProcType
    OBVIOUS
  <1>1. CASE UNCHANGED <<procs, born>> /\ exits' \subseteq exits
    BY <1>1 DEF ProcessTableInv
  <1>2. ASSUME NEW pid \in Pids, NEW owner \in Services \cup {Foreign},
               NewProcess(pid, owner), UNCHANGED exits
        PROVE  ProcessTableInv'
    <2>1. born + 1 \in Instances /\ born' = born + 1
      BY <1>2, BoundsAssumption DEF NewProcess
    <2>2. /\ procs'[born + 1] = [pid |-> pid, owner |-> owner, life |-> "alive",
                                 sig |-> "none", parent |-> IF owner = Foreign THEN "other" ELSE "daemon"]
          /\ \A n \in Instances : n # born + 1 => procs'[n] = procs[n]
      BY <1>2, <2>1 DEF NewProcess
    <2>3. \A n \in Instances : InTable(n) => procs[n].pid # pid
      BY <1>2 DEF NewProcess, PidInUse
    <2>4. \A n \in Instances : procs'[n].life = "unborn" <=> n > born'
      BY <2>1, <2>2 DEF ProcessTableInv
    <2>5. \A m, n \in Instances :
             InTable(m)' /\ InTable(n)' /\ procs'[m].pid = procs'[n].pid => m = n
      BY <2>2, <2>3 DEF ProcessTableInv
    <2>6. \A n \in Instances :
             procs'[n].parent = "daemon" \/ procs'[n].life = "zombie" => procs'[n].owner \in Services
      BY <1>0, <2>2 DEF ProcessTableInv, Foreign
    <2>7. \A n \in exits : procs'[n].life = "gone" /\ procs'[n].owner \in Services
      BY <2>1, <2>2 DEF ProcessTableInv
    <2>8. QED
      BY <1>2, <2>4, <2>5, <2>6, <2>7 DEF ProcessTableInv
  <1>3. ASSUME NEW pid \in Pids, NEW sig \in {"term", "kill"},
               procs' = Signalled(pid, sig), UNCHANGED <<born, exits>>
        PROVE  ProcessTableInv'
    <2>1. \A n \in Instances :
             /\ procs'[n].life = procs[n].life /\ procs'[n].pid = procs[n].pid
             /\ procs'[n].owner = procs[n].owner /\ procs'[n].parent = procs[n].parent
      BY <1>0, <1>3 DEF Signalled, ProcType
    <2>2. QED
      BY <1>3, <2>1 DEF ProcessTableInv
  <1>4. ASSUME NEW k \in Instances, Die(k)
        PROVE  ProcessTableInv'
    <2>1. /\ procs'[k].life \in {"zombie", "gone"}
          /\ procs'[k].life = "zombie" => procs[k].parent = "daemon"
          /\ \A n \in Instances :
               /\ n # k => procs'[n].life = procs[n].life
               /\ procs'[n].pid = procs[n].pid /\ procs'[n].owner = procs[n].owner
               /\ procs'[n].parent = procs[n].parent
      BY <1>0, <1>4 DEF Die, ProcType
    <2>2. QED
      BY <1>4, <2>1 DEF Die, ProcessTableInv
  <1>5. ASSUME NEW k \in Instances, Reap(k)
        PROVE  ProcessTableInv'
    <2>1. /\ procs'[k].life = "gone"
          /\ \A n \in Instances :
               /\ n # k => procs'[n].life = procs[n].life
               /\ procs'[n].pid = procs[n].pid /\ procs'[n].owner = procs[n].owner
               /\ procs'[n].parent = procs[n].parent
      BY <1>0, <1>5 DEF Reap, ProcType
    <2>2. QED
      BY <1>5, <2>1 DEF Reap, ProcessTableInv
  <1>6. CASE DaemonEnds
    <2>1. \A n \in Instances :
             /\ procs'[n].life = IF procs[n].life = "zombie" THEN "gone" ELSE procs[n].life
             /\ procs'[n].pid = procs[n].pid /\ procs'[n].owner = procs[n].owner
             /\ procs'[n].parent = "other"
      BY <1>0, <1>6 DEF DaemonEnds, ProcType
    <2>2. exits' = {} /\ born' = born
      BY <1>6 DEF DaemonEnds
    <2>3. \A n \in Instances : InTable(n)' => InTable(n)
      BY <2>1
    <2>4. \A n \in Instances : procs'[n].life = "unborn" <=> n > born'
      BY <2>1, <2>2 DEF ProcessTableInv
    <2>5. QED
      BY <2>1, <2>2, <2>3, <2>4 DEF ProcessTableInv
  <1>7. QED
    BY <1>1, <1>2, <1>3, <1>4, <1>5, <1>6 DEF ProcsStep, ForeignStart

\* A step starts at most one process.
LEMMA BornStep ==
    ASSUME ProcsStep PROVE born' \in {born, born + 1}
  <1>1. CASE \E pid \in Pids, owner \in Services \cup {Foreign} : NewProcess(pid, owner)
    BY <1>1 DEF NewProcess
  <1>2. CASE \E n \in Instances : Die(n) \/ Reap(n)
    <2>1. PICK n \in Instances : Die(n) \/ Reap(n)
      BY <1>2
    <2>2. CASE Die(n)
      BY <2>2 DEF Die
    <2>3. CASE Reap(n)
      BY <2>3 DEF Reap
    <2>4. QED
      BY <2>1, <2>2, <2>3
  <1>3. CASE DaemonEnds
    BY <1>3 DEF DaemonEnds
  <1>4. QED
    BY <1>1, <1>2, <1>3 DEF ProcsStep, ForeignStart

\* What has been started keeps its owner and its pid, and what has left the
\* process table stays out of it.
LEMMA ProcessHistory ==
    ASSUME TypeOK, ProcessTableInv, ProcsStep
    PROVE  /\ born <= born'
           /\ \A n \in Instances :
                 n <= born => /\ procs'[n].owner = procs[n].owner
                              /\ procs'[n].pid = procs[n].pid
                              /\ ~InTable(n) => ~InTable(n)'
  <1> USE DEF TypeOK, InTable, Instances
  <1>0. \A n \in Instances : procs[n] \in ProcType
    OBVIOUS
  <1>1. CASE UNCHANGED <<procs, born>> /\ exits' \subseteq exits
    BY <1>1
  <1>2. CASE \E pid \in Pids, owner \in Services \cup {Foreign} :
                NewProcess(pid, owner) /\ UNCHANGED exits
    BY <1>2 DEF NewProcess
  <1>3. CASE \E pid \in Pids, sig \in {"term", "kill"} :
                procs' = Signalled(pid, sig) /\ UNCHANGED <<born, exits>>
    BY <1>0, <1>3 DEF Signalled, ProcType
  <1>4. CASE \E n \in Instances : Die(n) \/ Reap(n)
    <2>1. PICK k \in Instances : Die(k) \/ Reap(k)
      BY <1>4
    <2>2. born' = born /\ InTable(k)
      BY <2>1 DEF Die, Reap
    <2>3. \A n \in Instances :
             /\ procs'[n].owner = procs[n].owner /\ procs'[n].pid = procs[n].pid
             /\ n # k => procs'[n].life = procs[n].life
      <3>1. CASE Die(k)
        BY <1>0, <3>1 DEF Die, ProcType
      <3>2. CASE Reap(k)
        BY <1>0, <3>2 DEF Reap, ProcType
      <3>3. QED
        BY <2>1, <3>1, <3>2
    <2>4. ASSUME NEW n \in Instances, ~InTable(n) PROVE ~InTable(n)'
      BY <2>2, <2>3, <2>4
    <2>5. born <= born'
      BY <2>2
    <2>6. QED
      BY <2>3, <2>4, <2>5
  <1>5. CASE DaemonEnds
    <2>1. \A n \in Instances :
             /\ procs'[n].owner = procs[n].owner /\ procs'[n].pid = procs[n].pid
             /\ procs'[n].life = IF procs[n].life = "zombie" THEN "gone" ELSE procs[n].life
      BY <1>0, <1>5 DEF DaemonEnds, ProcType
    <2>2. born' = born
      BY <1>5 DEF DaemonEnds
    <2>3. QED
      BY <2>1, <2>2
  <1>6. QED
    BY <1>1, <1>2, <1>3, <1>4, <1>5 DEF ProcsStep, ForeignStart


(***************************************************************************)
(* Records                                                                 *)
(***************************************************************************)

\* The part of the inductive invariant that is about one record, with the
\* process table and the number of starts as parameters: a record that is
\* sound for today's table stays sound.
SoundRecord(r, s, table, count) ==
    /\ r.status \in RunningStatus => r.proc # NoProc
    /\ r.status \in {"absent", "preparing", "stopped"} => r.proc = NoProc
    /\ r.healthy => r.status \in {"running", "healthy"}
    /\ r.status = "exited" /\ r.proc # NoProc => table[r.proc].life \notin {"alive", "zombie"}
    /\ r.proc # NoProc => r.proc <= count /\ table[r.proc].owner = s

\* The invariants about records say that every record is sound.
LEMMA SoundRecords ==
    (OwnershipInv /\ RecordsAreTruthful) <=> \A s \in Services : SoundRecord(rec[s], s, procs, born)
  BY DEF OwnershipInv, RecordsAreTruthful, SoundRecord, Running, Tracks, Matches, InTable

\* A sound record stays sound whatever the step does to processes.
LEMMA SoundnessLasts ==
    ASSUME TypeOK, ProcessTableInv, ProcsStep,
           NEW s \in Services, NEW r \in RecordType, SoundRecord(r, s, procs, born)
    PROVE  SoundRecord(r, s, procs', born')
  <1>1. r.proc \in 0..MaxProcs
    BY DEF RecordType
  <1>2. CASE r.proc = NoProc
    BY <1>2 DEF SoundRecord
  <1>3. CASE r.proc # NoProc
    <2>1. r.proc \in Instances /\ r.proc <= born /\ born \in Nat
      BY <1>1, <1>3 DEF SoundRecord, Instances, NoProc, TypeOK
    <2>2. born <= born' /\ procs'[r.proc].owner = procs[r.proc].owner
      BY <2>1, ProcessHistory
    <2>3. procs[r.proc].life \notin {"alive", "zombie"}
          => procs'[r.proc].life \notin {"alive", "zombie"}
      BY <2>1, ProcessHistory DEF InTable
    <2>4. born' \in Nat
      BY <2>1, BornStep
    <2>5. r.proc <= born'
      BY <1>1, <2>1, <2>2, <2>4
    <2>6. QED
      BY <1>3, <2>2, <2>3, <2>5 DEF SoundRecord
  <1>4. QED
    BY <1>2, <1>3

\* A handler is at only one service.
LEMMA FirstIsUnique ==
    ASSUME NEW S \in SUBSET Services, NEW s \in Services, NEW t \in Services,
           IsFirst(s, S), IsFirst(t, S)
    PROVE  s = t
  BY ServicesAssumption DEF IsFirst

\* A step of a start writes only sound records.
LEMMA StartWritesSound ==
    ASSUME IInv, NEW c \in Clients, StartStep(c), NEW s \in Services
    PROVE  SoundRecord(rec'[s], s, procs, born)
  <1>1. SoundRecord(rec[s], s, procs, born)
    BY SoundRecords DEF IInv
  <1>2. c \in Actors /\ task[c] \in TaskType /\ rec \in [Services -> RecordType] /\ born \in Nat
    BY DEF IInv, TypeOK, Actors
  <1>3. CASE Prepare(c)
    BY <1>1, <1>3 DEF Prepare, SoundRecord, Preparing, Record, RunningStatus
  <1>4. CASE MarkFailed(c)
    <2>1. PICK k \in Services : \/ rec' = [rec EXCEPT ![k].status = "failed", ![k].healthy = FALSE]
                                \/ rec' = rec
      BY <1>4 DEF MarkFailed
    <2>2. \/ rec'[s] = rec[s]
          \/ /\ rec'[s].status = "failed" /\ ~rec'[s].healthy /\ rec'[s].proc = rec[s].proc
      BY <1>2, <2>1 DEF RecordType
    <2>3. QED
      BY <1>1, <2>2 DEF SoundRecord, RunningStatus
  <1>5. CASE RecordSpawn(c)
    <2>1. PICK k \in Services :
              /\ IsFirst(k, task[c].todo)
              /\ rec' = [rec EXCEPT ![k] = Record("starting", FALSE, task[c].proc)]
      BY <1>5 DEF RecordSpawn
    <2>2. /\ task[c].proc \in 1..born
          /\ IsFirst(procs[task[c].proc].owner, task[c].todo)
      BY <1>2, <1>5 DEF RecordSpawn, At, IInv, HandlerInv
    <2>3. procs[task[c].proc].owner = k
      BY <1>2, <2>1, <2>2, FirstIsUnique DEF TaskType, IsFirst
    <2>4. CASE s = k
      <3>1. rec'[s] = Record("starting", FALSE, task[c].proc)
        BY <1>2, <2>1, <2>4
      <3>2. task[c].proc # NoProc /\ task[c].proc <= born
        BY <1>2, <2>2 DEF NoProc
      <3>3. QED
        BY <2>3, <2>4, <3>1, <3>2 DEF Record, SoundRecord, RunningStatus
    <2>5. CASE s # k
      BY <1>1, <1>2, <2>1, <2>5
    <2>6. QED
      BY <2>4, <2>5
  <1>6. CASE ApplyHealth(c)
    <2>1. PICK k \in Services : rec' = HealthResult(c, k) \/ rec' = rec
      BY <1>6 DEF ApplyHealth
    <2>2. CASE s = k /\ rec[s].proc = task[c].proc /\ rec' = HealthResult(c, k)
      <3>1. /\ rec'[s].status = task[c].verdict
            /\ rec'[s].healthy = (task[c].verdict \in {"running", "healthy"})
            /\ rec'[s].proc = task[c].proc
        BY <1>2, <2>2 DEF HealthResult, RecordType
      <3>2. /\ task[c].proc \in 1..born
            /\ task[c].verdict = "exited" => ~Matches(task[c].proc)
        BY <1>2, <1>6 DEF ApplyHealth, At, IInv, HandlerInv
      <3>3. task[c].verdict \in {"running", "healthy", "unhealthy", "exited"}
        BY <1>2, <1>6 DEF ApplyHealth, At, TaskType, VerdictType
      <3>4. task[c].proc # NoProc
        BY <1>2, <3>2 DEF NoProc
      <3>5. /\ rec[s].proc <= born /\ procs[rec[s].proc].owner = s
        BY <1>1, <2>2, <3>4 DEF SoundRecord
      <3>6. task[c].verdict = "exited" => procs[task[c].proc].life \notin {"alive", "zombie"}
        BY <3>2, <3>4 DEF Matches, InTable
      <3>7. QED
        BY <2>2, <3>1, <3>3, <3>4, <3>5, <3>6 DEF SoundRecord, RunningStatus
    <2>3. CASE rec'[s] = rec[s]
      BY <1>1, <2>3
    <2>4. QED
      BY <1>2, <2>1, <2>2, <2>3 DEF HealthResult
  <1>7. CASE rec' = rec
    BY <1>1, <1>7
  <1>8. QED
    BY <1>3, <1>4, <1>5, <1>6, <1>7
    DEF StartStep, PrepareFails, BeforeStart, SpawnProcess, SpawnFails, RecordSpawnFails,
        ObserveHealth, Finish

\* Every step writes only sound records.
LEMMA EveryStepWritesSound ==
    ASSUME IInv, [Next]_vars, NEW s \in Services
    PROVE  SoundRecord(rec'[s], s, procs, born)
  <1>1. SoundRecord(rec[s], s, procs, born)
    BY SoundRecords DEF IInv
  <1>2. rec \in [Services -> RecordType] /\ rec[s].proc \in 0..MaxProcs
    BY DEF IInv, TypeOK, RecordType
  <1>3. CASE \E c \in Clients : StartStep(c)
    BY <1>3, StartWritesSound
  <1>4. CASE \E a \in Actors : SaveStopped(a)
    BY <1>1, <1>4 DEF SaveStopped, SoundRecord, Stopped, Record, RunningStatus
  <1>5. CASE \E c \in Clients : StatusRequest(c)
    <2>1. PICK answering \in SUBSET Probed :
              \/ rec' = [t \in Services |-> Refreshed(t, t \in answering)]
              \/ rec' = rec
      BY <1>5 DEF StatusRequest
    <2>2. CASE rec'[s] = Refreshed(s, s \in answering)
      BY <1>1, <2>2
      DEF Refreshed, SoundRecord, Exited, Record, RunningStatus, Running, Tracks, Matches, InTable
    <2>3. QED
      BY <1>1, <2>1, <2>2
  <1>6. CASE \E n \in Instances : RecordExit(n)
    <2>1. rec'[s] \in {rec[s], Stopped, Exited}
      BY <1>2, <1>6 DEF RecordExit, ExitRecord
    <2>2. QED
      BY <1>1, <2>1 DEF SoundRecord, Stopped, Exited, Record, RunningStatus
  <1>7. CASE Boot
    <2>1. PICK answering \in SUBSET Probed :
              \/ rec' = [t \in Services |-> Recovered(t, t \in answering)]
              \/ rec' = rec
      BY <1>7 DEF Boot
    <2>2. CASE rec'[s] = Recovered(s, s \in answering)
      <3>1. CASE rec[s].proc = NoProc \/ ~Running(s)
        BY <1>1, <2>2, <3>1 DEF Recovered
      <3>2. CASE ~(rec[s].proc = NoProc \/ ~Running(s)) /\ s \notin Probed
        <4>1. \/ rec'[s] = Exited
              \/ /\ rec'[s].proc = rec[s].proc /\ rec'[s].healthy = rec[s].healthy
                 /\ rec'[s].status \in {rec[s].status, "running"}
                 /\ rec'[s].status = "running" => rec[s].status \in {"starting", "running"}
                 /\ rec[s].status = "running" => rec'[s].status = "running"
                 /\ rec[s].status = "healthy" => rec'[s].status = "healthy"
          BY <1>2, <2>2, <3>2 DEF Recovered, RecordType
        <4>2. QED
          BY <1>1, <3>2, <4>1 DEF SoundRecord, Exited, Record, Running, RunningStatus
      <3>3. CASE ~(rec[s].proc = NoProc \/ ~Running(s)) /\ s \in Probed
        BY <1>1, <2>2, <3>3
        DEF Recovered, SoundRecord, Exited, Record, Running, RunningStatus
      <3>4. QED
        BY <3>1, <3>2, <3>3
    <2>3. QED
      BY <1>1, <2>1, <2>2
  <1>8. CASE rec' = rec
    BY <1>1, <1>8
  <1>9. QED
    BY <1>3, <1>4, <1>5, <1>6, <1>7, <1>8
    DEF Next, Handler, StopStep, MainStep, TerminateStep, Exit, Crash, Actors, DaemonEnds,
        Request, StopLock, StopFails, OnClose, ShutdownLock, ShutdownRequest, Die, Reap,
        ForeignStart, TerminateService, ProcessGone, GraceOver, vars


(***************************************************************************)
(* Handlers                                                                *)
(***************************************************************************)

\* The part of the inductive invariant that is about one actor, with the
\* process table and the number of starts as parameters.
SoundTask(t, table, count) ==
    /\ t.pc \in {"record", "health", "apply"} =>
          /\ t.proc \in 1..count
          /\ IsFirst(table[t.proc].owner, t.todo)
    /\ t.pc = "apply" /\ t.verdict = "exited"
       => t.proc = NoProc \/ table[t.proc].life \notin {"alive", "zombie"}
    /\ t.pc = "waiting" =>
          /\ t.proc \in 1..count
          /\ FastReuse \/ \A n \in Instances :
                /\ table[n].life \in {"alive", "zombie"}
                /\ table[n].pid = table[t.proc].pid
                => table[n].owner # Foreign

\* HandlerInv says that every actor's task is sound.
LEMMA SoundTasks ==
    HandlerInv <=> \A a \in Actors : SoundTask(task[a], procs, born)
  BY DEF HandlerInv, SoundTask, At, Matches, InTable

\* A sound task stays sound whatever the step does to processes.
LEMMA TaskSoundnessLasts ==
    ASSUME TypeOK, TypeOK', ProcessTableInv, ProcsStep, NEW b \in Actors,
           SoundTask(task'[b], procs, born)
    PROVE  SoundTask(task'[b], procs', born')
  <1> DEFINE t == task'[b]
  <1>1. born \in 0..MaxProcs /\ born \in Nat /\ MaxProcs \in Nat /\ t.proc \in 0..MaxProcs
    BY BoundsAssumption DEF TypeOK, TaskType
  <1>2. born' \in Nat /\ born <= born' /\ (t.proc \in 1..born => t.proc \in 1..born')
    BY <1>1, BornStep
  <1>3. ASSUME t.proc \in 1..born
        PROVE  /\ t.proc \in Instances
               /\ procs'[t.proc].owner = procs[t.proc].owner
               /\ procs'[t.proc].pid = procs[t.proc].pid
               /\ procs[t.proc].life \notin {"alive", "zombie"}
                  => procs'[t.proc].life \notin {"alive", "zombie"}
    <2>1. t.proc \in Instances /\ t.proc <= born
      BY <1>1, <1>3 DEF Instances
    <2>2. QED
      BY <2>1, ProcessHistory DEF InTable
  <1>4. ASSUME t.pc = "waiting", ~FastReuse, NEW n \in Instances,
               InTable(n)', procs'[n].pid = procs'[t.proc].pid
        PROVE  procs'[n].owner # Foreign
    <2>1. t.proc \in 1..born
      BY <1>4 DEF SoundTask
    <2>2. CASE n <= born
      <3>1. InTable(n) /\ procs[n].pid = procs[t.proc].pid /\ procs'[n].owner = procs[n].owner
        BY <1>3, <1>4, <2>1, <2>2, ProcessHistory
      <3>2. QED
        BY <1>4, <3>1 DEF SoundTask, InTable
    <2>3. CASE n > born
      <3>1. procs[n].life = "unborn"
        BY <2>3 DEF ProcessTableInv
      <3>2. CASE \E pid \in Pids, s \in Services : NewProcess(pid, s)
        <4>1. PICK pid \in Pids, s \in Services : NewProcess(pid, s)
          BY <3>2
        <4>2. procs'[n] = procs[n] \/ procs'[n].owner = s
          BY <4>1 DEF NewProcess, TypeOK
        <4>3. QED
          BY <1>4, <3>1, <4>2, ServicesAssumption DEF InTable, Foreign
      <3>3. CASE \E pid \in Pids : ForeignStart(pid)
        <4>1. PICK pid \in Pids : ForeignStart(pid)
          BY <3>3
        <4>2. t = task[b] /\ procs[t.proc].pid # pid
          BY <1>4, <4>1 DEF ForeignStart, At
        <4>3. procs'[n] = procs[n] \/ procs'[n].pid = pid
          BY <4>1 DEF ForeignStart, NewProcess, TypeOK
        <4>4. QED
          BY <1>3, <1>4, <2>1, <3>1, <4>2, <4>3 DEF InTable
      <3>4. CASE \/ UNCHANGED <<procs, born>>
                 \/ \E pid, sig : procs' = Signalled(pid, sig)
                 \/ DaemonEnds
        <4>0. procs[n] \in ProcType
          BY DEF TypeOK
        <4>1. CASE \E pid, sig : procs' = Signalled(pid, sig)
          BY <1>4, <3>1, <4>0, <4>1 DEF InTable, Signalled
        <4>2. CASE DaemonEnds
          <5>1. procs'[n].life = IF procs[n].life = "zombie" THEN "gone" ELSE procs[n].life
            BY <4>0, <4>2 DEF DaemonEnds, ProcType
          <5>2. QED
            BY <1>4, <3>1, <5>1 DEF InTable
        <4>3. QED
          BY <1>4, <3>1, <3>4, <4>1, <4>2 DEF InTable
      <3>5. CASE \E k \in Instances : Die(k) \/ Reap(k)
        <4>1. PICK k \in Instances : Die(k) \/ Reap(k)
          BY <3>5
        <4>2. k # n
          BY <3>1, <4>1 DEF Die, Reap
        <4>3. procs'[n] = procs[n]
          <5>1. CASE Die(k)
            BY <4>2, <5>1 DEF Die, TypeOK
          <5>2. CASE Reap(k)
            BY <4>2, <5>2 DEF Reap, TypeOK
          <5>3. QED
            BY <4>1, <5>1, <5>2
        <4>4. QED
          BY <1>4, <3>1, <4>3 DEF InTable
      <3>6. QED
        BY <3>2, <3>3, <3>4, <3>5 DEF ProcsStep
    <2>4. QED
      BY <1>1, <2>2, <2>3 DEF Instances
  <1>5. t.pc = "waiting" => FastReuse \/ \A n \in Instances :
            /\ procs'[n].life \in {"alive", "zombie"}
            /\ procs'[n].pid = procs'[t.proc].pid
            => procs'[n].owner # Foreign
    BY <1>4 DEF InTable
  <1>6. QED
    BY <1>2, <1>3, <1>5 DEF SoundTask

\* A step that moves its actor to a place where the invariant asks nothing.
LEMMA FrameTask ==
    ASSUME NEW a \in Actors,
           task'[a].pc \notin {"record", "health", "apply", "waiting"},
           \A b \in Actors : b # a => task'[b] = task[b],
           \A b \in Actors : SoundTask(task[b], procs, born)
    PROVE  \A b \in Actors : SoundTask(task'[b], procs, born)
  BY DEF SoundTask

\* A step of a start leaves sound tasks, also the one that starts a process,
\* whose task is sound for the new table.
LEMMA StartLeavesSoundTasks ==
    ASSUME IInv, NEW c \in Clients, StartStep(c), ProcsStep, NEW b \in Actors
    PROVE  SoundTask(task'[b], procs', born')
  <1>1. /\ \A a \in Actors : SoundTask(task[a], procs, born)
        /\ c \in Actors /\ task[c] \in TaskType /\ task \in [Actors -> TaskType]
        /\ TypeOK /\ ProcessTableInv /\ TypeOK'
    BY SoundTasks, StartTypeOK DEF IInv, TypeOK, Actors
  <1>2. ASSUME \A a \in Actors : SoundTask(task'[a], procs, born)
        PROVE  SoundTask(task'[b], procs', born')
    BY <1>1, <1>2, TaskSoundnessLasts
  <1>3. CASE Prepare(c)
    <2>1. /\ task'[c].pc \in {"finish", "before"}
          /\ \A a \in Actors : a # c => task'[a] = task[a]
      BY <1>1, <1>3 DEF Prepare, TaskType
    <2>2. QED
      BY <1>1, <1>2, <2>1, FrameTask
  <1>4. CASE PrepareFails(c) \/ SpawnFails(c) \/ RecordSpawnFails(c) \/ Finish(c) \/ MarkFailed(c)
    <2>1. Answer(c)
      BY <1>4 DEF PrepareFails, SpawnFails, RecordSpawnFails, Finish, MarkFailed
    <2>2. /\ task'[c].pc = "idle"
          /\ \A a \in Actors : a # c => task'[a] = task[a]
      BY <1>1, <2>1 DEF Answer, Idle
    <2>3. QED
      BY <1>1, <1>2, <2>2, FrameTask
  <1>5. CASE BeforeStart(c)
    <2>1. /\ task'[c].pc \in {"spawn", "failing", "idle"}
          /\ \A a \in Actors : a # c => task'[a] = task[a]
      <3>1. Goto(c, "spawn") \/ Goto(c, "failing") \/ Answer(c)
        BY <1>5 DEF BeforeStart
      <3>2. QED
        BY <1>1, <3>1 DEF Goto, Answer, Idle, TaskType
    <2>2. QED
      BY <1>1, <1>2, <2>1, FrameTask
  <1>6. CASE SpawnProcess(c)
    <2>1. PICK s \in Services, pid \in Pids :
              IsFirst(s, task[c].todo) /\ NewProcess(pid, s)
      BY <1>6 DEF SpawnProcess
    <2>2. /\ born' = born + 1 /\ born \in Nat /\ born + 1 \in Instances
          /\ procs \in [Instances -> ProcType]
      BY <1>1, <2>1, BoundsAssumption DEF TypeOK, NewProcess, Instances
    <2>3. procs'[born + 1].owner = s
      BY <2>1, <2>2 DEF NewProcess
    <2>4. /\ task'[c].pc = "record" /\ task'[c].proc = born + 1 /\ task'[c].todo = task[c].todo
          /\ \A a \in Actors : a # c => task'[a] = task[a]
      BY <1>1, <1>6 DEF SpawnProcess, TaskType
    <2>5. CASE b = c
      BY <2>1, <2>2, <2>3, <2>4, <2>5 DEF SoundTask
    <2>6. CASE b # c
      BY <1>1, <2>4, <2>6, TaskSoundnessLasts
    <2>7. QED
      BY <2>5, <2>6
  <1>7. CASE RecordSpawn(c) \/ ObserveHealth(c)
    <2>1. /\ task'[c].proc = task[c].proc /\ task'[c].todo = task[c].todo
          /\ task'[c].pc \in {"health", "apply"}
          /\ task'[c].pc = "apply" /\ task'[c].verdict = "exited" => ~Matches(task[c].proc)
          /\ \A a \in Actors : a # c => task'[a] = task[a]
      <3>1. CASE RecordSpawn(c)
        BY <1>1, <3>1 DEF RecordSpawn, Goto, TaskType
      <3>2. CASE ObserveHealth(c)
        <4>1. PICK s \in Services : \E v \in Verdicts(s, task[c].proc) :
                  task' = [task EXCEPT ![c].pc = "apply", ![c].verdict = v]
          BY <3>2 DEF ObserveHealth
        <4>2. PICK v \in Verdicts(s, task[c].proc) :
                  task' = [task EXCEPT ![c].pc = "apply", ![c].verdict = v]
          BY <4>1
        <4>3. v = "exited" => ~Matches(task[c].proc)
          BY <4>2 DEF Verdicts
        <4>4. QED
          BY <1>1, <4>2, <4>3 DEF TaskType
      <3>3. QED
        BY <1>7, <3>1, <3>2
    <2>2. task[c].pc \in {"record", "health"}
      BY <1>7 DEF RecordSpawn, ObserveHealth, At
    <2>3. SoundTask(task'[c], procs, born)
      BY <1>1, <2>1, <2>2 DEF SoundTask, Matches, InTable
    <2>4. QED
      BY <1>1, <1>2, <2>1, <2>3
  <1>8. CASE ApplyHealth(c)
    <2>1. /\ task'[c].pc \in {"finish", "before", "idle"}
          /\ \A a \in Actors : a # c => task'[a] = task[a]
      <3>1. PICK s \in Services : NextPlan(c, s) \/ Answer(c)
        BY <1>8 DEF ApplyHealth
      <3>2. CASE NextPlan(c, s)
        BY <1>1, <3>2 DEF NextPlan, TaskType
      <3>3. CASE Answer(c)
        BY <1>1, <3>3 DEF Answer, Idle
      <3>4. QED
        BY <3>1, <3>2, <3>3
    <2>2. QED
      BY <1>1, <1>2, <2>1, FrameTask
  <1>9. QED
    BY <1>3, <1>4, <1>5, <1>6, <1>7, <1>8 DEF StartStep

\* So does a step of the loop that terminates processes.
LEMMA TerminateLeavesSoundTasks ==
    ASSUME IInv, NEW a \in Actors, TerminateStep(a), NEW b \in Actors
    PROVE  SoundTask(task'[b], procs, born)
  <1>1. /\ \A d \in Actors : SoundTask(task[d], procs, born)
        /\ task[a] \in TaskType /\ task \in [Actors -> TaskType]
    BY SoundTasks DEF IInv, TypeOK
  <1>2. CASE TerminateService(a)
    <2>0. \A s \in Services : /\ task[a].todo \ {s} \in SUBSET Services
                              /\ task[a].done \in SUBSET Services
                              /\ task[a].done \cup {s} \in SUBSET Services
      BY <1>1 DEF TaskType
    <2>1. PICK s \in Services, todo \in SUBSET Services, done \in SUBSET Services :
              \/ /\ Tracks(s)
                 /\ task' = [task EXCEPT ![a] = [@ EXCEPT !.pc = "waiting", !.todo = todo,
                                                  !.done = done, !.proc = rec[s].proc]]
              \/ task' = [task EXCEPT ![a] = [@ EXCEPT !.todo = todo, !.done = done]]
      <3>1. PICK s \in Services :
                LET left == task[a].todo \ {s}
                    done == task[a].done \cup {s}
                IN  \/ /\ Tracks(s)
                       /\ task' = [task EXCEPT ![a] = [@ EXCEPT !.pc = "waiting", !.todo = left,
                                                        !.done = done, !.proc = rec[s].proc]]
                    \/ task' = [task EXCEPT ![a] = [@ EXCEPT !.todo = left,
                                     !.done = IF a = Main THEN task[a].done ELSE done]]
        BY <1>2 DEF TerminateService, ToTerminate
      <3>2. QED
        BY <2>0, <3>1
    <2>2. \A d \in Actors : d # a => task'[d] = task[d]
      <3>1. \E next : task' = [task EXCEPT ![a] = next]
        BY <2>1
      <3>2. QED
        BY <1>1, <3>1
    <2>3. task[a].pc = "stopping"
      BY <1>2 DEF TerminateService, At
    <2>4. CASE task' = [task EXCEPT ![a] = [@ EXCEPT !.todo = todo, !.done = done]]
      <3>1. task'[a].pc = "stopping"
        BY <1>1, <2>3, <2>4 DEF TaskType
      <3>2. QED
        BY <1>1, <2>2, <3>1, FrameTask
    <2>5. CASE /\ Tracks(s)
               /\ task' = [task EXCEPT ![a] = [@ EXCEPT !.pc = "waiting", !.todo = todo,
                                                !.done = done, !.proc = rec[s].proc]]
      <3>1. task'[a].pc = "waiting" /\ task'[a].proc = rec[s].proc
        BY <1>1, <2>5 DEF TaskType
      <3>2. /\ rec[s].proc \in 1..born
            /\ \A n \in Instances :
                  InTable(n) /\ procs[n].pid = procs[rec[s].proc].pid => procs[n].owner # Foreign
        <4>1. rec[s].proc \in 0..MaxProcs /\ born \in Nat /\ MaxProcs \in Nat
          BY BoundsAssumption DEF IInv, TypeOK, RecordType
        <4>2. rec[s].proc # 0 /\ rec[s].proc <= born
          BY <2>5 DEF Tracks, Matches, NoProc, IInv, OwnershipInv
        <4>3. rec[s].proc \in Instances /\ procs[rec[s].proc].owner \in Services
          BY <4>1, <4>2 DEF IInv, OwnershipInv, Instances, NoProc
        <4>4. \A n \in Instances :
                 InTable(n) /\ procs[n].pid = procs[rec[s].proc].pid => procs[n].owner # Foreign
          BY <2>5, <4>3, ServicesAssumption DEF IInv, ProcessTableInv, Tracks, Matches, Foreign
        <4>5. QED
          BY <4>1, <4>2, <4>4
      <3>3. SoundTask(task'[a], procs, born)
        BY <3>1, <3>2 DEF SoundTask, InTable
      <3>4. QED
        BY <1>1, <2>2, <3>3
    <2>6. QED
      BY <2>1, <2>4, <2>5
  <1>3. CASE ProcessGone(a) \/ GraceOver(a) \/ SaveStopped(a)
    <2>1. /\ task'[a].pc \in {"stopping", "exiting", "onClose", "idle"}
          /\ \A d \in Actors : d # a => task'[d] = task[d]
      <3>1. Goto(a, "stopping") \/ Goto(a, "exiting") \/ Goto(a, "onClose") \/ Answer(a)
        BY <1>3 DEF ProcessGone, GraceOver, SaveStopped
      <3>2. QED
        BY <1>1, <3>1 DEF Goto, Answer, Idle, TaskType
    <2>2. QED
      BY <1>1, <2>1, FrameTask
  <1>4. QED
    BY <1>2, <1>3 DEF TerminateStep

\* And so does every step.
LEMMA EveryStepLeavesSoundTasks ==
    ASSUME IInv, [Next]_vars, ProcsStep, TypeOK', NEW b \in Actors
    PROVE  SoundTask(task'[b], procs', born')
  <1>1. /\ \A a \in Actors : SoundTask(task[a], procs, born)
        /\ task \in [Actors -> TaskType]
        /\ TypeOK /\ ProcessTableInv
    BY SoundTasks DEF IInv, TypeOK
  <1>2. ASSUME \A a \in Actors : SoundTask(task'[a], procs, born)
        PROVE  SoundTask(task'[b], procs', born')
    BY <1>1, <1>2, TaskSoundnessLasts DEF TypeOK
  <1>3. CASE \E c \in Clients : StartStep(c)
    BY <1>3, StartLeavesSoundTasks
  <1>4. CASE \E a \in Actors : TerminateStep(a)
    BY <1>2, <1>4, TerminateLeavesSoundTasks
  <1>5. CASE \E c \in Clients : \/ Request(c) \/ StopLock(c) \/ StopFails(c)
                                \/ OnClose(c) \/ StatusRequest(c)
    <2>1. PICK c \in Clients : \/ Request(c) \/ StopLock(c) \/ StopFails(c)
                               \/ OnClose(c) \/ StatusRequest(c)
      BY <1>5
    <2>2. /\ task'[c].pc \in {"idle", "start", "stop", "status", "stopping"}
          /\ \A a \in Actors : a # c => task'[a] = task[a]
      <3>1. c \in Actors
        BY DEF Actors
      <3>2. CASE Request(c)
        BY <1>1, <3>1, <3>2 DEF Request, Idle, Entry, Ops
      <3>3. CASE StopLock(c)
        BY <1>1, <3>1, <3>3 DEF StopLock, TaskType
      <3>4. CASE StopFails(c) \/ StatusRequest(c)
        BY <1>1, <3>1, <3>4 DEF StopFails, StatusRequest, Answer, Idle
      <3>5. CASE OnClose(c)
        <4> DEFINE next == IF task[c].op = "restart"
                           THEN [Idle EXCEPT !.pc = "start", !.op = "start",
                                             !.names = task[c].names]
                           ELSE Idle
        <4>1. task' = [task EXCEPT ![c] = next]
          BY <3>5 DEF OnClose, Answer
        <4>2. next.pc \in {"idle", "start"}
          BY DEF Idle
        <4> HIDE DEF next
        <4>3. QED
          BY <1>1, <3>1, <4>1, <4>2
      <3>6. QED
        BY <2>1, <3>2, <3>3, <3>4, <3>5
    <2>3. QED
      BY <1>1, <1>2, <2>2, FrameTask DEF Actors
  <1>6. CASE ShutdownLock \/ ShutdownRequest \/ Boot
    <2>1. Main \in Actors
      BY DEF Actors
    <2>2. /\ task'[Main].pc \in {"stopping", "stop", "serving"}
          /\ \A a \in Actors : a # Main => task'[a] = task[a]
      BY <1>1, <1>6, <2>1 DEF ShutdownLock, ShutdownRequest, Boot, Goto, TaskType
    <2>3. QED
      BY <1>1, <1>2, <2>1, <2>2, FrameTask
  <1>7. CASE DaemonEnds
    <2>1. \A a \in Actors : task'[a].pc = "idle"
      BY <1>7 DEF DaemonEnds, Idle
    <2>2. QED
      BY <1>2, <2>1 DEF SoundTask
  <1>8. CASE task' = task
    BY <1>1, <1>2, <1>8
  <1>9. QED
    BY <1>3, <1>4, <1>5, <1>6, <1>7, <1>8
    DEF Next, Handler, StopStep, MainStep, Exit, Crash, Actors,
        Die, Reap, RecordExit, ForeignStart, vars

(***************************************************************************)
(* The inductive invariant                                                 *)
(***************************************************************************)

\* The inductive invariant holds at first.
LEMMA InitIInv == Init => IInv
  <1> SUFFICES ASSUME Init PROVE IInv
    OBVIOUS
  <1>1. TypeOK
    BY InitTypeOK
  <1>2. \A n \in Instances : procs[n].life = "unborn" /\ procs[n].parent = "other"
    BY DEF Init
  <1>3. ProcessTableInv
    BY <1>2 DEF Init, ProcessTableInv, InTable, Instances
  <1>4. \A s \in Services : rec[s] = Absent
    BY DEF Init
  <1>5. OwnershipInv /\ RecordsAreTruthful
    BY <1>4 DEF OwnershipInv, RecordsAreTruthful, Absent, Record, Running, RunningStatus
  <1>6. \A a \in Actors : task[a].pc \in {"idle", "serving"}
    BY DEF Init, Idle
  <1>7. HandlerInv
    BY <1>6 DEF HandlerInv, At
  <1>8. QED
    BY <1>1, <1>3, <1>5, <1>7 DEF IInv

\* Every step preserves the inductive invariant.
LEMMA StepIInv == IInv /\ [Next]_vars => IInv'
  <1> SUFFICES ASSUME IInv, [Next]_vars PROVE IInv'
    OBVIOUS
  <1>1. TypeOK /\ ProcessTableInv
    BY DEF IInv
  <1>2. ProcsStep
    BY EveryProcsStep
  <1>3. TypeOK'
    BY <1>1, TypeOKStep
  <1>4. ProcessTableInv'
    BY <1>1, <1>2, ProcessTableStep
  <1>5. (OwnershipInv /\ RecordsAreTruthful)'
    <2>1. ASSUME NEW s \in Services PROVE SoundRecord(rec'[s], s, procs', born')
      <3>1. SoundRecord(rec'[s], s, procs, born)
        BY EveryStepWritesSound
      <3>2. rec'[s] \in RecordType
        BY <1>3 DEF TypeOK
      <3>3. QED
        BY <1>1, <1>2, <3>1, <3>2, SoundnessLasts
    <2>2. QED
      BY <2>1
      DEF OwnershipInv, RecordsAreTruthful, SoundRecord, Running, Tracks, Matches, InTable
  <1>6. HandlerInv'
    <2>1. \A a \in Actors : SoundTask(task'[a], procs', born')
      BY <1>2, <1>3, EveryStepLeavesSoundTasks
    <2>2. QED
      BY <2>1 DEF HandlerInv, SoundTask, At, Matches, InTable
  <1>7. QED
    BY <1>3, <1>4, <1>5, <1>6 DEF IInv

\* The inductive invariant always holds.
LEMMA InvariantHolds == Spec => []IInv
  BY InitIInv, StepIInv, PTL DEF Spec

\* The records of state.json always tell the truth about the processes, for
\* any number of clients, services, processes and daemon restarts.
THEOREM RecordsTruthful == Spec => []RecordsAreTruthful
  <1>1. IInv => RecordsAreTruthful
    BY DEF IInv
  <1>2. QED
    BY <1>1, InvariantHolds, PTL

\* A stopped service stays stopped until a start writes its record, again for
\* all constants.
THEOREM StoppedServicesStay == Spec => StoppedStays
  <1> DEFINE Stays == \A s \in Services :
                          rec[s].status = "stopped"
                          => rec'[s].status \in {"stopped", "preparing", "starting", "failed"}
  <1>1. IInv /\ [Next]_vars => [Stays]_vars
    <2> SUFFICES ASSUME IInv, [Next]_vars, NEW s \in Services, rec[s].status = "stopped"
                 PROVE  rec'[s].status \in {"stopped", "preparing", "starting", "failed"}
      OBVIOUS
    <2>1. /\ rec \in [Services -> RecordType] /\ rec[s].proc = NoProc /\ ~Running(s)
      BY DEF IInv, TypeOK, RecordsAreTruthful, Running, RunningStatus
    <2>2. CASE \E c \in Clients : ApplyHealth(c)
      <3>1. PICK c \in Clients : ApplyHealth(c)
        BY <2>2
      <3>2. PICK k \in Services : rec' = HealthResult(c, k) \/ rec' = rec
        BY <3>1 DEF ApplyHealth
      <3>3. task[c].proc # NoProc
        BY <3>1 DEF ApplyHealth, At, IInv, HandlerInv, Actors, NoProc
      <3>4. rec'[s] = rec[s]
        BY <2>1, <3>2, <3>3 DEF HealthResult
      <3>5. QED
        BY <3>4
    <2>3. CASE \E c \in Clients : Prepare(c) \/ MarkFailed(c) \/ RecordSpawn(c)
      <3>1. PICK c \in Clients : Prepare(c) \/ MarkFailed(c) \/ RecordSpawn(c)
        BY <2>3
      <3>2. CASE Prepare(c)
        BY <3>2 DEF Prepare, Preparing, Record
      <3>3. CASE MarkFailed(c)
        BY <2>1, <3>3 DEF MarkFailed, RecordType
      <3>4. CASE RecordSpawn(c)
        BY <2>1, <3>4 DEF RecordSpawn, Record
      <3>5. QED
        BY <3>1, <3>2, <3>3, <3>4
    <2>4. CASE \E a \in Actors : SaveStopped(a)
      BY <2>4 DEF SaveStopped, Stopped, Record
    <2>5. CASE \E c \in Clients : StatusRequest(c)
      BY <2>1, <2>5 DEF StatusRequest, Refreshed, Tracks, Matches
    <2>6. CASE \E n \in Instances : RecordExit(n)
      BY <2>1, <2>6 DEF RecordExit, ExitRecord, Stopped, Record
    <2>7. CASE Boot
      BY <2>1, <2>7 DEF Boot, Recovered
    <2>8. CASE rec' = rec
      BY <2>8
    <2>9. QED
      BY <2>2, <2>3, <2>4, <2>5, <2>6, <2>7, <2>8
      DEF Next, Handler, StartStep, StopStep, MainStep, TerminateStep, Exit, Crash, Actors,
          DaemonEnds, Request, StopLock, StopFails, OnClose, ShutdownLock, ShutdownRequest,
          Die, Reap, ForeignStart, TerminateService, ProcessGone, GraceOver, vars,
          PrepareFails, BeforeStart, SpawnProcess, SpawnFails, RecordSpawnFails,
          ObserveHealth, Finish
  <1>2. QED
    BY <1>1, InvariantHolds, PTL DEF Spec, StoppedStays

\* As long as the kernel does not come back to a pid within the grace period of
\* a stop that polls it, no signal of the daemon reaches a foreign process.
THEOREM OnlyOwnSignalled ==
    ASSUME ~FastReuse PROVE Spec => []SignalsOnlyOwn
  <1>1. Init => SignalsOnlyOwn
    BY DEF Init, SignalsOnlyOwn
  <1>2. SignalsOnlyOwn /\ IInv /\ [Next]_vars => SignalsOnlyOwn'
    <2> SUFFICES ASSUME SignalsOnlyOwn, IInv, [Next]_vars, NEW n \in Instances,
                        procs'[n].sig # "none"
                 PROVE  procs'[n].owner # Foreign
      BY DEF SignalsOnlyOwn
    <2>0. procs \in [Instances -> ProcType] /\ procs[n] \in ProcType /\ ProcsStep
          /\ (procs[n].sig # "none" => procs[n].owner # Foreign)
      BY EveryProcsStep DEF IInv, TypeOK, SignalsOnlyOwn
    <2>1. CASE UNCHANGED <<procs, born>>
      BY <2>0, <2>1
    <2>2. ASSUME NEW pid \in Pids, NEW owner \in Services \cup {Foreign}, NewProcess(pid, owner)
          PROVE  procs'[n].owner # Foreign
      BY <2>0, <2>2 DEF NewProcess
    <2>3. ASSUME NEW pid \in Pids, NEW sig, procs' = Signalled(pid, sig),
                 \A k \in Instances : InTable(k) /\ procs[k].pid = pid => procs[k].owner # Foreign
          PROVE  procs'[n].owner # Foreign
      BY <2>0, <2>3 DEF Signalled, ProcType, InTable
    <2>4. ASSUME NEW k \in Instances, Die(k) PROVE procs'[n].owner # Foreign
      BY <2>0, <2>4 DEF Die, ProcType
    <2>5. ASSUME NEW k \in Instances, Reap(k) PROVE procs'[n].owner # Foreign
      BY <2>0, <2>5 DEF Reap, ProcType
    <2>6. CASE DaemonEnds
      BY <2>0, <2>6 DEF DaemonEnds, ProcType
    <2>7. QED
      BY <2>0, <2>1, <2>2, <2>3, <2>4, <2>5, <2>6 DEF ProcsStep, ForeignStart
  <1>3. QED
    BY <1>1, <1>2, InvariantHolds, PTL DEF Spec

\* After a recovery that could save what it found, every service recorded as
\* running is the process that was recorded.
THEOREM RecoveryTruthful ==
    ASSUME ~DiskErrors PROVE Spec => RecoveryIsTruthful
  <1> DEFINE Truthful == ~up /\ up' => \A s \in Services : Running(s)' => Tracks(s)'
  <1>1. IInv /\ [Next]_vars => [Truthful]_vars
    <2> SUFFICES ASSUME IInv, [Next]_vars, ~up, up', NEW s \in Services, Running(s)'
                 PROVE  Tracks(s)'
      OBVIOUS
    <2>1. Boot
      <3>1. ASSUME NEW c \in Clients, StartStep(c) PROVE UNCHANGED up
        BY <3>1 DEF StartStep, Prepare, PrepareFails, BeforeStart, MarkFailed, SpawnProcess,
             SpawnFails, RecordSpawn, RecordSpawnFails, ObserveHealth, ApplyHealth, Finish
      <3>2. ASSUME NEW a, TerminateStep(a) PROVE UNCHANGED up
        BY <3>2 DEF TerminateStep, TerminateService, ProcessGone, GraceOver, SaveStopped
      <3>3. ASSUME NEW c \in Clients, Request(c) \/ StopLock(c) \/ StopFails(c) \/ OnClose(c)
                                      \/ StatusRequest(c)
            PROVE  UNCHANGED up
        BY <3>3 DEF Request, StopLock, StopFails, OnClose, StatusRequest
      <3>4. ASSUME NEW n, Die(n) \/ Reap(n) \/ RecordExit(n) \/ ForeignStart(n)
            PROVE  UNCHANGED up
        BY <3>4 DEF Die, Reap, RecordExit, ForeignStart
      <3>5. ASSUME ShutdownRequest \/ ShutdownLock \/ UNCHANGED vars PROVE UNCHANGED up
        BY <3>5 DEF ShutdownRequest, ShutdownLock, vars
      <3>6. DaemonEnds => ~up'
        BY DEF DaemonEnds
      <3>7. QED
        BY <3>1, <3>2, <3>3, <3>4, <3>5, <3>6
        DEF Next, Handler, StopStep, MainStep, Exit, Crash
    <2>2. PICK answering \in SUBSET Probed : rec'[s] = Recovered(s, s \in answering)
      BY <2>1 DEF Boot
    <2>3. procs' = procs
      BY <2>1 DEF Boot
    <2>4. rec[s].proc # NoProc /\ Running(s)
      BY <2>2 DEF Recovered, Running, IInv, RecordsAreTruthful
    <2>5. Matches(rec[s].proc) /\ rec'[s].proc = rec[s].proc
      <3>1. rec[s] \in RecordType
        BY DEF IInv, TypeOK
      <3>2. CASE s \notin Probed
        BY <2>2, <2>4, <3>1, <3>2
        DEF Recovered, Running, RunningStatus, Exited, Record, RecordType
      <3>3. CASE s \in Probed
        BY <2>2, <2>4, <3>3 DEF Recovered, Running, RunningStatus, Exited, Record
      <3>4. QED
        BY <3>2, <3>3
    <2>6. QED
      BY <2>3, <2>5 DEF Tracks, Matches, InTable
  <1>2. QED
    BY <1>1, InvariantHolds, PTL DEF Spec, RecoveryIsTruthful

=============================================================================
