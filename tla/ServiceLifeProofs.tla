--------------------------- MODULE ServiceLifeProofs ---------------------------
(***************************************************************************)
(* Proofs that the daemon forgets no process that lives, that its shutdown *)
(* leaves none behind, and that it implements ServiceLife, for every       *)
(* choice of the constants.  They add to the invariant of                  *)
(* ServiceDaemonProofs who may change the records while another holds      *)
(* d.mu, which services a handler may still write, and how far the loop    *)
(* that terminates processes has come.                                     *)
(***************************************************************************)
EXTENDS ServiceDaemonProofs

(***************************************************************************)
(* Who takes a step                                                        *)
(***************************************************************************)

\* The steps of one actor: a connection's handler, or the goroutine of Serve.
ActorStep(a) ==
    \/ /\ a \in Clients
       /\ \/ StartStep(a) \/ Request(a) \/ StopLock(a) \/ StopFails(a)
          \/ OnClose(a) \/ StatusRequest(a)
    \/ a = Main /\ (ShutdownRequest \/ ShutdownLock \/ Boot)
    \/ TerminateStep(a)

\* The steps of the processes and of the exit watchers.
TableStep ==
    \/ \E n \in Instances : Die(n) \/ Reap(n) \/ RecordExit(n)
    \/ \E pid \in Pids : ForeignStart(pid)
    \/ UNCHANGED vars

\* Every step is taken by an actor, by a process or its exit watcher, or ends
\* the daemon.
LEMMA WhoSteps ==
    ASSUME [Next]_vars
    PROVE  (\E a \in Actors : ActorStep(a)) \/ TableStep \/ (up /\ DaemonEnds)
  BY DEF Next, Handler, StopStep, MainStep, Exit, Crash, Actors, ActorStep, TableStep

\* Nobody else's task changes.
LEMMA OthersWait ==
    ASSUME TypeOK, NEW a \in Actors, ActorStep(a), NEW b \in Actors, b # a
    PROVE  task'[b] = task[b]
  <1>1. task \in [Actors -> TaskType]
    BY DEF TypeOK
  <1>2. CASE a \in Clients /\ StartStep(a)
    <2>1. PICK t : task' = [task EXCEPT ![a] = t]
      <3>1. CASE Prepare(a)
        BY <3>1 DEF Prepare
      <3>2. CASE \/ PrepareFails(a) \/ MarkFailed(a) \/ SpawnFails(a)
                 \/ RecordSpawnFails(a) \/ Finish(a)
        BY <3>2 DEF PrepareFails, MarkFailed, SpawnFails, RecordSpawnFails, Finish, Answer
      <3>3. CASE BeforeStart(a) \/ RecordSpawn(a)
        BY <3>3 DEF BeforeStart, RecordSpawn, Goto, Answer
      <3>4. CASE SpawnProcess(a)
        BY <3>4 DEF SpawnProcess
      <3>5. CASE ObserveHealth(a)
        BY <3>5 DEF ObserveHealth
      <3>6. CASE ApplyHealth(a)
        BY <3>6 DEF ApplyHealth, NextPlan, Answer
      <3>7. QED
        BY <1>2, <3>1, <3>2, <3>3, <3>4, <3>5, <3>6 DEF StartStep
    <2>2. QED
      BY <1>1, <2>1
  <1>3. CASE a \in Clients /\ (Request(a) \/ StopLock(a) \/ StopFails(a) \/ StatusRequest(a))
    BY <1>1, <1>3 DEF Request, StopLock, StopFails, StatusRequest, Answer
  <1>4. CASE a \in Clients /\ OnClose(a)
    BY <1>1, <1>4 DEF OnClose, Answer
  <1>5. CASE a = Main /\ (ShutdownRequest \/ ShutdownLock \/ Boot)
    BY <1>1, <1>5 DEF ShutdownRequest, ShutdownLock, Boot, Goto
  <1>6. CASE TerminateService(a)
    <2>1. PICK t : task' = [task EXCEPT ![a] = t]
      BY <1>6 DEF TerminateService
    <2>2. QED
      BY <1>1, <2>1
  <1>7. CASE ProcessGone(a) \/ GraceOver(a) \/ SaveStopped(a)
    BY <1>1, <1>7 DEF ProcessGone, GraceOver, SaveStopped, Goto, Answer
  <1>8. QED
    BY <1>2, <1>3, <1>4, <1>5, <1>6, <1>7 DEF ActorStep, TerminateStep

(***************************************************************************)
(* The mutex                                                               *)
(***************************************************************************)

\* Where an actor holds d.mu across steps.
Holding == {"record", "stopping", "waiting"}

\* The four kinds of steps of an actor: without the mutex over more than this
\* step, and with it free if records change; taking it; holding it; and
\* giving it back.
Waits(a) ==
    /\ task[a].pc \notin Holding /\ task'[a].pc \notin Holding
    /\ UNCHANGED mu
    /\ mu = Free \/ ~up \/ UNCHANGED rec
Locks(a) ==
    /\ task[a].pc \notin Holding /\ task'[a].pc \in Holding
    /\ mu = Free /\ mu' = a /\ UNCHANGED rec
Holds(a) == task'[a].pc \in Holding /\ mu = a /\ mu' = a /\ UNCHANGED rec
Unlocks(a) == task'[a].pc \notin Holding /\ mu = a /\ mu' = Free

\* Every step of a start is of one of them.
LEMMA StartKinds ==
    ASSUME TypeOK, NEW a \in Clients, StartStep(a)
    PROVE  /\ Waits(a) \/ Locks(a) \/ Unlocks(a)
           /\ UNCHANGED up /\ task[a].pc # "idle"
           /\ task'[a].pc \notin {"stopping", "waiting"}
           /\ task'[a].pc = "record" => task[a].pc = "spawn"
  <1>1. task \in [Actors -> TaskType] /\ a \in Actors
    BY DEF TypeOK, Actors
  <1>2. CASE Prepare(a)
    <2>1. task'[a].pc \in {"finish", "before"}
      BY <1>1, <1>2 DEF Prepare, TaskType
    <2>2. QED
      BY <1>2, <2>1 DEF Prepare, At, Waits, Holding
  <1>3. CASE PrepareFails(a) \/ MarkFailed(a) \/ SpawnFails(a) \/ Finish(a)
    <2>1. task'[a].pc = "idle"
      BY <1>1, <1>3 DEF PrepareFails, MarkFailed, SpawnFails, Finish, Answer, Idle
    <2>2. QED
      BY <1>3, <2>1 DEF PrepareFails, MarkFailed, SpawnFails, Finish, At, Waits, Holding
  <1>4. CASE BeforeStart(a)
    <2>1. task'[a].pc \in {"spawn", "failing", "idle"}
      <3>1. Goto(a, "spawn") \/ Goto(a, "failing") \/ Answer(a)
        BY <1>4 DEF BeforeStart
      <3>2. QED
        BY <1>1, <3>1 DEF Goto, Answer, Idle, TaskType
    <2>2. QED
      BY <1>4, <2>1 DEF BeforeStart, At, Waits, Holding
  <1>5. CASE SpawnProcess(a)
    <2>1. task'[a].pc = "record"
      BY <1>1, <1>5 DEF SpawnProcess, TaskType
    <2>2. QED
      BY <1>5, <2>1 DEF SpawnProcess, At, Locks, Holding
  <1>6. CASE RecordSpawn(a)
    <2>1. task'[a].pc = "health"
      BY <1>1, <1>6 DEF RecordSpawn, Goto, TaskType
    <2>2. QED
      BY <1>6, <2>1 DEF RecordSpawn, At, Unlocks, Holding
  <1>7. CASE RecordSpawnFails(a)
    <2>1. task'[a].pc = "idle"
      BY <1>1, <1>7 DEF RecordSpawnFails, Answer, Idle
    <2>2. QED
      BY <1>7, <2>1 DEF RecordSpawnFails, At, Unlocks, Holding
  <1>8. CASE ObserveHealth(a)
    <2>1. task'[a].pc = "apply"
      BY <1>1, <1>8 DEF ObserveHealth, TaskType
    <2>2. QED
      BY <1>8, <2>1 DEF ObserveHealth, At, Waits, Holding
  <1>9. CASE ApplyHealth(a)
    <2>1. task'[a].pc \in {"finish", "before", "idle"}
      <3>1. PICK s \in Services : NextPlan(a, s) \/ Answer(a)
        BY <1>9 DEF ApplyHealth
      <3>2. CASE NextPlan(a, s)
        BY <1>1, <3>2 DEF NextPlan, TaskType
      <3>3. CASE Answer(a)
        BY <1>1, <3>3 DEF Answer, Idle
      <3>4. QED
        BY <3>1, <3>2, <3>3
    <2>2. QED
      BY <1>9, <2>1 DEF ApplyHealth, At, Waits, Holding
  <1>10. QED
    BY <1>2, <1>3, <1>4, <1>5, <1>6, <1>7, <1>8, <1>9 DEF StartStep

\* Every step of the loop that terminates processes holds the mutex or gives
\* it back.
LEMMA TerminateKinds ==
    ASSUME TypeOK, NEW a \in Actors, TerminateStep(a)
    PROVE  /\ Holds(a) \/ Unlocks(a)
           /\ UNCHANGED up /\ task[a].pc # "idle"
           /\ task'[a].pc # "record"
           /\ a = Main => task'[a].pc \in {"stopping", "waiting", "exiting"}
  <1>1. task \in [Actors -> TaskType]
    BY DEF TypeOK
  <1>2. CASE TerminateService(a)
    <2>1. task'[a].pc \in {"stopping", "waiting"}
      <3>1. PICK s \in Services :
                LET left == task[a].todo \ {s}
                    done == task[a].done \cup {s}
                IN  \/ task' = [task EXCEPT ![a] = [@ EXCEPT !.pc = "waiting", !.todo = left,
                                                     !.done = done, !.proc = rec[s].proc]]
                    \/ task' = [task EXCEPT ![a] = [@ EXCEPT !.todo = left,
                                     !.done = IF a = Main THEN task[a].done ELSE done]]
        BY <1>2 DEF TerminateService
      <3>2. task[a].pc = "stopping" /\ task[a] \in TaskType
        BY <1>1, <1>2 DEF TerminateService, At
      <3>3. QED
        BY <1>1, <3>1, <3>2 DEF TaskType
    <2>2. QED
      BY <1>2, <2>1 DEF TerminateService, At, Holds, Holding
  <1>3. CASE ProcessGone(a) \/ GraceOver(a)
    <2>1. task'[a].pc = "stopping"
      BY <1>1, <1>3 DEF ProcessGone, GraceOver, Goto, TaskType
    <2>2. QED
      BY <1>3, <2>1 DEF ProcessGone, GraceOver, At, Holds, Holding
  <1>4. CASE SaveStopped(a)
    <2>1. task'[a].pc \in {"exiting", "onClose", "idle"} /\ (a = Main => task'[a].pc = "exiting")
      <3>1. \/ Goto(a, IF a = Main THEN "exiting" ELSE "onClose")
            \/ a # Main /\ Answer(a)
        BY <1>4 DEF SaveStopped
      <3>2. QED
        BY <1>1, <3>1 DEF Goto, Answer, Idle, TaskType
    <2>2. QED
      BY <1>4, <2>1 DEF SaveStopped, At, Unlocks, Holding
  <1>5. QED
    BY <1>2, <1>3, <1>4 DEF TerminateStep

\* And every step of an actor is of one of the kinds; a daemon that is down
\* takes none but its start, Main starts no service, and only StopLock,
\* ShutdownLock and the loop itself are in the loop that terminates processes,
\* only SpawnProcess comes to "record".
LEMMA ActorKinds ==
    ASSUME TypeOK, MutexInv, NEW a \in Actors, ActorStep(a)
    PROVE  /\ Waits(a) \/ Locks(a) \/ Holds(a) \/ Unlocks(a)
           /\ up' /\ (up \/ (a = Main /\ Boot))
           /\ a = Main => task'[a].pc \notin {"record", "start", "onClose"}
           /\ task'[a].pc = "record" => task[a].pc = "spawn"
           /\ task'[a].pc \in {"stopping", "waiting"}
              => \/ a \in Clients /\ StopLock(a)
                 \/ a = Main /\ ShutdownLock
                 \/ TerminateStep(a)
  <1>1. task \in [Actors -> TaskType] /\ up \in BOOLEAN
        /\ (~up => task[a].pc = "idle")
    BY DEF TypeOK, MutexInv, At
  <1>2. a \in Clients => a # Main
    BY ActorsAssumption
  <1>3. CASE a \in Clients /\ StartStep(a)
    BY <1>1, <1>2, <1>3, StartKinds
  <1>4. CASE TerminateStep(a)
    BY <1>1, <1>4, TerminateKinds
  <1>5. CASE a \in Clients /\ (Request(a) \/ StopFails(a) \/ StatusRequest(a) \/ OnClose(a))
    <2>1. task'[a].pc \in {"idle", "start", "stop", "status"}
      <3>1. CASE Request(a)
        BY <1>1, <3>1 DEF Request, Idle, Entry, Ops
      <3>2. CASE StopFails(a) \/ StatusRequest(a)
        BY <1>1, <3>2 DEF StopFails, StatusRequest, Answer, Idle
      <3>3. CASE OnClose(a)
        <4> DEFINE next == IF task[a].op = "restart"
                           THEN [Idle EXCEPT !.pc = "start", !.op = "start",
                                             !.names = task[a].names]
                           ELSE Idle
        <4>1. task' = [task EXCEPT ![a] = next]
          BY <3>3 DEF OnClose, Answer
        <4>2. next.pc \in {"idle", "start"}
          BY DEF Idle
        <4> HIDE DEF next
        <4>3. QED
          BY <1>1, <4>1, <4>2
      <3>4. QED
        BY <1>5, <3>1, <3>2, <3>3
    <2>2. UNCHANGED <<mu, up>> /\ (mu = Free \/ UNCHANGED rec)
          /\ task[a].pc \notin Holding /\ (up \/ task[a].pc # "idle")
      BY <1>5 DEF Request, StopFails, StatusRequest, OnClose, At, Holding
    <2>3. QED
      BY <1>1, <1>2, <1>5, <2>1, <2>2 DEF Waits, Holding
  <1>6. CASE a \in Clients /\ StopLock(a)
    <2>1. task'[a].pc = "stopping"
      BY <1>1, <1>6 DEF StopLock, TaskType
    <2>2. QED
      BY <1>1, <1>2, <1>6, <2>1 DEF StopLock, At, Locks, Holding
  <1>7. CASE a = Main /\ ShutdownLock
    <2>1. task'[a].pc = "stopping"
      BY <1>1, <1>7 DEF ShutdownLock, TaskType
    <2>2. QED
      BY <1>1, <1>7, <2>1 DEF ShutdownLock, At, Locks, Holding
  <1>8. CASE a = Main /\ ShutdownRequest
    <2>1. task'[a].pc = "stop"
      BY <1>1, <1>8 DEF ShutdownRequest, Goto, TaskType
    <2>2. QED
      BY <1>1, <1>8, <2>1 DEF ShutdownRequest, At, Waits, Holding
  <1>9. CASE a = Main /\ Boot
    <2>1. task'[a].pc = "serving"
      BY <1>1, <1>9 DEF Boot, TaskType
    <2>2. QED
      BY <1>1, <1>9, <2>1 DEF Boot, Waits, Holding
  <1>10. QED
    BY <1>3, <1>4, <1>5, <1>6, <1>7, <1>8, <1>9 DEF ActorStep

\* The mutex keeps its invariant.
LEMMA MutexStep ==
    ASSUME TypeOK, MutexInv, [Next]_vars PROVE MutexInv'
  <1>1. task \in [Actors -> TaskType]
    BY DEF TypeOK
  <1>2. \A a \in Actors : a # Free /\ (task[a].pc \in Holding <=> mu = a)
    BY ActorsAssumption DEF MutexInv, Holding, Actors
  <1>3. ASSUME NEW a \in Actors, ActorStep(a) PROVE MutexInv'
    <2>1. /\ Waits(a) \/ Locks(a) \/ Holds(a) \/ Unlocks(a)
          /\ up'
          /\ a = Main => task'[a].pc \notin {"record", "start", "onClose"}
      BY <1>3, ActorKinds
    <2>2. \A b \in Actors : b # a => task'[b] = task[b]
      BY <1>3, OthersWait
    <2>3. ASSUME NEW b \in Actors PROVE task'[b].pc \in Holding <=> mu' = b
      BY <1>2, <2>1, <2>2 DEF Waits, Locks, Holds, Unlocks
    <2>4. task'[Main].pc \notin {"record", "start", "onClose"}
      BY <2>1, <2>2 DEF MutexInv, Actors
    <2>5. QED
      BY <2>1, <2>3, <2>4 DEF MutexInv, Holding
  <1>4. CASE TableStep
    <2>1. UNCHANGED <<task, mu, up>>
      BY <1>4 DEF TableStep, Die, Reap, RecordExit, ForeignStart, vars
    <2>2. QED
      BY <2>1 DEF MutexInv, At
  <1>5. CASE DaemonEnds
    <2>1. mu' = Free /\ up' = FALSE /\ \A a \in Actors : task'[a].pc = "idle"
      BY <1>5 DEF DaemonEnds, Idle
    <2>2. Main \in Actors
      BY DEF Actors
    <2>3. QED
      BY <1>2, <2>1, <2>2 DEF MutexInv, At
  <1>6. QED
    BY <1>3, <1>4, <1>5, WhoSteps

(***************************************************************************)
(* What has been recorded                                                  *)
(***************************************************************************)

\* A process that lives without SIGKILL after a step did so before it.
LEMMA NothingRevives ==
    ASSUME TypeOK, ProcessTableInv, ProcsStep, NEW n \in Instances, n <= born,
           procs'[n].life = "alive", procs'[n].sig # "kill"
    PROVE  procs[n].life = "alive" /\ procs[n].sig # "kill"
  <1>0. procs \in [Instances -> ProcType] /\ procs[n] \in ProcType /\ born \in Nat
    BY DEF TypeOK
  <1>1. CASE UNCHANGED <<procs, born>>
    BY <1>1
  <1>2. ASSUME NEW pid \in Pids, NEW owner, NewProcess(pid, owner)
        PROVE  procs[n].life = "alive" /\ procs[n].sig # "kill"
    <2>1. n # born + 1
      BY <1>0 DEF Instances
    <2>2. procs'[n] = procs[n]
      BY <1>0, <1>2, <2>1 DEF NewProcess
    <2>3. QED
      BY <2>2
  <1>3. CASE \E pid \in Pids, sig \in {"term", "kill"} : procs' = Signalled(pid, sig)
    BY <1>0, <1>3 DEF Signalled, ProcType
  <1>4. ASSUME NEW k \in Instances, Die(k)
        PROVE  procs[n].life = "alive" /\ procs[n].sig # "kill"
    BY <1>0, <1>4 DEF Die, ProcType
  <1>5. ASSUME NEW k \in Instances, Reap(k)
        PROVE  procs[n].life = "alive" /\ procs[n].sig # "kill"
    BY <1>0, <1>5 DEF Reap, ProcType
  <1>6. CASE DaemonEnds
    <2>1. /\ procs'[n].sig = procs[n].sig
          /\ procs'[n].life = IF procs[n].life = "zombie" THEN "gone" ELSE procs[n].life
      BY <1>0, <1>6 DEF DaemonEnds, ProcType
    <2>2. QED
      BY <2>1
  <1>7. QED
    BY <1>1, <1>2, <1>3, <1>4, <1>5, <1>6 DEF ProcsStep, ForeignStart

\* So a record that a step leaves alone does not come to name such a process.
LEMMA KeptBefore ==
    ASSUME IInv, ProcsStep, NEW s \in Services, rec'[s] = rec[s], AliveAndKept(s)'
    PROVE  AliveAndKept(s)
  <1>1. rec[s].proc \in 0..MaxProcs /\ rec[s].proc # NoProc
    BY DEF IInv, TypeOK, RecordType, AliveAndKept, Tracks, Matches
  <1>2. rec[s].proc \in Instances /\ rec[s].proc <= born
    BY <1>1 DEF IInv, OwnershipInv, Instances, NoProc
  <1>3. procs'[rec[s].proc].life = "alive" /\ procs'[rec[s].proc].sig # "kill"
    BY DEF AliveAndKept
  <1>4. procs[rec[s].proc].life = "alive" /\ procs[rec[s].proc].sig # "kill"
    BY <1>2, <1>3, NothingRevives DEF IInv
  <1>5. QED
    BY <1>1, <1>4 DEF AliveAndKept, Tracks, Matches, InTable

\* No step takes a service out of state.json.
LEMMA PresentGrows ==
    ASSUME TypeOK, [Next]_vars PROVE Present \subseteq Present'
  <1> SUFFICES ASSUME NEW s \in Services, rec[s].status # "absent"
               PROVE  rec'[s].status # "absent"
    BY DEF Present
  <1>1. /\ rec \in [Services -> RecordType] /\ rec[s] \in RecordType
        /\ \A c \in Clients : task[c] \in TaskType
    BY DEF TypeOK, Actors
  <1>2. CASE rec' = rec
    BY <1>2
  <1>3. ASSUME NEW c \in Clients, StartStep(c) PROVE rec'[s].status # "absent"
    <2>1. CASE Prepare(c)
      BY <2>1 DEF Prepare, Preparing, Record
    <2>2. CASE MarkFailed(c)
      BY <1>1, <2>2 DEF MarkFailed, RecordType
    <2>3. CASE RecordSpawn(c)
      BY <1>1, <2>3 DEF RecordSpawn, Record
    <2>4. CASE ApplyHealth(c)
      <3>1. task[c].verdict # "absent"
        BY <1>1 DEF TaskType, VerdictType
      <3>2. PICK k \in Services : rec' = HealthResult(c, k) \/ rec' = rec
        BY <2>4 DEF ApplyHealth
      <3>3. QED
        BY <1>1, <3>1, <3>2 DEF HealthResult, RecordType
    <2>5. QED
      BY <1>2, <1>3, <2>1, <2>2, <2>3, <2>4
      DEF StartStep, PrepareFails, BeforeStart, SpawnProcess, SpawnFails, RecordSpawnFails,
          ObserveHealth, Finish
  <1>4. CASE \E a \in Actors : TerminateStep(a)
    <2>1. CASE \E a \in Actors : SaveStopped(a)
      BY <2>1 DEF SaveStopped, Stopped, Record
    <2>2. QED
      BY <1>2, <1>4, <2>1 DEF TerminateStep, TerminateService, ProcessGone, GraceOver
  <1>5. CASE \E c \in Clients : StatusRequest(c)
    <2>1. PICK answering \in SUBSET Probed :
              rec'[s] = Refreshed(s, s \in answering) \/ rec'[s] = rec[s]
      BY <1>5 DEF StatusRequest
    <2>2. QED
      BY <2>1 DEF Refreshed, Exited, Record
  <1>6. CASE Boot
    <2>1. PICK answering \in SUBSET Probed :
              rec'[s] = Recovered(s, s \in answering) \/ rec'[s] = rec[s]
      BY <1>6 DEF Boot
    <2>2. Recovered(s, s \in answering).status # "absent"
      <3>1. CASE s \in Probed
        BY <3>1 DEF Recovered, Exited, Record
      <3>2. CASE s \notin Probed
        BY <1>1, <3>2 DEF Recovered, Exited, Record, RecordType
      <3>3. QED
        BY <3>1, <3>2
    <2>3. QED
      BY <2>1, <2>2
  <1>7. CASE \E n \in Instances : RecordExit(n)
    BY <1>1, <1>7 DEF RecordExit, ExitRecord, Stopped, Exited, Record
  <1>8. QED
    BY <1>2, <1>3, <1>4, <1>5, <1>6, <1>7
    DEF Next, Handler, StopStep, MainStep, Exit, Crash, Actors, DaemonEnds, Request, StopLock,
        StopFails, OnClose, ShutdownLock, ShutdownRequest, Die, Reap, ForeignStart, vars

(***************************************************************************)
(* Plans                                                                   *)
(***************************************************************************)

\* Where an actor still goes through the services of a request, and where it
\* has not begun.
Planned == {"before", "failing", "spawn", "record", "health", "apply", "stopping", "waiting"}
Unbegun == {"idle", "serving", "stop", "start"}

\* The part of the invariants that is about the services of one task, with
\* the recorded services as a parameter.
SoundPlan(t, S) ==
    /\ t.pc \in Planned => t.todo \cup t.done \subseteq S
    /\ t.pc \in Unbegun => t.done = {}

\* A step of a start plans only what it records.
LEMMA StartPlans ==
    ASSUME TypeOK, NEW a \in Clients, StartStep(a), SoundPlan(task[a], Present),
           Present \subseteq Present'
    PROVE  SoundPlan(task'[a], Present')
  <1> USE DEF SoundPlan, Planned, Unbegun
  <1>1. task \in [Actors -> TaskType] /\ a \in Actors /\ task[a] \in TaskType
    BY DEF TypeOK, Actors
  <1>2. CASE Prepare(a)
    <2> DEFINE plans == {s \in Selected(a) : ~AlreadyRunning(s)}
    <2>1. /\ task' = [task EXCEPT ![a] = [@ EXCEPT !.todo = plans,
                            !.pc = IF plans = {} THEN "finish" ELSE "before"]]
          /\ rec' = [s \in Services |-> IF s \in plans THEN Preparing ELSE rec[s]]
      BY <1>2 DEF Prepare
    <2>2. plans \subseteq Services
      BY <1>1 DEF Selected, TaskType
    <2> HIDE DEF plans
    <2>3. plans \subseteq Present'
      BY <2>1, <2>2 DEF Present, Preparing, Record
    <2>4. task[a].done = {}
      BY <1>2 DEF Prepare, At
    <2>5. /\ task'[a].todo = plans /\ task'[a].done = {}
          /\ task'[a].pc \in {"finish", "before"}
      BY <1>1, <2>1, <2>4 DEF TaskType
    <2>6. QED
      BY <2>3, <2>5
  <1>3. CASE PrepareFails(a) \/ MarkFailed(a) \/ SpawnFails(a) \/ RecordSpawnFails(a) \/ Finish(a)
    <2>1. Answer(a)
      BY <1>3 DEF PrepareFails, MarkFailed, SpawnFails, RecordSpawnFails, Finish
    <2>2. QED
      BY <1>1, <2>1 DEF Answer, Idle
  <1>4. CASE BeforeStart(a)
    <2>1. Goto(a, "spawn") \/ Goto(a, "failing") \/ Answer(a)
      BY <1>4 DEF BeforeStart
    <2>2. CASE Answer(a)
      BY <1>1, <2>2 DEF Answer, Idle
    <2>3. CASE Goto(a, "spawn") \/ Goto(a, "failing")
      BY <1>1, <1>4, <2>3 DEF Goto, BeforeStart, At, TaskType
    <2>4. QED
      BY <2>1, <2>2, <2>3
  <1>5. CASE SpawnProcess(a) \/ RecordSpawn(a) \/ ObserveHealth(a)
    <2>1. /\ task[a].pc \in Planned
          /\ task'[a].pc \in {"record", "health", "apply"}
          /\ task'[a].todo = task[a].todo /\ task'[a].done = task[a].done
      <3>1. CASE SpawnProcess(a)
        BY <1>1, <3>1 DEF SpawnProcess, At, TaskType
      <3>2. CASE RecordSpawn(a)
        BY <1>1, <3>2 DEF RecordSpawn, At, Goto, TaskType
      <3>3. CASE ObserveHealth(a)
        BY <1>1, <3>3 DEF ObserveHealth, At, TaskType
      <3>4. QED
        BY <1>5, <3>1, <3>2, <3>3
    <2>2. QED
      BY <2>1
  <1>6. CASE ApplyHealth(a)
    <2>1. PICK s \in Services : NextPlan(a, s) \/ Answer(a)
      BY <1>6 DEF ApplyHealth
    <2>2. CASE NextPlan(a, s)
      <3>1. /\ task'[a].todo = task[a].todo \ {s} /\ task'[a].done = task[a].done
            /\ task'[a].pc \in {"before", "finish"}
        BY <1>1, <2>2 DEF NextPlan, TaskType
      <3>2. task[a].pc = "apply"
        BY <1>6 DEF ApplyHealth, At
      <3>3. QED
        BY <3>1, <3>2
    <2>3. CASE Answer(a)
      BY <1>1, <2>3 DEF Answer, Idle
    <2>4. QED
      BY <2>1, <2>2, <2>3
  <1>7. QED
    BY <1>2, <1>3, <1>4, <1>5, <1>6 DEF StartStep

\* One turn of the loop that terminates processes, at service s: its process
\* is signalled and will be polled, or there is none to signal.
Terminates(a, s) ==
    /\ Turn(a, s)
    /\ task'[a].todo = task[a].todo \ {s}
    /\ \/ /\ ToTerminate(a, s)
          /\ task'[a].pc = "waiting" /\ task'[a].proc = rec[s].proc
          /\ task'[a].done = task[a].done \cup {s}
       \/ /\ ~ToTerminate(a, s)
          /\ task'[a].pc = "stopping"
          /\ task'[a].done = IF a = Main THEN task[a].done ELSE task[a].done \cup {s}

\* Every turn is about one service.
LEMMA TerminateServiceTurns ==
    ASSUME TypeOK, NEW a \in Actors, TerminateService(a)
    PROVE  \E s \in Services : Terminates(a, s)
  <1>1. task \in [Actors -> TaskType] /\ task[a] \in TaskType /\ task[a].pc = "stopping"
    BY DEF TypeOK, TerminateService, At
  <1>2. PICK s \in Services :
            /\ Turn(a, s)
            /\ \/ /\ ToTerminate(a, s)
                  /\ task' = [task EXCEPT ![a] = [@ EXCEPT !.pc = "waiting",
                                    !.todo = task[a].todo \ {s},
                                    !.done = task[a].done \cup {s}, !.proc = rec[s].proc]]
               \/ /\ ~ToTerminate(a, s)
                  /\ task' = [task EXCEPT ![a] = [@ EXCEPT !.todo = task[a].todo \ {s},
                                    !.done = IF a = Main THEN task[a].done
                                             ELSE task[a].done \cup {s}]]
    BY DEF TerminateService
  <1> DEFINE left == task[a].todo \ {s}
             done == task[a].done \cup {s}
             kept == IF a = Main THEN task[a].done ELSE done
             n == rec[s].proc
  <1>3. CASE ToTerminate(a, s)
    <2>1. task' = [task EXCEPT ![a] = [task[a] EXCEPT !.pc = "waiting", !.todo = left,
                                         !.done = done, !.proc = n]]
      BY <1>2, <1>3
    <2> HIDE DEF left, done, n
    <2>2. /\ task'[a].pc = "waiting" /\ task'[a].proc = n
          /\ task'[a].todo = left /\ task'[a].done = done
      BY <1>1, <2>1 DEF TaskType
    <2>3. QED
      BY <1>2, <1>3, <2>2 DEF Terminates, left, done, n
  <1>4. CASE ~ToTerminate(a, s)
    <2>1. task' = [task EXCEPT ![a] = [task[a] EXCEPT !.todo = left, !.done = kept]]
      BY <1>2, <1>4
    <2> HIDE DEF left, kept
    <2>2. task'[a].pc = "stopping" /\ task'[a].todo = left /\ task'[a].done = kept
      BY <1>1, <2>1 DEF TaskType
    <2>3. QED
      BY <1>2, <1>4, <2>2 DEF Terminates, left, kept
  <1>5. QED
    BY <1>3, <1>4

\* A step of the loop that terminates processes takes its services from those
\* that were recorded when it began.
LEMMA TerminatePlans ==
    ASSUME TypeOK, NEW a \in Actors, TerminateStep(a), SoundPlan(task[a], Present),
           Present \subseteq Present'
    PROVE  SoundPlan(task'[a], Present')
  <1> USE DEF SoundPlan, Planned, Unbegun
  <1>1. task \in [Actors -> TaskType] /\ task[a] \in TaskType
    BY DEF TypeOK
  <1>2. CASE TerminateService(a)
    <2>1. PICK s \in Services : Terminates(a, s)
      BY <1>2, TerminateServiceTurns
    <2>2. task[a].pc = "stopping"
      BY <1>2 DEF TerminateService, At
    <2>3. QED
      BY <2>1, <2>2 DEF Terminates, Turn, IsFirst
  <1>3. CASE ProcessGone(a) \/ GraceOver(a)
    <2>1. task[a].pc = "waiting" /\ task' = [task EXCEPT ![a].pc = "stopping"]
      BY <1>3 DEF ProcessGone, GraceOver, Goto, At
    <2>2. QED
      BY <1>1, <2>1 DEF TaskType
  <1>4. CASE SaveStopped(a)
    <2>1. Goto(a, "exiting") \/ Goto(a, "onClose") \/ Answer(a)
      BY <1>4 DEF SaveStopped
    <2>2. CASE Answer(a)
      BY <1>1, <2>2 DEF Answer, Idle
    <2>3. CASE Goto(a, "exiting") \/ Goto(a, "onClose")
      <3>1. task'[a].pc \in {"exiting", "onClose"}
        BY <1>1, <2>3 DEF Goto, TaskType
      <3>2. QED
        BY <3>1
    <2>4. QED
      BY <2>1, <2>2, <2>3
  <1>5. QED
    BY <1>2, <1>3, <1>4 DEF TerminateStep

\* And so does every step of an actor.
LEMMA ActorPlans ==
    ASSUME TypeOK, MutexInv, NEW a \in Actors, ActorStep(a), SoundPlan(task[a], Present),
           Present \subseteq Present'
    PROVE  SoundPlan(task'[a], Present')
  <1>1. task \in [Actors -> TaskType] /\ task[a] \in TaskType
    BY DEF TypeOK
  <1>2. CASE a \in Clients /\ StartStep(a)
    BY <1>2, StartPlans
  <1>3. CASE TerminateStep(a)
    BY <1>3, TerminatePlans
  <1> USE DEF SoundPlan, Planned, Unbegun
  <1>4. CASE a \in Clients /\ Request(a)
    BY <1>1, <1>4 DEF Request, Idle, Entry, Ops
  <1>5. CASE a \in Clients /\ (StopFails(a) \/ StatusRequest(a))
    BY <1>1, <1>5 DEF StopFails, StatusRequest, Answer, Idle
  <1>6. CASE a \in Clients /\ OnClose(a)
    <2> DEFINE next == IF task[a].op = "restart"
                       THEN [Idle EXCEPT !.pc = "start", !.op = "start",
                                         !.names = task[a].names]
                       ELSE Idle
    <2>1. task' = [task EXCEPT ![a] = next]
      BY <1>6 DEF OnClose, Answer
    <2>2. next.pc \in {"idle", "start"} /\ next.done = {}
      BY DEF Idle
    <2> HIDE DEF next
    <2>3. QED
      BY <1>1, <2>1, <2>2
  <1>7. CASE a \in Clients /\ StopLock(a)
    <2>1. /\ task' = [task EXCEPT ![a].pc = "stopping", ![a].todo = StopSelection(a)]
          /\ StopSelection(a) \subseteq Present /\ task[a].pc = "stop"
      BY <1>7 DEF StopLock, At
    <2>2. QED
      BY <1>1, <2>1 DEF TaskType
  <1>8. CASE a = Main /\ ShutdownLock
    <2>1. /\ task' = [task EXCEPT ![a].pc = "stopping", ![a].todo = Present]
          /\ task[a].pc = "stop"
      BY <1>8 DEF ShutdownLock, At
    <2>2. QED
      BY <1>1, <2>1 DEF TaskType
  <1>9. CASE a = Main /\ (ShutdownRequest \/ Boot)
    <2>1. task[a].pc \in {"serving", "idle"}
      BY <1>9 DEF ShutdownRequest, Boot, At, MutexInv
    <2>2. task' = [task EXCEPT ![a].pc = "stop"] \/ task' = [task EXCEPT ![a].pc = "serving"]
      BY <1>9 DEF ShutdownRequest, Boot, Goto
    <2>3. QED
      BY <1>1, <2>1, <2>2 DEF TaskType
  <1>10. QED
    BY <1>2, <1>3, <1>4, <1>5, <1>6, <1>7, <1>8, <1>9 DEF ActorStep

\* The services of the tasks are recorded, in every step.
LEMMA PlansStep ==
    ASSUME LInv, [Next]_vars, NEW b \in Actors
    PROVE  SoundPlan(task'[b], Present')
  <1>1. TypeOK /\ MutexInv /\ \A a \in Actors : SoundPlan(task[a], Present)
    BY DEF LInv, IInv, PlannedInv, LoopInv, SoundPlan, Planned, Unbegun
  <1>2. Present \subseteq Present'
    BY <1>1, PresentGrows
  <1>3. ASSUME NEW a \in Actors, ActorStep(a) PROVE SoundPlan(task'[b], Present')
    <2>1. CASE b = a
      BY <1>1, <1>2, <1>3, <2>1, ActorPlans
    <2>2. CASE b # a
      <3>1. task'[b] = task[b]
        BY <1>1, <1>3, <2>2, OthersWait
      <3>2. QED
        BY <1>1, <1>2, <3>1 DEF SoundPlan
    <2>3. QED
      BY <2>1, <2>2
  <1>4. CASE TableStep
    <2>1. task' = task
      BY <1>4 DEF TableStep, Die, Reap, RecordExit, ForeignStart, vars
    <2>2. QED
      BY <1>1, <1>2, <2>1 DEF SoundPlan
  <1>5. CASE DaemonEnds
    <2>1. task'[b] = Idle
      BY <1>5 DEF DaemonEnds
    <2>2. QED
      BY <2>1 DEF SoundPlan, Idle, Planned
  <1>6. QED
    BY <1>3, <1>4, <1>5, WhoSteps

(***************************************************************************)
(* The loop that terminates processes                                      *)
(***************************************************************************)

\* Where the loop of actor a stands with the process of service s: it polls
\* it, or the service is not done.
InLoop(a, s) ==
    \/ At(a, "waiting") /\ task[a].proc = rec[s].proc
    \/ s \notin task[a].done /\ (a = Main /\ Running(s) => s \in task[a].todo)

\* A turn of the loop, the end of a poll and of a grace period keep that for
\* every process that still lives without SIGKILL.
LEMMA TurnsKeepLoop ==
    ASSUME LInv, NEW a \in Actors, TerminateStep(a), task'[a].pc \in {"stopping", "waiting"},
           NEW s \in Services, rec' = rec, AliveAndKept(s), AliveAndKept(s)'
    PROVE  InLoop(a, s)'
  <1>1. /\ task \in [Actors -> TaskType] /\ task[a] \in TaskType
        /\ procs \in [Instances -> ProcType]
    BY DEF LInv, IInv, TypeOK
  <1>2. task[a].pc \in {"stopping", "waiting"} => InLoop(a, s)
    BY DEF LInv, LoopInv, InLoop
  <1>3. /\ rec'[s] = rec[s] /\ (Running(s)' <=> Running(s))
    BY DEF Running
  <1>4. rec[s].proc \in Instances /\ Matches(rec[s].proc) /\ Tracks(s)
    BY DEF AliveAndKept, Tracks, Matches, LInv, IInv, TypeOK, RecordType, Instances, NoProc
  <1>5. CASE TerminateService(a)
    <2>1. PICK k \in Services : Terminates(a, k)
      BY <1>1, <1>5, TerminateServiceTurns DEF LInv, IInv
    <2>2. s \notin task[a].done /\ (a = Main /\ Running(s) => s \in task[a].todo)
      BY <1>2, <1>5 DEF TerminateService, At, InLoop
    <2>3. CASE ToTerminate(a, k)
      BY <1>3, <2>1, <2>2, <2>3 DEF Terminates, InLoop, At
    <2>4. CASE ~ToTerminate(a, k)
      BY <1>3, <1>4, <2>1, <2>2, <2>4 DEF Terminates, InLoop, At, ToTerminate
    <2>5. QED
      BY <2>3, <2>4
  <1>6. CASE ProcessGone(a)
    <2>1. task[a].pc = "waiting" /\ task' = [task EXCEPT ![a].pc = "stopping"]
          /\ ~PidInUse(procs[task[a].proc].pid)
      BY <1>6 DEF ProcessGone, Goto, At
    <2>2. task[a].proc # rec[s].proc
      BY <1>4, <2>1 DEF PidInUse, Matches
    <2>3. task'[a].done = task[a].done /\ task'[a].todo = task[a].todo
      BY <1>1, <2>1 DEF TaskType
    <2>4. QED
      BY <1>2, <1>3, <2>1, <2>2, <2>3 DEF InLoop
  <1>7. CASE GraceOver(a)
    <2>1. task[a].pc = "waiting" /\ task' = [task EXCEPT ![a].pc = "stopping"]
          /\ procs' = Signalled(procs[task[a].proc].pid, "kill")
      BY <1>7 DEF GraceOver, Goto, At
    <2>2. procs'[rec[s].proc].sig # "kill" /\ procs[rec[s].proc].life = "alive"
          /\ procs[rec[s].proc].sig # "kill" /\ procs[rec[s].proc] \in ProcType
      BY <1>1, <1>3, <1>4 DEF AliveAndKept
    <2>3. task[a].proc # rec[s].proc
      BY <1>4, <2>1, <2>2 DEF Signalled, ProcType
    <2>4. task'[a].done = task[a].done /\ task'[a].todo = task[a].todo
      BY <1>1, <2>1 DEF TaskType
    <2>5. QED
      BY <1>2, <1>3, <2>1, <2>3, <2>4 DEF InLoop
  <1>8. CASE SaveStopped(a)
    <2>1. Unlocks(a) \/ Holds(a)
      BY TerminateKinds DEF LInv, IInv
    <2>2. mu = a /\ mu' = Free /\ Free # a
      BY <1>8, ActorsAssumption DEF SaveStopped, Actors
    <2>3. QED
      BY <2>1, <2>2 DEF Unlocks, Holds, Holding
  <1>9. QED
    BY <1>5, <1>6, <1>7, <1>8 DEF TerminateStep

\* While an actor holds the mutex nobody else writes a record, so no step
\* makes the loop miss a process.
LEMMA LoopStep ==
    ASSUME LInv, [Next]_vars, NEW b \in Actors, task'[b].pc \in {"stopping", "waiting"},
           NEW s \in Services, AliveAndKept(s)'
    PROVE  InLoop(b, s)'
  <1>1. /\ TypeOK /\ IInv /\ MutexInv /\ ProcsStep
        /\ task \in [Actors -> TaskType]
    BY EveryProcsStep DEF LInv, IInv, TypeOK
  <1>2. ASSUME task'[b] = task[b], rec' = rec PROVE InLoop(b, s)'
    <2>1. AliveAndKept(s)
      BY <1>1, <1>2, KeptBefore
    <2>2. InLoop(b, s)
      BY <1>2, <2>1 DEF LInv, LoopInv, InLoop
    <2>3. QED
      BY <1>2, <2>2 DEF InLoop, At, Running
  <1>3. ASSUME task'[b] = task[b] PROVE mu = b /\ mu # Free /\ up
    BY <1>1, <1>3, ActorsAssumption DEF MutexInv, Actors, At, TypeOK
  <1>4. CASE ActorStep(b)
    <2>1. CASE b \in Clients /\ StopLock(b)
      <3>1. task'[b].done = {} /\ b # Main
        <4>1. task[b].pc = "stop" /\ task[b] \in TaskType
          BY <1>1, <2>1 DEF StopLock, At
        <4>2. task[b].done = {}
          BY <4>1 DEF LInv, LoopInv
        <4>3. QED
          BY <1>1, <2>1, <4>1, <4>2, ActorsAssumption DEF StopLock, TaskType
      <3>2. QED
        BY <3>1 DEF InLoop
    <2>2. CASE b = Main /\ ShutdownLock
      <3>1. task[b].pc = "stop" /\ task[b] \in TaskType /\ task[b].done = {}
        BY <1>1, <2>2 DEF ShutdownLock, At, LInv, LoopInv
      <3>2. task'[b].done = {} /\ task'[b].todo = Present /\ rec' = rec
        BY <1>1, <2>2, <3>1 DEF ShutdownLock, TaskType
      <3>3. Running(s)' => s \in Present
        BY <3>2 DEF Running, RunningStatus, Present
      <3>4. QED
        BY <3>2, <3>3 DEF InLoop
    <2>3. CASE TerminateStep(b)
      <3>1. Holds(b) \/ Unlocks(b)
        BY <1>1, <2>3, TerminateKinds
      <3>2. rec' = rec
        BY <3>1 DEF Holds, Unlocks, Holding
      <3>3. AliveAndKept(s)
        BY <1>1, <3>2, KeptBefore
      <3>4. QED
        BY <2>3, <3>2, <3>3, TurnsKeepLoop
    <2>4. QED
      BY <1>1, <1>4, <2>1, <2>2, <2>3, ActorKinds
  <1>5. ASSUME NEW a \in Actors, ActorStep(a), a # b PROVE InLoop(b, s)'
    <2>1. task'[b] = task[b]
      BY <1>1, <1>5, OthersWait
    <2>2. Waits(a) \/ Locks(a) \/ Holds(a) \/ Unlocks(a)
      BY <1>1, <1>5, ActorKinds
    <2>3. rec' = rec
      BY <1>3, <1>5, <2>1, <2>2 DEF Waits, Locks, Holds, Unlocks
    <2>4. QED
      BY <1>2, <2>1, <2>3
  <1>6. CASE TableStep
    <2>1. task' = task /\ (mu = Free \/ rec' = rec)
      BY <1>6 DEF TableStep, Die, Reap, RecordExit, ForeignStart, vars
    <2>2. QED
      BY <1>2, <1>3, <2>1
  <1>7. CASE DaemonEnds
    BY <1>7 DEF DaemonEnds, Idle
  <1>8. QED
    BY <1>4, <1>5, <1>6, <1>7, WhoSteps

(***************************************************************************)
(* The inductive invariant                                                 *)
(***************************************************************************)

\* Every process of a service keeps its service among the recorded ones.
LEMMA OwnersPresent ==
    ASSUME LInv, [Next]_vars, NEW n \in 1..born', procs'[n].owner # Foreign
    PROVE  procs'[n].owner \in Present'
  <1>1. /\ TypeOK /\ IInv /\ ProcessTableInv /\ ProcsStep /\ born \in Nat
        /\ procs \in [Instances -> ProcType] /\ TypeOK'
    BY EveryProcsStep, TypeOKStep DEF LInv, IInv, TypeOK
  <1>2. Present \subseteq Present'
    BY <1>1, PresentGrows
  <1>3. n \in Instances
    BY <1>1, BoundsAssumption DEF TypeOK, Instances
  <1>4. CASE n \in 1..born
    <2>1. n <= born
      BY <1>4
    <2>2. procs'[n].owner = procs[n].owner
      BY <1>1, <1>3, <2>1, ProcessHistory
    <2>3. QED
      BY <1>2, <1>4, <2>2 DEF LInv, PlannedInv
  <1>5. CASE n \notin 1..born
    <2>1. n = born + 1 /\ born' = born + 1
      BY <1>1, <1>5, BornStep
    <2>2. CASE \E c \in Clients : SpawnProcess(c)
      <3>1. PICK c \in Clients, s \in Services, pid \in Pids :
                IsFirst(s, task[c].todo) /\ NewProcess(pid, s) /\ SpawnProcess(c)
        BY <2>2 DEF SpawnProcess
      <3>2. procs'[n].owner = s
        BY <1>1, <1>3, <2>1, <3>1 DEF NewProcess
      <3>3. task[c].pc = "spawn" /\ s \in task[c].todo /\ c \in Actors
        BY <3>1 DEF SpawnProcess, At, IsFirst, Actors
      <3>4. QED
        BY <1>2, <3>2, <3>3 DEF LInv, PlannedInv
    <2>3. CASE \E pid \in Pids : ForeignStart(pid)
      BY <1>1, <1>3, <2>1, <2>3 DEF ForeignStart, NewProcess
    <2>4. QED
      <3>1. CASE born' = born
        BY <1>1, <2>1, <3>1
      <3>2. ASSUME NEW c \in Clients, StartStep(c) PROVE SpawnProcess(c) \/ born' = born
        BY <3>2 DEF StartStep, Prepare, PrepareFails, BeforeStart, MarkFailed,
             SpawnFails, RecordSpawn, RecordSpawnFails, ObserveHealth, ApplyHealth, Finish
      <3>3. ASSUME NEW a, TerminateStep(a) PROVE born' = born
        BY <3>3 DEF TerminateStep, TerminateService, ProcessGone, GraceOver, SaveStopped
      <3>4. QED
        BY <2>2, <2>3, <3>1, <3>2, <3>3
        DEF Next, Handler, StopStep, MainStep, Exit, Crash, DaemonEnds, Request, StopLock,
            StopFails, OnClose, StatusRequest, ShutdownLock, ShutdownRequest, Boot, Die, Reap,
            RecordExit, vars
  <1>6. QED
    BY <1>4, <1>5

\* The inductive invariant holds at first.
LEMMA InitLInv == Init => LInv
  <1> SUFFICES ASSUME Init PROVE LInv
    OBVIOUS
  <1>1. IInv
    BY InitIInv
  <1>2. \A a \in Actors : task[a].pc \in {"idle", "serving"} /\ task[a].done = {}
    BY DEF Init, Idle
  <1>3. Main \in Actors /\ mu = Free /\ up /\ born = 0 /\ \A a \in Actors : a # Free
    BY ActorsAssumption DEF Init, Actors
  <1>4. MutexInv
    BY <1>2, <1>3 DEF MutexInv
  <1>5. PlannedInv /\ LoopInv
    BY <1>2, <1>3 DEF PlannedInv, LoopInv
  <1>6. QED
    BY <1>1, <1>4, <1>5 DEF LInv

\* Every step preserves it.
LEMMA StepLInv == LInv /\ [Next]_vars => LInv'
  <1> SUFFICES ASSUME LInv, [Next]_vars PROVE LInv'
    OBVIOUS
  <1>1. IInv'
    BY StepIInv DEF LInv
  <1>2. MutexInv'
    BY MutexStep DEF LInv, IInv
  <1>3. \A a \in Actors : SoundPlan(task'[a], Present')
    BY PlansStep
  <1>4. PlannedInv'
    BY <1>3, OwnersPresent DEF PlannedInv, SoundPlan, Planned
  <1>5. LoopInv'
    <2>1. \A a \in Actors, s \in Services :
             task'[a].pc \in {"stopping", "waiting"} /\ AliveAndKept(s)' => InLoop(a, s)'
      BY LoopStep
    <2>2. QED
      BY <1>3, <2>1 DEF LoopInv, SoundPlan, Unbegun, InLoop
  <1>6. QED
    BY <1>1, <1>2, <1>4, <1>5 DEF LInv

\* So it always holds.
LEMMA LoopInvariantHolds == Spec => []LInv
  BY InitLInv, StepLInv, PTL DEF Spec

(***************************************************************************)
(* No process is forgotten                                                 *)
(***************************************************************************)

\* Status, health verdicts, stop, the shutdown and recovery never make a
\* record forget a process that lives on: a start replaces a record only if
\* the process under it is gone or was marked failed (AlreadyRunning), a stop
\* only after the loop has sent its process SIGKILL or seen it gone.
THEOREM NoneForgotten == Spec => NeverForgotten
  <1>1. LInv /\ [Next]_vars => [ForgetsNoLiveProcess]_vars
    <2> SUFFICES ASSUME LInv, [Next]_vars, NEW s \in Services,
                        AliveAndKept(s), rec'[s].proc # rec[s].proc
                 PROVE  \/ exits' # exits
                        \/ rec'[s].status = "starting"
                        \/ rec'[s].status = "preparing" /\ rec[s].status = "failed"
      BY DEF ForgetsNoLiveProcess
    <2>1. /\ rec \in [Services -> RecordType] /\ rec[s] \in RecordType /\ Tracks(s)
          /\ Matches(rec[s].proc) /\ rec[s].proc # NoProc
      BY DEF LInv, IInv, TypeOK, AliveAndKept, Tracks, Matches
    <2>2. rec[s].status \in {"starting", "running", "healthy", "unhealthy", "failed"}
      BY <2>1 DEF LInv, IInv, RecordsAreTruthful, RecordType, Status, RunningStatus
    <2>3. CASE \E c \in Clients : StartStep(c)
      <3>1. PICK c \in Clients : StartStep(c)
        BY <2>3
      <3>2. CASE Prepare(c)
        <4>1. ~AlreadyRunning(s) /\ rec'[s] = Preparing
          BY <3>2 DEF Prepare
        <4>2. rec[s].status = "failed"
          BY <2>1, <2>2, <4>1 DEF AlreadyRunning, Running, RunningStatus
        <4>3. QED
          BY <4>1, <4>2 DEF Preparing, Record
      <3>3. CASE MarkFailed(c)
        BY <2>1, <3>3 DEF MarkFailed, RecordType
      <3>4. CASE RecordSpawn(c)
        BY <2>1, <3>4 DEF RecordSpawn, Record
      <3>5. CASE ApplyHealth(c)
        BY <2>1, <3>5 DEF ApplyHealth, HealthResult, RecordType
      <3>6. QED
        BY <3>1, <3>2, <3>3, <3>4, <3>5
        DEF StartStep, PrepareFails, BeforeStart, SpawnProcess, SpawnFails, RecordSpawnFails,
            ObserveHealth, Finish
    <2>4. CASE \E a \in Actors : SaveStopped(a)
      <3>1. PICK a \in Actors : SaveStopped(a)
        BY <2>4
      <3>2. s \notin task[a].done
        BY <3>1 DEF SaveStopped, At, LInv, LoopInv
      <3>3. QED
        BY <3>1, <3>2 DEF SaveStopped
    <2>5. CASE \E c \in Clients : StatusRequest(c)
      <3>1. PICK answering \in SUBSET Probed :
                rec'[s] = Refreshed(s, s \in answering) \/ rec'[s] = rec[s]
        BY <2>5 DEF StatusRequest
      <3>2. QED
        BY <2>1, <3>1 DEF Refreshed, Record
    <2>6. CASE Boot
      <3>1. PICK answering \in SUBSET Probed :
                rec'[s] = Recovered(s, s \in answering) \/ rec'[s] = rec[s]
        BY <2>6 DEF Boot
      <3>2. Recovered(s, s \in answering).proc = rec[s].proc
        <4>1. CASE s \in Probed
          BY <2>1, <4>1 DEF Recovered, Record
        <4>2. CASE s \notin Probed
          BY <2>1, <4>2 DEF Recovered, RecordType
        <4>3. QED
          BY <4>1, <4>2
      <3>3. QED
        BY <3>1, <3>2
    <2>7. CASE \E n \in Instances : RecordExit(n)
      BY <2>7 DEF RecordExit
    <2>8. QED
      BY <2>3, <2>4, <2>5, <2>6, <2>7
      DEF Next, Handler, StopStep, MainStep, TerminateStep, Exit, Crash, Actors, DaemonEnds,
          Request, StopLock, StopFails, OnClose, ShutdownLock, ShutdownRequest, Die, Reap,
          ForeignStart, TerminateService, ProcessGone, GraceOver, vars
  <1>2. QED
    BY <1>1, LoopInvariantHolds, PTL DEF Spec, NeverForgotten

\* When shutdownServices gives the mutex back, no recorded service lives on
\* that was not sent SIGKILL: its loop went through every service recorded as
\* running when it took the mutex, and nobody could record another one since.
THEOREM ShutdownStops == Spec => ShutdownStopsRecorded
  <1> DEFINE Stops == mu = Main /\ mu' = Free /\ up'
                      => \A s \in Services : ~(Running(s)' /\ AliveAndKept(s)')
  <1>1. LInv /\ [Next]_vars => [Stops]_vars
    <2> SUFFICES ASSUME LInv, [Next]_vars, mu = Main, mu' = Free, up', NEW s \in Services,
                        Running(s)', AliveAndKept(s)'
                 PROVE  FALSE
      OBVIOUS
    <2>1. TypeOK /\ IInv /\ MutexInv /\ ProcsStep /\ Main # Free /\ Main \notin Clients
      BY EveryProcsStep, ActorsAssumption DEF LInv, IInv
    <2>2. SaveStopped(Main)
      <3>1. PICK a \in Actors : ActorStep(a)
        <4>1. ~TableStep
          BY <2>1 DEF TableStep, Die, Reap, RecordExit, ForeignStart, vars
        <4>2. ~DaemonEnds
          BY DEF DaemonEnds
        <4>3. QED
          BY <4>1, <4>2, WhoSteps
      <3>2. a = Main
        BY <2>1, <3>1, ActorKinds DEF Waits, Locks, Holds, Unlocks
      <3>3. QED
        BY <2>1, <3>1, <3>2
        DEF ActorStep, TerminateStep, TerminateService, ProcessGone, GraceOver,
            ShutdownRequest, ShutdownLock, Boot
    <2>3. task[Main].pc = "stopping" /\ task[Main].todo = {} /\ Main \in Actors
      BY <2>2 DEF SaveStopped, At, Actors
    <2>4. rec'[s] = rec[s]
      BY <2>2 DEF SaveStopped, Running, RunningStatus, Stopped, Record
    <2>5. Running(s) /\ AliveAndKept(s)
      BY <2>1, <2>4, KeptBefore DEF Running
    <2>6. QED
      BY <2>3, <2>5 DEF LInv, LoopInv, At
  <1>2. QED
    BY <1>1, LoopInvariantHolds, PTL DEF Spec, ShutdownStopsRecorded

(***************************************************************************)
(* The refinement of ServiceLife                                           *)
(***************************************************************************)

\* The processes that are started and yet to be recorded, as ServiceLife has
\* them: the one of whoever holds the mutex at "record", if any.
Fresh == {task[c].proc : c \in {c \in Clients : At(c, "record")}}

\* What a step of ServiceLife's Report may do to the record of a service.
Reported(s) ==
    \/ /\ rec'[s].proc = rec[s].proc
       /\ \/ Shown(s)' = Shown(s)
          \/ rec[s].proc # 0 /\ Shown(s)' \in {"up", "down"}
          \/ Shown(s) # "absent" /\ Shown(s)' = "down"
    \/ Shown(s) # "absent" /\ Shown(s)' = "down" /\ rec'[s].proc = 0

\* What clients see of a record has one of four values.
LEMMA ShownType ==
    ASSUME TypeOK, NEW s \in Services
    PROVE  /\ Shown(s) \in {"absent", "preparing", "up", "down"}
           /\ Shown(s) = "absent" <=> rec[s].status = "absent"
           /\ Shown(s) = "up" <=> Running(s)
  BY DEF TypeOK, RecordType, Status, RunningStatus, Shown, Running

\* Such a step of every record is a step of ServiceLife.
LEMMA ReportStep ==
    ASSUME TypeOK, TypeOK', Fresh' = Fresh, born' = born,
           \A s \in Services : Reported(s)
    PROVE  Life!Report
  <1>1. \A s \in Services : Shown(s)' \in {"absent", "preparing", "up", "down"}
    BY DEF TypeOK, RecordType, Status, RunningStatus, Shown
  <1>2. \A s \in Services : rec'[s].proc \in 0..MaxProcs
    BY DEF TypeOK, RecordType
  <1>3. QED
    BY <1>1, <1>2 DEF Life!Report, Life!Turns, Life!Ends, Reported, Fresh


\* Fresh changes only when an actor comes to "record" or leaves it.
LEMMA FreshSame ==
    ASSUME \A c \in Clients : \/ task'[c] = task[c]
                               \/ /\ task[c].pc # "record"
                                  /\ task'[c].pc # "record"
    PROVE  Fresh' = Fresh
  BY DEF Fresh, At

\* A step of a start is a step of ServiceLife, or none.
LEMMA StartRefines ==
    ASSUME LInv, LInv', ProcsStep, NEW c \in Clients, StartStep(c)
    PROVE  [Life!Next]_(Life!vars)
  <1>1. /\ TypeOK /\ TypeOK' /\ c \in Actors /\ born \in 0..MaxProcs /\ born \in Nat
        /\ task \in [Actors -> TaskType] /\ task[c] \in TaskType
        /\ rec \in [Services -> RecordType]
    BY BoundsAssumption DEF LInv, IInv, TypeOK, Actors
  <1>2. \A d \in Clients : d # c => task'[d] = task[d]
    BY <1>1, OthersWait DEF ActorStep, Actors
  <1>3. \A d \in Clients : task[d].pc = "record" => mu = d
    BY DEF LInv, MutexInv, Actors
  <1>4. ASSUME task[c].pc # "record", task'[c].pc # "record" PROVE Fresh' = Fresh
    BY <1>2, <1>4, FreshSame
  <1>5. CASE Prepare(c)
    <2> DEFINE plans == {s \in Selected(c) : ~AlreadyRunning(s)}
    <2>1. /\ rec' = [s \in Services |-> IF s \in plans THEN Preparing ELSE rec[s]]
          /\ task' = [task EXCEPT ![c] = [@ EXCEPT !.todo = plans,
                            !.pc = IF plans = {} THEN "finish" ELSE "before"]]
          /\ born' = born /\ task[c].pc = "start"
      BY <1>5 DEF Prepare, At
    <2>2. plans \in SUBSET Services
      BY <1>1 DEF Selected, TaskType
    <2> HIDE DEF plans
    <2>3. task'[c].pc # "record"
      BY <1>1, <2>1 DEF TaskType
    <2>4. Fresh' = Fresh
      BY <1>4, <2>1, <2>3
    <2>5. \A s \in Services :
             /\ Shown(s)' = IF s \in plans THEN "preparing" ELSE Shown(s)
             /\ rec'[s].proc = IF s \in plans THEN 0 ELSE rec[s].proc
      BY <2>1 DEF Shown, RunningStatus, Preparing, Record, NoProc
    <2>6. PICK S \in SUBSET Services : S = plans
      BY <2>2
    <2>7. Life!Plan(S)
      BY <2>1, <2>4, <2>5, <2>6 DEF Life!Plan, Fresh
    <2>8. QED
      BY <2>7 DEF Life!Next
  <1>6. CASE MarkFailed(c) \/ ApplyHealth(c)
    <2>1. task[c].pc \in {"failing", "apply"} /\ born' = born
      BY <1>6 DEF MarkFailed, ApplyHealth, At
    <2>2. task'[c].pc # "record"
      <3>1. CASE MarkFailed(c)
        BY <1>1, <3>1 DEF MarkFailed, Answer, Idle
      <3>2. CASE ApplyHealth(c)
        <4>1. PICK k \in Services : NextPlan(c, k) \/ Answer(c)
          BY <3>2 DEF ApplyHealth
        <4>2. CASE NextPlan(c, k)
          BY <1>1, <4>2 DEF NextPlan, TaskType
        <4>3. CASE Answer(c)
          BY <1>1, <4>3 DEF Answer, Idle
        <4>4. QED
          BY <4>1, <4>2, <4>3
      <3>3. QED
        BY <1>6, <3>1, <3>2
    <2>3. ASSUME NEW s \in Services PROVE Reported(s)
      <3>1. CASE rec'[s] = rec[s]
        BY <3>1 DEF Reported, Shown
      <3>2. CASE MarkFailed(c) /\ rec'[s] # rec[s]
        <4>1. PICK k \in Services :
                  /\ IsFirst(k, task[c].todo)
                  /\ \/ rec' = [rec EXCEPT ![k].status = "failed", ![k].healthy = FALSE]
                     \/ rec' = rec
          BY <3>2 DEF MarkFailed
        <4>2. rec'[s].status = "failed" /\ rec'[s].proc = rec[s].proc /\ s \in task[c].todo
          BY <1>1, <3>2, <4>1 DEF RecordType, IsFirst
        <4>3. s \in Present
          BY <1>1, <3>2, <4>2 DEF MarkFailed, At, LInv, PlannedInv
        <4>4. Shown(s) # "absent"
          BY <1>1, <4>3, ShownType DEF Present
        <4>5. Shown(s)' = "down"
          BY <4>2 DEF Shown, RunningStatus
        <4>6. QED
          BY <4>2, <4>4, <4>5 DEF Reported
      <3>3. CASE ApplyHealth(c) /\ rec'[s] # rec[s]
        <4>1. PICK k \in Services : rec' = HealthResult(c, k) \/ rec' = rec
          BY <3>3 DEF ApplyHealth
        <4>2. /\ rec'[s].status = task[c].verdict /\ rec'[s].proc = rec[s].proc
              /\ rec[s].proc = task[c].proc
          BY <1>1, <3>3, <4>1 DEF HealthResult, RecordType
        <4>3. task[c].proc \in 1..born /\ task[c].verdict \in VerdictType \ {"none"}
          BY <1>1, <3>3 DEF ApplyHealth, At, LInv, IInv, HandlerInv, TaskType
        <4>4. Shown(s)' \in {"up", "down"}
          BY <4>2, <4>3 DEF Shown, RunningStatus, VerdictType
        <4>5. QED
          BY <1>1, <4>2, <4>3, <4>4 DEF Reported
      <3>4. QED
        BY <1>6, <3>1, <3>2, <3>3
    <2>4. Life!Report
      BY <1>1, <1>4, <2>1, <2>2, <2>3, ReportStep
    <2>5. QED
      BY <2>4 DEF Life!Next
  <1>7. CASE SpawnProcess(c)
    <2>1. PICK s \in Services, pid \in Pids : NewProcess(pid, s)
      BY <1>7 DEF SpawnProcess
    <2>2. born < MaxProcs /\ born' = born + 1 /\ rec' = rec /\ mu = Free
      BY <1>7, <2>1 DEF NewProcess, SpawnProcess
    <2>3. task'[c].pc = "record" /\ task'[c].proc = born + 1
      BY <1>1, <1>7 DEF SpawnProcess, TaskType
    <2>4. Fresh = {}
      BY <1>3, <2>2, ActorsAssumption DEF Fresh, At
    <2>5. Fresh' = {born + 1}
      <3>1. \A d \in Clients : task'[d].pc = "record" <=> d = c
        BY <1>2, <1>3, <2>2, <2>3, ActorsAssumption
      <3>2. QED
        BY <2>3, <3>1 DEF Fresh, At
    <2>6. PICK F \in SUBSET (1..MaxProcs) : F = {born + 1}
      <3>1. {born + 1} \in SUBSET (1..MaxProcs)
        BY <1>1, <2>2, BoundsAssumption
      <3>2. QED
        BY <3>1
    <2>7. \A t \in Services : Shown(t)' = Shown(t)
      BY <2>2 DEF Shown
    <2>8. Life!Launch(F)
      BY <2>2, <2>4, <2>5, <2>6, <2>7 DEF Life!Launch, Fresh
    <2>9. QED
      BY <2>8 DEF Life!Next
  <1>8. CASE RecordSpawn(c) \/ RecordSpawnFails(c)
    <2>1. /\ task[c].pc = "record" /\ mu = c /\ born' = born
          /\ task[c].proc \in 1..born
      BY <1>1, <1>8 DEF RecordSpawn, RecordSpawnFails, At, LInv, IInv, HandlerInv
    <2>2. \A d \in Clients : task[d].pc = "record" <=> d = c
      BY <1>3, <2>1
    <2>3. Fresh = {task[c].proc}
      BY <2>2 DEF Fresh, At
    <2>4. task'[c].pc # "record"
      <3>1. CASE RecordSpawn(c)
        BY <1>1, <3>1 DEF RecordSpawn, Goto, TaskType
      <3>2. CASE RecordSpawnFails(c)
        BY <1>1, <3>2 DEF RecordSpawnFails, Answer, Idle
      <3>3. QED
        BY <1>8, <3>1, <3>2
    <2>5. Fresh' = {}
      BY <1>2, <2>2, <2>4 DEF Fresh, At
    <2>6. CASE RecordSpawn(c)
      <3>1. PICK s \in Services :
                rec' = [rec EXCEPT ![s] = Record("starting", FALSE, task[c].proc)]
        BY <2>6 DEF RecordSpawn
      <3>2. \A t \in Services :
               /\ Shown(t)' = IF t = s THEN "up" ELSE Shown(t)
               /\ rec'[t].proc = IF t = s THEN task[c].proc ELSE rec[t].proc
        BY <1>1, <3>1 DEF Shown, Record, RunningStatus
      <3>3. PICK n \in Fresh : n = task[c].proc
        BY <2>3
      <3>4. Fresh' = Fresh \ {n}
        BY <2>3, <2>5, <3>3
      <3>5. Life!Show(s, n)
        BY <2>1, <3>2, <3>3, <3>4 DEF Life!Show, Fresh
      <3>6. QED
        BY <3>5 DEF Life!Next, Fresh
    <2>7. CASE RecordSpawnFails(c)
      <3>1. PICK F \in SUBSET (1..MaxProcs) : F = {task[c].proc}
        <4>1. {task[c].proc} \in SUBSET (1..MaxProcs)
          BY <1>1, <2>1, BoundsAssumption
        <4>2. QED
          BY <4>1
      <3>2. rec' = rec
        BY <2>7 DEF RecordSpawnFails
      <3>3. Fresh' = Fresh \ F /\ \A t \in Services : Shown(t)' = Shown(t)
        BY <2>3, <2>5, <3>1, <3>2 DEF Shown
      <3>4. Life!Lose(F)
        BY <2>1, <3>2, <3>3 DEF Life!Lose, Fresh
      <3>5. QED
        BY <3>4 DEF Life!Next
    <2>8. QED
      BY <1>8, <2>6, <2>7
  <1>9. CASE \/ PrepareFails(c) \/ BeforeStart(c) \/ SpawnFails(c) \/ ObserveHealth(c)
             \/ Finish(c)
    <2>1. task[c].pc # "record" /\ born' = born /\ rec' = rec
      BY <1>9 DEF PrepareFails, BeforeStart, SpawnFails, ObserveHealth, Finish, At
    <2>2. task'[c].pc # "record"
      <3>1. \/ Answer(c) \/ Goto(c, "spawn") \/ Goto(c, "failing")
            \/ \E v : task' = [task EXCEPT ![c].pc = "apply", ![c].verdict = v]
        BY <1>9 DEF PrepareFails, BeforeStart, SpawnFails, ObserveHealth, Finish
      <3>2. QED
        BY <1>1, <3>1 DEF Answer, Goto, Idle, TaskType
    <2>3. Fresh' = Fresh /\ \A s \in Services : Shown(s)' = Shown(s)
      BY <1>4, <2>1, <2>2 DEF Shown
    <2>4. QED
      BY <2>1, <2>3 DEF Life!vars, Fresh
  <1>10. QED
    BY <1>5, <1>6, <1>7, <1>8, <1>9 DEF StartStep


\* So is every other step.
LEMMA StepRefines ==
    ASSUME LInv, LInv', [Next]_vars PROVE [Life!Next]_(Life!vars)
  <1>1. /\ TypeOK /\ TypeOK' /\ IInv /\ ProcsStep /\ born \in 0..MaxProcs /\ born \in Nat
        /\ task \in [Actors -> TaskType] /\ rec \in [Services -> RecordType]
        /\ Main \notin Clients
    BY EveryProcsStep, BoundsAssumption, ActorsAssumption DEF LInv, IInv, TypeOK
  <1>2. ASSUME Fresh' = Fresh, rec' = rec, born' = born PROVE [Life!Next]_(Life!vars)
    <2>1. \A s \in Services : Shown(s)' = Shown(s)
      BY <1>2 DEF Shown
    <2>2. QED
      BY <1>2, <2>1 DEF Life!vars, Fresh
  <1>3. ASSUME Fresh' = Fresh, born' = born, \A s \in Services : Reported(s)
        PROVE  [Life!Next]_(Life!vars)
    BY <1>1, <1>3, ReportStep DEF Life!Next
  <1>4. ASSUME task' = task PROVE Fresh' = Fresh
    BY <1>4 DEF Fresh, At
  <1>5. ASSUME NEW a \in Actors, ActorStep(a), task[a].pc \notin {"record", "spawn"}
        PROVE  Fresh' = Fresh
    <2>1. task'[a].pc # "record"
      BY <1>1, <1>5, ActorKinds DEF LInv
    <2>2. \A c \in Clients : c # a => task'[c] = task[c]
      BY <1>1, <1>5, OthersWait DEF Actors
    <2>3. QED
      BY <1>5, <2>1, <2>2, FreshSame
  <1>6. CASE \E c \in Clients : StartStep(c)
    BY <1>1, <1>6, StartRefines
  <1>7. CASE \E a \in Actors : SaveStopped(a)
    <2>1. PICK a \in Actors : SaveStopped(a)
      BY <1>7
    <2>2. Fresh' = Fresh /\ born' = born
      BY <1>5, <2>1 DEF ActorStep, TerminateStep, SaveStopped, At
    <2>3. ASSUME NEW s \in Services PROVE Reported(s)
      <3>1. CASE s \in task[a].done /\ rec'[s] = Stopped
        <4>1. s \in Present
          BY <2>1, <3>1 DEF SaveStopped, At, LInv, PlannedInv
        <4>2. Shown(s) # "absent"
          BY <1>1, <4>1, ShownType DEF Present
        <4>3. QED
          BY <3>1, <4>2 DEF Reported, Shown, Stopped, Record, RunningStatus, NoProc
      <3>2. CASE rec'[s] = rec[s]
        BY <3>2 DEF Reported, Shown
      <3>3. QED
        BY <2>1, <3>1, <3>2 DEF SaveStopped
    <2>4. QED
      BY <1>3, <2>2, <2>3
  <1>8. CASE \E c \in Clients : StatusRequest(c)
    <2>1. PICK c \in Clients : StatusRequest(c)
      BY <1>8
    <2>2. Fresh' = Fresh /\ born' = born
      BY <1>5, <2>1 DEF ActorStep, Actors, StatusRequest, At
    <2>3. PICK answering \in SUBSET Probed :
              \/ rec' = [t \in Services |-> Refreshed(t, t \in answering)]
              \/ rec' = rec
      BY <2>1 DEF StatusRequest
    <2>4. ASSUME NEW s \in Services PROVE Reported(s)
      <3>1. CASE rec'[s] = rec[s]
        BY <3>1 DEF Reported, Shown
      <3>2. CASE rec'[s] = Refreshed(s, s \in answering) /\ rec'[s] # rec[s]
        <4>1. CASE rec[s].proc # NoProc /\ ~Matches(rec[s].proc) /\ Running(s)
          <5>1. rec'[s] = Exited
            BY <3>2, <4>1 DEF Refreshed
          <5>2. Shown(s) = "up"
            BY <1>1, <4>1, ShownType
          <5>3. QED
            BY <5>1, <5>2 DEF Reported, Shown, Exited, Record, RunningStatus, NoProc
        <4>2. CASE ~(rec[s].proc # NoProc /\ ~Matches(rec[s].proc) /\ Running(s))
          <5>1. /\ Tracks(s)
                /\ rec'[s] \in {Record("healthy", TRUE, rec[s].proc),
                               Record("unhealthy", FALSE, rec[s].proc)}
            BY <3>2, <4>2 DEF Refreshed
          <5>2. /\ rec[s].proc # 0 /\ rec'[s].proc = rec[s].proc
                /\ rec'[s].status \in {"healthy", "unhealthy"}
            BY <5>1 DEF Tracks, Matches, NoProc, Record
          <5>3. QED
            BY <5>2 DEF Reported, Shown, RunningStatus
        <4>3. QED
          BY <4>1, <4>2
      <3>3. QED
        BY <2>3, <3>1, <3>2
    <2>5. QED
      BY <1>3, <2>2, <2>4
  <1>9. CASE Boot
    <2>1. Fresh' = Fresh /\ born' = born
      BY <1>5, <1>9 DEF ActorStep, Actors, Boot, At, LInv, MutexInv
    <2>2. PICK answering \in SUBSET Probed :
              \/ rec' = [t \in Services |-> Recovered(t, t \in answering)]
              \/ rec' = rec
      BY <1>9 DEF Boot
    <2>3. ASSUME NEW s \in Services PROVE Reported(s)
      <3>0. rec[s] \in RecordType
        BY <1>1
      <3>1. CASE rec'[s] = rec[s]
        BY <3>1 DEF Reported, Shown
      <3>2. CASE rec'[s] = Recovered(s, s \in answering) /\ rec'[s] # rec[s]
        <4>1. rec[s].proc # NoProc /\ Running(s)
          BY <3>2 DEF Recovered
        <4>2. Shown(s) = "up"
          BY <1>1, <4>1, ShownType
        <4>3. CASE ~Matches(rec[s].proc)
          <5>1. rec'[s] = Exited
            BY <3>2, <4>1, <4>3 DEF Recovered
          <5>2. QED
            BY <4>2, <5>1 DEF Reported, Shown, Exited, Record, RunningStatus, NoProc
        <4>4. CASE Matches(rec[s].proc)
          <5>1. rec'[s].proc = rec[s].proc /\ rec'[s].status \in RunningStatus
            <6>1. CASE s \in Probed
              BY <3>2, <4>1, <4>4, <6>1 DEF Recovered, Record, Running, RunningStatus
            <6>2. CASE s \notin Probed
              BY <3>0, <3>2, <4>1, <4>4, <6>2 DEF Recovered, RecordType, Running, RunningStatus
            <6>3. QED
              BY <6>1, <6>2
          <5>2. Shown(s)' = "up"
            BY <5>1 DEF Shown, RunningStatus
          <5>3. QED
            BY <4>2, <5>1, <5>2 DEF Reported
        <4>5. QED
          BY <4>3, <4>4
      <3>3. QED
        BY <2>2, <3>1, <3>2
    <2>4. QED
      BY <1>3, <2>1, <2>3
  <1>10. CASE \E n \in Instances : RecordExit(n)
    <2>1. PICK n \in Instances : RecordExit(n)
      BY <1>10
    <2>2. Fresh' = Fresh /\ born' = born /\ procs[n].owner \in Services
      BY <1>4, <2>1 DEF RecordExit, LInv, IInv, ProcessTableInv
    <2>3. procs[n].owner \in Present
      <3>1. procs[n].life = "gone" /\ n \in exits
        BY <2>1 DEF RecordExit, LInv, IInv, ProcessTableInv
      <3>2. n \in 1..born
        BY <1>1, <3>1, BoundsAssumption DEF LInv, IInv, ProcessTableInv, Instances
      <3>3. QED
        BY <2>2, <3>2, ServicesAssumption DEF LInv, PlannedInv, Foreign
    <2>4. ASSUME NEW s \in Services PROVE Reported(s)
      <3>1. CASE rec'[s] = rec[s]
        BY <3>1 DEF Reported, Shown
      <3>2. CASE rec'[s] # rec[s]
        <4>1. s = procs[n].owner /\ rec'[s] \in {Stopped, Exited}
          BY <1>1, <2>1, <3>2 DEF RecordExit, ExitRecord
        <4>2. Shown(s) # "absent"
          BY <1>1, <2>3, <4>1, ShownType DEF Present
        <4>3. QED
          BY <4>1, <4>2 DEF Reported, Shown, Stopped, Exited, Record, RunningStatus, NoProc
      <3>3. QED
        BY <3>1, <3>2
    <2>5. QED
      BY <1>3, <2>2, <2>4
  <1>11. CASE \E pid \in Pids : ForeignStart(pid)
    <2>1. /\ born < MaxProcs /\ born' = born + 1 /\ rec' = rec /\ task' = task
      BY <1>11 DEF ForeignStart, NewProcess
    <2>2. Fresh' = Fresh /\ \A t \in Services : Shown(t)' = Shown(t)
      BY <1>4, <2>1 DEF Shown
    <2>3. Life!Launch({})
      BY <2>1, <2>2 DEF Life!Launch, Fresh
    <2>4. QED
      BY <2>3 DEF Life!Next
  <1>12. CASE DaemonEnds
    <2>1. rec' = rec /\ born' = born /\ \A c \in Clients : task'[c].pc = "idle"
      BY <1>12 DEF DaemonEnds, Actors, Idle
    <2>2. Fresh' = {} /\ \A t \in Services : Shown(t)' = Shown(t)
      BY <2>1 DEF Fresh, At, Shown
    <2>3. Fresh \in SUBSET (1..MaxProcs)
      <3>1. ASSUME NEW c \in Clients, At(c, "record") PROVE task[c].proc \in 1..MaxProcs
        <4>1. task[c].proc \in 1..born
          BY <3>1 DEF At, LInv, IInv, HandlerInv, Actors
        <4>2. QED
          BY <1>1, <4>1, BoundsAssumption
      <3>2. QED
        BY <3>1 DEF Fresh
    <2>4. PICK F \in SUBSET (1..MaxProcs) : F = Fresh
      BY <2>3
    <2>5. Life!Lose(F)
      BY <2>1, <2>2, <2>4 DEF Life!Lose, Fresh
    <2>6. QED
      BY <2>5 DEF Life!Next
  <1>13. CASE \/ \E c \in Clients : Request(c) \/ StopLock(c) \/ StopFails(c) \/ OnClose(c)
              \/ ShutdownRequest \/ ShutdownLock
              \/ \E a \in Actors : TerminateService(a) \/ ProcessGone(a) \/ GraceOver(a)
    <2>1. rec' = rec /\ born' = born
      BY <1>13 DEF Request, StopLock, StopFails, OnClose, ShutdownRequest, ShutdownLock,
                   TerminateService, ProcessGone, GraceOver
    <2>2. PICK a \in Actors : ActorStep(a) /\ task[a].pc \notin {"record", "spawn"}
      BY <1>13
      DEF ActorStep, TerminateStep, Actors, Request, StopLock, StopFails, OnClose,
          ShutdownRequest, ShutdownLock, TerminateService, ProcessGone, GraceOver, At
    <2>3. QED
      BY <1>2, <1>5, <2>1, <2>2
  <1>14. CASE \/ \E n \in Instances : Die(n) \/ Reap(n)
              \/ UNCHANGED vars
    BY <1>2, <1>4, <1>14 DEF Die, Reap, vars
  <1>15. QED
    BY <1>6, <1>7, <1>8, <1>9, <1>10, <1>11, <1>12, <1>13, <1>14
    DEF Next, Handler, StopStep, MainStep, TerminateStep, Exit, Crash, Actors

\* ServiceDaemon starts as ServiceLife does.
LEMMA InitRefines == Init => Life!Init
  <1> SUFFICES ASSUME Init PROVE Life!Init
    OBVIOUS
  <1>1. \A s \in Services : Shown(s) = "absent" /\ rec[s].proc = 0
    BY DEF Init, Shown, Absent, Record, RunningStatus, NoProc
  <1>2. \A c \in Clients : ~At(c, "record")
    BY DEF Init, At, Idle, Actors
  <1>3. born = 0
    BY DEF Init
  <1>4. QED
    BY <1>1, <1>2, <1>3 DEF Life!Init

\* The daemon implements ServiceLife, for every number of clients, services
\* and processes: handlers, exit watchers, the shutdown and recoveries, in any
\* interleaving and over crashes, show a process at most once and bring none
\* back.
THEOREM DaemonImplementsLife == Spec => ImplementsLife
  <1>1. LInv /\ LInv' /\ [Next]_vars => [Life!Next]_(Life!vars)
    BY StepRefines
  <1>2. QED
    BY <1>1, InitRefines, LoopInvariantHolds, PTL DEF Spec, ImplementsLife, Life!Spec

=============================================================================
