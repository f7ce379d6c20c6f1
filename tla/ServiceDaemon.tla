---------------------------- MODULE ServiceDaemon ----------------------------
(***************************************************************************)
(* The worker daemon of internal/worker: one daemon process that starts,   *)
(* stops, restarts, probes and recovers the services of a run.             *)
(*                                                                         *)
(* Every connection is served by a goroutine of its own (Daemon.handle),   *)
(* every spawned service has an exit watcher (waitForExit), and all of     *)
(* them share the records of state.json under one mutex, d.mu.  A critical *)
(* section that never blocks is one action that needs mu = Free; the two   *)
(* that last (spawning a process, terminating processes) hold mu over      *)
(* several actions.  Between critical sections anything may interleave:    *)
(* other handlers, deaths, exit watchers, reuse of pids, a daemon crash.   *)
(*                                                                         *)
(* A process instance stands for what processIdentityMatches compares (pid,*)
(* process group, start time); the pid alone is the instance's pid, and    *)
(* several instances may have it one after the other.                      *)
(***************************************************************************)
EXTENDS Integers, FiniteSets

CONSTANTS
    Clients,        \* connections: each has at most one request in flight
    Main,           \* the goroutine that runs Serve
    Free,           \* the value of mu when nobody holds it
    Services,       \* the run's services, numbered in the order of their names
    Pids,           \* pid numbers
    Probed,         \* services with a health URL
    HasBeforeStart, \* services with a beforeStart command
    Requests,       \* the sets of services a request may name; {} means all
    DiskErrors,     \* whether saveState may fail
    FastReuse,      \* whether a pid may be reused while a stop polls it
    MaxProcs,       \* bound: process instances of a behaviour
    MaxBoots        \* bound: starts of the daemon after the first one

ASSUME ServicesAssumption == Services \subseteq Nat \ {0} /\ IsFiniteSet(Services)
ASSUME ActorsAssumption == Main \notin Clients /\ Free \notin Clients \cup {Main}
ASSUME SelectionAssumption ==
    /\ Probed \subseteq Services
    /\ HasBeforeStart \subseteq Services
    /\ Requests \subseteq SUBSET Services
ASSUME SwitchesAssumption == DiskErrors \in BOOLEAN /\ FastReuse \in BOOLEAN
ASSUME PidsAssumption == Pids # {}
ASSUME BoundsAssumption == MaxProcs \in Nat /\ MaxBoots \in Nat

VARIABLES
    procs,  \* every process instance: pid, owner, life, signal received, parent
    born,   \* how many instances have been started so far
    rec,    \* state.json: the ServiceState of every service
    mu,     \* the actor that holds d.mu across steps, or Free
    task,   \* what every actor (a connection's handler, Main) is doing
    exits,  \* instances whose exit watcher returned from Wait and wants mu
    up,     \* whether a daemon process runs
    boots   \* how often the daemon has been started again

vars == <<procs, born, rec, mu, task, exits, up, boots>>

Actors == Clients \cup {Main}
Instances == 1..MaxProcs
NoProc == 0             \* ProcessID{} together with PID 0
Foreign == 0            \* the owner of a process that is none of ours

(***************************************************************************)
(* Processes                                                               *)
(***************************************************************************)

\* An instance that the process table still knows; a zombie counts, for
\* kill(pid, 0) and /proc/<pid>/stat find it until its parent has waited.
InTable(n) == procs[n].life \in {"alive", "zombie"}

PidInUse(pid) == \E n \in Instances : InTable(n) /\ procs[n].pid = pid

\* Mutant of Matches: a check of the pid alone, without the start time.
MatchesPidOnly(n) == n # NoProc /\ PidInUse(procs[n].pid)

\* processIdentityMatches: pid, process group and start time are still those
\* of the process that was recorded.
Matches(n) == n # NoProc /\ InTable(n)

NewProcess(pid, owner) ==
    /\ born < MaxProcs
    /\ ~PidInUse(pid)
    /\ born' = born + 1
    /\ procs' = [procs EXCEPT ![born + 1] =
                    [pid |-> pid, owner |-> owner, life |-> "alive",
                     sig |-> "none", parent |-> IF owner = Foreign THEN "other" ELSE "daemon"]]

\* kill(-pid, sig): it reaches whatever process has the number now.  A process
\* that was sent SIGKILL remains so, and a zombie notices nothing.
Signalled(pid, sig) ==
    [n \in Instances |->
        IF procs[n].life = "alive" /\ procs[n].pid = pid /\ procs[n].sig # "kill"
        THEN [procs[n] EXCEPT !.sig = sig]
        ELSE procs[n]]

(***************************************************************************)
(* Records of state.json                                                   *)
(***************************************************************************)

RunningStatus == {"starting", "running", "healthy", "unhealthy"}
Status == RunningStatus \cup {"absent", "preparing", "failed", "exited", "stopped"}

Record(status, healthy, proc) ==
    [status |-> status, healthy |-> healthy, proc |-> proc]

Absent    == Record("absent", FALSE, NoProc)
Preparing == Record("preparing", FALSE, NoProc)
Stopped   == Record("stopped", FALSE, NoProc)
Exited    == Record("exited", FALSE, NoProc)

Running(s) == rec[s].status \in RunningStatus
Tracks(s) == Matches(rec[s].proc)
Present == {s \in Services : rec[s].status # "absent"}

IsFirst(s, S) == s \in S /\ \A t \in S : s <= t

(***************************************************************************)
(* Tasks                                                                   *)
(***************************************************************************)

Idle == [pc |-> "idle", op |-> "none", names |-> {}, todo |-> {}, done |-> {},
         proc |-> NoProc, verdict |-> "none"]

\* The requests that change state, and where their handlers begin.
Ops == {"start", "stop", "restart", "status"}
Entry(op) == IF op = "restart" THEN "stop" ELSE op

At(a, pc) == task[a].pc = pc
Goto(a, pc) == task' = [task EXCEPT ![a].pc = pc]
Answer(c) == task' = [task EXCEPT ![c] = Idle]

\* The handler turns to the next of the planned services, or to the reply.
NextPlan(c, s) ==
    LET left == task[c].todo \ {s}
    IN  task' = [task EXCEPT ![c] = [@ EXCEPT !.todo = left, !.proc = NoProc,
                    !.verdict = "none",
                    !.pc = IF left = {} THEN "finish" ELSE "before"]]

Init ==
    /\ procs = [n \in Instances |-> [pid |-> CHOOSE p \in Pids : TRUE,
                    owner |-> Foreign, life |-> "unborn", sig |-> "none",
                    parent |-> "other"]]
    /\ born = 0
    /\ rec = [s \in Services |-> Absent]
    /\ mu = Free
    /\ task = [a \in Actors |-> IF a = Main THEN [Idle EXCEPT !.pc = "serving"] ELSE Idle]
    /\ exits = {}
    /\ up = TRUE
    /\ boots = 0

\* A connection is accepted and its request decoded (handle, dispatch).
Request(c) ==
    /\ up /\ At(Main, "serving") /\ At(c, "idle")
    /\ \E op \in Ops, names \in Requests :
          task' = [task EXCEPT ![c] = [Idle EXCEPT !.pc = Entry(op), !.op = op,
                                                   !.names = names]]
    /\ UNCHANGED <<procs, born, rec, mu, exits, up, boots>>

(***************************************************************************)
(* start                                                                   *)
(***************************************************************************)

Selected(c) == IF task[c].names = {} THEN Services ELSE task[c].names

\* A service that start leaves alone: recorded as running, and by its
\* identity the recorded process still is there.
AlreadyRunning(s) == Tracks(s) /\ Running(s)

\* The first critical section: every service that is not running gets a fresh
\* "preparing" record.
Prepare(c) ==
    /\ At(c, "start") /\ mu = Free
    /\ LET plans == {s \in Selected(c) : ~AlreadyRunning(s)}
       IN  /\ rec' = [s \in Services |-> IF s \in plans THEN Preparing ELSE rec[s]]
           /\ task' = [task EXCEPT ![c] = [@ EXCEPT !.todo = plans,
                            !.pc = IF plans = {} THEN "finish" ELSE "before"]]
    /\ UNCHANGED <<procs, born, mu, exits, up, boots>>

\* The early returns before the first save: configuration, selection, port
\* range, state file, no free port, or the save itself.
PrepareFails(c) ==
    /\ At(c, "start") /\ mu = Free
    /\ Answer(c)
    /\ UNCHANGED <<procs, born, rec, mu, exits, up, boots>>

\* The beforeStart command of the next service, run without the lock, with an
\* environment read from the state file.
BeforeStart(c) ==
    /\ At(c, "before")
    /\ \E s \in Services :
          /\ IsFirst(s, task[c].todo)
          /\ \/ Goto(c, "spawn")
             \/ s \in HasBeforeStart /\ Goto(c, "failing")
             \/ s \in HasBeforeStart /\ DiskErrors /\ Answer(c)
    /\ UNCHANGED <<procs, born, rec, mu, exits, up, boots>>

\* The command failed: only status and healthy change, whatever the record
\* holds by now, and the services after this one are abandoned.
MarkFailed(c) ==
    /\ At(c, "failing") /\ mu = Free
    /\ \E s \in Services :
          /\ IsFirst(s, task[c].todo)
          /\ \/ rec' = [rec EXCEPT ![s].status = "failed", ![s].healthy = FALSE]
             \/ DiskErrors /\ rec' = rec
    /\ Answer(c)
    /\ UNCHANGED <<procs, born, mu, exits, up, boots>>

\* startService: the process is started whatever the record says by now.  The
\* lock stays held until the record is saved.
SpawnProcess(c) ==
    /\ At(c, "spawn") /\ mu = Free
    /\ \E s \in Services, pid \in Pids :
          IsFirst(s, task[c].todo) /\ NewProcess(pid, s)
    /\ mu' = c
    /\ task' = [task EXCEPT ![c].pc = "record", ![c].proc = born + 1]
    /\ UNCHANGED <<rec, exits, up, boots>>

\* startService fails (working directory, command, log files, fork): the
\* record is left as it is and the services after this one are abandoned.
SpawnFails(c) ==
    /\ At(c, "spawn") /\ mu = Free
    /\ Answer(c)
    /\ UNCHANGED <<procs, born, rec, mu, exits, up, boots>>

RecordSpawn(c) ==
    /\ At(c, "record") /\ mu = c
    /\ \E s \in Services :
          /\ IsFirst(s, task[c].todo)
          /\ rec' = [rec EXCEPT ![s] = Record("starting", FALSE, task[c].proc)]
    /\ mu' = Free
    /\ Goto(c, "health")
    /\ UNCHANGED <<procs, born, exits, up, boots>>

RecordSpawnFails(c) ==
    /\ DiskErrors
    /\ At(c, "record") /\ mu = c
    /\ mu' = Free
    /\ Answer(c)
    /\ UNCHANGED <<procs, born, rec, exits, up, boots>>

\* Mutant of Verdicts: a health wait that returns the state it was given.
VerdictsUnset(s, n) == IF ~Matches(n) THEN {"exited"} ELSE {"starting"}

\* What waitInitialHealth may return for a service, at its last look at the
\* process.
Verdicts(s, n) ==
    IF ~Matches(n) THEN {"exited"}
    ELSE IF s \in Probed THEN {"healthy", "unhealthy"} ELSE {"running"}

\* waitInitialHealth, without the lock.
ObserveHealth(c) ==
    /\ At(c, "health")
    /\ \E s \in Services :
          /\ IsFirst(s, task[c].todo)
          /\ \E v \in Verdicts(s, task[c].proc) :
                task' = [task EXCEPT ![c].pc = "apply", ![c].verdict = v]
    /\ UNCHANGED <<procs, born, rec, mu, exits, up, boots>>

\* Mutants of HealthResult: the state that the health wait was given is
\* written back as a whole; the verdict is applied to whatever is recorded.
HealthResultWhole(c, s) ==
    [rec EXCEPT ![s] = Record(task[c].verdict, task[c].verdict \in {"running", "healthy"},
                              task[c].proc)]
HealthResultUnchecked(c, s) ==
    [rec EXCEPT ![s].status = task[c].verdict,
                ![s].healthy = task[c].verdict \in {"running", "healthy"}]

\* A verdict is kept only if the record still names the process it is about.
HealthResult(c, s) ==
    LET verdict == task[c].verdict
    IN  IF rec[s].proc = task[c].proc
        THEN [rec EXCEPT ![s].status = verdict,
                         ![s].healthy = verdict \in {"running", "healthy"}]
        ELSE rec

ApplyHealth(c) ==
    /\ At(c, "apply") /\ mu = Free
    /\ \E s \in Services :
          /\ IsFirst(s, task[c].todo)
          /\ \/ rec' = HealthResult(c, s) /\ NextPlan(c, s)
             \/ DiskErrors /\ rec' = rec /\ Answer(c)
    /\ UNCHANGED <<procs, born, mu, exits, up, boots>>

\* The last critical section: the state is read again for the reply.
Finish(c) ==
    /\ At(c, "finish") /\ mu = Free
    /\ Answer(c)
    /\ UNCHANGED <<procs, born, rec, mu, exits, up, boots>>

(***************************************************************************)
(* stop, restart and the daemon's shutdown                                 *)
(***************************************************************************)

\* selectStateServices: all services with a record, or the named ones.
StopSelection(c) == IF task[c].names = {} THEN Present ELSE task[c].names

StopLock(c) ==
    /\ At(c, "stop") /\ mu = Free
    /\ StopSelection(c) \subseteq Present
    /\ mu' = c
    /\ task' = [task EXCEPT ![c].pc = "stopping", ![c].todo = StopSelection(c)]
    /\ UNCHANGED <<procs, born, rec, exits, up, boots>>

\* Mutant of StopFails: the early return that forgets d.mu.Unlock.
StopFailsLocked(c) ==
    /\ At(c, "stop") /\ mu = Free
    /\ mu' = c
    /\ Answer(c)
    /\ UNCHANGED <<procs, born, rec, exits, up, boots>>

\* A named service has no record, or the state file cannot be read.
StopFails(c) ==
    /\ At(c, "stop") /\ mu = Free
    /\ Answer(c)
    /\ UNCHANGED <<procs, born, rec, mu, exits, up, boots>>

\* shutdownServices, run by Main once the listener is closed.
ShutdownLock ==
    /\ At(Main, "stop") /\ mu = Free
    /\ mu' = Main
    /\ task' = [task EXCEPT ![Main].pc = "stopping", ![Main].todo = Present]
    /\ UNCHANGED <<procs, born, rec, exits, up, boots>>

\* Mutant of ToTerminate: a shutdown that overlooks services still starting.
ToTerminateSettled(a, s) == Tracks(s) /\ (a = Main => Running(s) /\ rec[s].status # "starting")

\* stop signals every recorded process whose identity is verified;
\* shutdownServices only those recorded as running.
ToTerminate(a, s) == Tracks(s) /\ (a = Main => Running(s))

\* stop goes through the services in the order of their names,
\* shutdownServices in the order of a map.
Turn(a, s) == IF a = Main THEN s \in task[a].todo ELSE IsFirst(s, task[a].todo)

\* The next service of the loop: SIGTERM to its process group and a wait for
\* it, or nothing to signal.  stop marks the service all the same,
\* shutdownServices skips it.
TerminateService(a) ==
    /\ At(a, "stopping") /\ mu = a
    /\ \E s \in Services :
          /\ Turn(a, s)
          /\ LET left == task[a].todo \ {s}
                 done == task[a].done \cup {s}
             IN  \/ /\ ToTerminate(a, s)
                    /\ procs' = Signalled(procs[rec[s].proc].pid, "term")
                    /\ task' = [task EXCEPT ![a] = [@ EXCEPT !.pc = "waiting", !.todo = left,
                                                     !.done = done, !.proc = rec[s].proc]]
                 \/ /\ ~ToTerminate(a, s)
                    /\ task' = [task EXCEPT ![a] = [@ EXCEPT !.todo = left,
                                     !.done = IF a = Main THEN task[a].done ELSE done]]
                    /\ UNCHANGED procs
    /\ UNCHANGED <<born, rec, mu, exits, up, boots>>

\* The poll of terminateProcessGroup finds no process with the pid.
ProcessGone(a) ==
    /\ At(a, "waiting") /\ mu = a
    /\ ~PidInUse(procs[task[a].proc].pid)
    /\ Goto(a, "stopping")
    /\ UNCHANGED <<procs, born, rec, mu, exits, up, boots>>

\* Mutant of GraceOver: the wait ends without SIGKILL.
GraceOverWithoutKill(a) ==
    /\ At(a, "waiting") /\ mu = a
    /\ Goto(a, "stopping")
    /\ UNCHANGED <<procs, born, rec, mu, exits, up, boots>>

\* The grace period is over: SIGKILL to whatever has the pid, and no wait.
GraceOver(a) ==
    /\ At(a, "waiting") /\ mu = a
    /\ procs' = Signalled(procs[task[a].proc].pid, "kill")
    /\ Goto(a, "stopping")
    /\ UNCHANGED <<born, rec, mu, exits, up, boots>>

\* The loop is over: the records are saved (or are not), the lock is free,
\* and the handler goes on to the onClose commands, Main to its exit.
SaveStopped(a) ==
    /\ At(a, "stopping") /\ mu = a /\ task[a].todo = {}
    /\ \/ /\ rec' = [s \in Services |-> IF s \in task[a].done THEN Stopped ELSE rec[s]]
          /\ Goto(a, IF a = Main THEN "exiting" ELSE "onClose")
       \/ /\ DiskErrors
          /\ rec' = rec
          /\ IF a = Main THEN Goto(a, "exiting") ELSE Answer(a)
    /\ mu' = Free
    /\ UNCHANGED <<procs, born, exits, up, boots>>

\* The onClose commands, best effort and without the lock; then stop replies
\* and restart goes on to start.
OnClose(c) ==
    /\ At(c, "onClose")
    /\ IF task[c].op = "restart"
       THEN task' = [task EXCEPT ![c] = [Idle EXCEPT !.pc = "start", !.op = "start",
                                                     !.names = task[c].names]]
       ELSE Answer(c)
    /\ UNCHANGED <<procs, born, rec, mu, exits, up, boots>>

(***************************************************************************)
(* status                                                                  *)
(***************************************************************************)

\* refreshState for one service; answering says whether its health URL does.
Refreshed(s, answering) ==
    LET r == rec[s]
    IN  IF r.proc # NoProc /\ ~Matches(r.proc) /\ Running(s) THEN Exited
        ELSE IF ~Tracks(s) \/ s \notin Probed THEN r
        ELSE IF answering THEN Record("healthy", TRUE, r.proc)
        ELSE IF r.status = "healthy" THEN Record("unhealthy", FALSE, r.proc)
        ELSE r

\* status, and every poll of wait.
StatusRequest(c) ==
    /\ At(c, "status") /\ mu = Free
    /\ \E answering \in SUBSET Probed :
          \/ rec' = [s \in Services |-> Refreshed(s, s \in answering)]
          \/ DiskErrors /\ rec' = rec
    /\ Answer(c)
    /\ UNCHANGED <<procs, born, mu, exits, up, boots>>

(***************************************************************************)
(* Processes die, exit watchers record it                                  *)
(***************************************************************************)

\* A process ends.  A child of this daemon stays a zombie until its watcher
\* has waited; anything else is reaped by init.
Die(n) ==
    /\ procs[n].life = "alive"
    /\ procs' = [procs EXCEPT ![n].life = IF procs[n].parent = "daemon" THEN "zombie" ELSE "gone",
                              ![n].sig = "none"]
    /\ UNCHANGED <<born, rec, mu, task, exits, up, boots>>

\* cmd.Wait returns in the goroutine of waitForExit.
Reap(n) ==
    /\ procs[n].life = "zombie"
    /\ procs' = [procs EXCEPT ![n].life = "gone"]
    /\ exits' = exits \cup {n}
    /\ UNCHANGED <<born, rec, mu, task, up, boots>>

\* Mutants of ExitRecord: the guard for stopped services is missing; the
\* process is not cleared.
ExitRecordAlways(n) == Exited
ExitRecordKeepsPid(n) ==
    IF rec[procs[n].owner].status = "stopped" THEN Stopped
    ELSE Record("exited", FALSE, rec[procs[n].owner].proc)

\* The record that waitForExit writes for the service of its process.
ExitRecord(n) == IF rec[procs[n].owner].status = "stopped" THEN Stopped ELSE Exited

\* waitForExit gets the lock and rewrites the service's record, whichever
\* process the record is about by now.
RecordExit(n) ==
    /\ n \in exits /\ mu = Free
    /\ exits' = exits \ {n}
    /\ \/ rec' = [rec EXCEPT ![procs[n].owner] = ExitRecord(n)]
       \/ DiskErrors /\ rec' = rec
    /\ UNCHANGED <<procs, born, mu, task, up, boots>>

\* Some other program is started.  Without FastReuse the kernel does not come
\* back to a pid within the grace period of a stop that polls it.
ForeignStart(pid) ==
    /\ FastReuse \/ \A a \in Actors : At(a, "waiting") => procs[task[a].proc].pid # pid
    /\ NewProcess(pid, Foreign)
    /\ UNCHANGED <<rec, mu, task, exits, up, boots>>

(***************************************************************************)
(* The daemon process                                                      *)
(***************************************************************************)

\* A shutdown request, or SIGTERM: the listener is closed, handlers go on.
ShutdownRequest ==
    /\ up /\ At(Main, "serving")
    /\ Goto(Main, "stop")
    /\ UNCHANGED <<procs, born, rec, mu, exits, up, boots>>

\* The daemon process ends, with every goroutine in it, and with its children
\* left to init.
DaemonEnds ==
    /\ up' = FALSE
    /\ mu' = Free
    /\ task' = [a \in Actors |-> Idle]
    /\ exits' = {}
    /\ procs' = [n \in Instances |->
                    [procs[n] EXCEPT !.parent = "other",
                        !.life = IF procs[n].life = "zombie" THEN "gone" ELSE procs[n].life]]
    /\ UNCHANGED <<born, rec, boots>>

Exit == up /\ At(Main, "exiting") /\ DaemonEnds

Crash == up /\ DaemonEnds

\* Mutant of Recovered: recovery believes the record.
RecoveredUnverified(s, answering) ==
    IF Running(s) /\ s \in Probed /\ answering
    THEN Record("healthy", TRUE, rec[s].proc) ELSE rec[s]

\* recoverServices for one service, and recoveredState.
Recovered(s, answering) ==
    LET r == rec[s]
    IN  IF r.proc = NoProc \/ ~Running(s) THEN r
        ELSE IF ~Matches(r.proc) THEN Exited
        ELSE IF s \notin Probed
             THEN [r EXCEPT !.status = IF @ = "starting" THEN "running" ELSE @]
        ELSE IF answering THEN Record("healthy", TRUE, r.proc)
        ELSE Record(IF r.status = "healthy" THEN "unhealthy" ELSE r.status, FALSE, r.proc)

\* Serve up to its accept loop, in a new daemon process.
Boot ==
    /\ ~up /\ boots < MaxBoots
    /\ up' = TRUE
    /\ boots' = boots + 1
    /\ task' = [task EXCEPT ![Main].pc = "serving"]
    /\ \E answering \in SUBSET Probed :
          \/ rec' = [s \in Services |-> Recovered(s, s \in answering)]
          \/ DiskErrors /\ rec' = rec
    /\ UNCHANGED <<procs, born, mu, exits>>

(***************************************************************************)
(* The specification                                                       *)
(***************************************************************************)

StartStep(c) ==
    \/ Prepare(c) \/ PrepareFails(c) \/ BeforeStart(c) \/ MarkFailed(c)
    \/ SpawnProcess(c) \/ SpawnFails(c) \/ RecordSpawn(c) \/ RecordSpawnFails(c)
    \/ ObserveHealth(c) \/ ApplyHealth(c) \/ Finish(c)

TerminateStep(a) ==
    TerminateService(a) \/ ProcessGone(a) \/ GraceOver(a) \/ SaveStopped(a)

StopStep(c) == StopLock(c) \/ StopFails(c) \/ TerminateStep(c) \/ OnClose(c)

Handler(c) == StartStep(c) \/ StopStep(c) \/ StatusRequest(c)

MainStep == ShutdownLock \/ TerminateStep(Main) \/ Exit

Next ==
    \/ \E c \in Clients : Request(c) \/ Handler(c)
    \/ \E n \in Instances : Die(n) \/ Reap(n) \/ RecordExit(n)
    \/ \E pid \in Pids : ForeignStart(pid)
    \/ ShutdownRequest \/ MainStep \/ Crash \/ Boot

Spec == Init /\ [][Next]_vars

(***************************************************************************)
(* Fairness: the Go scheduler runs every goroutine that can run, and a     *)
(* sync.Mutex hands itself to a waiter it has starved, so whoever waits    *)
(* for d.mu gets it in the end (strong fairness).  The kernel ends a       *)
(* process that was sent SIGKILL.  Nothing is assumed of a process that    *)
(* was not killed, of a client, or of a daemon that is down.               *)
(***************************************************************************)
Fairness ==
    /\ \A c \in Clients : SF_vars(Handler(c))
    /\ SF_vars(MainStep)
    /\ \A n \in Instances :
          /\ SF_vars(RecordExit(n))
          /\ WF_vars(Reap(n))
          /\ WF_vars(Die(n) /\ procs[n].sig = "kill")

FairSpec == Spec /\ Fairness

(***************************************************************************)
(* Properties                                                              *)
(***************************************************************************)

Pcs == {"idle", "start", "before", "failing", "spawn", "record", "health",
        "apply", "finish", "stop", "stopping", "waiting", "onClose", "status",
        "serving", "exiting"}
VerdictType == {"none", "running", "healthy", "unhealthy", "exited"}

TaskType ==
    {t \in [pc : Pcs, op : Ops \cup {"none"}, names : SUBSET Services,
            todo : SUBSET Services, done : SUBSET Services, proc : 0..MaxProcs,
            verdict : VerdictType] :
        t.pc = "apply" => t.verdict # "none"}

ProcType ==
    [pid : Pids, owner : Services \cup {Foreign},
     life : {"unborn", "alive", "zombie", "gone"},
     sig : {"none", "term", "kill"}, parent : {"daemon", "other"}]

RecordType == [status : Status, healthy : BOOLEAN, proc : 0..MaxProcs]

\* Every variable has its type (RunState, ServiceState and ProcessID of
\* types.go, the handlers' local variables).
TypeOK ==
    /\ procs \in [Instances -> ProcType]
    /\ born \in 0..MaxProcs
    /\ rec \in [Services -> RecordType]
    /\ mu \in Actors \cup {Free}
    /\ task \in [Actors -> TaskType]
    /\ exits \subseteq Instances
    /\ up \in BOOLEAN
    /\ boots \in 0..MaxBoots

\* What state.json says of a service's process agrees with the process, for
\* every interleaving of start, stop, status, deaths, exit watchers, crashes
\* and recovery: a running status comes with the process it is about, a
\* service that is not running has none, only a running service is healthy,
\* and a process that is still recorded as exited has really exited (the
\* verdict was taken without the lock and applied later).
RecordsAreTruthful ==
    \A s \in Services :
        /\ Running(s) => rec[s].proc # NoProc
        /\ rec[s].status \in {"absent", "preparing", "stopped"} => rec[s].proc = NoProc
        /\ rec[s].healthy => rec[s].status \in {"running", "healthy"}
        /\ rec[s].status = "exited" => ~Tracks(s)

\* No signal of stop or of the shutdown reaches a process that the daemon did
\* not start, although records outlive their processes, over crashes too, and
\* pids are used again ("refusing to signal unverified process identity").
SignalsOnlyOwn == \A n \in Instances : procs[n].sig # "none" => procs[n].owner # Foreign

\* A process that a service's record names, that lives and was not sent
\* SIGKILL.
AliveAndKept(s) ==
    /\ Tracks(s)
    /\ procs[rec[s].proc].life = "alive"
    /\ procs[rec[s].proc].sig # "kill"

\* Status, health verdicts, stop, shutdown and recovery never make a record
\* forget a process that lives on.  Only three steps may: an exit watcher,
\* the spawn of an overlapping start, and the first step of a start that
\* finds a process under a record marked "failed".
ForgetsNoLiveProcess ==
    \A s \in Services :
        (AliveAndKept(s) /\ rec'[s].proc # rec[s].proc)
        => \/ procs'[rec[s].proc].life # "alive"
           \/ procs'[rec[s].proc].sig = "kill"
           \/ exits' # exits
           \/ rec'[s].status = "starting"
           \/ rec'[s].status = "preparing" /\ rec[s].status = "failed"

NeverForgotten == [][ForgetsNoLiveProcess]_vars

\* A stopped service is not reported as exited, running or healthy by a
\* late exit watcher, health verdict, status or recovery: it stays stopped
\* until a start writes it.
StoppedStays ==
    [][\A s \in Services :
          rec[s].status = "stopped"
          => rec'[s].status \in {"stopped", "preparing", "starting", "failed"}]_vars

\* After recoverServices every service recorded as running runs, and is the
\* process that was recorded, not another one that has its pid by now.
RecoveryIsTruthful ==
    [][~up /\ up' => \A s \in Services : Running(s)' => Tracks(s)']_vars

\* When shutdownServices releases the lock, no process lives on that a record
\* names as a running service and that was not sent SIGKILL.
ShutdownStopsRecorded ==
    [][mu = Main /\ mu' = Free /\ up'
       => \A s \in Services : ~(Running(s)' /\ AliveAndKept(s)')]_vars

\* Every request is answered, or its daemon ends: stop waits for processes
\* while it holds the lock that exit watchers and other handlers wait for,
\* and none of them waits for ever.
RequestsAnswered == \A c \in Clients : (task[c].pc # "idle") ~> (task[c].pc = "idle")

\* The exit of a service that this daemon started is recorded without anyone
\* asking for the status.
ExitIsRecorded ==
    \A s \in Services, n \in Instances :
        (up /\ rec[s].proc = n /\ procs[n].life = "zombie") ~> (rec[s].proc # n \/ ~up)

\* A process that stop or the shutdown asked to terminate ends, even if it
\* ignores SIGTERM, unless the daemon ends before its grace period.
TerminatedDies ==
    \A n \in Instances :
        (\E a \in Actors : At(a, "waiting") /\ task[a].proc = n)
        ~> (procs[n].life # "alive" \/ ~up)

\* The shutdown of the daemon ends.
ShutdownEnds == (up /\ task[Main].pc # "serving") ~> ~up

\* README, "Stop services (all services when none are named)": when a stop of
\* all services has ended and no other request is in flight, no service
\* process lives on that was not sent SIGKILL.
StopStopsAll ==
    [][\A c \in Clients :
          (/\ task[c].op = "stop" /\ task[c].names = {}
           /\ mu = c /\ mu' = Free /\ up'
           /\ \A d \in Clients \ {c} : task[d].pc = "idle")
          => \A n \in Instances :
                ~(/\ procs[n].owner # Foreign /\ procs[n].life = "alive"
                  /\ procs[n].sig # "kill")]_vars

(***************************************************************************)
(* Refinement: what clients see of the services is ServiceLife             *)
(***************************************************************************)

Shown(s) ==
    CASE rec[s].status \in RunningStatus -> "up"
      [] rec[s].status \in {"failed", "exited", "stopped"} -> "down"
      [] OTHER -> rec[s].status

Life == INSTANCE ServiceLife WITH
    shown <- [s \in Services |-> Shown(s)],
    process <- [s \in Services |-> rec[s].proc],
    fresh <- {task[c].proc : c \in {c \in Clients : At(c, "record")}},
    started <- born

\* The daemon implements ServiceLife: whatever handlers, exit watchers, the
\* shutdown and recoveries do to the records, a process is shown at most once
\* and between its start and the moment it is let go, and a service that has
\* been let down comes up again by a new process only.
ImplementsLife == Life!Spec

(***************************************************************************)
(* The inductive invariant behind RecordsAreTruthful and SignalsOnlyOwn    *)
(***************************************************************************)

\* Instances are numbered in the order of their starts, those in the process
\* table have different pids, and exit watchers are about services.
ProcessTableInv ==
    /\ \A n \in Instances : procs[n].life = "unborn" <=> n > born
    /\ \A m, n \in Instances :
          InTable(m) /\ InTable(n) /\ procs[m].pid = procs[n].pid => m = n
    /\ \A n \in Instances :
          procs[n].parent = "daemon" \/ procs[n].life = "zombie" => procs[n].owner \in Services
    /\ \A n \in exits : procs[n].life = "gone" /\ procs[n].owner \in Services

\* A record names a process that was started for its service.
OwnershipInv ==
    \A s \in Services :
        rec[s].proc # NoProc => rec[s].proc <= born /\ procs[rec[s].proc].owner = s

\* A handler between spawn and verdict holds a process of the service it is
\* at, an "exited" verdict is still true when it is applied, and what a stop
\* polls is the pid of a process that was started; unless pids are reused
\* within its grace period, no foreign process has that pid.
HandlerInv ==
    \A a \in Actors :
        /\ task[a].pc \in {"record", "health", "apply"} =>
              /\ task[a].proc \in 1..born
              /\ IsFirst(procs[task[a].proc].owner, task[a].todo)
        /\ At(a, "apply") /\ task[a].verdict = "exited" => ~Matches(task[a].proc)
        /\ At(a, "waiting") =>
              /\ task[a].proc \in 1..born
              /\ FastReuse \/ \A n \in Instances :
                    InTable(n) /\ procs[n].pid = procs[task[a].proc].pid
                    => procs[n].owner # Foreign

IInv == TypeOK /\ ProcessTableInv /\ OwnershipInv /\ HandlerInv /\ RecordsAreTruthful

(***************************************************************************)
(* The inductive invariant behind NeverForgotten, ShutdownStopsRecorded    *)
(* and ImplementsLife                                                      *)
(***************************************************************************)

\* Whoever holds d.mu across steps spawns or terminates, and only then; a
\* daemon that is down does neither.
MutexInv ==
    /\ \A a \in Actors : task[a].pc \in {"record", "stopping", "waiting"} <=> mu = a
    /\ task[Main].pc \notin {"record", "start", "onClose"}
    /\ ~up => \A a \in Actors : At(a, "idle")

\* What is planned or terminated is recorded, and so is the service of every
\* process that was started.
PlannedInv ==
    /\ \A a \in Actors :
          task[a].pc \in {"before", "failing", "spawn", "record", "health", "apply",
                          "stopping", "waiting"}
          => task[a].todo \cup task[a].done \subseteq Present
    /\ \A n \in 1..born : procs[n].owner # Foreign => procs[n].owner \in Present

\* In the loop that terminates processes, every one that lives on without
\* SIGKILL is being polled, or its service is not done: it is ahead of the
\* loop if it has to stop.
LoopInv ==
    \A a \in Actors :
        /\ task[a].pc \in {"idle", "serving", "stop", "start"} => task[a].done = {}
        /\ task[a].pc \in {"stopping", "waiting"} =>
              \A s \in Services : AliveAndKept(s) =>
                 \/ At(a, "waiting") /\ task[a].proc = rec[s].proc
                 \/ s \notin task[a].done /\ (a = Main /\ Running(s) => s \in task[a].todo)

LInv == IInv /\ MutexInv /\ PlannedInv /\ LoopInv

=============================================================================
