----------------------------- MODULE DaemonProcess -----------------------------
(***************************************************************************)
(* The daemon as a process: the lock file and the socket that Serve        *)
(* (internal/worker/daemon.go) takes and gives back, and the clients that  *)
(* start, stop, force to stop and restart it, over ssh (internal/remote/   *)
(* remote.go) or on their own machine (internal/cli/cli.go).               *)
(*                                                                         *)
(* Every launch is a new instance, for one state directory.  What an       *)
(* instance does to the services of the runs is ServiceDaemon's subject:   *)
(* here recovery and shutdown are stages that take time.                   *)
(***************************************************************************)
EXTENDS Integers

CONSTANTS
    Clients,     \* command line tools, each runs one command at a time
    Pids,        \* pid numbers
    Commands,    \* the commands that clients give
    SshLoses,    \* the requests that ssh may lose: "ping", "shutdown", "launch"
    SlowPolls,   \* whether a poll may end although its daemon is on the way
    FastReuse,   \* whether a pid may be reused while a forced stop polls it
    Lookalikes,  \* whether a program that is no daemon may look like one
    MaxLaunches, \* bound: daemon instances of a behaviour
    MaxCrashes   \* bound: daemons that are killed or fail to recover

AllCommands == {"ensure", "stop", "restart", "stopLocal", "restartLocal"}

ASSUME CommandsAssumption == Commands \subseteq AllCommands
ASSUME LossesAssumption == SshLoses \subseteq {"ping", "shutdown", "launch"}
ASSUME OptionsAssumption ==
    SlowPolls \in BOOLEAN /\ FastReuse \in BOOLEAN /\ Lookalikes \in BOOLEAN
ASSUME PidNumbersAssumption == Pids # {} /\ Pids \cap {"no file", "empty"} = {}
ASSUME LaunchBoundsAssumption == MaxLaunches \in Nat /\ MaxCrashes \in Nat

VARIABLES
    daemons,   \* every daemon instance: stage, pid, told to stop
    launched,  \* how many instances there are
    crashes,   \* how many of them were killed or failed to recover
    foreign,   \* the programs that are no daemon
    hit,       \* whether a forced stop ever signalled one that does not look like one
    holder,    \* the instance that holds the flock on daemon.lock, or None
    lockFile,  \* what daemon.lock says: a pid, Empty or NoFile
    sock,      \* the instance that bound the file workyard.sock, or None
    client     \* what every client is doing

vars == <<daemons, launched, crashes, foreign, hit, holder, lockFile, sock,
          client>>

Instances == 1..MaxLaunches
None == 0
NoFile == "no file"
Empty == "empty"

Starting == {"launched", "locked", "identified", "cleaned"}
\* Stages with the listener open, and stages that read and write state.json.
Listening == {"recovering", "serving"}
Working == {"recovering", "serving", "closing"}
Stages == {"unborn", "gone", "leaving"} \cup Starting \cup Working

\* A program that is no daemon may look like one: the command line of a client
\* (workyard daemonctl ... --socket), or of the shell that launches a daemon,
\* names workyard daemon and the socket as well (remote.go:249, 257).
Program == [pid : Pids, alike : {FALSE, Lookalikes}]

Stage(d) == daemons[d].stage
Alive(d) == Stage(d) \notin {"unborn", "gone"}
PidsInUse ==
    {f.pid : f \in foreign} \cup {daemons[d].pid : d \in {e \in Instances : Alive(e)}}
Serving == \E d \in Instances : Stage(d) = "serving" /\ sock = d
OnTheWay == \E d \in Instances : Stage(d) \in Starting \cup Working

Idle == [pc |-> "idle", cmd |-> "none", daemon |-> None, pid |-> NoFile]

Init ==
    /\ daemons = [d \in Instances |-> [stage |-> "unborn",
                     pid |-> CHOOSE p \in Pids : TRUE, told |-> FALSE]]
    /\ launched = 0
    /\ crashes = 0
    /\ foreign = {}
    /\ hit = FALSE
    /\ holder = None
    /\ lockFile = NoFile
    /\ sock = None
    /\ client = [c \in Clients |-> Idle]

(***************************************************************************)
(* Serve                                                                   *)
(***************************************************************************)

Enter(d, stage) == daemons' = [daemons EXCEPT ![d].stage = stage]

\* Mutant of TakeLock: the lock file is opened with truncation.
TakeLockTruncating(d) ==
    /\ Stage(d) = "launched"
    /\ IF holder = None
       THEN holder' = d /\ Enter(d, "locked") /\ lockFile' = lockFile
       ELSE holder' = holder /\ Enter(d, "gone") /\ lockFile' = Empty
    /\ UNCHANGED <<launched, crashes, foreign, hit, sock, client>>

\* acquireDaemonLock: without waiting; the loser exits and leaves no trace.
TakeLock(d) ==
    /\ Stage(d) = "launched"
    /\ IF holder = None THEN holder' = d /\ Enter(d, "locked")
                        ELSE holder' = holder /\ Enter(d, "gone")
    /\ UNCHANGED <<launched, crashes, foreign, hit, lockFile, sock, client>>

\* daemon.lock is emptied, and then gets the pid.
WriteLock(d) ==
    /\ Stage(d) = "locked"
    /\ \/ lockFile # Empty /\ lockFile' = Empty /\ daemons' = daemons
       \/ lockFile = Empty /\ lockFile' = daemons[d].pid /\ Enter(d, "identified")
    /\ UNCHANGED <<launched, crashes, foreign, hit, holder, sock, client>>

\* Somebody accepts connections at the socket file.
Connects == sock # None /\ Stage(sock) \in Listening

\* Mutant of RemoveStaleSocket: any socket file is a reason to leave.
RemoveStaleSocketNever(d) ==
    /\ Stage(d) = "identified"
    /\ Enter(d, IF sock # None THEN "leaving" ELSE "cleaned")
    /\ UNCHANGED <<launched, crashes, foreign, hit, holder, lockFile, sock, client>>

\* removeStaleSocket: a socket nobody listens at is removed; a live one is a
\* reason to leave.
RemoveStaleSocket(d) ==
    /\ Stage(d) = "identified"
    /\ IF Connects THEN sock' = sock /\ Enter(d, "leaving")
                   ELSE sock' = None /\ Enter(d, "cleaned")
    /\ UNCHANGED <<launched, crashes, foreign, hit, holder, lockFile, client>>

Listen(d) ==
    /\ Stage(d) = "cleaned"
    /\ IF sock = None THEN sock' = d /\ Enter(d, "recovering")
                      ELSE sock' = sock /\ Enter(d, "leaving")
    /\ UNCHANGED <<launched, crashes, foreign, hit, holder, lockFile, client>>

\* When recoverServices fails, the deferred calls of the listener run.
RecoverFails(d) ==
    /\ crashes < MaxCrashes
    /\ crashes' = crashes + 1
    /\ Enter(d, "leaving")
    /\ sock' = None

Recover(d) ==
    /\ Stage(d) = "recovering"
    /\ \/ Enter(d, "serving") /\ UNCHANGED <<sock, crashes>>
       \/ RecoverFails(d)
    /\ UNCHANGED <<launched, foreign, hit, holder, lockFile, client>>

\* Mutant of CloseListener: the lock goes together with the listener.
CloseListenerAndUnlock(d) ==
    /\ Stage(d) = "serving" /\ daemons[d].told
    /\ sock' = None
    /\ holder' = None
    /\ Enter(d, "closing")
    /\ UNCHANGED <<launched, crashes, foreign, hit, lockFile, client>>

\* Mutant of CloseListener: the accept loop takes the error for a passing one.
CloseListenerOnly(d) ==
    /\ Stage(d) = "serving" /\ daemons[d].told
    /\ sock' = None
    /\ UNCHANGED <<daemons, launched, crashes, foreign, hit, holder, lockFile, client>>

\* The goroutine that waits for a shutdown request or a signal closes the
\* listener, which also removes the socket file, and the accept loop ends.  A
\* signal that came earlier takes effect here.
CloseListener(d) ==
    /\ Stage(d) = "serving" /\ daemons[d].told
    /\ sock' = None
    /\ Enter(d, "closing")
    /\ UNCHANGED <<launched, crashes, foreign, hit, holder, lockFile, client>>

\* Mutant of RemoveSocket: the deferred calls in the other order, first the lock
\* and then the socket.
RemoveSocketUnlocked(d) ==
    /\ Stage(d) = "closing"
    /\ IF holder = d THEN holder' = None /\ UNCHANGED <<daemons, sock>>
                     ELSE holder' = holder /\ sock' = None /\ Enter(d, "gone")
    /\ UNCHANGED <<launched, crashes, foreign, hit, lockFile, client>>

\* The deferred calls after shutdownServices: removeSocket takes whatever
\* socket is there.
RemoveSocket(d) ==
    /\ Stage(d) = "closing"
    /\ sock' = None
    /\ Enter(d, "leaving")
    /\ UNCHANGED <<launched, crashes, foreign, hit, holder, lockFile, client>>

\* releaseDaemonLock and the end of the process.
ReleaseLock(d) ==
    /\ Stage(d) = "leaving"
    /\ holder' = None
    /\ Enter(d, "gone")
    /\ UNCHANGED <<launched, crashes, foreign, hit, lockFile, sock, client>>

\* The daemon is killed: the kernel frees the lock, the files stay.
Die(d) ==
    /\ Enter(d, "gone")
    /\ holder' = IF holder = d THEN None ELSE holder

Crash(d) ==
    /\ Alive(d) /\ crashes < MaxCrashes
    /\ crashes' = crashes + 1
    /\ Die(d)
    /\ UNCHANGED <<launched, foreign, hit, lockFile, sock, client>>

\* A forced stop is between its check of a pid and its last signal to it.
Reusable(pid) ==
    \/ FastReuse
    \/ \A c \in Clients :
          client[c].pid = pid => client[c].pc \notin {"forceTerm", "forcePoll"}

(***************************************************************************)
(* Clients                                                                 *)
(***************************************************************************)

Local == {"stopLocal", "restartLocal"}
Restarts == {"restart", "restartLocal"}

At(c, pc) == client[c].pc = pc
Goto(c, pc) == client' = [client EXCEPT ![c].pc = pc]
Finish(c) == client' = [client EXCEPT ![c] = Idle]

\* The stop of a restart is followed by a start, that of a stop by the end.
Stopped(c) ==
    IF client[c].cmd \in Restarts THEN Goto(c, "ensurePing") ELSE Finish(c)

Loses(c, request) == request \in SshLoses /\ client[c].cmd \notin Local

\* A ping is answered by the accept loop; during a recovery it waits.
Answered == Connects /\ Stage(sock) = "serving"
PingFails(c) == ~Connects \/ Loses(c, "ping")

ClientOnly == UNCHANGED <<daemons, launched, crashes, foreign, hit, holder, lockFile,
                          sock>>

EntryOf(cmd) ==
    CASE cmd = "ensure" -> "ensurePing"
      [] cmd \in Local -> "shutdown"
      [] OTHER -> "stopPing"

\* A command begins.
Begin(c) ==
    /\ At(c, "idle")
    /\ \E cmd \in Commands :
          client' = [client EXCEPT ![c] = [@ EXCEPT !.pc = EntryOf(cmd), !.cmd = cmd]]
    /\ ClientOnly

\* StopDaemon takes any failure of the ping for "there is no daemon".
StopPing(c) ==
    /\ At(c, "stopPing")
    /\ \/ Answered /\ Goto(c, "shutdown")
       \/ PingFails(c) /\ Stopped(c)
    /\ ClientOnly

\* The shutdown request reaches the daemon (dispatch closes d.shutdown).
ShutdownRequest(c) ==
    /\ At(c, "shutdown") /\ Answered
    /\ daemons' = [daemons EXCEPT ![sock].told = TRUE]
    /\ client' = [client EXCEPT ![c].pc = "answer", ![c].daemon = sock]
    /\ UNCHANGED <<launched, crashes, foreign, hit, holder, lockFile, sock>>

\* An error of the shutdown request: a remote client goes on by force, a local
\* one says that no daemon was running.
ShutdownError(c) == IF client[c].cmd \in Local THEN Stopped(c) ELSE Goto(c, "forceRead")

ShutdownUnsent(c) ==
    /\ At(c, "shutdown")
    /\ ~Connects \/ Loses(c, "shutdown")
    /\ ShutdownError(c)
    /\ ClientOnly

\* The answer comes, unless the process ends before it is written.
ShutdownAnswer(c) ==
    /\ At(c, "answer")
    /\ \/ Alive(client[c].daemon) /\ Goto(c, "stopPoll")
       \/ ~Alive(client[c].daemon) /\ ShutdownError(c)
       \/ Loses(c, "shutdown") /\ ShutdownError(c)
    /\ ClientOnly

\* A daemon was told to stop, or gave up, and has not ended.
Leaving == \E d \in Instances : Alive(d) /\ (daemons[d].told \/ Stage(d) = "leaving")

\* Mutant of StopPoll: the answer to the request is taken for the end.
StopPollSkipped(c) ==
    /\ At(c, "stopPoll")
    /\ Stopped(c)
    /\ ClientOnly

\* waitUntilDaemonStopped, waitForDaemonStopped: until a ping fails.
StopPoll(c) ==
    /\ At(c, "stopPoll")
    /\ \/ PingFails(c) /\ Stopped(c)
       \/ (SlowPolls \/ (Connects /\ ~Leaving)) /\ Finish(c)
    /\ ClientOnly

(***************************************************************************)
(* The script of forceStopDaemon                                           *)
(***************************************************************************)

Of(pid) == {d \in Instances : Alive(d) /\ daemons[d].pid = pid}

\* Mutant of ForceRead: whatever the file holds is taken for a pid.
ForceReadAnything(c) ==
    /\ At(c, "forceRead")
    /\ IF lockFile = NoFile
       THEN Goto(c, "stopPoll")
       ELSE client' = [client EXCEPT ![c].pc = "forceCheck", ![c].pid = lockFile]
    /\ ClientOnly

ForceRead(c) ==
    /\ At(c, "forceRead")
    /\ CASE lockFile = NoFile -> Goto(c, "stopPoll")
         [] lockFile = Empty -> Finish(c)
         [] OTHER -> client' = [client EXCEPT ![c].pc = "forceCheck", ![c].pid = lockFile]
    /\ ClientOnly

\* Mutant of Recognized: any process is taken for the daemon.
RecognizedAny(pid) == pid \in PidsInUse

\* A program that is no daemon has this number: any one, one that does not look
\* like a daemon.
Foreign(pid) == \E f \in foreign : f.pid = pid
Stranger(pid) == \E f \in foreign : f.pid = pid /\ ~f.alike

\* ps may show a command line that matches *'workyard daemon'*"$socket"*.
Recognized(pid) == Of(pid) # {} \/ \E f \in foreign : f.pid = pid /\ f.alike

\* A daemon that was started on its machine has no socket in its command line:
\* the script refuses it like any other program.
ForceCheck(c) ==
    /\ At(c, "forceCheck")
    /\ LET pid == client[c].pid
       IN  \/ pid \notin PidsInUse /\ Goto(c, "stopPoll")
           \/ pid \in PidsInUse /\ Recognized(pid) /\ Goto(c, "forceTerm")
           \/ pid \in PidsInUse /\ Finish(c)
    /\ ClientOnly

\* kill -TERM; the script ends with an error when nobody has the number.
ForceTerm(c) ==
    /\ At(c, "forceTerm")
    /\ LET pid == client[c].pid
       IN  /\ daemons' = [d \in Instances |->
                 IF d \in Of(pid) THEN [daemons[d] EXCEPT !.told = TRUE] ELSE daemons[d]]
           /\ hit' = (hit \/ Stranger(pid))
           /\ IF pid \in PidsInUse THEN Goto(c, "forcePoll") ELSE Finish(c)
    /\ UNCHANGED <<launched, crashes, foreign, holder, lockFile, sock>>

\* kill -0 until it fails, or kill -KILL after eight seconds, without another
\* look at the command line.  The end of a program that is no daemon is a step of
\* its own.
ForcePoll(c) ==
    /\ At(c, "forcePoll")
    /\ LET pid == client[c].pid
       IN  \/ /\ pid \notin PidsInUse
              /\ UNCHANGED <<daemons, holder, hit>>
           \/ /\ Of(pid) # {}
              /\ \E d \in Of(pid) : Die(d)
              /\ UNCHANGED hit
           \/ /\ Foreign(pid)
              /\ hit' = (hit \/ Stranger(pid))
              /\ UNCHANGED <<daemons, holder>>
    /\ Goto(c, "stopPoll")
    /\ UNCHANGED <<launched, crashes, foreign, lockFile, sock>>

(***************************************************************************)
(* EnsureDaemon, startLocalDaemon, ensureLocalDaemonRunning                *)
(***************************************************************************)

EnsurePing(c) ==
    /\ At(c, "ensurePing")
    /\ \/ Answered /\ Finish(c)
       \/ PingFails(c) /\ Goto(c, "launch")
    /\ ClientOnly

\* nohup ... &, or exec.Command: nobody looks whether the new process lives on.
Launch(c) ==
    /\ At(c, "launch") /\ launched < MaxLaunches
    /\ \E pid \in Pids \ PidsInUse :
          /\ Reusable(pid)
          /\ daemons' = [daemons EXCEPT ![launched + 1] =
                [stage |-> "launched", pid |-> pid, told |-> FALSE]]
    /\ launched' = launched + 1
    /\ Goto(c, "startPoll")
    /\ UNCHANGED <<crashes, foreign, hit, holder, lockFile, sock>>

LaunchFails(c) ==
    /\ At(c, "launch")
    /\ Loses(c, "launch") /\ Finish(c)
    /\ ClientOnly

\* Until a ping is answered, by any daemon, or until the deadline.
StartPoll(c) ==
    /\ At(c, "startPoll")
    /\ \/ Answered /\ Finish(c)
       \/ (SlowPolls \/ ~OnTheWay) /\ Finish(c)
    /\ ClientOnly

(***************************************************************************)
(* Next                                                                    *)
(***************************************************************************)

\* A program that is no daemon gets a free pid, or ends.
ForeignProcess ==
    /\ \/ \E f \in Program :
             /\ foreign = {} /\ f.pid \notin PidsInUse /\ Reusable(f.pid)
             /\ foreign' = {f}
       \/ foreign # {} /\ foreign' = {}
    /\ UNCHANGED <<daemons, launched, crashes, hit, holder, lockFile, sock, client>>

DaemonStep(d) ==
    \/ TakeLock(d) \/ WriteLock(d) \/ RemoveStaleSocket(d) \/ Listen(d)
    \/ Recover(d) \/ CloseListener(d) \/ RemoveSocket(d) \/ ReleaseLock(d)

ClientStep(c) ==
    \/ StopPing(c) \/ ShutdownRequest(c) \/ ShutdownUnsent(c)
    \/ ShutdownAnswer(c) \/ StopPoll(c) \/ ForceRead(c) \/ ForceCheck(c)
    \/ ForceTerm(c) \/ ForcePoll(c) \/ EnsurePing(c) \/ Launch(c)
    \/ LaunchFails(c) \/ StartPoll(c)

Next ==
    \/ \E c \in Clients : Begin(c) \/ ClientStep(c)
    \/ \E d \in Instances : DaemonStep(d) \/ Crash(d)
    \/ ForeignProcess

\* A process that can go on does: daemons and command line tools.  Nobody has
\* to give a command, and nothing has to die.
Fairness ==
    /\ \A d \in Instances : WF_vars(DaemonStep(d))
    /\ \A c \in Clients : WF_vars(ClientStep(c))

Spec == Init /\ [][Next]_vars /\ Fairness

(***************************************************************************)
(* Properties                                                              *)
(***************************************************************************)

ClientStages ==
    {"idle", "stopPing", "shutdown", "answer", "stopPoll", "forceRead",
     "forceCheck", "forceTerm", "forcePoll", "ensurePing", "launch", "startPoll"}

DaemonType == [stage : Stages, pid : Pids, told : BOOLEAN]
ClientType == [pc : ClientStages, cmd : AllCommands \cup {"none"},
               daemon : Instances \cup {None}, pid : Pids \cup {NoFile}]

\* Every variable has its type.
TypeOK ==
    /\ daemons \in [Instances -> DaemonType]
    /\ launched \in 0..MaxLaunches
    /\ crashes \in 0..MaxCrashes
    /\ foreign \subseteq Program
    /\ hit \in BOOLEAN
    /\ holder \in Instances \cup {None}
    /\ lockFile \in Pids \cup {NoFile, Empty}
    /\ sock \in Instances \cup {None}
    /\ client \in [Clients -> ClientType]

\* At most one daemon recovers, serves or shuts services down, so that state.json
\* has one writer: the lock is given back after the last work, whatever order
\* launches, stops and crashes come in (Serve, daemon.go:58-85).
OneOwner ==
    \A d, e \in Instances : Stage(d) \in Working /\ Stage(e) \in Working => d = e

\* A daemon that serves can be reached: no other instance, arriving or leaving,
\* removes or replaces its socket file (daemon.go:63-73, 315-346).
ServingReachable == \A d \in Instances : Stage(d) = "serving" => sock = d

\* daemon.lock names the daemon that works, which is what a forced stop relies
\* on (daemon.go:296-304, remote.go:327).
LockFileNamesOwner ==
    \A d \in Instances : Stage(d) \in Working => lockFile = daemons[d].pid

\* A forced stop signals no program that does not look like a daemon for this
\* socket, although daemon.lock outlives the daemons and their pids are used
\* again, and although only the first of its signals comes after a look
\* (remote.go:327-335).  A client or a shell that got the number and has both
\* words in its command line passes the check and is signalled.
ForceSparesOthers == ~hit

\* Once a restart goes on to its start, the daemon that took its shutdown request
\* no longer listens: the ping that decides about the start cannot be answered
\* by the daemon that was to be replaced (remote.go:282-312, cli.go:4920-4957).
RestartReplaces ==
    \A c \in Clients :
        client[c].pc \in {"ensurePing", "launch", "startPoll"} /\ client[c].daemon # None
            => Stage(client[c].daemon) \notin Listening

\* When no more daemons fail, a launch leads to a daemon that serves, past the
\* lock file and the socket that a killed one left behind and past the launches
\* of others, unless a daemon is told to stop (daemon.go:58-85, 315-332).
StartServes ==
    (crashes = MaxCrashes /\ ~Leaving /\ \E d \in Instances : Stage(d) \in Starting)
        ~> (Serving \/ \E d \in Instances : daemons[d].told /\ Alive(d))

\* A daemon that was told to stop, by a request or by a signal at any stage of
\* its start, ends (daemon.go:80-104).
ToldEnds ==
    \A d \in Instances : Alive(d) /\ daemons[d].told ~> ~Alive(d)

\* What the command line tool advises: "restart it with workyard daemon stop &&
\* workyard daemon start" (cli.go:4826), and the README of deploy: "deploy
\* restarts the worker daemon after installing so the new binary is active"
\* (README.md:232).  After a restart a daemon serves.
RestartEndsServing ==
    [][\A c \in Clients :
          client[c].cmd \in Restarts /\ At(c, "idle")' => Serving]_vars
================================================================================
