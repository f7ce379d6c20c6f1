------------------------------- MODULE Deploy -------------------------------
(***************************************************************************)
(* One run of a project on a worker, and the commands of internal/cli that *)
(* change it: deploy, mirror services up, sync, watch, the control         *)
(* commands, cleanup, and the registry of runs on the local machine.       *)
(*                                                                         *)
(* A command is a sequence of steps; todo holds those it has left.  Its    *)
(* requests to the daemon are jobs there, which go on when the command has *)
(* given up on them or was interrupted.  What start and stop do inside the *)
(* daemon is the subject of ServiceDaemon: here each is a step per service.*)
(***************************************************************************)
EXTENDS Naturals, Sequences, FiniteSets

CONSTANTS
    Clients,     \* command line tools
    Services,    \* of the project
    MaxEdits,    \* bound: changes of the local project
    MaxCommands  \* bound: commands

ASSUME BoundsAssumption == MaxEdits \in Nat /\ MaxCommands \in Nat
ASSUME ServicesAssumption == IsFiniteSet(Services)

VARIABLES
    worker,    \* where the run is: this machine, a worker, or a mirror on one
    edit,      \* the version of the local project
    dir,       \* the run directory; with nothing but state and logs it is bare
    source,    \* what its source directory holds; for a mirror, the destination
    made,      \* from which source setup and build made what is there
    inState,   \* the services that state.json knows
    alive,     \* the process that state.json records for a service
    exits,     \* services of which an exit watcher waits for d.mu
    jobs,      \* requests that the daemon works on
    listed,    \* whether the run is in runs.json
    cmd,       \* what every client is doing
    commands,  \* counter for MaxCommands
    unlisted   \* history: the run is kept out of runs.json by a registration that
               \* failed, or by somebody else

runVars == <<dir, source, made, inState, alive, exits>>
localVars == <<listed, unlisted>>
vars == <<worker, edit, runVars, jobs, localVars, cmd, commands>>

Versions == 0..MaxEdits
None == MaxEdits + 1   \* nothing is there
Mixed == MaxEdits + 2  \* parts of several versions
Contents == Versions \cup {None, Mixed}

Down == [from |-> None, prepared |-> FALSE]
Prepared == made.setup = source /\ made.build = source /\ source \in Versions

Asks == {"setup", "build", "stop", "start", "restart"}
RunKinds == {"deploy", "up", "sync", "control", "watch", "cleanup", "removal"}

\* services are those the command is about, from is the version that it has
\* synced, copy is runs.json as loaded.  Of a watch: whether the files that it
\* watches are no longer those of its snapshot (differs), there are events that
\* its watcher has not taken (events), and a notification is in its channel
\* (told).  History: the last edit that its watcher has an event of (heard), no
\* other command or job changed the run meanwhile (alone), no stop failed with
\* one of its services up (stopped).
Idle == [kind |-> "none", todo |-> <<"idle">>, services |-> {}, from |-> None,
         differs |-> FALSE, events |-> FALSE, told |-> FALSE, heard |-> None,
         copy |-> FALSE, alone |-> TRUE, stopped |-> TRUE]

At(c, step) == Head(cmd[c].todo) = step
Working(c) == cmd[c].kind \in RunKinds /\ ~At(c, "listen")
Disturbed(c) == jobs # {} \/ \E b \in Clients \ {c} : Working(b)

Then(k) == IF Len(k.todo) = 1 THEN Idle ELSE [k EXCEPT !.todo = Tail(@)]
Advance(c) == cmd' = [cmd EXCEPT ![c] = Then(@)]

\* Nobody waits for the answer to what c has asked for.
Abandoned(c) == {[j EXCEPT !.by = @ \ {c}] : j \in jobs}

Init ==
    /\ worker \in {"local", "remote", "mirror"}
    /\ edit = 0
    /\ dir = "missing" /\ source = None /\ made = [setup |-> None, build |-> None]
    /\ inState = {} /\ alive = [s \in Services |-> Down] /\ exits = {}
    /\ jobs = {}
    /\ listed = FALSE /\ unlisted = FALSE
    /\ cmd = [c \in Clients |-> Idle] /\ commands = 0

(***************************************************************************)
(* Commands                                                                *)
(***************************************************************************)

\* syncer.Run or RunLocal, and rememberRun.
Sync == <<"prepare", "rsync", "copied", "save">>

\* The mirror is synced, then the run's source linked to it.
MirrorSync == <<"rsync", "copied", "prepare">>

Fresh == <<"exists", "stop", "remove", "unsave">>

\* Mutant of Relaunch: the services are not stopped before their start.
RelaunchRunning == <<"setup", "build", "start", "wait">>

Relaunch == <<"setup", "build", "stop", "start", "wait">>

\* Mutant of Deployment: the run is registered when all is done.
DeploymentListedLast == <<"prepare", "rsync", "copied">> \o Relaunch \o <<"save">>

Deployment == Sync \o Relaunch

\* mirror services up registers the run at its end.
ServicesUp == Relaunch \o <<"save">>

\* The mirror service commands register the run when they have their answer.
MirrorControl(ask) == <<"prepare", ask, "save">>

\* A local control command syncs what it needs, and registers the run twice.
NeedsLocalSource(ask) == ask # "stop"
LocalControl(ask) == (IF NeedsLocalSource(ask) THEN Sync ELSE <<>>) \o <<"save", ask>>

RemoteControl(ask) == <<"save", ask>>

Control(ask) ==
    CASE worker = "mirror" -> MirrorControl(ask)
      [] worker = "local" -> LocalControl(ask)
      [] worker = "remote" -> RemoteControl(ask)

\* The run directory, and the run's entry in the registry.
Removal == <<"remove", "unsave">>

\* mirror services cleanup makes the run's directory first.
MirrorRemoval == <<"prepare">> \o Removal
MirrorCleanup == <<"prepare", "stop">> \o Removal

\* Cleanup of a remote run stops by the control command, which registers the
\* run once more.
Cleanup == (IF worker = "remote" THEN RemoteControl("stop") ELSE <<"stop">>) \o Removal

Watch(once) == IF once THEN <<"open", "listen", "end">> ELSE <<"open", "listen">>

\* Every kind of command with its steps; a removal is a cleanup --no-stop.
MirrorPlans ==
    {<<"control", MirrorSync \o <<ask, "save">>>> : ask \in Asks}
    \cup
    {<<"up", MirrorSync \o ServicesUp>>, <<"up", <<"prepare">> \o ServicesUp>>,
     <<"up", MirrorSync \o <<"install">> \o ServicesUp>>,
     <<"cleanup", MirrorCleanup>>, <<"removal", MirrorRemoval>>}

RunPlans ==
    {<<"deploy", Deployment>>, <<"deploy", Fresh \o Deployment>>, <<"sync", Sync>>,
     <<"cleanup", Cleanup>>, <<"removal", Removal>>}
    \cup {<<"watch", Watch(once)>> : once \in BOOLEAN}
    \cup IF worker = "remote" THEN {<<"deploy", <<"install">> \o Deployment>>} ELSE {}

Plans ==
    {<<"control", Control(ask)>> : ask \in Asks}
    \cup IF worker = "mirror" THEN MirrorPlans ELSE RunPlans

\* A command begins; to all others it is one that changes the run.
Begin(c, k) ==
    /\ commands < MaxCommands
    /\ commands' = commands + 1
    /\ cmd' = [b \in Clients |->
                  IF b = c THEN [k EXCEPT !.alone = ~Disturbed(c)]
                  ELSE IF cmd[b].kind \in RunKinds /\ k.kind \in RunKinds
                  THEN [cmd[b] EXCEPT !.alone = FALSE] ELSE cmd[b]]

CommandBegin(c) ==
    /\ At(c, "idle")
    /\ \E plan \in Plans, services \in SUBSET Services \ {{}} :
          /\ plan[1] \in {"cleanup", "removal", "sync"} => services = Services
          /\ Begin(c, [Idle EXCEPT !.kind = plan[1], !.todo = plan[2], !.services = services])
    /\ UNCHANGED <<worker, edit, runVars, jobs, localVars>>

\* Remove, RemoveWorker and Prune, when this run's entry is among those to go.
Forget == <<"unsave">>

\* runs remove, runs prune and workers remove; or a command about another run,
\* which writes this one's entry back as it was.
RegistryBegin(c) ==
    /\ At(c, "idle")
    /\ \/ Begin(c, [Idle EXCEPT !.kind = "forget", !.todo = Forget])
       \/ Begin(c, [Idle EXCEPT !.kind = "other", !.todo = <<"load", "save">>])
    /\ UNCHANGED <<worker, edit, runVars, jobs, localVars>>

(***************************************************************************)
(* The registry of runs                                                    *)
(***************************************************************************)

\* Upsert and Remove change this run's entry when they save, whatever they
\* have loaded; what another run's command saves of it is what it loaded.
Load(c) ==
    /\ At(c, "load")
    /\ cmd' = [cmd EXCEPT ![c] = [Then(@) EXCEPT !.copy = listed]]
    /\ UNCHANGED <<worker, edit, runVars, jobs, localVars, commands>>

Upserted(k) == k.kind # "other" \/ k.copy

\* save replaces the file by a rename; when it fails the file stays.
Written(entry) == listed' \in {entry, listed}

\* rememberRun: a failure is a warning at most, and only with --verbose; the
\* command goes on, with its run out of the registry (unlisted).  Saving another
\* run's entry writes this one as it was loaded.
Save(c) ==
    /\ At(c, "save")
    /\ Written(Upserted(cmd[c]))
    /\ unlisted' = IF cmd[c].kind = "other" THEN unlisted \/ ~listed' ELSE ~listed'
    /\ Advance(c)
    /\ UNCHANGED <<worker, edit, runVars, jobs, commands>>

Unsave(c) ==
    /\ At(c, "unsave")
    /\ Written(FALSE)
    /\ unlisted' = (unlisted \/ cmd[c].kind = "forget" \/ ~cmd[c].alone)
    /\ Advance(c)
    /\ UNCHANGED <<worker, edit, runVars, jobs, commands>>

(***************************************************************************)
(* Syncs and removals                                                      *)
(***************************************************************************)

\* The source changes under the jobs that work with it.
Soiled(js) == {[j EXCEPT !.clean = FALSE] : j \in js}

\* ensureMirrorServiceRun links the source to the mirror, which has to be there.
MirrorThere == source # None

\* prepareRemoteLayout and prepareLocalLayout make the directories.
Prepare(c) ==
    /\ At(c, "prepare")
    /\ worker = "mirror" => MirrorThere
    /\ dir' = "whole"
    /\ Advance(c)
    /\ UNCHANGED <<worker, edit, source, made, inState, alive, exits, jobs, localVars,
                   commands>>

\* Into a run whose directory has gone, rsync fails.
Gone == worker # "mirror" /\ dir = "missing"

\* rsync begins to replace the source.  Runs are synced with --delete and
\* --delete-excluded, which takes what setup and build have made; a mirror
\* leaves what it excludes.
Rsync(c) ==
    /\ At(c, "rsync") /\ ~Gone
    /\ source' = Mixed
    /\ IF worker = "mirror" THEN UNCHANGED <<made, dir>>
       ELSE made' = [setup |-> None, build |-> None] /\ dir' = "whole"
    /\ jobs' = Soiled(jobs)
    /\ cmd' = [cmd EXCEPT ![c] = [Then(@) EXCEPT !.from = edit]]
    /\ UNCHANGED <<worker, edit, inState, alive, exits, localVars, commands>>

\* What a command keeps of the version that its rsync has begun with.
Synced(k, copied) ==
    CASE k.kind \in {"deploy", "up"} -> copied
      [] k.kind = "watch" -> k.from
      [] OTHER -> None

\* It has copied one version, unless there was an edit meanwhile or another
\* rsync is under way.
Copied(c) ==
    /\ At(c, "copied") /\ ~Gone
    /\ source' = IF cmd[c].from = edit /\ \A b \in Clients \ {c} : ~At(b, "copied")
                 THEN edit ELSE Mixed
    /\ jobs' = Soiled(jobs)
    /\ cmd' = [cmd EXCEPT ![c] = [Then(@) EXCEPT !.from = Synced(cmd[c], source')]]
    /\ UNCHANGED <<worker, edit, dir, made, inState, alive, exits, localVars, commands>>

\* deploy --fresh: nothing to do without a run directory.
Exists(c) ==
    /\ At(c, "exists")
    /\ cmd' = [cmd EXCEPT ![c].todo =
                  IF dir # "missing" THEN Tail(@) ELSE SubSeq(@, Len(Fresh) + 1, Len(@))]
    /\ UNCHANGED <<worker, edit, runVars, jobs, localVars, commands>>

\* Mutant of Forgotten: the daemon would still know its services.
ForgottenNever == UNCHANGED <<inState, alive>>

\* With state.json goes what the daemon knows of its services.
Forgotten ==
    /\ inState' = {}
    /\ alive' = [s \in Services |-> Down]

\* CleanupRun and cleanupLocalRun.
SourceRemoved == source' = None /\ made' = [setup |-> None, build |-> None]

\* cleanupMirrorServiceRun removes the link to the mirror.
LinkRemoved == UNCHANGED <<source, made>>

Remove(c) ==
    /\ At(c, "remove")
    /\ dir' = "missing"
    /\ Forgotten
    /\ IF worker = "mirror" THEN LinkRemoved ELSE SourceRemoved
    /\ jobs' = Soiled(jobs)
    /\ Advance(c)
    /\ UNCHANGED <<worker, edit, exits, localVars, commands>>

(***************************************************************************)
(* Requests to the daemon                                                  *)
(***************************************************************************)

\* Mutant of Ignores: no command minds a stop that failed.
IgnoresAll(k) == Head(k.todo) = "stop"

\* deploy, up and the local cleanup go on when their stop fails.
Ignores(k) ==
    /\ Head(k.todo) = "stop"
    /\ k.kind \in {"deploy", "up"} \/ (k.kind = "cleanup" /\ worker # "remote")

\* The services of a request: a deploy that removes the old run stops all.
Subject(k) ==
    IF k.kind = "deploy" /\ "remove" \in {k.todo[i] : i \in DOMAIN k.todo}
    THEN Services ELSE k.services

\* A watch restarts one service at a time.
Subjects(k) ==
    IF k.kind = "watch" THEN {{s} : s \in k.services} ELSE {Subject(k)}

\* What becomes of a command whose request fails.
CallFailed(k) ==
    IF Ignores(k)
    THEN [Then(k) EXCEPT !.stopped = @ /\ \A s \in Subject(k) : alive[s] = Down]
    ELSE Idle

\* A stop of all takes the services of state.json, one of named services has
\* to find them there.
ToStop(services) == IF services = Services THEN inState ELSE services

\* A watch names the service; other commands may mean all of them by naming
\* none.
Wanted(k) == IF k.kind = "watch" THEN k.services ELSE ToStop(k.services)

Refused(k) ==
    \/ Head(k.todo) \in {"setup", "build", "start"} /\ (dir # "whole" \/ source = None)
    \/ Head(k.todo) \in {"stop", "restart"} /\ ~Wanted(k) \subseteq inState

Request(c) ==
    LET ask == Head(cmd[c].todo)
        makes == ask \in {"setup", "build"}
    IN  /\ ask \in Asks
        /\ \A j \in jobs : c \notin j.by
        /\ \E services \in Subjects(cmd[c]) :
              /\ ~Refused([cmd[c] EXCEPT !.services = services])
              /\ jobs' = {[j EXCEPT !.clean = @ /\ ~(makes /\ j.op = ask)] : j \in jobs}
                         \cup {[by |-> {c}, op |-> ask, rest |-> services,
                                clean |-> ask \notin {j.op : j \in jobs}]}
        /\ made' = IF makes THEN [made EXCEPT ![ask] = Mixed] ELSE made
        /\ UNCHANGED <<worker, edit, dir, source, inState, alive, exits, localVars, cmd,
                       commands>>

\* The daemon is out of reach, refuses, or is too late for the ssh call, and
\* the command does not mind.
CallLost(c) ==
    /\ Ignores(cmd[c])
    /\ (\E j \in jobs : c \in j.by) => worker # "local"
    /\ cmd' = [cmd EXCEPT ![c] = CallFailed(@)]
    /\ jobs' = Abandoned(c)
    /\ UNCHANGED <<worker, edit, runVars, localVars, commands>>

\* The daemon is done with j; the command that waits for it goes on.
Answered(j, ok) ==
    /\ jobs' = jobs \ {j}
    /\ cmd' = [c \in Clients |-> IF c \notin j.by THEN cmd[c]
                                 ELSE IF ok THEN Then(cmd[c]) ELSE CallFailed(cmd[c])]

\* setup and build: what they make is of the source, if it was one all along.
CommandDone(j) ==
    /\ j.op \in {"setup", "build"}
    /\ made' = [made EXCEPT ![j.op] = IF j.clean THEN source ELSE Mixed]
    /\ Answered(j, TRUE)
    /\ UNCHANGED <<dir, source, inState, alive, exits>>

\* Processes end, with their exit watchers still to come.
StopAll(services) ==
    /\ alive' = [s \in Services |-> IF s \in services THEN Down ELSE alive[s]]
    /\ exits' = exits \cup {s \in services : alive[s] # Down}

\* saveState makes the run directory when it has gone.
Saved == dir' = IF dir = "missing" THEN "bare" ELSE dir

\* stop, and the first half of restart, under d.mu.
StopDone(j) ==
    /\ j.op \in {"stop", "restart"}
    /\ StopAll(ToStop(j.rest))
    /\ Saved
    /\ IF j.op = "stop" THEN Answered(j, TRUE)
       ELSE jobs' = (jobs \ {j}) \cup {[j EXCEPT !.op = "start"]} /\ UNCHANGED cmd
    /\ UNCHANGED <<source, made, inState>>

\* start, service by service; one that runs is left alone.
StartOne(j) ==
    /\ j.op = "start" /\ dir = "whole"
    /\ \E s \in j.rest :
          /\ alive' = [alive EXCEPT ![s] =
                          IF @ # Down THEN @ ELSE [from |-> source, prepared |-> Prepared]]
          /\ inState' = inState \cup {s}
          /\ IF j.rest = {s} THEN Answered(j, TRUE)
             ELSE jobs' = (jobs \ {j}) \cup {[j EXCEPT !.rest = @ \ {s}]} /\ UNCHANGED cmd
    /\ UNCHANGED <<dir, source, made, exits>>

\* A command exits with an error or runs out of time, a service does not come
\* up, or its directory has gone.
JobFails(j) ==
    /\ Answered(j, FALSE)
    /\ UNCHANGED runVars

DaemonStep ==
    /\ \E j \in jobs : CommandDone(j) \/ StopDone(j) \/ StartOne(j) \/ JobFails(j)
    /\ UNCHANGED <<worker, edit, localVars, commands>>

\* Every service is there.
Wait(c) ==
    /\ At(c, "wait")
    /\ \A s \in cmd[c].services : alive[s] # Down
    /\ Advance(c)
    /\ UNCHANGED <<worker, edit, runVars, jobs, localVars, commands>>

Report(c) ==
    /\ At(c, "end")
    /\ Advance(c)
    /\ UNCHANGED <<worker, edit, runVars, jobs, localVars, commands>>

\* deploy --install: the daemon is replaced and stops its services; setup and
\* build commands run on without it.
Install(c) ==
    /\ At(c, "install")
    /\ StopAll(inState)
    /\ jobs' = {[j EXCEPT !.by = {}] : j \in {j \in jobs : j.op \in {"setup", "build"}}}
    /\ cmd' = [b \in Clients |-> IF b = c THEN Then(cmd[b])
                                 ELSE IF \E j \in jobs : b \in j.by THEN CallFailed(cmd[b])
                                 ELSE cmd[b]]
    /\ UNCHANGED <<worker, edit, dir, source, made, inState, localVars, commands>>

(***************************************************************************)
(* watch                                                                   *)
(***************************************************************************)

\* The snapshot was taken before the watcher runs: from now on there are events.
WatchOpen(c) ==
    /\ At(c, "open")
    /\ Advance(c)
    /\ UNCHANGED <<worker, edit, runVars, jobs, localVars, commands>>

\* Of as many services, one after the other.
Restarts(n) ==
    LET one == IF worker = "remote" THEN RemoteControl("restart") ELSE <<"restart">>
    IN  [i \in 1..n * Len(one) |-> one[((i - 1) % Len(one)) + 1]]

\* A notification: nothing is done unless the snapshot differs.
WatchTake(c) ==
    /\ At(c, "listen") /\ cmd[c].told
    /\ IF ~cmd[c].differs
       THEN cmd' = [cmd EXCEPT ![c].told = FALSE]
       ELSE \E restarts \in 0..Cardinality(cmd[c].services) :
               cmd' = [b \in Clients |->
                  IF b = c
                  THEN [cmd[c] EXCEPT !.told = FALSE, !.differs = FALSE,
                            !.alone = ~Disturbed(c),
                            !.todo = <<"settle">> \o Sync \o Restarts(restarts)
                                     \o (IF Len(@) = 2 THEN <<"end">> ELSE <<"listen">>)]
                  ELSE [cmd[b] EXCEPT !.alone = @ /\ cmd[b].kind \notin RunKinds]]
    /\ UNCHANGED <<worker, edit, runVars, jobs, localVars, commands>>

\* The debounce is over: the snapshot that the next change is compared with.
Settle(c) ==
    /\ At(c, "settle")
    /\ cmd' = [cmd EXCEPT ![c] = [Then(@) EXCEPT !.differs = FALSE]]
    /\ UNCHANGED <<worker, edit, runVars, jobs, localVars, commands>>

\* Mutant of Sent: a channel without a buffer, where nobody receives.
SentUnbuffered(k) == [k EXCEPT !.events = FALSE, !.told = @ \/ Head(k.todo) = "listen"]

\* sendChange: the channel holds one notification until it is received.
Sent(k) == [k EXCEPT !.events = FALSE, !.told = TRUE]

\* The watcher takes what events there are, or its next poll sees the change.
Notify(c) ==
    /\ cmd[c].events
    /\ cmd' = [cmd EXCEPT ![c] = Sent(@)]
    /\ UNCHANGED <<worker, edit, runVars, jobs, localVars, commands>>

(***************************************************************************)
(* Others                                                                  *)
(***************************************************************************)

Watches == {c \in Clients : cmd[c].kind = "watch"}

\* An edit of files that the watch k watches, and of which it hears or does not.
Edited(k, heard) ==
    IF heard THEN [k EXCEPT !.differs = TRUE, !.events = TRUE, !.heard = edit']
    ELSE [k EXCEPT !.differs = TRUE]

\* Somebody edits files of the project.  A watch has a part of them in its
\* snapshot: its paths, under its include and exclude patterns (seen).  Of those
\* it has an event only when its watcher runs and the event matches: there is
\* none of a file in a directory whose watch failed, or came after the file, nor
\* of a path that is itself a file (heard).
Edit ==
    /\ edit < MaxEdits
    /\ edit' = edit + 1
    /\ \E seen \in SUBSET Watches :
          \E heard \in SUBSET {c \in seen : ~At(c, "open")} :
              cmd' = [c \in Clients |->
                         IF c \in seen THEN Edited(cmd[c], c \in heard) ELSE cmd[c]]
    /\ UNCHANGED <<worker, runVars, jobs, localVars, commands>>

\* A command fails at any step, or is interrupted; what it has asked for goes on.
Fail(c) ==
    /\ ~At(c, "idle")
    /\ cmd' = [cmd EXCEPT ![c] = Idle]
    /\ jobs' = Abandoned(c)
    /\ UNCHANGED <<worker, edit, runVars, localVars, commands>>

Crash(s) ==
    /\ alive[s] # Down
    /\ StopAll({s})
    /\ UNCHANGED <<worker, edit, dir, source, made, inState, jobs, localVars, cmd,
                   commands>>

\* waitForExit: the record becomes that of an exited service, whatever process
\* it is about by now, and the run directory comes back.
Exit(s) ==
    /\ s \in exits
    /\ exits' = exits \ {s}
    /\ Saved
    /\ inState' = inState \cup {s}
    /\ alive' = [alive EXCEPT ![s] = Down]
    /\ UNCHANGED <<worker, edit, source, made, jobs, localVars, cmd, commands>>

\* status, of a command or the monitor, saves the state of whatever run it is
\* asked for.
Status ==
    /\ Saved
    /\ UNCHANGED <<worker, edit, source, made, inState, alive, exits, jobs, localVars, cmd,
                   commands>>

ClientStep(c) ==
    \/ CommandBegin(c) \/ RegistryBegin(c)
    \/ Load(c) \/ Save(c) \/ Unsave(c)
    \/ Prepare(c) \/ Rsync(c) \/ Copied(c) \/ Exists(c) \/ Remove(c)
    \/ Request(c) \/ CallLost(c) \/ Wait(c) \/ Report(c) \/ Install(c)
    \/ WatchOpen(c) \/ WatchTake(c) \/ Settle(c) \/ Notify(c) \/ Fail(c)

Next ==
    \/ \E c \in Clients : ClientStep(c)
    \/ DaemonStep \/ Edit \/ Status
    \/ \E s \in Services : Crash(s) \/ Exit(s)

Spec == Init /\ [][Next]_vars

(***************************************************************************)
(* Properties                                                              *)
(***************************************************************************)

Process == [from : Contents, prepared : BOOLEAN]
Job == [by : SUBSET Clients, op : Asks, rest : SUBSET Services, clean : BOOLEAN]
StepNames == Asks \cup {"idle", "prepare", "rsync", "copied", "load", "save", "exists",
                        "remove", "unsave", "wait", "install", "open",
                        "listen", "settle", "end"}
Command ==
    [kind : RunKinds \cup {"none", "forget", "other"}, todo : Seq(StepNames),
     services : SUBSET Services, from : Contents,
     differs : BOOLEAN, events : BOOLEAN, told : BOOLEAN, heard : Contents,
     copy : BOOLEAN, alone : BOOLEAN, stopped : BOOLEAN]

\* Every variable has its type; a process is only recorded in the state of a
\* run directory that is there.
TypeOK ==
    /\ worker \in {"local", "remote", "mirror"}
    /\ edit \in Versions
    /\ dir \in {"missing", "bare", "whole"}
    /\ source \in Contents
    /\ made \in [setup : Contents, build : Contents]
    /\ inState \subseteq Services /\ exits \subseteq Services
    /\ alive \in [Services -> Process]
    /\ jobs \subseteq Job
    /\ cmd \in [Clients -> Command] /\ \A c \in Clients : cmd[c].todo # <<>>
    /\ listed \in BOOLEAN /\ unlisted \in BOOLEAN
    /\ commands \in 0..MaxCommands
    /\ \A s \in Services : alive[s] # Down => s \in inState /\ dir # "missing"

\* What deploy or services up waits for: a service that is up runs the version
\* that the command has synced, with what setup and build made of that very
\* version, whatever earlier commands left behind.  Exceptions: another
\* command or an abandoned request changed the run meanwhile, the project was
\* edited during the copy, or the stop failed with a service up, which deploy
\* passes over.
DeployedIsFresh ==
    \A c \in Clients : \A s \in cmd[c].services :
        (/\ At(c, "wait") /\ alive[s] # Down
         /\ cmd[c].alone /\ cmd[c].stopped /\ cmd[c].from \in Versions)
        => alive[s] = [from |-> cmd[c].from, prepared |-> TRUE]

\* A cleanup, or the --fresh of a deploy, that comes to remove a run directory
\* leaves no process behind that state.json, which goes with it, records
\* ("cleanup run stops services first"): unless it was told not to stop them,
\* the run changed meanwhile, or it is one of those that pass over a failing
\* stop.
CleanupEndsServices ==
    \A c \in Clients :
        (/\ At(c, "remove") /\ cmd[c].alone /\ cmd[c].kind # "removal"
         /\ cmd[c].stopped \/ (worker = "remote" /\ cmd[c].kind = "cleanup"))
        => \A s \in Services : alive[s] = Down

\* The services of a run are only up when the run is in the registry, where the
\* monitor finds it: whatever comes to start them has registered it first, and
\* only one that has removed the run directory, and with it the records of its
\* processes, takes it out.  Exceptions: a mirror's run, which is registered last;
\* a run of which the last registration failed, which the command that then
\* starts its services passes over in silence; and one that another command has
\* taken out of the registry, or dropped from it by saving an older copy.
RunningIsListed ==
    (worker # "mirror" /\ ~unlisted /\ \E s \in Services : alive[s] # Down) => listed

\* The source is what an rsync that began with that version has made of it,
\* which is several versions when edits came in between.
CopyOf(from) == source = from \/ (source = Mixed /\ from < edit)

\* A watch that waits, without an event or a notification left, has brought
\* every change that its watcher had an event of to the worker, those that came
\* during its syncs included: the source is what an rsync that began after the
\* last of them has copied.  Of changes without an event it says nothing.  The
\* exception: other commands or requests changed the run since the watch took
\* its last notification.
WatchKeepsUp ==
    \A c \in Clients :
        (/\ cmd[c].kind = "watch" /\ At(c, "listen")
         /\ ~cmd[c].events /\ ~cmd[c].told
         /\ cmd[c].heard # None /\ cmd[c].alone /\ ~Disturbed(c))
        => /\ cmd[c].from \in Versions /\ cmd[c].heard <= cmd[c].from
           /\ CopyOf(cmd[c].from)

(***************************************************************************)
(* Why they hold: an inductive invariant                                   *)
(***************************************************************************)

\* What is left of a command when n + 1 steps are left of it.
Countdown(todo, steps) ==
    /\ Len(todo) <= Len(steps)
    /\ \A i \in DOMAIN todo : todo[i] \in steps[Len(todo) - i + 1]

Deploying ==
    <<{"wait"}, {"start"}, {"stop"}, {"build"}, {"setup"}, {"save"}, {"copied"}, {"rsync"},
      {"prepare"}, {"unsave", "install"}, {"remove"}, {"stop"}, {"exists"}>>

BringingUp ==
    <<{"save"}, {"wait"}, {"start"}, {"stop"}, {"build"}, {"setup"}, {"prepare", "install"},
      {"prepare", "copied"}, {"copied", "rsync"}, {"rsync"}>>

CleaningUp == <<{"unsave"}, {"remove"}, {"stop"}, {"prepare", "save"}>>

Controlling == Asks \cup {"prepare", "rsync", "copied", "save"}

WatchSteps == {"open", "listen", "settle", "prepare", "rsync", "copied", "save", "restart",
               "end"}

Watching(todo) ==
    \A i \in DOMAIN todo :
        /\ todo[i] \in WatchSteps
        /\ todo[i] = "open" => i = 1 /\ todo[2] = "listen"
        /\ todo[i] = "settle" => i + 1 \in DOMAIN todo /\ todo[i + 1] = "prepare"
        /\ todo[i] = "prepare" => i + 1 \in DOMAIN todo /\ todo[i + 1] = "rsync"
        /\ todo[i] = "rsync" => i + 1 \in DOMAIN todo /\ todo[i + 1] = "copied"
        /\ todo[i] = "copied" /\ i > 1 => todo[i - 1] = "rsync"
        /\ todo[i] = "listen" => \A j \in DOMAIN todo : j > i => todo[j] = "end"

\* A command has steps left of its kind, in their order.
OnCourse(k) ==
    /\ k.kind = "none" => k.todo = <<"idle">>
    /\ k.kind = "forget" => k.todo = <<"unsave">>
    /\ k.kind = "other" => Countdown(k.todo, <<{"save"}, {"load"}>>)
    /\ k.kind = "deploy" => Countdown(k.todo, Deploying)
    /\ k.kind = "up" =>
          /\ Countdown(k.todo, BringingUp)
          /\ \A i \in DOMAIN k.todo : k.todo[i] = "rsync" => i = 1 /\ k.todo[2] = "copied"
    /\ k.kind = "sync" =>
          Countdown(k.todo, <<{"save"}, {"copied"}, {"rsync"}, {"prepare"}>>)
    /\ k.kind = "cleanup" => Countdown(k.todo, CleaningUp) /\ k.services = Services
    /\ k.kind = "removal" => Countdown(k.todo, <<{"unsave"}, {"remove"}, {"prepare"}>>)
    /\ k.kind = "control" => \A i \in DOMAIN k.todo : k.todo[i] \in Controlling
    /\ k.kind = "watch" => Watching(k.todo)

\* The steps up to its wait that a deploy or services up has left.
Ahead(k) == IF k.kind = "up" THEN Len(k.todo) - 1 ELSE Len(k.todo)

\* The command that waits for a job, if any, waits for that one only, and
\* where it has asked for it.
Awaited ==
    \A j \in jobs : \A c \in j.by :
        /\ j.by = {c}
        /\ \A i \in jobs : c \in i.by => i = j
        /\ At(c, j.op) \/ (j.op = "start" /\ At(c, "restart"))
        /\ j.op = "stop" => j.rest = Subject(cmd[c])

Undisturbed(c) == cmd[c].kind \in RunKinds /\ cmd[c].alone

\* Next to an undisturbed command there is none that works, and nothing in
\* the daemon but what it asks for, and a stop that it has given up.
AloneIsAlone ==
    \A c \in Clients : Undisturbed(c) =>
        /\ \A b \in Clients \ {c} : ~Working(b)
        /\ \A j \in jobs : j.by = {c} \/ (j.by = {} /\ j.op = "stop")

Starts == {"start", "restart"}

\* What starts services is only asked for when the run was saved.
StartsAreListed ==
    (worker # "mirror" /\ ~unlisted /\ ~listed) =>
        /\ \A j \in jobs : j.op \notin Starts
        /\ \A c \in Clients : \A i \in DOMAIN cmd[c].todo :
               cmd[c].todo[i] \in Starts => \E n \in 1..i : cmd[c].todo[n] = "save"

AllDown == \A s \in Services : alive[s] = Down

\* A removal takes the records of all services.
UnsavedIsDown(c) == Undisturbed(c) /\ At(c, "unsave") => AllDown

\* How far a deploy or services up has come: with its sync, what setup and
\* build made of it, and what runs of it.
Deployed(c) ==
    LET k == cmd[c]
    IN  /\ k.from \in Versions /\ ~At(c, "copied") => source = k.from
        /\ Ahead(k) <= 4 => made.setup = source
        /\ Ahead(k) <= 3 => made.build = source
        /\ \A j \in jobs : c \in j.by /\ j.op \in {"setup", "build"} => j.clean
        /\ (Ahead(k) \in {1, 2} /\ k.stopped /\ k.from \in Versions)
           => \A s \in k.services :
                 alive[s] # Down => alive[s] = [from |-> k.from, prepared |-> TRUE]

Deploys(c) ==
    /\ At(c, "rsync") => cmd[c].from = None
    /\ cmd[c].kind = "deploy" /\ Len(cmd[c].todo) >= 8 => cmd[c].from = None
    /\ cmd[c].alone => Deployed(c)

\* A round of a watch, up to its copy.
Begun == {"settle", "prepare", "rsync"}

\* What a watch has heard of, what it has synced, and what is there.
Watched(c) ==
    LET k == cmd[c]
    IN  /\ k.heard \in (0..edit) \cup {None} /\ k.from \in (0..edit) \cup {None}
        /\ At(c, "open") => k.from = None /\ k.heard = None
        /\ (Head(k.todo) \notin Begun /\ k.heard # None /\ ~(k.differs /\ (k.events \/ k.told)))
           => k.from # None /\ k.heard <= k.from
        /\ At(c, "copied") => k.from # None
        /\ (k.alone /\ k.from # None /\ Head(k.todo) \notin Begun \cup {"open", "copied"})
           => CopyOf(k.from)

\* What a command relies on.
Own(c) ==
    /\ UnsavedIsDown(c)
    /\ cmd[c].kind \in {"deploy", "up"} => Deploys(c)
    /\ cmd[c].kind = "watch" => Watched(c)

\* The inductive invariant.
DInv ==
    /\ TypeOK /\ (\A c \in Clients : OnCourse(cmd[c]))
    /\ Awaited /\ AloneIsAlone
    /\ StartsAreListed /\ RunningIsListed
    /\ (\A c \in Clients : Own(c)) /\ CleanupEndsServices

=============================================================================
