# Specifications of workyard

TLA+ modules, TLC configurations and TLAPS proofs for `workyard`, a Go program
that mirrors a project directory to worker machines and runs the project's
services there. All source paths below are relative to the repository.

## 1. Inventory

`workyard` is one binary with two roles: a command line tool on the
developer's machine and, on each worker, a daemon that runs services. They
meet over ssh and rsync (the tool starts `workyard` on the worker, copies files
to it) and over a unix socket with one JSON request per connection (the tool,
or a `workyard` started over ssh, calls the daemon of its machine).

| Part | State | Operations | Talks to | Hard behaviour | Correct when |
|---|---|---|---|---|---|
| Worker daemon, service lifecycle (`internal/worker/lifecycle.go`, `daemon.go`, `process.go`, `state.go`) | `state.json` of every run, child processes, `d.mu` | start, stop, restart, status, wait, inspect, urls, probe, shutdown, recovery | command runner, health URLs, the kernel | a goroutine per connection and per child, long waits inside and outside the mutex, children that die, outlive the daemon, or whose pid is reused; failing saves | records tell the truth, only own processes are signalled, nothing that runs is forgotten, stop stops, requests end |
| Ports (`ports.go`) | assigned ports in `state.json` | `parsePortRange`, `allocatePort` | the kernel's port table | check-then-use, reuse of an earlier port, several runs | services that run have different ports |
| Daemon process (`daemon.go` Serve, lock, socket; `internal/remote/remote.go`; `internal/cli/cli.go` daemon commands) | `daemon.lock`, `workyard.sock`, log | Serve, start, stop, restart, force stop, ensure | ssh, flock, the socket | two starters race; a stop times out; a stale socket | at most one daemon serves, a restart ends with the new binary |
| Setup, build and lifecycle commands (`project_lifecycle.go`, `lifecycle_command.go`, `internal/command`) | event logs | setup, build, beforeStart, onClose | child processes with timeouts | a timeout races the exit | the first failure stops the sequence |
| Readers (`readers.go`, `internal/logs`) | log and event files | logs, events, inspect, wait, urls, probe | daemon state | | read-only, but each status poll refreshes the records |
| Syncer (`internal/syncer`) | run root on the worker | Run, RunLocal | rsync, ssh | partial failure | config of a run equals the synced source |
| Mirror profiles (`internal/mirror/store.go`, `presets.go`) | profiles file | Resolve, Upsert, SetEnabled, Rename, Delete | several CLI processes | read-modify-write without a lock | no profile lost, IDs unique |
| Mirror destinations (`internal/mirror/remote.go`, `doctor.go`) | destination directory and its marker file | CheckDestination, ReadyDestination, EnsureDestination, Sync, WriteMarker, DeleteRemote | ssh, rsync | two machines or profiles use one destination; steps fail half way | never sync into, or delete, a directory that is not this profile's |
| Mirror runner and watcher (`internal/mirror/runner.go`, `internal/watch`) | runtime state per profile, snapshots | Run, runProfile, Changes | file system, Sync | changes while a sync runs, coalesced notifications, failing syncs | the last change reaches the destination |
| Mirror process and service bridge (`internal/cli/cli.go` mirror commands) | pid file, profiles, registry | setup, start, stop, watch, delete, rename, services up/cleanup, doctor fixes | runner, daemon, registry | pid files and pid reuse, two starts | at most one mirror process, stop signals the right one |
| Registry of runs and workers (`internal/registry`) | `runs.json`, `workers.yaml` | Upsert, Remove, Prune, Resolve | CLI processes, monitor | read-modify-write without a lock | no run lost |
| Deploy and run commands (`internal/cli/cli.go`) | none of its own | deploy, up, cleanup, watch | all of the above | a long sequence, one step fails | the order of steps, no services of an old version |
| Remote helpers and installation (`internal/remote`, `internal/cli/update.go`, `scripts`) | binaries | install, update, cleanup | ssh, GitHub | interrupted installs | the binary is replaced at once |
| Monitor (`internal/monitor`) | cached snapshot of all runs | Refresh, serve | registry, daemons | concurrent fetches, slow workers | one result per registered run |
| Bootstrap, doctor, configuration, ids, output (`internal/bootstrap`, `doctor`, `config`, `globalconfig`, `runid`, `output`) | none | pure or interactive | | | validation, classification |

## 2. Modules

Built, in this order:

| Module | Kind | Models |
|---|---|---|
| `ServiceDaemon` | component | service lifecycle of the worker daemon |
| `MCServiceDaemon` | TLC instances | |
| `ServiceDaemonProofs` | theorems | type correctness, the inductive invariant, four of the checked properties |
| `ServiceLifeProofs` | theorems, extends `ServiceDaemonProofs` | the mutex and the loop that terminates processes; the refinement of `ServiceLife` |
| `DaemonProcess` | component | the daemon as a process: lock, socket, pid file; its clients, remote and local |
| `MCDaemonProcess` | TLC instances | |
| `DaemonProcessProofs` | theorems | one daemon at a time, its socket and lock file, restarts, forced stops |
| `SourceWatch` | component | the watcher of a source directory |
| `MirrorWatch` | component, extends `SourceWatch` | the mirror process: initial syncs, a loop per profile, the runtime state file |
| `MirrorWatchProofs` | theorems | type correctness, the state file, "what is noticed is mirrored" |
| `ServiceLife` | abstract specification | what the daemon shows of a service's life; `ServiceDaemon` implements it |
| `PortAllocation` | component | ports of a run's services, from the configuration to the listening process |
| `MCPortAllocation` | TLC instance | |
| `PortAllocationProofs` | theorems | all four checked properties of the ports |
| `ProfileStore` | component | the profiles file: what one command makes of the file it has loaded |
| `MirrorDestination` | component, extends `ProfileStore` | a destination and its marker: one operator per command over ssh |
| `MirrorCommands` | composition, extends `MirrorDestination` | the mirror commands of several tools, the background mirror and its pid file |
| `MCMirrorCommands` | TLC instance | |
| `MirrorCommandsProofs` | theorems | all five checked properties of the mirror commands |
| `Deploy` | component | one run: deploy, services up, sync, watch, control, cleanup and the registry of runs, against the daemon's requests |
| `MCDeploy` | TLC instance | |
| `DeployProofs` | theorems | all five checked properties of the run and its commands |

How they divide the system: `ServiceDaemon` is one daemon's life seen from its
services, and takes for granted that no other daemon writes `state.json`;
`DaemonProcess` shows that (`OneOwner`), with the services as stages that take
time. `PortAllocation` is the same daemon with the mutex's critical sections
as single steps and the kernel's port table in the place of its process table.
`Deploy` sees the daemon from the command line: a request there is a job with a
step per service, whatever `ServiceDaemon` has inside it. `MirrorWatch` is on
the other side of ssh: it decides when a sync is due and needs `Sync` to copy
what it finds; `MirrorCommands` decides where a sync goes, and lets it be due
at any time.

Every safety and action property of a passing run is also a theorem (section 9).

## 3. ServiceDaemon

### State and code

| Variable | Code |
|---|---|
| `rec` | `state.json` of one run: status, healthy and `ProcessID` of every service (`types.go:50-75`); status `absent` is a service without an entry |
| `procs`, `born` | the process instances started so far: pid, whose they are, `alive`, `zombie` (dead, not waited for) or `gone`, the last signal, and whether the parent is this daemon. An instance is what `processIdentityMatches` compares (pid, process group, start time), so two instances may have one pid, one after the other |
| `mu` | `d.mu`, where a critical section lasts: the actor that holds it, or `Free` |
| `task` | the local variables of every connection's goroutine and of `Main`, the goroutine of `Serve`: program counter, request, services left (`todo`), services to be marked stopped (`done`), the process at hand, the health verdict |
| `exits` | the goroutines of `waitForExit` that returned from `cmd.Wait` and wait for `d.mu` |
| `up`, `boots` | the daemon process |

A critical section that never blocks is one action that requires `mu = Free`
(`Prepare`, `MarkFailed`, `ApplyHealth`, `Finish`, `StatusRequest`,
`RecordExit`). Two critical sections last: `SpawnProcess` to `RecordSpawn` (the
process exists before its record does) and `StopLock` or `ShutdownLock` to
`SaveStopped` (up to the grace period per service). Everything else interleaves:
other handlers, deaths, `cmd.Wait`, foreign programs that get a free pid, a
shutdown, a crash, and the recovery of the next daemon.

Abstractions, each on purpose:

- One run. The mutex and the loops of recovery and shutdown are shared by all
  runs, records are not; ports, where runs meet, are a module of their own.
- `d.processes` is written and never read, and is left out.
- `time.Duration`s are choices: the grace period may end at any time after
  SIGTERM, a health wait at any time.
- `healthOK` answers anything. `waitInitialHealth` is its last look at the
  process, then the verdict.
- The process group is one process: that the leader may go before its group
  does is a hazard listed without a property.
- Reads of `state.json` fail only together with its writes (`DiskErrors`).
- `wait` is a sequence of status requests.

### Constants of the instances

`MaxProcs` bounds the process instances of a behaviour, `MaxBoots` the
daemon's restarts. Two instances and two pids are what pid reuse, a lost
process and a late exit watcher need (a process, and its successor or a
foreign one); two clients are what every race of handlers here needs, as a
handler meets one other at a time in `state.json`. The liveness run has one
process, one pid and two clients: what can block there is the mutex, and all
of its holders and waiters are present.

### Runs

| Run | Checks | Shows |
|---|---|---|
| `daemon_safety` | `TypeOK`, `RecordsAreTruthful`, `SignalsOnlyOwn`, `NeverForgotten`, `StoppedStays`, `ImplementsLife` | two clients, one service with health URL and beforeStart, failing saves, pid reuse, a crash and a recovery |
| `daemon_services` | `RecoveryIsTruthful`, `ShutdownStopsRecorded` | one client, two services, requests that name one, the other or all of them |
| `daemon_live` | `RequestsAnswered`, `ExitIsRecorded`, `TerminatedDies`, `ShutdownEnds` | two clients, the exit watcher and the shutdown wait for each other |
| `daemon_stop_all` | `StopStopsAll`, violated | the finding below |

`CHECK_DEADLOCK FALSE` is set everywhere: with its restarts used up, a daemon
that is down stays down, and the system has stopped.

`FastReuse = FALSE` says that the kernel does not come back to a pid within
the five seconds in which a stop polls it. Without it `SignalsOnlyOwn` is
false: `terminateProcessGroup` verifies the identity once, and sends SIGKILL to
the number five seconds later (`lifecycle.go:583`).

`NeverForgotten` names the three steps that do forget a live process: a late
exit watcher, the second spawn of two overlapping starts, and the preparation
of a service whose record is marked failed over a live process.

### ServiceLife

`ServiceLife` is what a client may rely on when it looks at a service twice: it
is absent, in preparation, up or down; a process is shown at most once, after it
was started, and never again after it was let go; a service is up only with a
process. `ServiceDaemon` implements it under the mapping of `Life`: `Shown(s)`
reads the status of the record, the process is the recorded instance, and
`fresh` are the instances that a handler has spawned and not yet recorded.
`ImplementsLife == Life!Spec` is a property of `daemon_safety`. It fails as soon
as a health verdict is applied as the whole record that was observed (the
mutant of `HealthResult`): a stopped or replaced process would come back. That
the overlapping starts of `NeverForgotten` replace one process by another is
a behaviour of `ServiceLife`; which processes are left running is not visible
there, and is what `NeverForgotten` is for.

### Fairness

Every handler and `Main` are strongly fair: the Go scheduler runs every
runnable goroutine, and `sync.Mutex` passes itself to a waiter that it has
starved for a millisecond, so a goroutine that is again and again able to lock
`d.mu` gets it. Strong fairness per actor, not per action, assumes nothing
about which way a choice goes: a process may ignore SIGTERM for ever. A zombie
is waited for (weak fairness of `Reap`), the kernel ends a process after
SIGKILL (weak fairness of `Die` for killed ones). Nothing is assumed about
clients, crashes, restarts or processes that were not killed.

### Finding

`StopStopsAll` is what the README promises ("Stop services (all services when
none are named)"). `waitForExit` rewrites the record of its service without
looking whose process it names by now (`lifecycle.go:249-263`). When the
service was started again before the exit watcher of the old process got the
mutex, the new process loses its record; `stop` then finds no pid, marks the
service stopped, and the process runs on.

## 4. DaemonProcess

### State and code

| Variable | Code |
|---|---|
| `daemons` | every launch of `workyard daemon` for one state directory: how far `Serve` (`daemon.go:32-105`) is, its pid, and whether it was told to stop (`d.shutdown` is closed, or SIGTERM has come) |
| `holder` | who has the `flock` on `daemon.lock`; the kernel frees it with the process |
| `lockFile` | what `daemon.lock` says: nothing yet, emptied by `Truncate`, or a pid. It stays behind |
| `sock` | who bound the file `workyard.sock`; a killed daemon's file stays behind |
| `client` | the command line tools: `EnsureDaemon`, `StopDaemon`, `RestartDaemon` and `forceStopDaemon` over ssh (`remote.go:230-336`), `daemon start` and `daemon stop` on the machine itself (`cli.go:4764-4957`) |
| `foreign`, `hit` | programs with a pid that are no daemon, each with whether its command line looks like a daemon's (`alike`), and whether a forced stop signalled one that does not |
| `launched`, `crashes` | counters for the bounds |

The stages of a daemon are the calls of `Serve` in their order: `TakeLock`,
`WriteLock` (twice: truncate, write), `RemoveStaleSocket`, `Listen`, `Recover`,
the accept loop, and then the deferred calls last in first out: services are shut
down, `RemoveSocket`, `ReleaseLock`. `closing` is the time `shutdownServices` takes.

Abstractions:

- A ping or a shutdown request reaches the daemon and is answered in one step
  (`ShutdownAnswer`, which may be lost, is a step of its own). The accept loop
  answers; during recovery the connection waits in the backlog, which for the
  client is neither an answer nor a failure.
- Time: `SlowPolls` says that a poll may give up although its daemon is still on
  the way; without it a poll gives up only when nothing will change.
- `SshLoses` names the requests that may fail on the way. Local commands lose
  none.
- `ForceCheck` may refuse any process: the command line of a daemon started
  locally without `--socket` is not recognised by the script.
- The script's last SIGKILL and its polls are one step, with the pid still
  there or not.
- The script's pattern, `*'workyard daemon'*"$socket"*` (`remote.go:331`), also
  matches programs that are no daemon: `workyard daemonctl ... --socket <socket>`,
  which every client runs on the worker, and the shell that launches a daemon
  (`remote.go:249-258`). Such a program (`alike`) may get the pid that
  `daemon.lock` still names; `Recognized` takes it for the daemon, and it is
  signalled. `ForceSparesOthers` is therefore about the others, the programs that
  do not look like a daemon.

### Runs

| Run | Checks | Shows |
|---|---|---|
| `daemon_process` | `TypeOK`, `OneOwner`, `ServingReachable`, `LockFileNamesOwner`, `ForceSparesOthers` | two clients, three launches, one kill; ssh loses anything, polls give up early, pids are reused between a daemon's end and a forced stop |
| `daemon_process_live` | `RestartReplaces`, `StartServes`, `ToldEnds` | a restart goes on only when the old daemon no longer listens; with no more kills a launch leads to a serving daemon; a daemon told to stop ends |
| `daemon_restart` | `RestartEndsServing`, violated | the finding below, with one local client and nothing failing |

Bounds. Three launches are a daemon, its successor and the rival of another
client; two pids, three daemons and a foreign process make the reuse of a pid
unavoidable; one kill leaves the stale lock file and socket. Clients and pids
are interchangeable, which the run without liveness uses as symmetry.
`CHECK_DEADLOCK FALSE`: when launches are used up, a client that wants to launch
stays where it is.

`FastReuse = FALSE` says that a pid is not reused between a forced stop's look at
the command line and its last signal, eight seconds at most. `Lookalikes = TRUE`
lets the foreign program look like a daemon; the run with liveness leaves such
programs out, for its size.

Fairness: weak, for every daemon and every client that is in the middle of a
command: processes run. Nobody has to give a command, no daemon has to be
killed.

### Finding

After `workyard daemon stop && workyard daemon start`, which the tool advises
(`cli.go:4826`), no daemon may be running. `stop` returns with the first ping that
fails, and the listener is the first thing that a daemon closes; its lock goes
last, after up to five seconds per service. The daemon that `start` launches
meanwhile fails to get the lock and exits, and nobody launches another one.
`RestartDaemon`, which `deploy` uses, has the same steps.

## 5. SourceWatch and MirrorWatch

### State and code

| Variable | Code |
|---|---|
| `src`, `dir`, `edits` | the files of every `LocalRoot`, as versions; whether a subdirectory has been made yet |
| `kind` | how `Changes` watches a root (`watch.go:78-156`): not yet, by fsnotify, or by polling when fsnotify cannot be had |
| `watched`, `refused`, `events`, `at` | which directories have an inotify watch and which the kernel refused one (history: the code drops the error, `watch.go:114, 188`), the kernel's queue, and the goroutine of `Changes` between `addWatchTree` of a new directory and `sendChange` |
| `snapshot` | the last `Snapshot` of a polling watcher |
| `token` | `changes`, a channel of capacity one, whose sender drops what does not fit |
| `turn`, `pc`, `todo`, `result` | `Run` (`runner.go:162-225`): whose initial sync is due; `runProfile` (`227-272`): where each goroutine is, what its rsync has not read yet, how its last sync ended |
| `lock`, `copy`, `state` | `StateStore.Set` (`91-144`): the mutex, the file as read, the file |
| `dst` | the mirrored files |
| `seen` | history: the files whose last edit came while their watcher ran and in a directory that had not been refused a watch |

Abstractions: an edit is a write, a creation or a removal; rsync reads each file
at a moment of its own, after the sync began and before it ended; patterns that
exclude files are taken as given; registering a tree of watches, or taking a
snapshot, is one step; a mirror includes all files, so that the event of a new
directory always notifies (`watch.go:117`, `runner.go:228-235`); the kernel's queue does not overflow and merges equal
events; writes of the state file succeed. `--once` and other processes that
sync the same profile are left out, and so is the end of the mirror process,
whose successor begins with new initial syncs.

### Runs

| Run | Checks | Shows |
|---|---|---|
| `mirror_watch` | `TypeOK`, `OwnStatus`, `QuietIsFresh`, `NoticedArrives`, `AllWatched` | two profiles, three edits whenever it hurts, failing syncs: nothing that a watcher could notice is lost in the channel, during a sync or in a directory without a watch; statuses are not overwritten by other profiles; a failing profile does not keep others from being watched |
| `mirror_edits` | `EditsArrive`, violated | the finding below |

With `Refusals` the kernel may refuse any watch. A directory without a watch is
silent: nothing in it is noticed, directories made in it get no watch either,
and `Changes` does not fall back to polling. `QuietIsFresh` and `NoticedArrives`
are therefore about edits in the other directories; an edit in a silent one is
lost with the status `synced`. `mirror_edits` leaves refusals out: its edit is
lost without any.

Three edits are enough for one before, one during and one after a sync of one
profile, or for edits of both; two profiles are what the mutex and the round
of initial syncs need, since every goroutine meets one other at a time there.
`CHECK_DEADLOCK FALSE`: the user may stop editing.

Fairness: watchers run (weak); the goroutine of a profile runs and gets the
mutex (strong, for the reason given in section 3); every sync ends, well or
not. rsync is started without a timeout, so that last assumption is about the
network.

### Finding

The README promises that local commits reach the worker "without restarting the
mirror". An edit that comes after the initial sync of its profile and before its
watcher runs does not: there is no event for it, and a polling watcher has it in
its first snapshot. The initial syncs of all other profiles lie in that window. The
status stays `synced`.

## 6. PortAllocation

### State and code

| Variable | Code |
|---|---|
| `records` | `state.json` of one run: status, `AssignedPort` and process of every service |
| `procs` | the processes spawned: the port and the environment each was given (`serviceEnvForRun`), the port its health URL names (`runtimeHealthURL`), whether it lives or is a dead one whose exit watcher waits |
| `listener` | the kernel's table: who listens on a port, one of these processes or another program (`Foreign`) |
| `starts` | the starts under way: the services that the plan has prepared and the process at hand |
| `count` | counter for the bound |

`StartPlan` is the critical section at the head of `start`: the configuration is
validated, then the services, in the order of their names, get their ports from
`allocatePort` and `preparing` records. `Spawn` and `Verdict` follow per
service, with stops, status polls, exit watchers (`Exit`) and other starts in
between. `Bind` comes later still: a service listens when it likes, and another
program may have been faster (`ForeignBind`).

Abstractions: the critical sections under `d.mu` are one action each, and saves
do not fail (`ServiceDaemon` has both); the verdict is observed and applied in
one step; pids are not reused; services of other runs are foreign programs, for
`allocatePort` looks at the records of its own run only and sees theirs just by
probing; a health URL has the configured port.

History, in processes and plan entries: `held` is true as long as the record
written by the plan has reserved the port ever since; `robbed` when another
program listened on it first; `start` is the start that spawned the process, if
no other was under way.

### Run

| Run | Checks | Shows |
|---|---|---|
| `ports` | `TypeOK`, `PortsAreDistinct`, `PeersAreNamed`, `HealthyIsOwn` | two starts at a time, two services, two ports, a foreign program: services get different ports, each is told those of the others, and `healthy` is a service's own answer |

`MCConfigs` has services that want the same port, a range with fewer ports than
services, a port that is none and a range outside the ports; the last two are
refused. Two ports and two services make every collision possible that one
service can have with another or with the foreign program; two starts are the
least that overlap. Deadlock is checked.

The properties name where the code does give one port out twice:

- the earlier port of a service is kept when nobody listens on it
  (`ports.go:38`), although another service that is still preparing may have
  been promised it, and although it may lie outside a changed `portRange`;
- an exit watcher of an old process, or a second start of a service, overwrites
  the record that reserves a port;
- between the probe and the service's own `listen` anybody may take the port.
  In particular two runs that start at once may get the same port, so the
  conflicts of which `docs/testing.md:54` speaks are resolved only between
  services that listen already.

## 7. ProfileStore, MirrorDestination and MirrorCommands

### State and code

| Variable | Code |
|---|---|
| `file`, `present` | the profiles file (`mirror/store.go`), and which local roots exist: `load` normalises every profile, and fails when one root has gone |
| `dir`, `marker` | what is at a destination, with the inode number that `stat` shows and, as history, which of the directories that have been there it is (`gen`); the marker file next to it (`mirror/remote.go`) |
| `owner` | history: the mirror whose sync last ended well in this very directory |
| `cmd` | every tool and every mirror process: the step it is at, its profile, the file as loaded, what it knows of the directory |
| `process`, `served` | the launches of the background mirror, and the profiles that each has read at its start |
| `pidFile` | `mirror.pid` |
| `commands`, `launched`, `outside` | counters for the bounds |
| `raced` | history: commands about the pid file overlapped, were cut off, or gave up on a process |

`ProfileStore` has the pure part: `Resolve`, `Put`, `Without`, `FreeIds`, `Minted`.
`load` is more than a read: it gives every profile without an id one, and then
saves the whole file (`store.go:259-279`). Every load may therefore be two steps,
`MintLoad` and `MintSave`, of a command that only reads, of a mirror process, or
before the load of setup, delete and start. `Loaded` says that this load finds
nothing to change.
`MirrorDestination` has one operator per command that runs over ssh
(`destinationCheckScript`, prepare, rsync, identity, marker, delete).
`MirrorCommands` puts them in order: `SetupBegin`, `SetupLook`, `SetupRead`,
`Load`, `Save` is `mirror setup`; `DeleteRead` to `DeleteRemove` is
`DeleteRemote` before the profile goes; `SyncPrepare`, `SyncCopy`, `SyncStat`
and `SyncMark` are `Sync`, of a tool or of the mirror process; `ReadyLook`,
`AutoLook`, `UseRead` are what shell, exec and services ask before they use a
directory; `StartBegin` to `Unlink` are `start` and `stop`; `FixPid` to
`FixEnsure` are `doctor --fix`. Every step may fail or be interrupted (`Fail`).

Abstractions: one machine; a worker and a path on it are one destination; what
rsync copies and excludes is the subject of `MirrorWatch`; the place inside the
directory where earlier versions kept the marker is left out (their markers, which
may have no `DestinationID`, are not: `OldMarkers`);
a mirror process runs one sync at a time; a doctor or a sync over all profiles is
one over each; a local root has files; prompts are inputs; `--dry-run` and
`--once` are left out. A new directory gets any number of `Inodes`, that of an
earlier one included (`Fresh`): the file system gives them again.

### Run

| Run | Checks | Shows |
|---|---|---|
| `mirrors` | `TypeOK`, `StopReaches`, `SavesKeepOthers`, `AcceptedIsOwn`, `DeletesOnlyOwn` | two tools, a background mirror and its successor; three commands, syncs or interventions from outside, at most two of them from outside |

Two ids, one name and two roots make profiles of the same name, profiles of the
same name and root with different ids, and a destination that is not one's own;
one destination is the case in which mirrors meet. `MaxCommands` counts commands,
syncs of the mirror process and interventions together: three are, for
instance, a setup, a sync of another profile in between, and a delete; or a delete
while the directory is replaced twice; or a start, a pid that another program gets,
and a stop. An intervention is a directory put in the place of a destination, a
local root that goes or comes back, or such a pid. At the start there is at most
one profile, with an id or without, and its destination may have a marker of an
earlier version. Two inode numbers are one that comes again and one that does
not. Tools, ids, roots and inode numbers are interchangeable, which the run uses
as symmetry. TLC finds 0.4 million states, in a minute. With one name and
names that are no ids, the fallback of `Delete` to a profile that is named like an
id (`Targets`) does not happen in the run; the theorems have it.
`CHECK_DEADLOCK FALSE`: the user may stop giving commands.

Where the properties have exceptions, the code has no defence: a save whose
copy of the file is stale drops the other's change, and with profiles that have no
id the stale save may be that of a `list`; a destination may change
between a look and what follows; `delete --delete-remote` compares nothing when the
marker has no `DestinationID` (`remote.go:308`), and is content with a directory
that somebody has put there when the file system gave it the number of the old one
(`remote.go:403`); overlapping starts leave a mirror process
that no pid file names. Also observed while modelling, and part of the model:

- One local root that is missing makes every command of the store fail, `list`,
  `delete` and `doctor` among them (`Loads`).
- `setup` gives a new profile a new id whatever is there, and does not look for
  another profile with the same worker and path; `Sync` never looks at the
  marker. `CheckDestination` compares id or name and root, but not the
  directory's identity, so a marker that stays behind makes a replaced directory
  acceptable; only `DeleteRemote` compares the identity.
- A child that has died is a zombie of the starting tool and counts as running
  (`pidRunning`, `cli.go:3958`): "mirror process exited during startup"
  (`cli.go:3910-3913`) is not reached for it, and `StartCheck` leaves the file.
- The background mirror goes on with the profiles of its start: a profile that
  was paused or deleted since is synced, and its directory made again, until
  the mirror is stopped.
- `stop` may signal another program that has the pid by now.

## 8. Deploy

### State and code

| Variable | Code |
|---|---|
| `worker` | where the run is: this machine, a worker, or a mirror on one; it decides which steps a command has |
| `edit` | the version of the local project |
| `dir`, `source`, `made` | the run directory (`bare` when it holds state and logs only), the version in its source directory (`Mixed` when parts of several), and which source `setup` and `build` made their output of |
| `inState`, `alive`, `exits` | the services that `state.json` knows, the recorded process of each with the version it runs, and the exit watchers to come |
| `jobs` | the requests the daemon works on, and the tool that waits for each, if one still does |
| `listed` | whether the run is in `runs.json` |
| `cmd` | what every tool is doing: `todo`, the steps it has left; of a watch also whether its files differ from its snapshot (`differs`), whether its watcher has events to take (`events`), the notification in the channel (`told`) and, as history, the last edit with an event (`heard`) |
| `unlisted` | history: the run is kept out of the registry, by a registration that failed, by a command that takes it out, or by the save of an older copy |

A command is a sequence of step names, built from named parts that follow the
functions of `cli.go`: `Deployment == Sync \o Relaunch` is `runDeploy`,
`ServicesUp` is `mirror services up`, `LocalControl` and `RemoteControl` are
`localControl` and `remoteControl`, `Cleanup` is `cleanupCommand`. Each step has
an action; the requests of the daemon go on when the tool has given up on
them (`CallLost`, `Fail`).

Abstractions: one run; the daemon's mutex and verdicts are `ServiceDaemon`'s; a
deploy skips no step and a sync has `--delete`; an installation is not combined
with `--fresh`; the preflight of the doctor and the calls for URLs, which change
nothing, are left out, and so are dry runs; the restarts of a watch may name a
service twice.

What a watch sees of an edit is left open (`Edit`), because the code sees little.
Its snapshot has the files below `watch.paths` that its include and exclude
patterns let through (`cli.go:1675`, `watch.go:28-63`): an edit of other files is not
`seen`. Of the files in the snapshot, an edit has an event (`heard`) only when
the watcher runs, the directory has a watch, and the event matches. None of these
is certain: the error of `w.Add` is dropped, at the start and for new directories
(`watch.go:114, 188`), and nobody polls instead; files put into a new directory
before its watch have no event of their own, and with `watch.include` set that of
the directory does not match (`watch.go:117`); a watch path that is a file gets no
watch at all, since only directories do (`watch.go:175`). An edit without an event
is found when the next event makes the loop take a snapshot, or never. Between an
event and its notification there may be any time (`Notify`). An edit leaves another
time or size, which is what `Changed` compares.

### Run

| Run | Checks | Shows |
|---|---|---|
| `deploy` | `TypeOK`, `DeployedIsFresh`, `CleanupEndsServices`, `RunningIsListed`, `WatchKeepsUp` | two commands of two tools over a local, a remote or a mirror's run, with two edits, crashes, failing steps and requests that outlive their tool |

Two commands are one after the other or side by side, and include the deploy
after a failed, interrupted or abandoned one. The properties speak of each
service, and the requests treat services one by one, so the run has one; the
theorems are about any finite set of them. Two edits are one during and one after
a copy. TLC finds 1.6 million states, in a minute and a half.
`CHECK_DEADLOCK FALSE`: the user may stop giving commands.

`WatchKeepsUp` is about the edits that had an event: notifications merge in a channel
for one, come during the debounce, the sync or the restarts, and are compared with
snapshots that have been replaced meanwhile; none of this loses one. It promises
nothing of edits without an event.

The exceptions, which the comments of the properties name, are what the code
passes over: `deploy` and `services up` go on when their stop fails, and so do
the cleanups of local runs and mirrors; an interrupted command leaves a
request running that changes the run under the next; two tools may work on one
run. `RunningIsListed` has a registration that fails among its exceptions:
`rememberRun` says so only with `--verbose` (`cli.go:5950`), and the command goes on to
start the services, which the monitor does not find. The model also contains that
`waitForExit` and a status poll make the
directory of a removed run again with nothing but `state.json` in it (`Saved`);
that the removal from the registry, too, may fail without ending
the command; that a mirror's run is registered when all is done; and that a
restart of a service that `state.json` does not know ends a `watch`.

## 9. Proofs

### ServiceDaemonProofs

For all values of the constants,

- `TypeCorrect`: `Spec => []TypeOK`;
- `RecordsTruthful`: `Spec => []RecordsAreTruthful`;
- `OnlyOwnSignalled`: `Spec => []SignalsOnlyOwn`, assuming `~FastReuse`;
- `StoppedServicesStay`: `Spec => StoppedStays`;
- `RecoveryTruthful`: `Spec => RecoveryIsTruthful`, assuming `~DiskErrors` (a
  recovery that cannot save leaves the old records).

The argument. `RecordsAreTruthful` is not inductive: that an `exited` verdict is
still true when it is applied depends on what the handler saw earlier, and that
a process stays dead on the process table. `IInv` adds

- `ProcessTableInv`: instances are numbered by their starts, those in the table
  have different pids, exit watchers are about services;
- `OwnershipInv`: a record names a process started for its service;
- `HandlerInv`: what a handler holds between spawn and verdict is a process of
  the service it is at, an `exited` verdict stays true, and the pid a stop
  polls is not a foreign one.

The proof has three layers. `ProcsStep` classifies what a step does to the
process table (`EveryProcsStep`), and such a step keeps `ProcessTableInv` and the
history of every started process (`ProcessHistory`). `SoundRecord` and
`SoundTask` restate the invariants for one record and one task with the process
table as a parameter, so that "sound for the old table" and "stays sound in the
new one" are separate lemmas (`SoundnessLasts`, `TaskSoundnessLasts`); what each
action writes is then checked against the old table only
(`EveryStepWritesSound`, `EveryStepLeavesSoundTasks`). `StepIInv` puts them
together.

`IInv` has also been checked by TLC on the instances above.

### ServiceLifeProofs

- `NoneForgotten`: `Spec => NeverForgotten`;
- `ShutdownStops`: `Spec => ShutdownStopsRecorded`;
- `DaemonImplementsLife`: `Spec => ImplementsLife`, the refinement,

all three without further assumptions, from `LInv`, which adds to `IInv` what it
means to hold `d.mu` across steps:

- `MutexInv`: the holder is the actor between spawn and record or in the loop
  that terminates processes, and nobody else is there; a daemon that is down
  has no goroutines;
- `PlannedInv`: a service that a handler works on has an entry in `state.json`,
  and so has the service of every process that was started (`OwnersPresent`);
- `LoopInv`: while the loop runs, every recorded process that lives on without
  SIGKILL is the one being polled, or its service is not done yet. For the
  shutdown, it is even ahead of the loop if its record says that it runs.

`LoopInv` is what the two action properties need: `SaveStopped` marks exactly
`done`, and the last service of the loop leaves `todo` only with its process
gone or killed. It is inductive only with `MutexInv`, because a second loop, or
a spawn that is recorded while the loop is under way, would break it.
An actor's step is one of four kinds (`ActorKinds`: it waits for the mutex, takes
it, holds it or gives it back), so that every lemma about the loop has four
cases in place of thirty.

For the refinement, a step of the daemon is a report about the records
(`ReportStep`: every record changes as `Reported` allows, and the processes that are
spawned and not yet recorded stay the same, `FreshSame`), or one of the steps of
`start` (`StartRefines`), or a stutter. `StepRefines` puts these together.

### DaemonProcessProofs

- `DaemonTypes`, `OneDaemonOwns`, `DaemonReachable`, `LockFileTruthful`: the
  properties of the same content, without further assumptions;
- `RestartsReplace`: `Spec => []RestartReplaces`, assuming that ssh loses no
  ping (a lost one is taken for a daemon that has stopped);
- `ForcedStopsSpareOthers`: `Spec => []ForceSparesOthers`, assuming `~FastReuse`.

The first four follow from `DInv`. `LaunchInv` says that instances beyond
`launched` are unborn and that no live daemon has a foreign pid; `OwnerInv`
that whoever is in a stage from `locked` to `leaving` is the holder of the
lock, that from `identified` on the lock file has its pid, and that while it is
`recovering` or `serving` the socket is its own. Two instances in such stages
would be the same holder, and an instance that changes the lock file or the
socket is in such a stage itself.

`RestartReplaces` needs a statement about every client at every step of a restart
(`Knows`): from the answered shutdown request on, its daemon has been told to
stop; from a failed ping on, it does not listen, because a ping fails only when
nobody listens or ssh loses it. `StagesGoOn` gives the rest: a daemon that has
stopped listening never does so again. `ForceInv` says that between the check and
the last signal the pid is not that of a program that does not look like a
daemon.

### MirrorWatchProofs

- `MirrorTypes`, `StatusesAreOwn`, `QuietMirrorsAreFresh`, for any number of
  profiles, files and edits, without further assumptions; the third is
  about files in directories that were not refused a watch.

`MInv` joins `TurnInv` (before its watcher runs, only the profile whose turn it is
works), `StoreInv` (whoever is to write the state file has the mutex and the file
as it is), `DirInv` (a directory without a watch was refused one, or nobody told
that it was made, or it is on the watcher's way),
`VersionInv` (a snapshot is not ahead of the files) and `DueInv`: a file that
differs from its copy, and was edited under the watcher's eyes (`seen`), is `Due`, which
means that a sync is to read it, that a notification or an event is on its
way, or that the last sync failed. Steps of watchers and files keep it
(`DueWatchSteps`), and a profile's goroutine drops what is due only by copying it
(`DueLoopSteps`). `MInv` has been checked by TLC on two profiles with two files.

### PortAllocationProofs

- `PortTypes`, `GivenPortsDiffer`, `PeersKnowPorts`, `HealthyAnswersItself`: the
  four properties of the run, for any services, ports, configurations and
  starts.

None of the three safety properties is inductive. A port is decided in `StartPlan`,
used by a spawn several steps later and checked by a verdict after that, while
other starts, stops, deaths and other programs go on. `PInv` says what stays true
over that distance:

- `HeldInv`: what a process or a plan still holds is reserved in the record of
  its service, and two services do not hold one port. A step that rewrites a
  record makes whoever relied on the old one stop holding its port
  (`ChangeReserves`);
- `OwnInv`: a record is about a process of its service, and the port that was
  probed is the port that was given;
- `ListenInv`: on the port of a process that was not robbed nobody else listens;
  on the port of a service that an unrobbed plan has yet to spawn nobody does;
- `NamesInv`: a start that is alone finds in the records what it has planned,
  and has told all the processes it has spawned so.

Its steps are of four kinds: those that give nothing out, spawn nothing and listen
to nothing (`Fades`: what processes, plans, starts and records hold goes on as it
is or is lost), those that listen, those that spawn, and those that give ports out.
Each kind keeps `PInv` by a lemma of its own (`FadesKeepsPInv`, `ListensKeepsPInv`,
`SpawningKeepsPInv`, `GivenKeepsPInv`).

The order of the services in a start (`Awaits`: those that come later) matters
for `PeersAreNamed`: the first process of a start learns ports of services whose
processes do not exist yet.

### MirrorCommandsProofs

- `CommandTypes`, `ProfilesAreKept`, `AcceptedWasOwn`, `DeletedWasOwn`,
  `MirrorsAreNamed`: the five properties of the run, for any number of tools,
  mirror processes, profiles, destinations and inode numbers, with the exceptions
  that the comments of the properties name. In particular `DeletedWasOwn` says
  nothing of a marker without an identity, nor of a directory that has got the
  number of the one its marker names.

`CInv` consists of

- `KindInv`: where a command of each kind may be, and what it is about;
- `CopyInv`: who is about to save has a file that was one, and the present one
  unless a save came in between; the copy of a load that has given out ids is the
  file but for those. From it, `SavesKeepOthers`, and that ids are unique;
- `DestInv`: directories are numbered in their order, a marker never names one
  that has not been there yet, and a marker that is current names the last sync
  into its directory. The last holds although sync writes the marker two steps
  after its copy, because `intact` compares the two directories;
- `LookInv`: what a command has seen of its destination still holds, unless
  somebody touched it. With `DestInv` it gives `AcceptedIsOwn` and `DeletesOnlyOwn`:
  a marker that matches, and is current, is the one of the last sync
  (`CurrentIsOwn`);
- `PidInv`: if no two commands about the pid file have overlapped, there is at
  most one, and at each of its steps it knows which processes may run. This is
  the strengthening that `StopReaches` needs: in the middle of `start` the process
  runs and the pid file does not name it.

Every action is shown to leave its own command fitting the rest of the state
(`Fits`), to do nothing to the others' but to note what has become stale
(`Turn`, `Alike`), and to change one destination at most (`Shares`, `Changes`).
The parts of the invariant follow from these three once, not once per action.
`CInv`, like `PInv` and `LInv`, has been checked by TLC on the instance of its run
before it was proved.

### DeployProofs

- `DeployTypes`, `DeployListed`, `DeployCleanup`, `DeployFresh`, `DeployWatch`: the
  five properties of the run, for any number of tools, edits and commands and
  any finite set of services (`ServicesAssumption`).

None of the four properties other than the types is inductive: what a command promises at its end
depends on every step that it has made, and on what others did meanwhile. `DInv`,
which is stated at the end of `Deploy` and was checked by TLC on the instance of the
run before it was proved, says of every command how far it has come:

- `OnCourse`: the steps it has left are the last ones of its kind. A deploy is the
  same thirteen steps in any of its forms (`Countdown`), so that the number of
  steps left tells where it is; a watch may go round for ever, and is described by
  which step follows which (`Watching`);
- `Awaited`: a job in the daemon has at most one command that waits for it, and
  that command is at the step that asked for it;
- `AloneIsAlone`: next to an undisturbed command nobody works, and the daemon has
  nothing to do but its request, or a stop that it has given up;
- `StartsAreListed`: while the run is not in the registry, nobody has asked for a
  start, and who will do so has a save before it. From it, `RunningIsListed`;
- `Deploys`, with `Deployed`: the source is the synced version from `copied` on, `setup`
  and `build` are done with it after their steps, and after the stop nothing
  runs but what was started from it. From it, `DeployedIsFresh`. That the stop
  which deploy has given up may still be at work does no harm: it only takes
  processes away, which is why `AloneIsAlone` may allow it;
- `Watched`: after the copy of a round, an edit with an event that came after the
  rsync of that round began is still to be found, because the snapshot differs and
  there is an event or a notification; and the source is what that rsync has
  copied. From it, `WatchKeepsUp`;
- `UnsavedIsDown`: the removal comes before the entry goes.

The plans of all kinds of commands, which are built by concatenation from the
named parts, are shown to begin on course (`PlansBegin`), and the steps of every
round of a watch to be in their order (`RoundSteps`), for any number of
restarts. A step of a client is of one of three kinds: it does something by
itself and goes on (`Stepping`), it begins something (`Sets`), or it is about a
request (`Answers`). Each kind has one lemma for what commands share
(`SteadyShares`, `SetsPrivate`, `AnswersShare`) and one for the claims of the command
that moves (`SteppingPrivate`, `AnsweredPrivate`); all others keep their claims by
`OthersKeepClaims`, because an undisturbed command sees nothing change but
services that go down (`Kept`).

### Only model-checked

The liveness properties (`RequestsAnswered`, `ExitIsRecorded`, `TerminatedDies`,
`ShutdownEnds`, `StartServes`, `ToldEnds`, `NoticedArrives`, `AllWatched`): TLAPS does
not do fairness. What the findings refute is of course not proved either. All named assumptions about constants are evaluated by TLC in every
run.

## 10. Not modelled

- The file of workers (`workers.yaml`): `Upsert` there replaces the first match
  only, and `Remove` does not match the DNS name by which `Resolve` finds a
  worker. No step of a run waits for it.
- `Refresh` and the server of the monitor, which collect answers (its status
  requests, which do change state, are `Status` of `Deploy` and `StatusRequest`
  of `ServiceDaemon`), and the dashboard's HTML.
- The project doctor, whose checks only read, and bootstrap, whose prompts
  write one file.
- Configuration apart from its ports, `command/parse.go`, `runid`: functions on
  text, without state, on which no property here depends.
- Logs and events, which are only appended to; tailing; output.
- Installation scripts and `update`: downloads and renames; their place in a
  deploy is the step `Install`.
- What ssh, rsync, git and tmux do inside.
