--------------------------- MODULE MirrorCommands ---------------------------
(***************************************************************************)
(* The mirror commands of internal/cli/cli.go: what several command line   *)
(* tools of one machine, and the mirror process that runs in the           *)
(* background, do to the profiles file (ProfileStore), to the destinations *)
(* (MirrorDestination) and to the pid file of the mirror process.          *)
(*                                                                         *)
(* A command is a sequence of steps, each a read, a write, a signal or one *)
(* command over ssh; between two steps other commands run.  Any step may   *)
(* fail, and the user may interrupt any command: both end it where it is.  *)
(***************************************************************************)
EXTENDS MirrorDestination

CONSTANTS
    Clients,      \* command line tools
    MaxCommands,  \* bound: commands, syncs of the mirror process, and what others do,
                  \* of a behaviour
    MaxLaunches,  \* bound: mirror processes of a behaviour
    MaxOutside    \* bound: of those, what others do on the machine and the worker

ASSUME BoundsAssumption ==
    MaxCommands \in Nat /\ MaxLaunches \in Nat /\ MaxOutside \in Nat
ASSUME ActorsAssumption == Clients \cap (1..MaxLaunches) = {}

VARIABLES
    cmd,       \* what every client, and every mirror process, is doing
    process,   \* every launch of the background mirror; its number is its pid
    served,    \* the enabled profiles that each of them has read at its start
    pidFile,   \* mirror.pid
    commands, launched, outside,  \* counters for the bounds
    raced      \* history: commands about the pid file overlapped, or one of
               \* them was cut off, or gave up on a process

vars == <<file, present, dir, marker, owner, cmd, process, served, pidFile,
          commands, launched, outside, raced>>

storeVars == <<file, present>>
destVars == <<dir, marker, owner>>
procVars == <<process, served, pidFile, launched, raced>>

Launches == 1..MaxLaunches
Actors == Clients \cup Launches
NoPid == 0

NoProfile == [id |-> NoId, name |-> "", root |-> "", dest |-> "", enabled |-> FALSE]

\* p is the profile at hand, copy the file as the command has loaded it, inode
\* what a sync or a delete knows of its directory, n the process that start has
\* launched or stop has read.  History: which directory that is (gen, intact),
\* another save came after the load (stale), others changed the destination
\* after the look (touched).
Idle == [kind |-> "none", pc |-> "idle", p |-> NoProfile, copy |-> {}, force |-> FALSE,
         inode |-> NoInode, gen |-> 0, intact |-> FALSE, n |-> NoPid, stale |-> FALSE,
         touched |-> FALSE]

At(a, pc) == cmd[a].pc = pc

\* The command has looked at its destination, and relies on what it saw.
Looked(t) ==
    \/ t.pc \in {"readOwner", "identity", "remove", "readyRead", "autoRead", "use"}
    \/ t.kind = "setup" /\ t.pc \in {"load", "mint", "save"}

\* Whoever has looked at the destination has an old picture.
Outdated(b, d) ==
    IF cmd[b].p.dest = d /\ Looked(cmd[b]) THEN [cmd[b] EXCEPT !.touched = TRUE] ELSE cmd[b]

\* a changes its destination and goes on as new.
Touch(a, new) ==
    cmd' = [b \in Actors |-> IF b = a THEN new ELSE Outdated(b, cmd[a].p.dest)]
Goto(a, pc) == cmd' = [cmd EXCEPT ![a].pc = pc]
Ended(a) == cmd' = [cmd EXCEPT ![a] = Idle]

\* A mirror that an earlier version has set up may have a marker without a
\* DestinationID, and a profile without an id.
OldMarkers(d) ==
    {NoMarker} \cup
    {Marker(p, NoInode, 1, TRUE) : p \in {q \in file : q.dest = d /\ dir[d].kind = "dir"}}

Init ==
    /\ file \in {{}} \cup {{p} : p \in Profiles}
    /\ present = Roots
    /\ \E inode \in Inodes :
          dir \in [Dests -> {[kind |-> "missing", inode |-> NoInode, gen |-> 1, full |-> FALSE]}
                     \cup {[kind |-> k, inode |-> inode, gen |-> 1, full |-> k = "dir"] :
                              k \in {"dir", "other"}}]
    /\ marker \in {m \in [Dests -> UNION {OldMarkers(d) : d \in Dests}] :
                      \A d \in Dests : m[d] \in OldMarkers(d)}
    /\ owner = [d \in Dests |-> IF marker[d] = NoMarker THEN NoOwner ELSE Owner(marker[d])]
    /\ cmd = [a \in Actors |-> Idle]
    /\ process = [n \in Launches |-> "unborn"]
    /\ served = [n \in Launches |-> {}]
    /\ pidFile = NoPid
    /\ commands = 0 /\ launched = 0 /\ outside = 0
    /\ raced = FALSE

(***************************************************************************)
(* Beginning a command                                                     *)
(***************************************************************************)

BoundLeft == commands + outside < MaxCommands

\* A client starts a command, or a mirror process a sync.
Begin(a, new) ==
    /\ At(a, "idle") /\ BoundLeft
    /\ commands' = commands + 1
    /\ cmd' = [cmd EXCEPT ![a] = new]

About(kind, pc, p) == [Idle EXCEPT !.kind = kind, !.pc = pc, !.p = p]

\* Get, or List and a choice: the file is read and the reference resolved.
Got(p) == Loaded /\ \E ref \in Ids \cup Names : p \in Resolve(file, ref)

\* setup up to its first look at the destination.
SetupBegin(c) ==
    /\ \E name \in Names, root \in present, d \in Dests, force \in BOOLEAN :
          Begin(c, [Idle EXCEPT !.kind = "setup", !.pc = "look", !.force = force,
                       !.p = [id |-> NoId, name |-> name, root |-> root, dest |-> d,
                              enabled |-> TRUE]])
    /\ UNCHANGED <<storeVars, destVars, procVars, outside>>

\* sync <name-or-id>, or one of the enabled profiles of sync.
SyncBegin(c) ==
    /\ \E p \in file : Got(p) /\ Begin(c, About("sync", "prepare", p))
    /\ UNCHANGED <<storeVars, destVars, procVars, outside>>

\* shell, exec and the services commands: as it is, --auto, or --sync.
UseBegin(c) ==
    /\ \E p \in file, pc \in {"readyLook", "autoLook", "prepare"} :
          Got(p) /\ Begin(c, About("use", pc, p))
    /\ UNCHANGED <<storeVars, destVars, procVars, outside>>

\* delete, with --delete-remote or without.
DeleteBegin(c) ==
    /\ \E p \in file, pc \in {"readMarker", "load"} :
          Got(p) /\ Begin(c, About("delete", pc, p))
    /\ UNCHANGED <<storeVars, destVars, procVars, outside>>

\* Commands about the pid file; whether another one is under way.
PidKinds == {"start", "stop", "fix"}
Overlap(c) ==
    raced' = (raced \/ \E b \in Clients \ {c} : cmd[b].kind \in PidKinds)

\* doctor --fix for one profile.
FixBegin(c) ==
    /\ \E p \in file : Got(p) /\ Begin(c, About("fix", "fixPid", p))
    /\ Overlap(c)
    /\ UNCHANGED <<storeVars, destVars, process, served, pidFile, launched, outside>>

\* pause, resume and rename: load, resolve and change, up to the save.
EditBegin(c) ==
    /\ Loaded
    /\ \E p \in file, enabled \in BOOLEAN, name \in Names :
          /\ Got(p)
          /\ enabled = p.enabled \/ name = p.name
          /\ Begin(c, [About("edit", "save", [p EXCEPT !.enabled = enabled, !.name = name])
                          EXCEPT !.copy = file])
    /\ UNCHANGED <<storeVars, destVars, procVars, outside>>

(***************************************************************************)
(* setup and delete                                                        *)
(***************************************************************************)

\* The cmd of a that looks at its destination: what others do from here on
\* is noted.
Looks(a, pc) == cmd' = [cmd EXCEPT ![a].pc = pc, ![a].touched = FALSE]

\* CheckDestination, its first command.
SetupLook(c) ==
    /\ At(c, "look")
    /\ LET state == State(cmd[c].p.dest)
       IN  CASE state \in {"missing", "empty"} -> Looks(c, "load")
             [] state = "non-empty" \/ state = "marker-only" -> Looks(c, "readOwner")
             [] OTHER -> Ended(c)
    /\ UNCHANGED <<storeVars, destVars, procVars, commands, outside>>

\* ReadMarker in CheckDestination: setup goes on with a matching marker, and
\* by force with any directory that has files in it.
SetupRead(c) ==
    /\ At(c, "readOwner")
    /\ LET d == cmd[c].p.dest
       IN  IF MarkerMatches(marker[d], cmd[c].p) \/ (cmd[c].force /\ dir[d].full)
           THEN Goto(c, "load") ELSE Ended(c)
    /\ UNCHANGED <<storeVars, destVars, procVars, commands, outside>>

\* DeleteRemote reads the marker; no marker, or another profile's, ends it.
DeleteRead(c) ==
    /\ At(c, "readMarker")
    /\ LET m == marker[cmd[c].p.dest]
       IN  IF MarkerMatches(m, cmd[c].p)
           THEN cmd' = [cmd EXCEPT ![c].pc = "identity", ![c].touched = FALSE,
                                   ![c].inode = m.inode, ![c].gen = m.gen,
                                   ![c].intact = m.intact]
           ELSE Ended(c)
    /\ UNCHANGED <<storeVars, destVars, procVars, commands, outside>>

\* destinationIdentity against the marker that was read.
DeleteCompare(c) ==
    /\ At(c, "identity")
    /\ IF SameDirectory(cmd[c].p.dest, cmd[c].inode) THEN Goto(c, "remove") ELSE Ended(c)
    /\ UNCHANGED <<storeVars, destVars, procVars, commands, outside>>

\* The removal; when it is cut off the profile stays.
DeleteRemove(c) ==
    /\ At(c, "remove")
    /\ \E cutOff \in BOOLEAN :
          /\ RemoveAll(cmd[c].p.dest, cutOff)
          /\ Touch(c, IF cutOff THEN Idle ELSE About("delete", "load", cmd[c].p))
    /\ UNCHANGED <<storeVars, procVars, commands, outside>>

\* Delete resolves the id of its profile once more: the profile may have gone,
\* and another one may be named like the id.
Targets(c) == Resolve(cmd[c].copy, cmd[c].p.id)

\* The load of Upsert, which normalises the new profile too, and of Delete.
Load(c) ==
    /\ At(c, "load") /\ Loaded
    /\ cmd[c].kind = "setup" => Normalized(cmd[c].p)
    /\ IF cmd[c].kind = "delete" /\ Resolve(file, cmd[c].p.id) = {}
       THEN Ended(c)
       ELSE cmd' = [cmd EXCEPT ![c].pc = "save", ![c].copy = file, ![c].stale = FALSE]
    /\ UNCHANGED <<storeVars, destVars, procVars, commands, outside>>

\* What the command makes of the file as it has loaded it.
Changed(c) ==
    CASE cmd[c].kind = "setup" -> Added(cmd[c].copy, cmd[c].p)
      [] cmd[c].kind = "edit" -> {Put(cmd[c].copy, cmd[c].p)}
      [] cmd[c].kind = "delete" -> {Without(cmd[c].copy, p) : p \in Targets(c)}

\* a has saved the file and goes on as new; whoever has loaded it has an old
\* copy.
SavedBy(a, new) ==
    cmd' = [b \in Actors |-> IF b = a THEN new
                            ELSE IF cmd[b].pc \in {"save", "mint"}
                            THEN [cmd[b] EXCEPT !.stale = TRUE]
                            ELSE cmd[b]]

\* save, over whatever the file holds by now.
Save(c) ==
    /\ At(c, "save")
    /\ file' \in Changed(c)
    /\ SavedBy(c, Idle)
    /\ UNCHANGED <<present, destVars, procVars, commands, outside>>

\* A load meets an entry without an id: the load that a command begins with,
\* or any other; the mirror process loads the file at its start.
MintLoad(a) ==
    /\ Loads /\ Unnamed(file) # {}
    /\ \/ At(a, "idle") /\ a \in Clients /\ BoundLeft /\ commands' = commands + 1
       \/ /\ \/ At(a, "idle") /\ a \in Launches /\ process[a] = "booting"
             \/ cmd[a].pc \in {"load", "list"}
          /\ UNCHANGED commands
    /\ \E copy \in Minted(file) :
          cmd' = [cmd EXCEPT ![a].kind = IF @ = "none" THEN "read" ELSE @,
                             ![a].pc = "mint", ![a].copy = copy, ![a].stale = FALSE]
    /\ UNCHANGED <<storeVars, destVars, procVars, outside>>

\* Its save, over whatever the file holds by now; the command goes on.
MintSave(a) ==
    /\ At(a, "mint")
    /\ file' = cmd[a].copy
    /\ SavedBy(a, CASE cmd[a].kind = "read" -> Idle
                    [] cmd[a].kind = "start" -> [cmd[a] EXCEPT !.pc = "list", !.copy = {}]
                    [] OTHER -> [cmd[a] EXCEPT !.pc = "load", !.copy = {}])
    /\ UNCHANGED <<present, destVars, procVars, commands, outside>>

(***************************************************************************)
(* Sync, by a command or by the mirror process                             *)
(***************************************************************************)

\* prepareDestination.
SyncPrepare(a) ==
    /\ At(a, "prepare")
    /\ Prepare(cmd[a].p.dest)
    /\ IF dir'[cmd[a].p.dest] = dir[cmd[a].p.dest]
       THEN Goto(a, "rsync") ELSE Touch(a, [cmd[a] EXCEPT !.pc = "rsync"])
    /\ UNCHANGED <<storeVars, procVars, commands, outside>>

\* rsync ends well, or the sync ends with it.
SyncCopy(a) ==
    /\ At(a, "rsync")
    /\ \/ /\ Copy(cmd[a].p, TRUE)
          /\ Touch(a, [cmd[a] EXCEPT !.pc = "stat", !.gen = dir'[cmd[a].p.dest].gen])
       \/ \E full \in BOOLEAN : Copy(cmd[a].p, full) /\ Touch(a, Idle)
    /\ UNCHANGED <<storeVars, procVars, commands, outside>>

\* WriteMarker up to its write: the identity of what is there by now.
SyncStat(a) ==
    /\ At(a, "stat")
    /\ LET now == dir[cmd[a].p.dest]
       IN  IF now.kind = "missing" THEN Ended(a)
           ELSE cmd' = [cmd EXCEPT ![a].pc = "mark", ![a].inode = now.inode,
                                   ![a].gen = now.gen, ![a].intact = now.gen = cmd[a].gen]
    /\ UNCHANGED <<storeVars, destVars, procVars, commands, outside>>

\* The marker is written; shell and services go on to look at the result.
SyncMark(a) ==
    /\ At(a, "mark")
    /\ PutMarker(cmd[a].p, cmd[a].inode, cmd[a].gen, cmd[a].intact)
    /\ Touch(a, IF cmd[a].kind = "use"
                THEN [cmd[a] EXCEPT !.pc = "readyLook", !.inode = NoInode, !.gen = 0,
                                    !.intact = FALSE]
                ELSE Idle)
    /\ UNCHANGED <<storeVars, procVars, commands, outside>>

SyncStep(a) == SyncPrepare(a) \/ SyncCopy(a) \/ SyncStat(a) \/ SyncMark(a)

(***************************************************************************)
(* shell, exec and services                                                *)
(***************************************************************************)

\* ReadyDestination: the destination must be there, and not empty.
ReadyLook(c) ==
    /\ At(c, "readyLook")
    /\ IF State(cmd[c].p.dest) \in {"marker-only", "non-empty"}
       THEN Looks(c, "readyRead") ELSE Ended(c)
    /\ UNCHANGED <<storeVars, destVars, procVars, commands, outside>>

\* --auto: a sync when there is nothing, otherwise the marker decides.
AutoLook(c) ==
    /\ At(c, "autoLook")
    /\ LET state == State(cmd[c].p.dest)
       IN  CASE state \in {"missing", "empty"} -> Goto(c, "prepare")
             [] state = "marker-only" -> Looks(c, "autoRead")
             [] state = "non-empty" -> Looks(c, "readyRead")
             [] OTHER -> Ended(c)
    /\ UNCHANGED <<storeVars, destVars, procVars, commands, outside>>

\* The marker that is read last: a match opens the shell.  With --auto a
\* directory that holds nothing is looked at once more.
UseRead(c) ==
    /\ cmd[c].pc \in {"readyRead", "autoRead"}
    /\ IF MarkerMatches(marker[cmd[c].p.dest], cmd[c].p) THEN Goto(c, "use")
       ELSE IF At(c, "autoRead") THEN Goto(c, "readyLook") ELSE Ended(c)
    /\ UNCHANGED <<storeVars, destVars, procVars, commands, outside>>

\* The command runs in the directory, or the services' source is linked to it.
Use(c) ==
    /\ At(c, "use") /\ Ended(c)
    /\ UNCHANGED <<storeVars, destVars, procVars, commands, outside>>

UseStep(c) == ReadyLook(c) \/ AutoLook(c) \/ UseRead(c) \/ Use(c)

(***************************************************************************)
(* The pid file: start, stop and doctor --fix                              *)
(***************************************************************************)

\* kill(pid, 0): a process has the number, the mirror or another program.
PidRunning(n) == n # NoPid /\ process[n] \in {"booting", "watching", "told", "zombie", "foreign"}

\* Mutant of ReadRunningPid: what the file says is not asked for.
ReadRunningPidNever == FALSE

ReadRunningPid == PidRunning(pidFile)

\* start reads the pid file; a mirror that runs is all it wants.
StartBegin(c) ==
    /\ Begin(c, IF ReadRunningPid THEN Idle ELSE About("start", "list", NoProfile))
    /\ Overlap(c)
    /\ UNCHANGED <<storeVars, destVars, process, served, pidFile, launched, outside>>

\* start reads the profiles.
StartList(c) ==
    /\ At(c, "list")
    /\ Loads => Loaded
    /\ IF Loads /\ Enabled(file) # {} THEN Goto(c, "launch") ELSE Ended(c)
    /\ UNCHANGED <<storeVars, destVars, procVars, commands, outside>>

\* launchMirrorProcess starts the child.
StartLaunch(c) ==
    /\ At(c, "launch") /\ launched < MaxLaunches
    /\ launched' = launched + 1
    /\ process' = [process EXCEPT ![launched + 1] = "booting"]
    /\ cmd' = [cmd EXCEPT ![c].pc = "writePid", ![c].n = launched + 1]
    /\ UNCHANGED <<storeVars, destVars, served, pidFile, raced, commands, outside>>

StartWrite(c) ==
    /\ At(c, "writePid")
    /\ pidFile' = cmd[c].n
    /\ Goto(c, "check")
    /\ UNCHANGED <<storeVars, destVars, process, served, launched, raced, commands, outside>>

\* Init waits for the children of a tool that has ended.
Orphaned(c) ==
    [n \in Launches |-> IF n = cmd[c].n /\ process[n] = "zombie" /\ cmd[c].kind = "start"
                        THEN "gone" ELSE process[n]]

\* 1.2 seconds later: a child that has died is a zombie by then, for nobody
\* waits for it, and counts as running.
StartCheck(c) ==
    /\ At(c, "check")
    /\ pidFile' = IF PidRunning(cmd[c].n) THEN pidFile ELSE NoPid
    /\ process' = Orphaned(c)
    /\ Ended(c)
    /\ UNCHANGED <<storeVars, destVars, served, launched, raced, commands, outside>>

\* stop, and doctor --fix, read the pid file.
StopBegin(c) ==
    /\ Begin(c, [About("stop", IF ReadRunningPid THEN "kill" ELSE "unlink", NoProfile)
                    EXCEPT !.n = pidFile])
    /\ Overlap(c)
    /\ UNCHANGED <<storeVars, destVars, process, served, pidFile, launched, outside>>

\* SIGTERM to the process group, or the process, that has the number.
StopKill(c) ==
    /\ At(c, "kill")
    /\ PidRunning(cmd[c].n)
    /\ process' = [process EXCEPT ![cmd[c].n] =
                      IF @ \in {"booting", "watching"} THEN "told" ELSE @]
    /\ Goto(c, "wait")
    /\ UNCHANGED <<storeVars, destVars, served, pidFile, launched, raced, commands, outside>>

\* The process is gone, or five seconds are over.
StopWait(c) ==
    /\ At(c, "wait")
    /\ Goto(c, "unlink")
    /\ raced' = (raced \/ PidRunning(cmd[c].n))
    /\ UNCHANGED <<storeVars, destVars, process, served, pidFile, launched, commands, outside>>

\* stop removes the file whatever happened; the fix goes on to its profile.
Unlink(c) ==
    /\ At(c, "unlink")
    /\ pidFile' = NoPid
    /\ IF cmd[c].kind = "fix" THEN Goto(c, "fixLook") ELSE Ended(c)
    /\ UNCHANGED <<storeVars, destVars, process, served, launched, raced, commands, outside>>

\* fixStaleMirrorPID: a file whose process runs is left alone.
FixPid(c) ==
    /\ At(c, "fixPid")
    /\ Goto(c, IF pidFile = NoPid \/ ReadRunningPid THEN "fixLook" ELSE "unlink")
    /\ UNCHANGED <<storeVars, destVars, procVars, commands, outside>>

\* fixMirrorDoctor for the profile: a destination that is missing, empty or
\* its own is made, or given its permissions.
FixLook(c) ==
    /\ At(c, "fixLook")
    /\ LET state == State(cmd[c].p.dest)
       IN  CASE state \in {"missing", "empty"} -> Goto(c, "ensure")
             [] state \in {"marker-only", "non-empty"} -> Goto(c, "fixRead")
             [] OTHER -> Ended(c)
    /\ UNCHANGED <<storeVars, destVars, procVars, commands, outside>>

FixRead(c) ==
    /\ At(c, "fixRead")
    /\ IF MarkerMatches(marker[cmd[c].p.dest], cmd[c].p) THEN Goto(c, "ensure") ELSE Ended(c)
    /\ UNCHANGED <<storeVars, destVars, procVars, commands, outside>>

FixEnsure(c) ==
    /\ At(c, "ensure")
    /\ Prepare(cmd[c].p.dest)
    /\ IF dir' = dir THEN Ended(c) ELSE Touch(c, Idle)
    /\ UNCHANGED <<storeVars, procVars, commands, outside>>

PidStep(c) ==
    \/ StartList(c) \/ StartLaunch(c) \/ StartWrite(c) \/ StartCheck(c)
    \/ StopKill(c) \/ StopWait(c) \/ Unlink(c)
    \/ FixPid(c) \/ FixLook(c) \/ FixRead(c) \/ FixEnsure(c)

(***************************************************************************)
(* The mirror process                                                      *)
(***************************************************************************)

\* runMirrorForeground: the profiles are read once, and kept until the end.
Boot(n) ==
    /\ process[n] = "booting" /\ At(n, "idle") /\ Loaded /\ Enabled(file) # {}
    /\ process' = [process EXCEPT ![n] = "watching"]
    /\ served' = [served EXCEPT ![n] = Enabled(file)]
    /\ UNCHANGED <<storeVars, destVars, cmd, pidFile, launched, raced, commands, outside>>

\* A sync of one of them is due; when, is the subject of MirrorWatch.
WatchBegin(n) ==
    /\ process[n] = "watching"
    /\ \E p \in served[n] : Begin(n, About("watch", "prepare", p))
    /\ UNCHANGED <<storeVars, destVars, procVars, outside>>

\* The process ends: told to, without profiles, or otherwise.  It stays a
\* zombie while the tool that started it is there.
Die(n) ==
    /\ process[n] \in {"booting", "watching", "told"}
    /\ process' = [process EXCEPT ![n] =
                      IF \E c \in Clients : cmd[c].kind = "start" /\ cmd[c].n = n
                      THEN "zombie" ELSE "gone"]
    /\ served' = [served EXCEPT ![n] = {}]
    /\ Ended(n)
    /\ UNCHANGED <<storeVars, destVars, pidFile, launched, raced, commands, outside>>

\* A step fails, or the user interrupts the command; a mirror process that
\* cannot read the profiles ends (Die).
Fail(a) ==
    /\ ~At(a, "idle")
    /\ cmd[a].kind = "read" => a \in Clients
    /\ Ended(a)
    /\ process' = Orphaned(a)
    /\ raced' = (raced \/ cmd[a].kind \in PidKinds)
    /\ UNCHANGED <<storeVars, destVars, served, pidFile, launched, commands, outside>>

(***************************************************************************)
(* Others                                                                  *)
(***************************************************************************)

Outside == BoundLeft /\ outside < MaxOutside /\ outside' = outside + 1

\* Somebody moves the directory away and puts another one there.
ReplaceDestination(d) ==
    /\ Outside
    /\ Replace(d)
    /\ cmd' = [b \in Actors |-> Outdated(b, d)]
    /\ UNCHANGED <<storeVars, procVars, commands>>

\* A local root is removed, or comes back.
MoveRoot(r) ==
    /\ Outside
    /\ present' = IF r \in present THEN present \ {r} ELSE present \cup {r}
    /\ UNCHANGED <<file, destVars, cmd, procVars, commands>>

\* Another program gets the pid of a mirror process that has ended.
ReusePid(n) ==
    /\ Outside
    /\ process[n] = "gone"
    /\ process' = [process EXCEPT ![n] = "foreign"]
    /\ UNCHANGED <<storeVars, destVars, cmd, served, pidFile, launched, raced, commands>>

(***************************************************************************)
(* The specification                                                       *)
(***************************************************************************)

CommandBegin(c) ==
    \/ SetupBegin(c) \/ EditBegin(c) \/ DeleteBegin(c) \/ SyncBegin(c) \/ UseBegin(c)
    \/ FixBegin(c) \/ StartBegin(c) \/ StopBegin(c)

StoreStep(c) ==
    \/ SetupLook(c) \/ SetupRead(c) \/ DeleteRead(c) \/ DeleteCompare(c) \/ DeleteRemove(c)
    \/ Load(c) \/ Save(c)

Next ==
    \/ \E c \in Clients : CommandBegin(c) \/ StoreStep(c) \/ UseStep(c) \/ PidStep(c)
    \/ \E a \in Actors : MintLoad(a) \/ MintSave(a) \/ SyncStep(a) \/ Fail(a)
    \/ \E n \in Launches : Boot(n) \/ WatchBegin(n) \/ Die(n) \/ ReusePid(n)
    \/ \E d \in Dests : ReplaceDestination(d)
    \/ \E r \in Roots : MoveRoot(r)

Spec == Init /\ [][Next]_vars

(***************************************************************************)
(* Properties                                                              *)
(***************************************************************************)

Kinds == {"none", "read", "setup", "edit", "delete", "sync", "use", "watch"} \cup PidKinds
Pcs == {"idle", "mint", "look", "readOwner", "load", "save", "readMarker", "identity", "remove",
        "prepare", "rsync", "stat", "mark", "readyLook", "autoLook", "readyRead",
        "autoRead", "use", "list", "launch", "writePid", "check", "kill", "wait",
        "unlink", "fixPid", "fixLook", "fixRead", "ensure"}

CommandType ==
    [kind : Kinds, pc : Pcs, p : Profiles \cup {NoProfile}, copy : SUBSET Profiles,
     force : BOOLEAN, inode : Inodes \cup {NoInode}, gen : Nat, intact : BOOLEAN,
     n : Launches \cup {NoPid}, stale : BOOLEAN, touched : BOOLEAN]

Distinct(profiles) == \A p, q \in profiles : p.id = q.id => p = q

\* Every variable has its type; no two profiles of the file have one id.
TypeOK ==
    /\ StoreType /\ DestinationType
    /\ Distinct(file)
    /\ cmd \in [Actors -> CommandType]
    /\ process \in [Launches -> {"unborn", "booting", "watching", "told", "zombie", "gone",
                                 "foreign"}]
    /\ served \in [Launches -> SUBSET Profiles]
    /\ pidFile \in Launches \cup {NoPid}
    /\ commands \in 0..MaxCommands /\ launched \in 0..MaxLaunches
    /\ outside \in 0..MaxOutside /\ raced \in BOOLEAN

\* The save of the command changes p: it is about p, or deletes p in place of a
\* profile that has gone and whose id p has for a name.
IsAbout(t, p) == t.p.id = p.id \/ (t.kind = "delete" /\ t.p.id = p.name)

\* p only gets its id.
Renumbered(p) == p.id = NoId /\ \E id \in Ids : [p EXCEPT !.id = id] \in file'

\* A profile leaves the file, or changes in it, only by a command about that
\* profile, whatever names it shares and whatever else runs, and a load changes
\* nothing but that it gives ids to profiles that have none: unless two cycles
\* of load and save overlapped, one of which may be that of a command that only
\* reads ("Each mirror has a stable short ID"; store.go:244-281).
SavesKeepOthers ==
    [][\A p \in file \ file' :
          \/ \E c \in Clients : At(c, "save") /\ (IsAbout(cmd[c], p) \/ cmd[c].stale)
          \/ \E a \in Actors : At(a, "mint") /\ (Renumbered(p) \/ cmd[a].stale)]_vars

\* The directory is the one that the marker names, and that its sync copied to.
MarkerCurrent(d) == marker[d].intact /\ marker[d].gen = dir[d].gen

\* The last sync into the directory was one of that mirror: of its id, or of
\* a profile with its name and root.
LastSyncedBy(d, p) ==
    \/ owner[d].id # NoId /\ owner[d].id = p.id
    \/ owner[d].name = p.name /\ owner[d].root = p.root

\* A destination that setup accepts without force, or that shell, exec and
\* services use, was last synced by that mirror, or by nobody: unless another
\* command changed it after the look, or it was replaced under its marker.
AcceptedIsOwn ==
    [][\A c \in Clients :
          LET p == cmd[c].p
          IN  (/\ At(c, "use") \/ (At(c, "save") /\ cmd[c].kind = "setup" /\ ~cmd[c].force)
               /\ cmd'[c].pc = "idle" /\ ~cmd[c].touched
               /\ owner[p.dest] # NoOwner /\ MarkerCurrent(p.dest))
              => LastSyncedBy(p.dest, p)]_vars

\* Another directory than the one that the marker names has got its number.
SameNumber(d, t) == dir[d].gen # t.gen /\ dir[d].inode = t.inode

\* delete --delete-remote removes a directory only if that mirror was the last
\* that synced into it, and not one that somebody has put there since: the
\* exceptions are a change between its look at the identity and its removal,
\* one between the copy and the marker of that last sync, a marker without an
\* identity, which is not compared (remote.go:308), and a directory to which
\* the file system has given the number of the one that the marker names
\* (remote.go:403).
DeletesOnlyOwn ==
    [][\A c \in Clients :
          (/\ At(c, "remove") /\ cmd'[c].pc \in {"load", "idle"}
           /\ ~cmd[c].touched /\ cmd[c].intact
           /\ cmd[c].inode # NoInode /\ ~SameNumber(cmd[c].p.dest, cmd[c])
           /\ \E d \in Dests : dir[d].kind = "dir" /\ dir'[d].kind = "missing")
          => LastSyncedBy(cmd[c].p.dest, cmd[c].p)]_vars

Live == {n \in Launches : process[n] \in {"booting", "watching", "told"}}

\* Every background mirror that runs is the one that the pid file names, so
\* that stop reaches it and start does not add another: unless two commands
\* about the pid file overlapped, one of them was cut off, or a process
\* outlived the five seconds of a stop.
StopReaches ==
    (~raced /\ \A c \in Clients : cmd[c].kind \notin PidKinds) => Live \subseteq {pidFile}

(***************************************************************************)
(* The inductive invariant                                                 *)
(***************************************************************************)

\* Where a command of each kind may be, and what it is about.
SyncPcs == {"prepare", "rsync", "stat", "mark"}
Sound(a, t) ==
    /\ t.kind = "none" <=> t.pc = "idle"
    /\ a \in Launches => t.kind \in {"none", "read", "watch"}
    /\ t.kind = "read" => t.pc = "mint"
    /\ t.kind = "setup" => t.pc \in {"look", "readOwner", "load", "mint", "save"}
    /\ t.kind = "edit" => t.pc = "save"
    /\ t.kind = "delete" => t.pc \in {"readMarker", "identity", "remove", "load", "mint",
                                     "save"}
    /\ t.kind \in {"sync", "watch"} => t.pc \in SyncPcs
    /\ t.kind = "use" => t.pc \in SyncPcs \cup {"readyLook", "autoLook", "readyRead",
                                               "autoRead", "use"}
    /\ t.kind = "start" => t.pc \in {"list", "mint", "launch", "writePid", "check"}
    /\ t.kind = "stop" => t.pc \in {"kill", "wait", "unlink"}
    /\ t.kind = "fix" => t.pc \in {"fixPid", "unlink", "fixLook", "fixRead", "ensure"}
    /\ t.kind \notin {"none", "read", "start", "stop"} => t.p \in Profiles
    /\ t.kind \notin {"none", "read", "start", "stop", "setup"} => t.p.id # NoId
    /\ t.pc \in {"writePid", "check", "kill", "wait"} => t.n \in Launches

KindInv == \A a \in Actors : Sound(a, cmd[a])

\* Whoever is about to save has a file that was one, without entries that have no
\* id, and the present one unless a save came in between; a load that has given
\* out ids has changed nothing else.
CopyInv ==
    \A a \in Actors :
        /\ cmd[a].pc \in {"save", "mint"} => Distinct(cmd[a].copy) /\ Unnamed(cmd[a].copy) = {}
        /\ At(a, "save") /\ ~cmd[a].stale => cmd[a].copy = file
        /\ At(a, "mint") /\ ~cmd[a].stale => cmd[a].copy \in Minted(file)

ServedInv == \A n \in Launches : \A p \in served[n] : p.id # NoId

\* Directories are numbered in their order; a marker that is current names
\* the last sync into its directory, and only directories have one.
DestInv ==
    /\ \A d \in Dests :
          /\ marker[d].gen <= dir[d].gen
          /\ dir[d].kind # "dir" => owner[d] = NoOwner
          /\ dir[d].kind = "dir" /\ MarkerCurrent(d) => owner[d] = Owner(marker[d])
    /\ \A a \in Actors :
          cmd[a].pc \in {"stat", "mark"} => cmd[a].gen <= dir[cmd[a].p.dest].gen

\* What a command has seen of its destination still holds, unless another
\* command or somebody else has touched it since.
Seen(t) ==
    LET d == t.p.dest
    IN  /\ t.pc = "use" => MarkerMatches(marker[d], t.p)
        /\ t.kind = "setup" /\ t.pc \in {"load", "mint", "save"} /\ ~t.force =>
              MarkerMatches(marker[d], t.p) \/ owner[d] = NoOwner \/ ~MarkerCurrent(d)
        /\ t.pc \in {"identity", "remove"} =>
              /\ MarkerMatches(marker[d], t.p)
              /\ t.inode = marker[d].inode /\ t.gen = marker[d].gen
              /\ t.intact = marker[d].intact
        /\ t.pc = "remove" => SameDirectory(d, t.inode)

LookInv == \A a \in Actors : ~cmd[a].touched => Seen(cmd[a])

\* What the one command about the pid file knows of it and of the mirror
\* processes, at each of its steps.
KnowsPid(c) ==
    /\ cmd[c].pc \in {"list", "mint", "launch", "unlink"} => Live = {}
    /\ At(c, "writePid") => Live \subseteq {cmd[c].n}
    /\ cmd[c].pc \in {"check", "kill", "wait"} => pidFile = cmd[c].n
    /\ ~At(c, "writePid") => Live \subseteq {pidFile}

PidInv ==
    ~raced =>
        /\ \A b, c \in Clients :
              cmd[b].kind \in PidKinds /\ cmd[c].kind \in PidKinds => b = c
        /\ \A c \in Clients : cmd[c].kind \in PidKinds => KnowsPid(c)
        /\ (\A c \in Clients : cmd[c].kind \notin PidKinds) => Live \subseteq {pidFile}

CInv == TypeOK /\ KindInv /\ CopyInv /\ ServedInv /\ DestInv /\ LookInv /\ PidInv

=============================================================================
