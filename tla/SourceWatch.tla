------------------------------ MODULE SourceWatch ------------------------------
(***************************************************************************)
(* Watchers of source directories (internal/watch/watch.go): edits become  *)
(* file system events, or differences between two snapshots, and those     *)
(* become one notification in a channel of capacity one.                   *)
(***************************************************************************)
EXTENDS Integers

CONSTANTS
    NumRoots,  \* how many source directories are watched
    Files,     \* files in each of them that the patterns include
    Nested,    \* those of them in a subdirectory that is made later
    Refusals,  \* whether the kernel may refuse a watch (the inotify limit)
    MaxEdits   \* bound: edits of a behaviour

ASSUME RootsAssumption == NumRoots \in Nat
ASSUME FilesAssumption == Nested \subseteq Files /\ MaxEdits \in Nat
ASSUME RefusalsAssumption == Refusals \in BOOLEAN

Roots == 1..NumRoots

\* The event that the subdirectory was made.
Made == "made"
ASSUME EventsAssumption == Made \notin Files

VARIABLES
    src,       \* version of every file, 0 before it exists
    dir,       \* whether the subdirectory exists
    edits,     \* how many edits there were
    seen,      \* history: files whose last edit their watcher should notice
    kind,      \* how a root is watched: not, by events or by polling
    watched,   \* the directories that have a watch (addWatchTree)
    refused,   \* history: the directories that the kernel refused a watch
    events,    \* events the kernel holds for the watcher
    at,        \* the goroutine of Changes: waiting, at a new directory, sending
    snapshot,  \* what the last poll saw
    token      \* the channel of notifications, empty or full

watchVars ==
    <<src, dir, edits, seen, kind, watched, refused, events, at, snapshot, token>>
watches == <<watched, refused>>
sources == <<src, dir, edits, seen>>

\* The directory of a root, and the one that is made in it.
Dirs == {"top", "sub"}
DirOf(e) == IF e \in Nested THEN "sub" ELSE "top"
Present(r) == IF dir[r] THEN Dirs ELSE {"top"}

WatchInit ==
    /\ src = [r \in Roots |-> [f \in Files |-> 0]]
    /\ dir = [r \in Roots |-> FALSE]
    /\ edits = 0
    /\ seen = [r \in Roots |-> {}]
    /\ kind = [r \in Roots |-> "none"]
    /\ watched = [r \in Roots |-> {}]
    /\ refused = [r \in Roots |-> {}]
    /\ events = [r \in Roots |-> {}]
    /\ at = [r \in Roots |-> "waiting"]
    /\ snapshot = src
    /\ token = [r \in Roots |-> FALSE]

(***************************************************************************)
(* The file system                                                         *)
(***************************************************************************)

\* inotify tells about the entries of directories that have a watch.
Event(r, e) ==
    IF kind[r] = "events" /\ DirOf(e) \in watched[r]
    THEN events' = [events EXCEPT ![r] = @ \cup {e}]
    ELSE UNCHANGED events

\* Nothing tells about the file: its directory was refused a watch, or the one
\* that would tell when its directory is made was.
Blind(r, f) ==
    /\ kind[r] = "events"
    /\ \/ DirOf(f) \in refused[r]
       \/ "top" \in refused[r] /\ DirOf(f) \notin watched[r]

Seen(r, f) ==
    seen' = [seen EXCEPT ![r] = IF kind[r] # "none" /\ ~Blind(r, f) THEN @ \cup {f}
                                                                   ELSE @ \ {f}]

\* A file is written, made or removed: it has a new version.
Edit(r, f) ==
    /\ edits < MaxEdits
    /\ f \in Nested => dir[r]
    /\ src' = [src EXCEPT ![r][f] = @ + 1]
    /\ edits' = edits + 1
    /\ Seen(r, f)
    /\ Event(r, f)
    /\ UNCHANGED <<dir, kind, watches, at, snapshot, token>>

MakeDir(r) ==
    /\ ~dir[r]
    /\ dir' = [dir EXCEPT ![r] = TRUE]
    /\ Event(r, Made)
    /\ UNCHANGED <<src, edits, seen, kind, watches, at, snapshot, token>>

(***************************************************************************)
(* Changes                                                                 *)
(***************************************************************************)

\* The channel takes one notification; sendChange drops the others.
Notify(r) == token' = [token EXCEPT ![r] = TRUE]

\* addWatchTree: the error of a watch that the kernel refuses is dropped, and the
\* directory stays without one.
AddWatches(r, dirs) ==
    \E lost \in SUBSET dirs :
        /\ Refusals \/ lost = {}
        /\ watched' = [watched EXCEPT ![r] = @ \cup (dirs \ lost)]
        /\ refused' = [refused EXCEPT ![r] = @ \cup lost]

\* Changes: a watch on every directory there is, or, when fsnotify cannot be
\* had, pollingChanges and its first snapshot.  A refused watch is no reason to
\* poll.
StartWatcher(r) ==
    /\ kind[r] = "none"
    /\ \/ kind' = [kind EXCEPT ![r] = "events"] /\ AddWatches(r, Present(r))
       \/ kind' = [kind EXCEPT ![r] = "polling"] /\ UNCHANGED watches
    /\ snapshot' = [snapshot EXCEPT ![r] = src[r]]
    /\ UNCHANGED <<sources, events, at, token>>

\* An event leads to a notification; that of a new directory not at once.
TakeEvent(r) ==
    /\ kind[r] = "events" /\ at[r] = "waiting"
    /\ \E e \in events[r] :
          /\ events' = [events EXCEPT ![r] = @ \ {e}]
          /\ IF e = Made THEN at' = [at EXCEPT ![r] = "made"] /\ UNCHANGED token
                         ELSE Notify(r) /\ UNCHANGED at
    /\ UNCHANGED <<sources, kind, watches, snapshot>>

\* Mutant of AddWatch: a new directory gets its watch, and that is all.
AddWatchOnly(r) ==
    /\ at[r] = "made"
    /\ AddWatches(r, {"sub"})
    /\ at' = [at EXCEPT ![r] = "waiting"]
    /\ UNCHANGED <<sources, kind, events, snapshot, token>>

\* A new directory gets its watch, if the kernel has one left, before the change
\* is announced: a file put there in between causes no event of its own.
AddWatch(r) ==
    /\ at[r] = "made"
    /\ AddWatches(r, {"sub"})
    /\ at' = [at EXCEPT ![r] = "sending"]
    /\ UNCHANGED <<sources, kind, events, snapshot, token>>

\* The new directory's own path has to match the patterns: it does, because a
\* mirror names no files to include (runner.go:228-235).
SendChange(r) ==
    /\ at[r] = "sending"
    /\ at' = [at EXCEPT ![r] = "waiting"]
    /\ Notify(r)
    /\ UNCHANGED <<sources, kind, watches, events, snapshot>>

Poll(r) ==
    /\ kind[r] = "polling" /\ snapshot[r] # src[r]
    /\ snapshot' = [snapshot EXCEPT ![r] = src[r]]
    /\ Notify(r)
    /\ UNCHANGED <<sources, kind, watches, events, at>>

Watcher(r) == TakeEvent(r) \/ AddWatch(r) \/ SendChange(r) \/ Poll(r)

\* The reader of the channel.
Receive(r) ==
    /\ token[r]
    /\ token' = [token EXCEPT ![r] = FALSE]
    /\ UNCHANGED <<sources, kind, watches, events, at, snapshot>>

\* Something is under way that ends in a notification, or is one.
Pending(r) ==
    \/ events[r] # {}
    \/ at[r] # "waiting"
    \/ kind[r] = "polling" /\ snapshot[r] # src[r]
    \/ token[r]

Versions == [Files -> 0..MaxEdits]

WatchTypeOK ==
    /\ src \in [Roots -> Versions]
    /\ dir \in [Roots -> BOOLEAN]
    /\ edits \in 0..MaxEdits
    /\ seen \in [Roots -> SUBSET Files]
    /\ kind \in [Roots -> {"none", "events", "polling"}]
    /\ watched \in [Roots -> SUBSET Dirs]
    /\ refused \in [Roots -> SUBSET Dirs]
    /\ events \in [Roots -> SUBSET (Files \cup {Made})]
    /\ at \in [Roots -> {"waiting", "made", "sending"}]
    /\ snapshot \in [Roots -> Versions]
    /\ token \in [Roots -> BOOLEAN]
================================================================================
