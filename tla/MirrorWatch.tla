------------------------------ MODULE MirrorWatch ------------------------------
(***************************************************************************)
(* The mirror process (internal/mirror/runner.go): one initial sync per    *)
(* enabled profile, one after the other, then a goroutine per profile that *)
(* syncs again whenever its watcher notifies it.  All of them report to    *)
(* one runtime state file.                                                 *)
(***************************************************************************)
EXTENDS SourceWatch

VARIABLES
    turn,    \* the profile whose initial sync is due
    pc,      \* where the goroutine that serves a profile is
    todo,    \* files that its rsync has not read yet
    result,  \* how its last sync ended
    dst,     \* the mirrored files
    lock,    \* StateStore.mu: who holds it
    copy,    \* the state file as its holder has read it
    state    \* the state file: status of every profile

loopVars == <<turn, pc, todo, result, dst>>
storeVars == <<lock, copy, state>>
vars == <<watchVars, loopVars, storeVars>>

Nobody == 0
Done == {"synced", "error"}
Statuses == {"absent", "syncing"} \cup Done

Unread == [r \in Roots |-> "absent"]

Init ==
    /\ WatchInit
    /\ turn = 1
    /\ pc = [r \in Roots |-> "queued"]
    /\ todo = [r \in Roots |-> {}]
    /\ result = [r \in Roots |-> "absent"]
    /\ dst = src
    /\ lock = Nobody
    /\ state = [r \in Roots |-> "absent"]
    /\ copy = [r \in Roots |-> Unread]

Goto(r, label) == pc' = [pc EXCEPT ![r] = label]

(***************************************************************************)
(* StateStore.Set: the file is read, changed and replaced under the mutex  *)
(***************************************************************************)

\* Mutant of ReadState: without the mutex.
ReadStateUnlocked(r) ==
    /\ \/ pc[r] = "tellSyncing" /\ Goto(r, "writeSyncing")
       \/ pc[r] = "tellResult" /\ Goto(r, "writeResult")
    /\ lock' = r
    /\ copy' = [copy EXCEPT ![r] = state]
    /\ UNCHANGED <<watchVars, turn, todo, result, dst, state>>

ReadState(r) ==
    /\ lock = Nobody
    /\ \/ pc[r] = "tellSyncing" /\ Goto(r, "writeSyncing")
       \/ pc[r] = "tellResult" /\ Goto(r, "writeResult")
    /\ lock' = r
    /\ copy' = [copy EXCEPT ![r] = state]
    /\ UNCHANGED <<watchVars, turn, todo, result, dst, state>>

Write(r, status) ==
    /\ state' = [copy[r] EXCEPT ![r] = status]
    /\ lock' = Nobody
    /\ copy' = [copy EXCEPT ![r] = Unread]

TellSyncing(r) ==
    /\ pc[r] = "writeSyncing"
    /\ Write(r, "syncing")
    /\ Goto(r, "syncing")
    /\ todo' = [todo EXCEPT ![r] = Files]
    /\ UNCHANGED <<watchVars, turn, result, dst>>

\* After an initial sync, failed or not, it is the next profile's turn.
NextTurn == turn' = turn + 1

\* Mutant of TellResult: later syncs take turns, too.
TellResultCounting(r) ==
    /\ pc[r] = "writeResult"
    /\ Write(r, result[r])
    /\ Goto(r, IF kind[r] # "none" THEN "watching" ELSE "ready")
    /\ NextTurn
    /\ UNCHANGED <<watchVars, todo, result, dst>>

\* Mutant of TellResult: an initial sync that fails ends the round.
TellResultStopping(r) ==
    /\ pc[r] = "writeResult"
    /\ Write(r, result[r])
    /\ IF kind[r] # "none"
       THEN Goto(r, "watching") /\ UNCHANGED turn
       ELSE Goto(r, "ready") /\ IF result[r] = "error" THEN UNCHANGED turn ELSE NextTurn
    /\ UNCHANGED <<watchVars, todo, result, dst>>

TellResult(r) ==
    /\ pc[r] = "writeResult"
    /\ Write(r, result[r])
    /\ IF kind[r] # "none" THEN Goto(r, "watching") /\ UNCHANGED turn
                           ELSE Goto(r, "ready") /\ NextTurn
    /\ UNCHANGED <<watchVars, todo, result, dst>>

(***************************************************************************)
(* Sync: every file is read at a moment of its own                         *)
(***************************************************************************)

CopyFile(r) ==
    /\ pc[r] = "syncing"
    /\ \E f \in todo[r] :
          /\ dst' = [dst EXCEPT ![r][f] = src[r][f]]
          /\ todo' = [todo EXCEPT ![r] = @ \ {f}]
    /\ UNCHANGED <<watchVars, storeVars, turn, pc, result>>

EndSync(r, how) ==
    /\ result' = [result EXCEPT ![r] = how]
    /\ todo' = [todo EXCEPT ![r] = {}]
    /\ Goto(r, "tellResult")

\* Mutant of SyncSucceeds: what was notified during the sync counts as synced.
SyncSucceedsDraining(r) ==
    /\ pc[r] = "syncing" /\ todo[r] = {}
    /\ EndSync(r, "synced")
    /\ token' = [token EXCEPT ![r] = FALSE]
    /\ UNCHANGED <<sources, kind, watches, events, at, snapshot, storeVars, turn, dst>>

SyncSucceeds(r) ==
    /\ pc[r] = "syncing" /\ todo[r] = {}
    /\ EndSync(r, "synced")
    /\ UNCHANGED <<watchVars, storeVars, turn, dst>>

\* Home, prepareDestination, rsync or WriteMarker fails.
SyncFails(r) ==
    /\ pc[r] = "syncing"
    /\ EndSync(r, "error")
    /\ UNCHANGED <<watchVars, storeVars, turn, dst>>

(***************************************************************************)
(* Run and runProfile                                                      *)
(***************************************************************************)

FirstSync(r) ==
    /\ pc[r] = "queued" /\ turn = r
    /\ Goto(r, "tellSyncing")
    /\ UNCHANGED <<watchVars, storeVars, turn, todo, result, dst>>

\* The goroutines of runProfile start when all initial syncs are done.
StartLoop(r) ==
    /\ pc[r] = "ready" /\ turn \notin Roots
    /\ StartWatcher(r)
    /\ Goto(r, "watching")
    /\ UNCHANGED <<storeVars, turn, todo, result, dst>>

\* A notification is taken from the channel first; then the goroutine sleeps
\* and syncs.
TakeChange(r) ==
    /\ pc[r] = "watching"
    /\ Receive(r)
    /\ Goto(r, "tellSyncing")
    /\ UNCHANGED <<storeVars, turn, todo, result, dst>>

ProfileStep(r) ==
    \/ FirstSync(r) \/ StartLoop(r) \/ TakeChange(r) \/ ReadState(r)
    \/ TellSyncing(r) \/ TellResult(r) \/ CopyFile(r) \/ SyncSucceeds(r)
    \/ SyncFails(r)

WatcherStep(r) == Watcher(r) /\ UNCHANGED <<loopVars, storeVars>>

SourceStep(r) ==
    /\ MakeDir(r) \/ \E f \in Files : Edit(r, f)
    /\ UNCHANGED <<loopVars, storeVars>>

Next == \E r \in Roots : SourceStep(r) \/ WatcherStep(r) \/ ProfileStep(r)

\* Goroutines run, mutexes are handed over and syncs end, well or not.
Fairness ==
    \A r \in Roots : WF_vars(WatcherStep(r)) /\ SF_vars(ProfileStep(r))

Spec == Init /\ [][Next]_vars /\ Fairness

(***************************************************************************)
(* Properties                                                              *)
(***************************************************************************)

Labels ==
    {"queued", "tellSyncing", "writeSyncing", "syncing", "tellResult",
     "writeResult", "ready", "watching"}

\* Every variable has its type.
TypeOK ==
    /\ WatchTypeOK
    /\ turn \in 1..(NumRoots + 1)
    /\ pc \in [Roots -> Labels]
    /\ todo \in [Roots -> SUBSET Files]
    /\ result \in [Roots -> Done \cup {"absent"}]
    /\ dst \in [Roots -> Versions]
    /\ lock \in Roots \cup {Nobody}
    /\ copy \in [Roots -> [Roots -> Statuses]]
    /\ state \in [Roots -> Statuses]

\* The state file says of every profile what its own goroutine said last,
\* however the goroutines interleave (runner.go:91-113).
OwnStatus ==
    \A r \in Roots :
        /\ pc[r] \in {"syncing", "tellResult", "writeResult"} => state[r] = "syncing"
        /\ pc[r] \in {"ready", "watching"} => state[r] = result[r]

Fresh(r) == dst[r] = src[r]
Quiet(r) == pc[r] = "watching" /\ ~Pending(r)

\* When nothing is under way and the last sync went well, every file that was
\* edited while its watcher ran is mirrored: during a sync, during the pause
\* before it, or in a directory that had no watch yet (watch.go:92-121, 207-212,
\* runner.go:241-270).  Not so an edit that came when the kernel had refused its
\* directory a watch: the error is dropped (watch.go:114, 188), nobody polls
\* instead, and the edit is lost with the status synced.
QuietIsFresh ==
    \A r \in Roots : Quiet(r) /\ result[r] = "synced" =>
        \A f \in seen[r] : dst[r][f] = src[r][f]

\* Whatever the watcher noticed is mirrored, with the files of all directories
\* that were not refused a watch, or the state file shows an error
\* (runner.go:252-270).
NoticedArrives ==
    \A r \in Roots :
        Pending(r) ~> \/ \A f \in Files : Blind(r, f) \/ dst[r][f] = src[r][f]
                      \/ state[r] = "error"

\* A profile that cannot be synced does not keep the others from being watched
\* (runner.go:176-193).
AllWatched == <>(\A r \in Roots : kind[r] # "none")

\* README.md:681: "Continuous mirror mode watches .git for mirrors that include
\* git, so local commits update the worker's git state without restarting the
\* mirror."  Every edit is mirrored, or the state file shows an error.
EditsArrive ==
    \A r \in Roots : ~Fresh(r) ~> (Fresh(r) \/ state[r] = "error")
================================================================================
