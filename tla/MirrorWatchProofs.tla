--------------------------- MODULE MirrorWatchProofs ---------------------------
(***************************************************************************)
(* Theorems about MirrorWatch, for any number of profiles, files and       *)
(* edits.                                                                  *)
(***************************************************************************)
EXTENDS MirrorWatch, TLAPS

Writing == {"writeSyncing", "writeResult"}
Busy == {"tellSyncing", "syncing", "tellResult"} \cup Writing

\* Before its watcher runs, only the profile whose turn it is has work to do.
TurnInv ==
    \A r \in Roots :
        /\ pc[r] \in Busy /\ kind[r] = "none" => turn = r
        /\ pc[r] = "watching" => kind[r] # "none"
        /\ pc[r] \in {"queued", "ready"} => kind[r] = "none"

\* Whoever is to write the state file has the mutex and has read the file as
\* it is.
StoreInv ==
    \A r \in Roots : pc[r] \in Writing => lock = r /\ copy[r] = state

\* A root without a watch was refused one, and a subdirectory without a watch was
\* refused one, or nobody told that it was made, or it is on the watcher's way.
DirInv ==
    \A r \in Roots : kind[r] = "events" =>
        /\ "top" \in watched[r] \cup refused[r]
        /\ dir[r] /\ "top" \notin refused[r] /\ "sub" \notin watched[r] \cup refused[r]
              => Made \in events[r] \/ at[r] = "made"

\* Versions and snapshots are not ahead of the files.
VersionInv ==
    \A r \in Roots, f \in Files : src[r][f] <= edits /\ snapshot[r][f] <= src[r][f]

SeenInv == \A r \in Roots : kind[r] = "none" => seen[r] = {}

\* A sync that will read the file is due, or the last one failed.
Due(r, f) ==
    \/ pc[r] \in {"tellSyncing", "writeSyncing"}
    \/ pc[r] = "syncing" /\ f \in todo[r]
    \/ pc[r] \in {"tellResult", "writeResult", "watching"} /\ result[r] = "error"
    \/ token[r]
    \/ f \in events[r] \/ Made \in events[r] \/ at[r] # "waiting"
    \/ kind[r] = "polling" /\ snapshot[r][f] # src[r][f]

DueInv ==
    \A r \in Roots : \A f \in seen[r] : dst[r][f] # src[r][f] => Due(r, f)

WatchInv == DirInv /\ VersionInv /\ SeenInv
LoopInv == TurnInv /\ StoreInv /\ OwnStatus
MInv == TypeOK /\ WatchInv /\ LoopInv /\ DueInv

(***************************************************************************)
(* The initial state                                                       *)
(***************************************************************************)

LEMMA InitType == Init => TypeOK
<1> SUFFICES ASSUME Init PROVE TypeOK
  OBVIOUS
<1>1. src \in [Roots -> Versions]
  BY FilesAssumption DEF Init, WatchInit, Versions
<1>2. WatchTypeOK
  <2>1. seen \in [Roots -> SUBSET Files] /\ events \in [Roots -> SUBSET (Files \cup {Made})]
    BY DEF Init, WatchInit
  <2>2. edits \in 0..MaxEdits
    BY FilesAssumption DEF Init, WatchInit
  <2>3. snapshot \in [Roots -> Versions]
    BY <1>1 DEF Init, WatchInit
  <2>4. /\ dir \in [Roots -> BOOLEAN]
        /\ watched \in [Roots -> SUBSET Dirs] /\ refused \in [Roots -> SUBSET Dirs]
        /\ kind \in [Roots -> {"none", "events", "polling"}]
        /\ at \in [Roots -> {"waiting", "made", "sending"}]
        /\ token \in [Roots -> BOOLEAN]
    BY DEF Init, WatchInit
  <2> QED BY <1>1, <2>1, <2>2, <2>3, <2>4 DEF WatchTypeOK
<1>3. Unread \in [Roots -> Statuses]
  BY DEF Unread, Statuses
<1>4. state \in [Roots -> Statuses] /\ copy \in [Roots -> [Roots -> Statuses]]
  BY <1>3 DEF Init, Statuses
<1>5. turn \in 1..(NumRoots + 1) /\ lock \in Roots \cup {Nobody}
  BY RootsAssumption DEF Init
<1>6. /\ pc \in [Roots -> Labels]
      /\ todo \in [Roots -> SUBSET Files]
      /\ result \in [Roots -> Done \cup {"absent"}]
      /\ dst \in [Roots -> Versions]
  BY <1>1 DEF Init, Labels
<1> QED BY <1>2, <1>4, <1>5, <1>6 DEF TypeOK

LEMMA InitMInv == Init => MInv
<1> SUFFICES ASSUME Init PROVE MInv
  OBVIOUS
<1>1. WatchInv
  BY DEF Init, WatchInit, WatchInv, DirInv, VersionInv, SeenInv
<1>2. LoopInv
  BY DEF Init, WatchInit, LoopInv, TurnInv, StoreInv, OwnStatus, Busy, Writing
<1>3. DueInv
  BY DEF Init, WatchInit, DueInv
<1> QED BY InitType, <1>1, <1>2, <1>3 DEF MInv

(***************************************************************************)
(* Files and watchers                                                      *)
(***************************************************************************)

LEMMA EventType ==
    ASSUME events \in [Roots -> SUBSET (Files \cup {Made})], NEW r \in Roots,
           NEW e \in Files \cup {Made}, Event(r, e)
    PROVE  /\ events' \in [Roots -> SUBSET (Files \cup {Made})]
           /\ \A q \in Roots : events[q] \subseteq events'[q]
           /\ kind[r] = "events" /\ DirOf(e) \in watched[r] => e \in events'[r]
  BY DEF Event

\* What becomes of the watches of new directories.
LEMMA AddWatchesFacts ==
    ASSUME watched \in [Roots -> SUBSET Dirs], refused \in [Roots -> SUBSET Dirs],
           NEW r \in Roots, NEW dirs \in SUBSET Dirs, AddWatches(r, dirs)
    PROVE  /\ watched' \in [Roots -> SUBSET Dirs]
           /\ refused' \in [Roots -> SUBSET Dirs]
           /\ watched[r] \cup refused[r] \cup dirs \subseteq watched'[r] \cup refused'[r]
           /\ refused[r] \subseteq refused'[r]
           /\ \A q \in Roots \ {r} : watched'[q] = watched[q] /\ refused'[q] = refused[q]
<1>1. PICK lost \in SUBSET dirs :
         /\ watched' = [watched EXCEPT ![r] = @ \cup (dirs \ lost)]
         /\ refused' = [refused EXCEPT ![r] = @ \cup lost]
  BY DEF AddWatches
<1> QED BY <1>1

\* What an edit does.
LEMMA EditFacts ==
    ASSUME TypeOK, VersionInv, NEW r \in Roots, NEW f \in Files, Edit(r, f)
    PROVE  /\ WatchTypeOK'
           /\ \A q \in Roots : events[q] \subseteq events'[q]
           /\ \A q \in Roots, g \in Files :
                 src'[q][g] = IF q = r /\ g = f THEN src[q][g] + 1 ELSE src[q][g]
           /\ seen'[r] = IF kind[r] # "none" /\ ~Blind(r, f) THEN seen[r] \cup {f}
                                                         ELSE seen[r] \ {f}
           /\ \A q \in Roots \ {r} : seen'[q] = seen[q]
<1> USE DEF TypeOK, WatchTypeOK
<1>1. edits' = edits + 1 /\ edits' \in 0..MaxEdits
  BY FilesAssumption DEF Edit
<1>2. src[r][f] + 1 \in 0..MaxEdits
  <2>1. src[r][f] \in 0..MaxEdits /\ src[r][f] <= edits
    BY DEF VersionInv, Versions
  <2> QED BY <2>1, FilesAssumption DEF Edit
<1>3. [src[r] EXCEPT ![f] = src[r][f] + 1] \in Versions
  BY <1>2 DEF Versions
<1>4. src' = [src EXCEPT ![r] = [src[r] EXCEPT ![f] = src[r][f] + 1]]
  BY DEF Edit
<1>5. src' \in [Roots -> Versions]
  BY <1>3, <1>4
<1>6. \A q \in Roots, g \in Files :
         src'[q][g] = IF q = r /\ g = f THEN src[q][g] + 1 ELSE src[q][g]
  BY <1>4 DEF Versions
<1>7. /\ seen' \in [Roots -> SUBSET Files]
      /\ seen'[r] = IF kind[r] # "none" /\ ~Blind(r, f) THEN seen[r] \cup {f}
                                                    ELSE seen[r] \ {f}
      /\ \A q \in Roots \ {r} : seen'[q] = seen[q]
  <2> DEFINE new == IF kind[r] # "none" /\ ~Blind(r, f) THEN seen[r] \cup {f}
                                                     ELSE seen[r] \ {f}
  <2>1. seen' = [seen EXCEPT ![r] = new]
    BY DEF Edit, Seen
  <2>2. new \in SUBSET Files
    OBVIOUS
  <2> HIDE DEF new
  <2>3. seen' \in [Roots -> SUBSET Files] /\ seen'[r] = new
    BY <2>1, <2>2
  <2>4. \A q \in Roots \ {r} : seen'[q] = seen[q]
    BY <2>1
  <2> QED BY <2>3, <2>4 DEF new
<1>8. /\ events' \in [Roots -> SUBSET (Files \cup {Made})]
      /\ \A q \in Roots : events[q] \subseteq events'[q]
  BY EventType DEF Edit
<1>9. WatchTypeOK'
  BY <1>1, <1>5, <1>7, <1>8 DEF Edit, watches
<1> QED BY <1>6, <1>7, <1>8, <1>9

\* An edit makes one new version of one file.
LEMMA EditCounts ==
    ASSUME TypeOK, VersionInv, NEW r \in Roots, NEW f \in Files, Edit(r, f),
           NEW q \in Roots, NEW g \in Files
    PROVE  src'[q][g] = src[q][g] \/ src'[q][g] = src[q][g] + 1
<1>1. \A p \in Roots, h \in Files :
         src'[p][h] = IF p = r /\ h = f THEN src[p][h] + 1 ELSE src[p][h]
  BY EditFacts, ZenonT(60)
<1> QED BY <1>1

\* Steps of the file system and of the watchers keep the types.
LEMMA WatchTypes ==
    ASSUME TypeOK, VersionInv, NEW r \in Roots,
           SourceStep(r) \/ WatcherStep(r) \/ StartWatcher(r) \/ Receive(r)
    PROVE  WatchTypeOK'
<1> USE DEF TypeOK, WatchTypeOK
<1>1. CASE SourceStep(r)
  <2>1. CASE MakeDir(r)
    BY <2>1, EventType DEF MakeDir, watches
  <2>2. ASSUME NEW f \in Files, Edit(r, f) PROVE WatchTypeOK'
    BY <2>2, EditFacts
  <2> QED BY <1>1, <2>1, <2>2 DEF SourceStep
<1>2. CASE TakeEvent(r)
  <2>1. PICK e \in events[r] :
           /\ events' = [events EXCEPT ![r] = @ \ {e}]
           /\ IF e = Made THEN at' = [at EXCEPT ![r] = "made"] /\ UNCHANGED token
                          ELSE Notify(r) /\ UNCHANGED at
    BY <1>2 DEF TakeEvent
  <2>2. events' \in [Roots -> SUBSET (Files \cup {Made})]
    BY <2>1
  <2>3. at' \in [Roots -> {"waiting", "made", "sending"}] /\ token' \in [Roots -> BOOLEAN]
    BY <2>1 DEF Notify
  <2> QED BY <1>2, <2>2, <2>3 DEF TakeEvent, sources, watches
<1>3. CASE AddWatch(r)
  <2>1. watched' \in [Roots -> SUBSET Dirs] /\ refused' \in [Roots -> SUBSET Dirs]
    BY <1>3, AddWatchesFacts DEF AddWatch, Dirs
  <2> QED BY <1>3, <2>1 DEF AddWatch, sources
<1>4. CASE SendChange(r)
  BY <1>4 DEF SendChange, sources, watches, Notify
<1>5. CASE Poll(r)
  BY <1>5 DEF Poll, sources, watches, Notify
<1>6. CASE StartWatcher(r)
  <2>1. watched' \in [Roots -> SUBSET Dirs] /\ refused' \in [Roots -> SUBSET Dirs]
    BY <1>6, AddWatchesFacts DEF StartWatcher, Present, Dirs, watches
  <2> QED BY <1>6, <2>1 DEF StartWatcher, sources
<1>7. CASE Receive(r)
  BY <1>7 DEF Receive, sources, watches
<1> QED BY <1>1, <1>2, <1>3, <1>4, <1>5, <1>6, <1>7 DEF WatcherStep, Watcher

\* They keep the invariants of the watchers, too.
LEMMA WatchSteps ==
    ASSUME TypeOK, WatchInv, NEW r \in Roots,
           \/ SourceStep(r) \/ WatcherStep(r) \/ StartWatcher(r) \/ Receive(r)
           \/ UNCHANGED watchVars
    PROVE  WatchInv'
<1> USE DEF TypeOK, WatchTypeOK, WatchInv
<1>1. CASE SourceStep(r)
  <2>1. CASE MakeDir(r)
    <3>1. /\ dir' = [dir EXCEPT ![r] = TRUE] /\ Event(r, Made)
          /\ UNCHANGED <<src, edits, seen, kind, watched, refused, at, snapshot, token>>
      BY <2>1 DEF MakeDir, watches
    <3>2. /\ \A q \in Roots : events[q] \subseteq events'[q]
          /\ kind[r] = "events" /\ "top" \in watched[r] => Made \in events'[r]
      BY <3>1, EventType, EventsAssumption, FilesAssumption DEF DirOf
    <3>3. DirInv'
      BY <3>1, <3>2 DEF DirInv
    <3>4. VersionInv' /\ SeenInv'
      BY <3>1 DEF VersionInv, SeenInv
    <3> QED BY <3>3, <3>4
  <2>2. ASSUME NEW f \in Files, Edit(r, f) PROVE WatchInv'
    <3>1. /\ UNCHANGED <<dir, kind, watched, refused, at, snapshot, token>>
          /\ edits' = edits + 1
      BY <2>2 DEF Edit, watches
    <3>2. DirInv'
      BY <2>2, <3>1, EditFacts DEF DirInv
    <3>3. SeenInv'
      BY <2>2, <3>1, EditFacts DEF SeenInv
    <3>4. VersionInv'
      <4> SUFFICES ASSUME NEW q \in Roots, NEW g \in Files
                   PROVE  src'[q][g] <= edits' /\ snapshot'[q][g] <= src'[q][g]
        BY DEF VersionInv
      <4>1. src[q][g] \in Nat /\ snapshot[q][g] \in Nat /\ edits \in Nat
        BY DEF Versions
      <4>2. src[q][g] <= edits /\ snapshot[q][g] <= src[q][g]
        BY DEF VersionInv
      <4>3. src'[q][g] = src[q][g] \/ src'[q][g] = src[q][g] + 1
        <5>1. VersionInv
          OBVIOUS
        <5> HIDE DEF TypeOK, WatchTypeOK, WatchInv
        <5> QED BY <2>2, <5>1, EditCounts
      <4>4. snapshot'[q][g] = snapshot[q][g]
        BY <3>1
      <4>5. edits' = edits + 1
        BY <3>1
      <4> HIDE DEF TypeOK, WatchTypeOK, WatchInv
      <4> QED BY <4>1, <4>2, <4>3, <4>4, <4>5
    <3> QED BY <3>2, <3>3, <3>4
  <2> QED BY <1>1, <2>1, <2>2 DEF SourceStep
<1>2. CASE TakeEvent(r)
  <2>1. PICK e \in events[r] :
           /\ events' = [events EXCEPT ![r] = @ \ {e}]
           /\ IF e = Made THEN at' = [at EXCEPT ![r] = "made"] /\ UNCHANGED token
                          ELSE Notify(r) /\ UNCHANGED at
    BY <1>2 DEF TakeEvent
  <2>2. UNCHANGED <<src, dir, edits, seen, kind, watched, refused, snapshot>>
    BY <1>2 DEF TakeEvent, sources, watches
  <2>3. DirInv'
    <3>1. CASE e = Made
      BY <2>1, <2>2, <3>1 DEF DirInv
    <3>2. CASE e # Made
      <4>1. events' = [events EXCEPT ![r] = @ \ {e}] /\ at' = at
        BY <2>1, <3>2
      <4>2. \A q \in Roots : Made \in events[q] => Made \in events'[q]
        BY <3>2, <4>1
      <4> QED BY <2>2, <4>1, <4>2 DEF DirInv
    <3> QED BY <3>1, <3>2
  <2> QED BY <2>2, <2>3 DEF VersionInv, SeenInv
<1>3. CASE AddWatch(r)
  <2>1. /\ watched[r] \cup refused[r] \cup {"sub"} \subseteq watched'[r] \cup refused'[r]
        /\ \A q \in Roots \ {r} : watched'[q] = watched[q] /\ refused'[q] = refused[q]
    BY <1>3, AddWatchesFacts DEF AddWatch, Dirs
  <2>2. /\ \A q \in Roots \ {r} : at'[q] = at[q]
        /\ UNCHANGED <<sources, kind, events, snapshot>>
    BY <1>3 DEF AddWatch
  <2>3. DirInv'
    BY <2>1, <2>2 DEF sources, DirInv
  <2> QED BY <2>2, <2>3 DEF sources, VersionInv, SeenInv
<1>4. CASE SendChange(r)
  BY <1>4 DEF SendChange, sources, watches, DirInv, VersionInv, SeenInv
<1>5. ASSUME Poll(r) \/ StartWatcher(r) PROVE WatchInv'
  <2>1. snapshot' = [snapshot EXCEPT ![r] = src[r]] /\ UNCHANGED <<sources, events, at>>
    BY <1>5 DEF Poll, StartWatcher
  <2>2. VersionInv'
    <3> SUFFICES ASSUME NEW q \in Roots, NEW g \in Files
                 PROVE  src'[q][g] <= edits' /\ snapshot'[q][g] <= src'[q][g]
      BY DEF VersionInv
    <3>1. src[q][g] \in Nat /\ src[q][g] <= edits /\ snapshot[q][g] <= src[q][g]
      BY DEF VersionInv, Versions
    <3> QED BY <2>1, <3>1 DEF sources
  <2>3. CASE UNCHANGED watches
    <3>1. DirInv' /\ SeenInv'
      BY <1>5, <2>1, <2>3 DEF Poll, StartWatcher, AddWatches, sources, watches, DirInv,
                              SeenInv, Present, Dirs
    <3> QED BY <2>2, <3>1
  <2>4. CASE kind' = [kind EXCEPT ![r] = "events"] /\ AddWatches(r, Present(r))
    <3>1. Present(r) \in SUBSET Dirs
      BY DEF Present, Dirs
    <3>2. /\ Present(r) \subseteq watched'[r] \cup refused'[r]
          /\ \A q \in Roots \ {r} : watched'[q] = watched[q] /\ refused'[q] = refused[q]
      BY <2>4, <3>1, AddWatchesFacts
    <3>3. DirInv' /\ SeenInv'
      BY <2>1, <2>4, <3>2 DEF sources, DirInv, SeenInv, Present, Dirs
    <3> QED BY <2>2, <3>3
  <2> QED BY <1>5, <2>3, <2>4 DEF Poll, StartWatcher
<1>6. CASE Receive(r) \/ UNCHANGED watchVars
  BY <1>6 DEF Receive, watchVars, sources, watches, DirInv, VersionInv, SeenInv
<1> QED BY <1>1, <1>2, <1>3, <1>4, <1>5, <1>6 DEF WatcherStep, Watcher

(***************************************************************************)
(* Type correctness                                                        *)
(***************************************************************************)

LEMMA LabelType ==
    ASSUME pc \in [Roots -> Labels], NEW r \in Roots, NEW label \in Labels,
           Goto(r, label)
    PROVE  pc' \in [Roots -> Labels]
  BY DEF Goto

LEMMA WriteType ==
    ASSUME TypeOK, NEW r \in Roots, NEW status \in Statuses, Write(r, status)
    PROVE  /\ state' \in [Roots -> Statuses]
           /\ copy' \in [Roots -> [Roots -> Statuses]]
           /\ lock' \in Roots \cup {Nobody}
<1>1. Unread \in [Roots -> Statuses]
  BY DEF Unread, Statuses
<1> QED BY <1>1 DEF TypeOK, Write

LEMMA ProfileTypes ==
    ASSUME TypeOK, VersionInv, TurnInv, NEW r \in Roots, ProfileStep(r)
    PROVE  TypeOK'
<1> USE DEF TypeOK
<1>1. ASSUME UNCHANGED watchVars PROVE WatchTypeOK'
  BY <1>1 DEF watchVars, WatchTypeOK
<1>2. CASE FirstSync(r)
  BY <1>1, <1>2, LabelType DEF FirstSync, storeVars, Labels
<1>3. CASE StartLoop(r)
  BY <1>3, WatchTypes, LabelType DEF StartLoop, storeVars, Labels
<1>4. CASE TakeChange(r)
  BY <1>4, WatchTypes, LabelType DEF TakeChange, storeVars, Labels
<1>5. CASE ReadState(r)
  <2>1. pc' \in [Roots -> Labels]
    BY <1>5, LabelType DEF ReadState, Labels
  <2> QED BY <1>1, <1>5, <2>1 DEF ReadState
<1>6. CASE TellSyncing(r)
  <2>1. pc' \in [Roots -> Labels]
    BY <1>6, LabelType DEF TellSyncing, Labels
  <2>2. Write(r, "syncing") /\ "syncing" \in Statuses
    BY <1>6 DEF TellSyncing, Statuses
  <2> QED BY <1>1, <1>6, <2>1, <2>2, WriteType DEF TellSyncing
<1>7. CASE TellResult(r)
  <2>1. pc' \in [Roots -> Labels]
    BY <1>7, LabelType DEF TellResult, Labels
  <2>2. Write(r, result[r]) /\ result[r] \in Statuses
    BY <1>7 DEF TellResult, Statuses
  <2>3. turn' \in 1..(NumRoots + 1)
    <3>1. CASE kind[r] # "none"
      BY <1>7, <3>1 DEF TellResult
    <3>2. CASE kind[r] = "none"
      <4>1. turn = r
        BY <1>7, <3>2 DEF TellResult, TurnInv, Busy, Writing
      <4>2. turn' = r + 1
        BY <1>7, <3>2, <4>1 DEF TellResult, NextTurn
      <4> QED BY <4>2, RootsAssumption DEF Roots
    <3> QED BY <3>1, <3>2
  <2> QED BY <1>1, <1>7, <2>1, <2>2, <2>3, WriteType DEF TellResult
<1>8. CASE CopyFile(r)
  <2>1. PICK f \in todo[r] : /\ dst' = [dst EXCEPT ![r][f] = src[r][f]]
                             /\ todo' = [todo EXCEPT ![r] = @ \ {f}]
    BY <1>8 DEF CopyFile
  <2>2. [dst[r] EXCEPT ![f] = src[r][f]] \in Versions
    BY DEF WatchTypeOK, Versions
  <2>3. dst' \in [Roots -> Versions] /\ todo' \in [Roots -> SUBSET Files]
    BY <2>1, <2>2
  <2> QED BY <1>1, <1>8, <2>3 DEF CopyFile, storeVars
<1>9. ASSUME SyncSucceeds(r) \/ SyncFails(r) PROVE TypeOK'
  <2>1. PICK how \in Done : EndSync(r, how)
    BY <1>9 DEF SyncSucceeds, SyncFails, Done
  <2>2. /\ pc' \in [Roots -> Labels] /\ todo' \in [Roots -> SUBSET Files]
        /\ result' \in [Roots -> Done \cup {"absent"}]
    BY <2>1, LabelType DEF EndSync, Labels
  <2> QED BY <1>1, <1>9, <2>2 DEF SyncSucceeds, SyncFails, storeVars
<1> QED BY <1>2, <1>3, <1>4, <1>5, <1>6, <1>7, <1>8, <1>9 DEF ProfileStep

(***************************************************************************)
(* The profiles' goroutines                                                *)
(***************************************************************************)

\* What a step does to the watchers.
LEMMA WatchPart ==
    ASSUME NEW r \in Roots, SourceStep(r) \/ WatcherStep(r) \/ ProfileStep(r)
    PROVE  \/ SourceStep(r) \/ WatcherStep(r) \/ StartWatcher(r) \/ Receive(r)
           \/ UNCHANGED watchVars
  BY DEF ProfileStep, FirstSync, StartLoop, TakeChange, ReadState, TellSyncing,
         TellResult, CopyFile, SyncSucceeds, SyncFails

LEMMA KindLasts ==
    ASSUME NEW r \in Roots, SourceStep(r) \/ WatcherStep(r)
    PROVE  kind' = kind
  BY DEF SourceStep, MakeDir, Edit, WatcherStep, Watcher, TakeEvent, AddWatch,
         SendChange, Poll

LEMMA LoopSteps ==
    ASSUME TypeOK, LoopInv, NEW r \in Roots,
           SourceStep(r) \/ WatcherStep(r) \/ ProfileStep(r)
    PROVE  LoopInv'
<1> USE DEF LoopInv, TypeOK, Writing, Busy
<1>1. CASE SourceStep(r) \/ WatcherStep(r)
  <2>1. UNCHANGED <<loopVars, storeVars>> /\ kind' = kind
    BY <1>1, KindLasts DEF SourceStep, WatcherStep
  <2> QED BY <2>1 DEF loopVars, storeVars, TurnInv, StoreInv, OwnStatus
<1>2. CASE FirstSync(r)
  BY <1>2 DEF FirstSync, Goto, storeVars, watchVars, TurnInv, StoreInv, OwnStatus
<1>3. CASE StartLoop(r)
  BY <1>3 DEF StartLoop, StartWatcher, Goto, storeVars, TurnInv, StoreInv, OwnStatus,
              WatchTypeOK
<1>4. CASE TakeChange(r)
  BY <1>4 DEF TakeChange, Receive, Goto, storeVars, TurnInv, StoreInv, OwnStatus
<1>5. CASE ReadState(r)
  <2>1. \A q \in Roots : pc[q] \notin Writing
    BY <1>5 DEF ReadState, StoreInv, Nobody, Roots
  <2>2. /\ lock' = r /\ copy'[r] = state /\ state' = state
        /\ UNCHANGED <<kind, turn, result>>
    BY <1>5 DEF ReadState, watchVars
  <2>3. \/ pc[r] = "tellSyncing" /\ pc' = [pc EXCEPT ![r] = "writeSyncing"]
        \/ pc[r] = "tellResult" /\ pc' = [pc EXCEPT ![r] = "writeResult"]
    BY <1>5 DEF ReadState, Goto
  <2>4. StoreInv'
    BY <2>1, <2>2, <2>3 DEF StoreInv
  <2> QED BY <2>2, <2>3, <2>4 DEF TurnInv, OwnStatus
<1>6. CASE TellSyncing(r)
  <2>1. lock = r /\ copy[r] = state
    BY <1>6 DEF TellSyncing, StoreInv
  <2>2. \A q \in Roots : pc[q] \in Writing => q = r
    BY <2>1 DEF StoreInv
  <2>3. pc' = [pc EXCEPT ![r] = "syncing"] /\ state' = [state EXCEPT ![r] = "syncing"]
    BY <1>6, <2>1 DEF TellSyncing, Goto, Write
  <2> QED BY <1>6, <2>2, <2>3 DEF TellSyncing, watchVars, TurnInv, StoreInv, OwnStatus
<1>7. CASE TellResult(r)
  <2>1. lock = r /\ copy[r] = state
    BY <1>7 DEF TellResult, StoreInv
  <2>2. \A q \in Roots : pc[q] \in Writing => q = r
    BY <2>1 DEF StoreInv
  <2>3. /\ state' = [state EXCEPT ![r] = result[r]]
        /\ pc' = [pc EXCEPT ![r] = IF kind[r] # "none" THEN "watching" ELSE "ready"]
        /\ UNCHANGED <<kind, result>>
    BY <1>7, <2>1 DEF TellResult, Goto, Write, watchVars
  <2>4. StoreInv' /\ OwnStatus'
    BY <2>2, <2>3 DEF StoreInv, OwnStatus
  <2>5. TurnInv'
    <3>1. kind[r] = "none" => turn = r
      BY <1>7 DEF TellResult, TurnInv
    <3>2. \A q \in Roots : q # r /\ pc[q] \in Busy /\ kind[q] = "none" => turn' = q
      BY <1>7, <3>1 DEF TellResult, TurnInv
    <3> QED BY <2>3, <3>2 DEF TurnInv
  <2> QED BY <2>4, <2>5
<1>8. CASE CopyFile(r)
  BY <1>8 DEF CopyFile, watchVars, storeVars, TurnInv, StoreInv, OwnStatus
<1>9. CASE SyncSucceeds(r) \/ SyncFails(r)
  BY <1>9 DEF SyncSucceeds, SyncFails, EndSync, Goto, watchVars, storeVars, TurnInv,
              StoreInv, OwnStatus
<1> QED BY <1>1, <1>2, <1>3, <1>4, <1>5, <1>6, <1>7, <1>8, <1>9 DEF ProfileStep

(***************************************************************************)
(* What is due                                                             *)
(***************************************************************************)

\* Steps of the file system and of the watchers leave to be mirrored what was
\* to be mirrored, and what they change.
LEMMA DueWatchSteps ==
    ASSUME TypeOK, WatchInv, DueInv, NEW r \in Roots, SourceStep(r) \/ WatcherStep(r)
    PROVE  DueInv'
<1> USE DEF TypeOK, WatchTypeOK
<1>1. UNCHANGED <<loopVars, storeVars>> /\ kind' = kind
  BY KindLasts DEF SourceStep, WatcherStep
<1>2. UNCHANGED <<pc, todo, result, dst>>
  BY <1>1 DEF loopVars
<1>3. CASE MakeDir(r)
  <2>1. \A q \in Roots : events[q] \subseteq events'[q]
    BY <1>3, EventType DEF MakeDir
  <2>2. UNCHANGED <<src, seen, at, snapshot, token>>
    BY <1>3 DEF MakeDir
  <2> QED BY <1>1, <1>2, <2>1, <2>2 DEF DueInv, Due
<1>4. ASSUME NEW f \in Files, Edit(r, f) PROVE DueInv'
  <2>1. /\ \A q \in Roots : events[q] \subseteq events'[q]
        /\ \A q \in Roots, g \in Files :
              src'[q][g] = IF q = r /\ g = f THEN src[q][g] + 1 ELSE src[q][g]
        /\ seen'[r] = IF kind[r] # "none" /\ ~Blind(r, f) THEN seen[r] \cup {f}
                                                      ELSE seen[r] \ {f}
        /\ \A q \in Roots \ {r} : seen'[q] = seen[q]
    <3>1. VersionInv
      BY DEF WatchInv
    <3> HIDE DEF TypeOK, WatchTypeOK
    <3>2. \A q \in Roots, g \in Files :
              src'[q][g] = IF q = r /\ g = f THEN src[q][g] + 1 ELSE src[q][g]
      BY <1>4, <3>1, EditFacts
    <3>3. /\ \A q \in Roots : events[q] \subseteq events'[q]
          /\ seen'[r] = IF kind[r] # "none" /\ ~Blind(r, f) THEN seen[r] \cup {f}
                                                        ELSE seen[r] \ {f}
      BY <1>4, <3>1, EditFacts
    <3>4. \A q \in Roots \ {r} : seen'[q] = seen[q]
      BY <1>4, <3>1, EditFacts
    <3> QED BY <3>2, <3>3, <3>4
  <2>2. UNCHANGED <<at, snapshot, token>>
    BY <1>4 DEF Edit
  <2>3. \A q \in Roots, g \in Files :
           ~(q = r /\ g = f) /\ Due(q, g) => Due(q, g)'
    BY <1>1, <1>2, <2>1, <2>2 DEF Due
  <2>4. ASSUME kind[r] = "events", ~Blind(r, f) PROVE Due(r, f)'
    <3>1. CASE DirOf(f) \notin watched[r]
      <4>1. /\ "top" \notin refused[r] /\ DirOf(f) \notin refused[r]
        BY <2>4, <3>1 DEF Blind
      <4>2. DirOf(f) = "sub" /\ f \in Nested
        BY <2>4, <3>1, <4>1 DEF WatchInv, DirInv, DirOf
      <4>3. Made \in events[r] \/ at[r] = "made"
        BY <1>4, <2>4, <3>1, <4>1, <4>2 DEF Edit, WatchInv, DirInv
      <4> QED BY <2>1, <2>2, <4>3 DEF Due
    <3>2. CASE DirOf(f) \in watched[r]
      <4>1. f \in events'[r]
        BY <1>4, <2>4, <3>2, EventType DEF Edit
      <4> QED BY <4>1 DEF Due
    <3> QED BY <3>1, <3>2
  <2>5. ASSUME kind[r] = "polling" PROVE Due(r, f)'
    <3>1. src[r][f] \in Nat /\ snapshot[r][f] \in Nat /\ snapshot[r][f] <= src[r][f]
      BY DEF WatchInv, VersionInv, Versions
    <3>2. snapshot'[r][f] # src'[r][f]
      BY <2>1, <2>2, <3>1
    <3> QED BY <1>1, <2>5, <3>2 DEF Due
  <2> SUFFICES ASSUME NEW q \in Roots, NEW g \in seen'[q], dst'[q][g] # src'[q][g]
               PROVE  Due(q, g)'
    BY DEF DueInv
  <2>6. CASE q = r /\ g = f
    <3>1. CASE kind[r] = "none" \/ Blind(r, f)
      BY <2>1, <2>6, <3>1
    <3> QED BY <2>4, <2>5, <2>6, <3>1
  <2>7. CASE ~(q = r /\ g = f)
    <3>1. g \in seen[q] /\ g \in Files /\ dst[q][g] # src[q][g]
      BY <1>2, <2>1, <2>7
    <3> QED BY <2>3, <2>7, <3>1 DEF DueInv
  <2> QED BY <2>6, <2>7
<1>5. CASE TakeEvent(r)
  <2>1. PICK e \in events[r] :
           /\ events' = [events EXCEPT ![r] = @ \ {e}]
           /\ IF e = Made THEN at' = [at EXCEPT ![r] = "made"] /\ UNCHANGED token
                          ELSE Notify(r) /\ UNCHANGED at
    BY <1>5 DEF TakeEvent
  <2>2. UNCHANGED <<src, seen, snapshot>>
    BY <1>5 DEF TakeEvent, sources
  <2>3. (at'[r] # "waiting" \/ token'[r])
    BY <2>1 DEF Notify
  <2>4. \A q \in Roots \ {r} :
           events'[q] = events[q] /\ at'[q] = at[q] /\ token'[q] = token[q]
    BY <2>1 DEF Notify
  <2> QED BY <1>1, <1>2, <2>2, <2>3, <2>4 DEF DueInv, Due
<1>6. CASE AddWatch(r)
  BY <1>1, <1>2, <1>6 DEF AddWatch, sources, DueInv, Due
<1>7. CASE SendChange(r)
  BY <1>1, <1>2, <1>7 DEF SendChange, Notify, sources, DueInv, Due
<1>8. CASE Poll(r)
  BY <1>1, <1>2, <1>8 DEF Poll, Notify, sources, DueInv, Due
<1> QED BY <1>3, <1>4, <1>5, <1>6, <1>7, <1>8 DEF SourceStep, WatcherStep, Watcher

\* A profile's goroutine drops what is due only by mirroring it.
LEMMA DueLoopSteps ==
    ASSUME TypeOK, WatchInv, LoopInv, DueInv, NEW r \in Roots, ProfileStep(r)
    PROVE  DueInv'
<1> USE DEF TypeOK, WatchTypeOK
<1>1. CASE FirstSync(r)
  BY <1>1 DEF FirstSync, Goto, watchVars, DueInv, Due
<1>2. CASE StartLoop(r)
  <2>1. seen[r] = {}
    BY <1>2 DEF StartLoop, LoopInv, TurnInv, WatchInv, SeenInv
  <2> QED BY <1>2, <2>1 DEF StartLoop, StartWatcher, Goto, sources, DueInv, Due
<1>3. CASE TakeChange(r)
  BY <1>3 DEF TakeChange, Receive, Goto, sources, DueInv, Due
<1>4. CASE ReadState(r)
  BY <1>4 DEF ReadState, Goto, watchVars, DueInv, Due
<1>5. CASE TellSyncing(r)
  BY <1>5 DEF TellSyncing, Goto, watchVars, DueInv, Due
<1>6. CASE TellResult(r)
  <2>1. kind[r] = "none" => seen[r] = {}
    BY DEF WatchInv, SeenInv
  <2> QED BY <1>6, <2>1 DEF TellResult, Goto, watchVars, DueInv, Due
<1>7. CASE CopyFile(r)
  <2>1. PICK f \in todo[r] : /\ dst' = [dst EXCEPT ![r][f] = src[r][f]]
                             /\ todo' = [todo EXCEPT ![r] = @ \ {f}]
    BY <1>7 DEF CopyFile
  <2>2. UNCHANGED <<watchVars, pc, result>>
    BY <1>7 DEF CopyFile
  <2>3. dst'[r][f] = src[r][f]
    BY <2>1 DEF Versions
  <2>4. \A q \in Roots, g \in Files : ~(q = r /\ g = f) =>
           dst'[q][g] = dst[q][g] /\ (g \in todo[q] => g \in todo'[q])
    BY <2>1 DEF Versions
  <2> QED BY <2>2, <2>3, <2>4 DEF watchVars, DueInv, Due
<1>8. CASE SyncSucceeds(r)
  BY <1>8 DEF SyncSucceeds, EndSync, Goto, watchVars, DueInv, Due
<1>9. CASE SyncFails(r)
  BY <1>9 DEF SyncFails, EndSync, Goto, watchVars, DueInv, Due
<1> QED BY <1>1, <1>2, <1>3, <1>4, <1>5, <1>6, <1>7, <1>8, <1>9 DEF ProfileStep

(***************************************************************************)
(* Theorems                                                                *)
(***************************************************************************)

LEMMA StepMInv == MInv /\ [Next]_vars => MInv'
<1> SUFFICES ASSUME MInv, [Next]_vars PROVE MInv'
  OBVIOUS
<1> USE DEF MInv
<1>1. CASE UNCHANGED vars
  BY <1>1 DEF vars, watchVars, loopVars, storeVars, TypeOK, WatchTypeOK, WatchInv, DirInv,
              VersionInv, SeenInv, LoopInv, TurnInv, StoreInv, OwnStatus, DueInv, Due
<1>2. ASSUME NEW r \in Roots, SourceStep(r) \/ WatcherStep(r) PROVE MInv'
  <2>1. TypeOK'
    <3>1. UNCHANGED <<loopVars, storeVars>>
      BY <1>2 DEF SourceStep, WatcherStep
    <3>2. WatchTypeOK'
      BY <1>2, WatchTypes DEF WatchInv
    <3> QED BY <3>1, <3>2 DEF TypeOK, loopVars, storeVars
  <2> QED BY <1>2, <2>1, WatchSteps, LoopSteps, DueWatchSteps
<1>3. ASSUME NEW r \in Roots, ProfileStep(r) PROVE MInv'
  <2>1. TypeOK'
    BY <1>3, ProfileTypes DEF WatchInv, LoopInv
  <2> QED BY <1>3, <2>1, WatchPart, WatchSteps, LoopSteps, DueLoopSteps
<1> QED BY <1>1, <1>2, <1>3 DEF Next

\* The invariant holds of the system: types, the mutex of the state file, the
\* watchers and what is due.
THEOREM MirrorInvariant == Spec => []MInv
  BY InitMInv, StepMInv, PTL DEF Spec

\* Every variable has its type, for any number of profiles, files and edits.
THEOREM MirrorTypes == Spec => []TypeOK
<1>1. MInv => TypeOK
  BY DEF MInv
<1> QED BY <1>1, MirrorInvariant, PTL

\* The goroutines of any number of profiles do not overwrite what another one
\* said in the state file (StateStore.Set).
THEOREM StatusesAreOwn == Spec => []OwnStatus
<1>1. MInv => OwnStatus
  BY DEF MInv, LoopInv
<1> QED BY <1>1, MirrorInvariant, PTL

\* For any number of profiles and files, whatever was edited in a directory that
\* had not been refused its watch is mirrored when nothing is under way after a
\* sync that went well (Changes, sendChange, runProfile).
THEOREM QuietMirrorsAreFresh == Spec => []QuietIsFresh
<1>1. MInv => QuietIsFresh
  BY DEF MInv, DueInv, Due, QuietIsFresh, Quiet, Pending, TypeOK, WatchTypeOK
<1> QED BY <1>1, MirrorInvariant, PTL
================================================================================
