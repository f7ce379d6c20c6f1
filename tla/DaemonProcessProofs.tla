-------------------------- MODULE DaemonProcessProofs --------------------------
(***************************************************************************)
(* Theorems about DaemonProcess: the daemon has one owner, its socket and  *)
(* its lock file lead to that owner, a restart waits for the old daemon,   *)
(* and a forced stop signals nobody else.                                  *)
(***************************************************************************)
EXTENDS DaemonProcess, TLAPS

(***************************************************************************)
(* Type correctness                                                        *)
(***************************************************************************)

LEMMA IdleType == Idle \in ClientType
  BY DEF Idle, ClientType, ClientStages, None, NoFile

\* Init gives every variable a value of its type.
LEMMA InitType == Init => TypeOK
<1> SUFFICES ASSUME Init PROVE TypeOK
  OBVIOUS
<1>1. [stage |-> "unborn", pid |-> CHOOSE p \in Pids : TRUE, told |-> FALSE] \in DaemonType
  <2>1. (CHOOSE p \in Pids : TRUE) \in Pids
    BY PidNumbersAssumption
  <2> QED BY <2>1 DEF DaemonType, Stages
<1>2. daemons \in [Instances -> DaemonType]
  BY <1>1 DEF Init
<1>3. client \in [Clients -> ClientType]
  BY IdleType DEF Init
<1>4. launched \in 0..MaxLaunches /\ crashes \in 0..MaxCrashes
  BY LaunchBoundsAssumption DEF Init
<1>5. /\ foreign \subseteq Program /\ hit \in BOOLEAN
      /\ holder \in Instances \cup {None} /\ sock \in Instances \cup {None}
      /\ lockFile \in Pids \cup {NoFile, Empty}
  BY DEF Init
<1> QED
  BY <1>2, <1>3, <1>4, <1>5 DEF TypeOK

\* An instance that enters a stage remains an instance.
LEMMA EnterType ==
    ASSUME daemons \in [Instances -> DaemonType], NEW d \in Instances,
           NEW stage \in Stages, Enter(d, stage)
    PROVE  daemons' \in [Instances -> DaemonType]
<1>1. [daemons[d] EXCEPT !.stage = stage] \in DaemonType
  BY DEF DaemonType
<1> QED BY <1>1 DEF Enter

\* A client that goes on or ends remains a client.
LEMMA ClientMoves ==
    ASSUME client \in [Clients -> ClientType], NEW c \in Clients,
           NEW pc \in ClientStages, Goto(c, pc) \/ Finish(c)
    PROVE  client' \in [Clients -> ClientType]
<1>1. [client[c] EXCEPT !.pc = pc] \in ClientType
  BY DEF ClientType
<1> QED BY <1>1, IdleType DEF Goto, Finish

LEMMA StoppedType ==
    ASSUME client \in [Clients -> ClientType], NEW c \in Clients, Stopped(c)
    PROVE  client' \in [Clients -> ClientType]
<1>1. "ensurePing" \in ClientStages
  BY DEF ClientStages
<1> QED BY <1>1, ClientMoves DEF Stopped

LEMMA ShutdownErrorType ==
    ASSUME client \in [Clients -> ClientType], NEW c \in Clients, ShutdownError(c)
    PROVE  client' \in [Clients -> ClientType]
<1>1. "forceRead" \in ClientStages
  BY DEF ClientStages
<1> QED BY <1>1, ClientMoves, StoppedType DEF ShutdownError

\* The steps of Serve keep every variable in its type.
LEMMA DaemonStepType ==
    ASSUME TypeOK, NEW d \in Instances, DaemonStep(d) PROVE TypeOK'
<1> USE DEF TypeOK
<1>0. Stages \cap {"locked", "gone", "identified", "leaving", "cleaned", "recovering",
                   "serving", "closing"}
        = {"locked", "gone", "identified", "leaving", "cleaned", "recovering",
           "serving", "closing"}
  BY DEF Stages, Starting, Working
<1>d. daemons[d].pid \in Pids
  BY DEF DaemonType
<1>1. CASE TakeLock(d)
  <2>1. daemons' \in [Instances -> DaemonType]
    BY <1>0, <1>1, EnterType DEF TakeLock
  <2> QED BY <1>1, <2>1 DEF TakeLock
<1>2. CASE WriteLock(d)
  <2>1. daemons' \in [Instances -> DaemonType]
    BY <1>0, <1>2, EnterType DEF WriteLock
  <2> QED BY <1>2, <1>d, <2>1 DEF WriteLock
<1>3. CASE RemoveStaleSocket(d)
  <2>1. daemons' \in [Instances -> DaemonType]
    BY <1>0, <1>3, EnterType DEF RemoveStaleSocket
  <2> QED BY <1>3, <2>1 DEF RemoveStaleSocket
<1>4. CASE Listen(d)
  <2>1. daemons' \in [Instances -> DaemonType]
    BY <1>0, <1>4, EnterType DEF Listen
  <2> QED BY <1>4, <2>1 DEF Listen
<1>5. CASE Recover(d)
  <2>1. daemons' \in [Instances -> DaemonType]
    BY <1>0, <1>5, EnterType DEF Recover, RecoverFails
  <2> QED BY <1>5, <2>1, LaunchBoundsAssumption DEF Recover, RecoverFails
<1>6. CASE CloseListener(d) \/ RemoveSocket(d)
  <2>1. daemons' \in [Instances -> DaemonType]
    BY <1>0, <1>6, EnterType DEF CloseListener, RemoveSocket
  <2> QED BY <1>6, <2>1 DEF CloseListener, RemoveSocket
<1>7. CASE ReleaseLock(d)
  <2>1. daemons' \in [Instances -> DaemonType]
    BY <1>0, <1>7, EnterType DEF ReleaseLock
  <2> QED BY <1>7, <2>1 DEF ReleaseLock
<1> QED
  BY <1>1, <1>2, <1>3, <1>4, <1>5, <1>6, <1>7 DEF DaemonStep

LEMMA DieType ==
    ASSUME TypeOK, NEW d \in Instances, Die(d)
    PROVE  daemons' \in [Instances -> DaemonType] /\ holder' \in Instances \cup {None}
<1>1. "gone" \in Stages
  BY DEF Stages
<1> QED BY <1>1, EnterType DEF Die, TypeOK

\* Telling daemons to stop keeps them daemons.
LEMMA ToldType ==
    ASSUME daemons \in [Instances -> DaemonType], NEW d \in Instances
    PROVE  [daemons[d] EXCEPT !.told = TRUE] \in DaemonType
BY DEF DaemonType

\* The steps of a client keep every variable in its type.
LEMMA ClientStepType ==
    ASSUME TypeOK, NEW c \in Clients, Begin(c) \/ ClientStep(c) PROVE TypeOK'
<1> USE DEF TypeOK
<1>0. ClientStages = {"idle", "stopPing", "shutdown", "answer", "stopPoll", "forceRead",
          "forceCheck", "forceTerm", "forcePoll", "ensurePing", "launch", "startPoll"}
  BY DEF ClientStages
<1>1. CASE Begin(c)
  <2>1. PICK cmd \in Commands :
            client' = [client EXCEPT ![c] = [@ EXCEPT !.pc = EntryOf(cmd), !.cmd = cmd]]
    BY <1>1 DEF Begin
  <2>2. EntryOf(cmd) \in ClientStages /\ cmd \in AllCommands
    BY <1>0, CommandsAssumption DEF EntryOf
  <2>3. [client[c] EXCEPT !.pc = EntryOf(cmd), !.cmd = cmd] \in ClientType
    BY <2>2 DEF ClientType
  <2> QED BY <1>1, <2>1, <2>3 DEF Begin, ClientOnly
<1>2. CASE StopPing(c)
  BY <1>0, <1>2, ClientMoves, StoppedType DEF StopPing, ClientOnly
<1>3. CASE ShutdownRequest(c)
  <2>1. sock \in Instances
    BY <1>3 DEF ShutdownRequest, Answered, Connects, None
  <2>2. daemons' \in [Instances -> DaemonType]
    BY <1>3, <2>1, ToldType DEF ShutdownRequest
  <2>3. [client[c] EXCEPT !.pc = "answer", !.daemon = sock] \in ClientType
    BY <1>0, <2>1 DEF ClientType
  <2> QED BY <1>3, <2>2, <2>3 DEF ShutdownRequest
<1>4. CASE ShutdownUnsent(c)
  BY <1>4, ShutdownErrorType DEF ShutdownUnsent, ClientOnly
<1>5. CASE ShutdownAnswer(c)
  BY <1>0, <1>5, ClientMoves, ShutdownErrorType DEF ShutdownAnswer, ClientOnly
<1>6. CASE StopPoll(c)
  BY <1>0, <1>6, ClientMoves, StoppedType DEF StopPoll, ClientOnly
<1>7. CASE ForceRead(c)
  <2>1. lockFile \in Pids => [client[c] EXCEPT !.pc = "forceCheck", !.pid = lockFile] \in ClientType
    BY <1>0 DEF ClientType
  <2>2. client' \in [Clients -> ClientType]
    BY <1>0, <1>7, <2>1, ClientMoves DEF ForceRead
  <2> QED BY <1>7, <2>2 DEF ForceRead, ClientOnly
<1>8. CASE ForceCheck(c)
  <2>1. client' \in [Clients -> ClientType]
    BY <1>0, <1>8, ClientMoves DEF ForceCheck
  <2> QED BY <1>8, <2>1 DEF ForceCheck, ClientOnly
<1>9. CASE ForceTerm(c)
  <2>1. daemons' \in [Instances -> DaemonType]
    BY <1>9, ToldType DEF ForceTerm
  <2>2. client' \in [Clients -> ClientType]
    BY <1>0, <1>9, ClientMoves DEF ForceTerm
  <2>3. hit' \in BOOLEAN
    BY <1>9 DEF ForceTerm
  <2> QED BY <1>9, <2>1, <2>2, <2>3 DEF ForceTerm
<1>10. CASE ForcePoll(c)
  <2>1. client' \in [Clients -> ClientType]
    BY <1>0, <1>10, ClientMoves DEF ForcePoll
  <2>2. daemons' \in [Instances -> DaemonType] /\ holder' \in Instances \cup {None}
    BY <1>10, DieType DEF ForcePoll, Of
  <2>3. hit' \in BOOLEAN
    BY <1>10 DEF ForcePoll
  <2> QED BY <1>10, <2>1, <2>2, <2>3 DEF ForcePoll
<1>11. CASE EnsurePing(c) \/ LaunchFails(c) \/ StartPoll(c)
  <2>1. client' \in [Clients -> ClientType]
    BY <1>0, <1>11, ClientMoves DEF EnsurePing, LaunchFails, StartPoll
  <2> QED BY <1>11, <2>1 DEF EnsurePing, LaunchFails, StartPoll, ClientOnly
<1>12. CASE Launch(c)
  <2>1. launched + 1 \in Instances /\ launched' \in 0..MaxLaunches
    BY <1>12, LaunchBoundsAssumption DEF Launch, Instances
  <2>2. \A pid \in Pids : [stage |-> "launched", pid |-> pid, told |-> FALSE] \in DaemonType
    BY DEF DaemonType, Stages, Starting
  <2>3. daemons' \in [Instances -> DaemonType]
    BY <1>12, <2>1, <2>2 DEF Launch
  <2>4. client' \in [Clients -> ClientType]
    BY <1>0, <1>12, ClientMoves DEF Launch
  <2> QED BY <1>12, <2>1, <2>3, <2>4 DEF Launch
<1> QED
  BY <1>1, <1>2, <1>3, <1>4, <1>5, <1>6, <1>7, <1>8, <1>9, <1>10, <1>11, <1>12
     DEF ClientStep

\* Every step keeps every variable in its type.
LEMMA StepType == TypeOK /\ [Next]_vars => TypeOK'
<1> SUFFICES ASSUME TypeOK, [Next]_vars PROVE TypeOK'
  OBVIOUS
<1>1. ASSUME NEW d \in Instances, Crash(d) PROVE TypeOK'
  <2>1. daemons' \in [Instances -> DaemonType] /\ holder' \in Instances \cup {None}
    BY <1>1, DieType DEF Crash
  <2> QED BY <1>1, <2>1, LaunchBoundsAssumption DEF Crash, TypeOK
<1>2. CASE ForeignProcess
  BY <1>2 DEF ForeignProcess, TypeOK
<1>3. CASE UNCHANGED vars
  BY <1>3 DEF vars, TypeOK
<1> QED
  BY <1>1, <1>2, <1>3, DaemonStepType, ClientStepType DEF Next

\* Every variable has its type in every behaviour.
THEOREM DaemonTypes == Spec => []TypeOK
BY InitType, StepType, PTL DEF Spec

(***************************************************************************)
(* The inductive invariant                                                 *)
(***************************************************************************)

\* Stages that need the lock, and those among them that wrote daemon.lock.
Named == {"identified", "cleaned"} \cup Working
Holding == {"locked", "leaving"} \cup Named

\* Instances are launched in their order, and no pid is used twice at a time.
LaunchInv ==
    /\ \A d \in Instances : d > launched => Stage(d) = "unborn"
    /\ \A d \in Instances : Alive(d) => ~Foreign(daemons[d].pid)

\* Who works has the lock, is named by daemon.lock, and listens at the socket.
OwnerInv ==
    /\ \A d \in Instances : Stage(d) \in Holding => holder = d
    /\ \A d \in Instances : Stage(d) \in Named => lockFile = daemons[d].pid
    /\ \A d \in Instances : Stage(d) \in Listening => sock = d

DInv == TypeOK /\ LaunchInv /\ OwnerInv

LEMMA InitDInv == Init => DInv
<1> SUFFICES ASSUME Init PROVE DInv
  OBVIOUS
<1>1. TypeOK
  BY InitType
<1>2. \A d \in Instances : Stage(d) = "unborn"
  BY DEF Init, Stage
<1> QED
  BY <1>1, <1>2 DEF DInv, LaunchInv, OwnerInv, Alive, Holding, Named, Working, Listening

\* An instance that enters a stage changes nothing else of any instance.
LEMMA Entering ==
    ASSUME TypeOK, NEW d \in Instances, NEW stage, Enter(d, stage)
    PROVE  /\ Stage(d)' = stage
           /\ \A e \in Instances : daemons'[e].pid = daemons[e].pid
           /\ \A e \in Instances : daemons'[e].told = daemons[e].told
           /\ \A e \in Instances \ {d} : Stage(e)' = Stage(e)
BY DEF TypeOK, Enter, Stage, DaemonType

\* The steps of Serve keep the invariant.
LEMMA DaemonStepInv ==
    ASSUME DInv, NEW d \in Instances, DaemonStep(d) PROVE LaunchInv' /\ OwnerInv'
<1> USE DEF DInv, LaunchInv, OwnerInv, Alive, Foreign, Holding, Named, Working, Listening
<1>0. \A e \in Instances : e # None
  BY DEF Instances, None
<1>1. CASE TakeLock(d)
  <2>1. CASE holder = None /\ holder' = d /\ Enter(d, "locked")
    BY <1>0, <1>1, <2>1, Entering DEF TakeLock
  <2>2. CASE holder' = holder /\ Enter(d, "gone")
    BY <1>1, <2>2, Entering DEF TakeLock
  <2> QED BY <1>1, <2>1, <2>2 DEF TakeLock
<1>2. CASE WriteLock(d)
  BY <1>0, <1>2, Entering DEF WriteLock, Stage
<1>3. CASE RemoveStaleSocket(d)
  BY <1>0, <1>3, Entering DEF RemoveStaleSocket, Connects
<1>4. CASE Listen(d)
  BY <1>0, <1>4, Entering DEF Listen
<1>5. CASE Recover(d)
  BY <1>0, <1>5, Entering DEF Recover, RecoverFails
<1>6. CASE CloseListener(d)
  BY <1>0, <1>6, Entering DEF CloseListener
<1>7. CASE RemoveSocket(d)
  BY <1>0, <1>7, Entering DEF RemoveSocket
<1>8. CASE ReleaseLock(d)
  BY <1>0, <1>8, Entering DEF ReleaseLock
<1> QED
  BY <1>1, <1>2, <1>3, <1>4, <1>5, <1>6, <1>7, <1>8 DEF DaemonStep

\* So does a death.
LEMMA DieInv ==
    ASSUME DInv, NEW d \in Instances, Die(d), Alive(d),
           UNCHANGED <<launched, foreign, lockFile, sock>>
    PROVE  LaunchInv' /\ OwnerInv'
BY Entering
   DEF Die, DInv, LaunchInv, OwnerInv, Alive, Foreign, Holding, Named, Working, Listening,
       None

\* What clients tell a daemon changes neither stages nor pids.
LEMMA Telling ==
    ASSUME DInv, UNCHANGED <<launched, foreign, holder, lockFile, sock>>,
           \A d \in Instances : Stage(d)' = Stage(d) /\ daemons'[d].pid = daemons[d].pid
    PROVE  LaunchInv' /\ OwnerInv'
BY DEF DInv, LaunchInv, OwnerInv, Alive, Foreign

\* A client's step launches, tells, kills, or leaves the daemons alone.
LEMMA ClientStepInv ==
    ASSUME DInv, NEW c \in Clients, Begin(c) \/ ClientStep(c)
    PROVE  LaunchInv' /\ OwnerInv'
<1>1. CASE ClientOnly
  BY <1>1, Telling DEF ClientOnly, Stage
<1>2. CASE ShutdownRequest(c)
  <2>1. \A d \in Instances : Stage(d)' = Stage(d) /\ daemons'[d].pid = daemons[d].pid
    BY <1>2 DEF ShutdownRequest, Stage, DInv, TypeOK, DaemonType
  <2> QED BY <1>2, <2>1, Telling DEF ShutdownRequest
<1>3. CASE ForceTerm(c)
  <2>1. \A d \in Instances : Stage(d)' = Stage(d) /\ daemons'[d].pid = daemons[d].pid
    BY <1>3 DEF ForceTerm, Stage, DInv, TypeOK, DaemonType
  <2> QED BY <1>3, <2>1, Telling DEF ForceTerm
<1>4. CASE ForcePoll(c)
  <2>1. CASE UNCHANGED <<daemons, holder>>
    BY <1>4, <2>1, Telling DEF ForcePoll, Stage
  <2>2. CASE \E d \in Of(client[c].pid) : Die(d)
    BY <1>4, <2>2, DieInv DEF ForcePoll, Of
  <2> QED BY <1>4, <2>1, <2>2 DEF ForcePoll
<1>5. CASE Launch(c)
  <2>0. PICK new \in Instances : new = launched + 1
    BY <1>5, LaunchBoundsAssumption DEF Launch, Instances, DInv, TypeOK
  <2>1. /\ new > launched /\ new # None /\ Stage(new) = "unborn"
        /\ \A d \in Instances : d > launched' => d > launched /\ d # new
    BY <1>5, <2>0, LaunchBoundsAssumption DEF Launch, Instances, DInv, TypeOK, LaunchInv, None
  <2>2. PICK pid \in Pids \ PidsInUse :
          daemons' = [daemons EXCEPT ![new] =
                         [stage |-> "launched", pid |-> pid, told |-> FALSE]]
    BY <1>5, <2>0 DEF Launch
  <2>3. /\ Stage(new)' = "launched" /\ ~Foreign(daemons'[new].pid)
        /\ \A d \in Instances \ {new} :
              Stage(d)' = Stage(d) /\ daemons'[d].pid = daemons[d].pid
    <3>1. ~Foreign(pid)
      BY DEF PidsInUse, Foreign
    <3>2. daemons'[new] = [stage |-> "launched", pid |-> pid, told |-> FALSE]
      BY <2>1, <2>2 DEF DInv, TypeOK
    <3>3. \A d \in Instances \ {new} : daemons'[d] = daemons[d]
      BY <2>2 DEF DInv, TypeOK
    <3> QED BY <3>1, <3>2, <3>3 DEF Stage
  <2>4. \A d \in Instances : Alive(d) => ~Foreign(daemons[d].pid)
    BY DEF DInv, LaunchInv
  <2>5. LaunchInv'
    <3>1. foreign' = foreign
      BY <1>5 DEF Launch
    <3> QED BY <2>1, <2>3, <2>4, <3>1 DEF DInv, LaunchInv, Alive, Foreign
  <2> QED
    <3>1. UNCHANGED <<holder, lockFile, sock>>
      BY <1>5 DEF Launch
    <3>2. "launched" \notin Holding \cup Named \cup Listening
      BY DEF Holding, Named, Working, Listening
    <3> QED BY <2>1, <2>3, <2>5, <3>1, <3>2 DEF DInv, OwnerInv
<1> QED
  BY <1>1, <1>2, <1>3, <1>4, <1>5
     DEF ClientStep, Begin, StopPing, ShutdownUnsent, ShutdownAnswer, StopPoll,
         ForceRead, ForceCheck, EnsurePing, LaunchFails, StartPoll

\* Every step keeps the invariant.
LEMMA StepDInv == DInv /\ [Next]_vars => DInv'
<1> SUFFICES ASSUME DInv, [Next]_vars PROVE DInv'
  OBVIOUS
<1>1. TypeOK'
  BY StepType DEF DInv
<1>2. ASSUME NEW d \in Instances, Crash(d) PROVE LaunchInv' /\ OwnerInv'
  BY <1>2, DieInv DEF Crash
<1>3. CASE ForeignProcess
  <2>1. \A f \in foreign' \ foreign : f.pid \notin PidsInUse
    BY <1>3 DEF ForeignProcess
  <2>2. \A d \in Instances : Alive(d) => daemons[d].pid \in PidsInUse
    BY DEF PidsInUse
  <2>3. UNCHANGED <<daemons, launched, holder, lockFile, sock>>
    BY <1>3 DEF ForeignProcess
  <2>4. \A d \in Instances : Alive(d) => \A f \in foreign' : f.pid # daemons[d].pid
    BY <2>1, <2>2 DEF DInv, LaunchInv, Foreign
  <2>5. LaunchInv'
    BY <2>3, <2>4 DEF DInv, LaunchInv, Alive, Stage, Foreign
  <2>6. OwnerInv'
    BY <2>3 DEF DInv, OwnerInv, Stage
  <2> QED BY <1>1, <2>5, <2>6 DEF DInv
<1>4. CASE UNCHANGED vars
  <2>1. LaunchInv' /\ OwnerInv'
    BY <1>4, Telling DEF vars, Stage
  <2> QED BY <1>1, <2>1 DEF DInv
<1> QED
  BY <1>1, <1>2, <1>3, <1>4, DaemonStepInv, ClientStepInv DEF Next, DInv

LEMMA AlwaysDInv == Spec => []DInv
BY InitDInv, StepDInv, PTL DEF Spec

\* At most one daemon recovers, serves or shuts services down.
THEOREM OneDaemonOwns == Spec => []OneOwner
<1>1. DInv => OneOwner
  BY DEF DInv, OwnerInv, OneOwner, Holding, Named
<1> QED BY <1>1, AlwaysDInv, PTL

\* A daemon that serves is the one behind the socket file.
THEOREM DaemonReachable == Spec => []ServingReachable
<1>1. DInv => ServingReachable
  BY DEF DInv, OwnerInv, ServingReachable, Listening
<1> QED BY <1>1, AlwaysDInv, PTL

\* daemon.lock names the daemon that works.
THEOREM LockFileTruthful == Spec => []LockFileNamesOwner
<1>1. DInv => LockFileNamesOwner
  BY DEF DInv, OwnerInv, LockFileNamesOwner, Named
<1> QED BY <1>1, AlwaysDInv, PTL

(***************************************************************************)
(* Restarts                                                                *)
(***************************************************************************)

After == {"closing", "leaving", "gone"}
Served == {"serving"} \cup After

\* A daemon that served never listens again once it has stopped doing so.
LEMMA StagesGoOn ==
    ASSUME DInv, [Next]_vars, NEW t \in Instances
    PROVE  /\ Stage(t) \in Served => Stage(t)' \in Served
           /\ Stage(t) \in After => Stage(t)' \in After
<1> USE DEF After, Served
<1>1. CASE UNCHANGED daemons
  BY <1>1 DEF Stage
<1>2. ASSUME NEW d \in Instances, DaemonStep(d) PROVE UNCHANGED daemons \/ \E stage : Enter(d, stage)
  BY <1>2 DEF DaemonStep, TakeLock, WriteLock, RemoveStaleSocket, Listen, Recover,
              RecoverFails, CloseListener, RemoveSocket, ReleaseLock
<1>3. ASSUME NEW d \in Instances, DaemonStep(d)
      PROVE  /\ Stage(t) \in Served => Stage(t)' \in Served
             /\ Stage(t) \in After => Stage(t)' \in After
  <2>1. CASE t # d
    BY <1>1, <1>2, <1>3, <2>1, Entering DEF DInv
  <2>2. CASE TakeLock(d) \/ WriteLock(d) \/ RemoveStaleSocket(d) \/ Listen(d) \/ Recover(d)
    <3>1. Stage(d) \notin Served
      BY <2>2 DEF TakeLock, WriteLock, RemoveStaleSocket, Listen, Recover
    <3> QED BY <2>1, <3>1
  <2>3. CASE CloseListener(d) \/ RemoveSocket(d) \/ ReleaseLock(d)
    <3>1. Stage(d)' \in After
      BY <2>3, Entering DEF CloseListener, RemoveSocket, ReleaseLock, DInv
    <3> QED BY <2>1, <3>1
  <2> QED BY <1>3, <2>2, <2>3 DEF DaemonStep
<1>4. ASSUME NEW d \in Instances, Die(d)
      PROVE  /\ Stage(t) \in Served => Stage(t)' \in Served
             /\ Stage(t) \in After => Stage(t)' \in After
  BY <1>4, Entering DEF Die, DInv
<1>5. ASSUME NEW c \in Clients, Begin(c) \/ ClientStep(c)
      PROVE  /\ Stage(t) \in Served => Stage(t)' \in Served
             /\ Stage(t) \in After => Stage(t)' \in After
  <2>1. CASE Launch(c)
    <3>1. PICK new \in Instances : new = launched + 1
      BY <2>1, LaunchBoundsAssumption DEF Launch, Instances, DInv, TypeOK
    <3>2. Stage(new) = "unborn"
      BY <3>1, LaunchBoundsAssumption DEF DInv, LaunchInv, TypeOK, Instances
    <3>3. t # new => daemons'[t] = daemons[t]
      BY <2>1, <3>1 DEF Launch, DInv, TypeOK
    <3> QED BY <3>2, <3>3 DEF Stage
  <2>2. CASE ShutdownRequest(c)
    BY <2>2 DEF ShutdownRequest, Stage, DInv, TypeOK, DaemonType
  <2>3. CASE ForceTerm(c)
    BY <2>3 DEF ForceTerm, Stage, DInv, TypeOK, DaemonType
  <2>4. CASE ForcePoll(c)
    BY <1>1, <1>4, <2>4 DEF ForcePoll, Of
  <2>5. CASE ClientOnly
    BY <1>1, <2>5 DEF ClientOnly
  <2> QED
    BY <1>5, <2>1, <2>2, <2>3, <2>4, <2>5
       DEF ClientStep, Begin, StopPing, ShutdownUnsent, ShutdownAnswer, StopPoll,
           ForceRead, ForceCheck, EnsurePing, LaunchFails, StartPoll
<1> QED
  BY <1>1, <1>3, <1>4, <1>5 DEF Next, Crash, ForeignProcess, vars

\* What a client knows of the daemon that took its shutdown request.
Knows(c) ==
    /\ client[c].pc \in {"idle", "stopPing", "shutdown"} => client[c].daemon = None
    /\ client[c].daemon # None => Stage(client[c].daemon) \in Served
    /\ client[c].daemon # None /\ client[c].pc \in {"ensurePing", "launch", "startPoll"}
          => Stage(client[c].daemon) \in After

TargetInv == \A c \in Clients : Knows(c)

\* The end of a stop: whoever was told has stopped listening.
LEMMA StoppedKnows ==
    ASSUME DInv, NEW c \in Clients, Knows(c), Stopped(c), UNCHANGED daemons,
           client[c].daemon = None \/ Stage(client[c].daemon) # "serving"
    PROVE  Knows(c)'
<1>1. client[c] \in ClientType
  BY DEF DInv, TypeOK
<1>2. CASE Finish(c)
  BY <1>2 DEF Finish, Idle, Knows, DInv, TypeOK
<1>3. CASE Goto(c, "ensurePing")
  <2>1. client'[c].daemon = client[c].daemon /\ client'[c].pc = "ensurePing"
    BY <1>1, <1>3 DEF Goto, ClientType, DInv, TypeOK
  <2> QED BY <2>1 DEF Knows, Stage, Served
<1> QED BY <1>2, <1>3 DEF Stopped

\* A client that is left alone knows what it knew.
LEMMA KnowsOn ==
    ASSUME DInv, [Next]_vars, NEW c \in Clients, Knows(c), client'[c] = client[c]
    PROVE  Knows(c)'
<1>1. client[c].daemon \in Instances \cup {None}
  BY DEF DInv, TypeOK, ClientType
<1>2. CASE client[c].daemon = None
  BY <1>2 DEF Knows
<1>3. CASE client[c].daemon # None
  <2>1. PICK t \in Instances : client[c].daemon = t
    BY <1>1, <1>3
  <2>2. /\ Stage(t) \in Served => Stage(t)' \in Served
        /\ Stage(t) \in After => Stage(t)' \in After
    BY StagesGoOn
  <2> QED BY <2>1, <2>2 DEF Knows, Stage
<1> QED BY <1>2, <1>3

\* A client that moves, except to its start, knows what it knew.
LEMMA KnowsMoving ==
    ASSUME DInv, [Next]_vars, NEW c \in Clients, Knows(c),
           NEW pc \in ClientStages \ {"idle", "stopPing", "shutdown"},
           client'[c].pc = pc, client'[c].daemon = client[c].daemon,
           pc \in {"ensurePing", "launch", "startPoll"}
              => client[c].pc \in {"ensurePing", "launch", "startPoll"}
    PROVE  Knows(c)'
<1>1. client[c].daemon \in Instances \cup {None}
  BY DEF DInv, TypeOK, ClientType
<1>2. CASE client[c].daemon = None
  BY <1>2 DEF Knows
<1>3. CASE client[c].daemon # None
  <2>1. PICK t \in Instances : client[c].daemon = t
    BY <1>1, <1>3
  <2>2. /\ Stage(t) \in Served => Stage(t)' \in Served
        /\ Stage(t) \in After => Stage(t)' \in After
    BY StagesGoOn
  <2> QED BY <2>1, <2>2 DEF Knows, Stage
<1> QED BY <1>2, <1>3

LEMMA FinishKnows ==
    ASSUME DInv, NEW c \in Clients, Finish(c) PROVE Knows(c)'
BY DEF Finish, Idle, Knows, DInv, TypeOK

LEMMA GotoKnows ==
    ASSUME DInv, [Next]_vars, NEW c \in Clients, Knows(c),
           NEW pc \in ClientStages \ {"idle", "stopPing", "shutdown"}, Goto(c, pc),
           pc \in {"ensurePing", "launch", "startPoll"}
              => client[c].pc \in {"ensurePing", "launch", "startPoll"}
    PROVE  Knows(c)'
<1>1. client'[c].pc = pc /\ client'[c].daemon = client[c].daemon
  BY DEF Goto, DInv, TypeOK, ClientType
<1> QED BY <1>1, KnowsMoving

\* A client that moves before any shutdown request knows of no daemon.
LEMMA KnowsNothing ==
    ASSUME DInv, NEW c \in Clients, client'[c].daemon = None PROVE Knows(c)'
BY DEF Knows

\* A failed ping proves that the daemon that was told does not listen any more.
LEMMA PingFailed ==
    ASSUME DInv, "ping" \notin SshLoses, NEW c \in Clients, Knows(c), PingFails(c)
    PROVE  client[c].daemon = None \/ Stage(client[c].daemon) # "serving"
<1>1. ~Connects
  BY DEF PingFails, Loses
<1>2. client[c].daemon \in Instances \cup {None}
  BY DEF DInv, TypeOK, ClientType
<1>3. \A d \in Instances : d # None
  BY DEF Instances, None
<1> QED
  BY <1>1, <1>2, <1>3 DEF Connects, DInv, OwnerInv, Listening

\* The client's own steps keep what it knows, if no ping is lost.
LEMMA OwnStepKnows ==
    ASSUME DInv, [Next]_vars, "ping" \notin SshLoses, NEW c \in Clients, Knows(c),
           Begin(c) \/ ClientStep(c)
    PROVE  Knows(c)'
<1>0. ClientStages = {"idle", "stopPing", "shutdown", "answer", "stopPoll", "forceRead",
          "forceCheck", "forceTerm", "forcePoll", "ensurePing", "launch", "startPoll"}
  BY DEF ClientStages
<1>c. client \in [Clients -> ClientType]
  BY DEF DInv, TypeOK
<1>1. CASE Begin(c)
  <2>1. client'[c].daemon = client[c].daemon
    BY <1>c, <1>1 DEF Begin, ClientType
  <2> QED BY <1>1, <2>1, KnowsNothing DEF Begin, At, Knows
<1>2. CASE StopPing(c)
  <2>1. client[c].daemon = None /\ UNCHANGED daemons
    BY <1>2 DEF StopPing, At, Knows, ClientOnly
  <2>2. CASE Goto(c, "shutdown")
    <3>1. client'[c].daemon = client[c].daemon
      BY <1>c, <2>2 DEF Goto, ClientType
    <3> QED BY <2>1, <3>1, KnowsNothing
  <2> QED BY <1>2, <2>1, <2>2, StoppedKnows DEF StopPing
<1>3. CASE ShutdownRequest(c)
  <2>1. sock \in Instances /\ Stage(sock) = "serving" /\ UNCHANGED sock
    BY <1>3 DEF ShutdownRequest, Answered, Connects, None, DInv, TypeOK
  <2>2. client'[c].daemon = sock /\ client'[c].pc = "answer"
    BY <1>c, <1>3 DEF ShutdownRequest, ClientType
  <2>3. \A t \in Instances : Stage(t) \in Served => Stage(t)' \in Served
    BY StagesGoOn
  <2> QED BY <2>1, <2>2, <2>3 DEF Knows, Served, Stage
<1>e. ASSUME ShutdownError(c), UNCHANGED daemons,
             client[c].cmd \in Local =>
                 client[c].daemon = None \/ ~Alive(client[c].daemon)
      PROVE  Knows(c)'
  <2>1. CASE client[c].cmd \in Local
    <3>1. client[c].daemon = None \/ Stage(client[c].daemon) # "serving"
      BY <1>e, <2>1 DEF Alive
    <3> QED BY <1>e, <2>1, <3>1, StoppedKnows DEF ShutdownError
  <2>2. CASE client[c].cmd \notin Local
    BY <1>0, <1>e, <2>2, GotoKnows DEF ShutdownError
  <2> QED BY <2>1, <2>2
<1>4. CASE ShutdownUnsent(c)
  BY <1>4, <1>e DEF ShutdownUnsent, ClientOnly, At, Knows
<1>5. CASE ShutdownAnswer(c)
  <2>1. CASE Goto(c, "stopPoll")
    BY <1>0, <2>1, GotoKnows
  <2>2. CASE ~Alive(client[c].daemon) /\ ShutdownError(c)
    BY <1>5, <1>e, <2>2 DEF ShutdownAnswer, ClientOnly
  <2>3. CASE Loses(c, "shutdown") /\ ShutdownError(c)
    BY <1>5, <1>e, <2>3 DEF ShutdownAnswer, ClientOnly, Loses
  <2> QED BY <1>5, <2>1, <2>2, <2>3 DEF ShutdownAnswer
<1>6. CASE StopPoll(c)
  <2>1. UNCHANGED daemons
    BY <1>6 DEF StopPoll, ClientOnly
  <2>2. CASE PingFails(c) /\ Stopped(c)
    BY <2>1, <2>2, PingFailed, StoppedKnows
  <2> QED BY <1>6, <2>2, FinishKnows DEF StopPoll
<1>7. CASE ForceRead(c)
  <2>1. CASE client' = [client EXCEPT ![c].pc = "forceCheck", ![c].pid = lockFile]
    <3>1. client'[c].pc = "forceCheck" /\ client'[c].daemon = client[c].daemon
      BY <1>c, <2>1 DEF ClientType
    <3> QED BY <1>0, <3>1, KnowsMoving
  <2>2. CASE Goto(c, "stopPoll")
    BY <1>0, <2>2, GotoKnows
  <2> QED BY <1>7, <2>1, <2>2, FinishKnows DEF ForceRead
<1>8. CASE ForceCheck(c) \/ ForceTerm(c) \/ ForcePoll(c)
  <2>1. Finish(c) \/ \E pc \in {"stopPoll", "forceTerm", "forcePoll"} : Goto(c, pc)
    BY <1>8 DEF ForceCheck, ForceTerm, ForcePoll
  <2> QED BY <1>0, <2>1, GotoKnows, FinishKnows
<1>9. CASE EnsurePing(c) \/ Launch(c) \/ LaunchFails(c) \/ StartPoll(c)
  <2>1. /\ client[c].pc \in {"ensurePing", "launch", "startPoll"}
        /\ Finish(c) \/ \E pc \in {"launch", "startPoll"} : Goto(c, pc)
    BY <1>9 DEF EnsurePing, Launch, LaunchFails, StartPoll, At
  <2> QED BY <1>0, <2>1, GotoKnows, FinishKnows
<1> QED
  BY <1>1, <1>2, <1>3, <1>4, <1>5, <1>6, <1>7, <1>8, <1>9 DEF ClientStep

\* A client's step is its own.
LEMMA OthersAreLeftAlone ==
    ASSUME DInv, [Next]_vars, NEW c \in Clients, client'[c] # client[c]
    PROVE  Begin(c) \/ ClientStep(c)
<1>1. ASSUME NEW e \in Clients, Begin(e) \/ ClientStep(e), e # c PROVE FALSE
  <2>1. client \in [Clients -> ClientType]
    BY DEF DInv, TypeOK
  <2>2. \E r : client' = [client EXCEPT ![e] = r]
    BY <1>1
       DEF ClientStep, Begin, StopPing, ShutdownRequest, ShutdownUnsent, ShutdownAnswer,
           ShutdownError, StopPoll, Stopped, ForceRead, ForceCheck, ForceTerm, ForcePoll,
           EnsurePing, Launch, LaunchFails, StartPoll, Goto, Finish
  <2> QED BY <1>1, <2>1, <2>2
<1>2. ASSUME NEW d \in Instances, DaemonStep(d) \/ Crash(d) PROVE client' = client
  BY <1>2
     DEF DaemonStep, TakeLock, WriteLock, RemoveStaleSocket, Listen, Recover,
         CloseListener, RemoveSocket, ReleaseLock, Crash
<1>3. ForeignProcess \/ UNCHANGED vars => client' = client
  BY DEF ForeignProcess, vars
<1> QED BY <1>1, <1>2, <1>3 DEF Next

\* The daemon that answers the start of a restart is not the one that was to be
\* replaced, if ssh loses no ping.
THEOREM RestartsReplace ==
    ASSUME "ping" \notin SshLoses PROVE Spec => []RestartReplaces
<1>1. Init => TargetInv
  <2>1. Init => client = [c \in Clients |-> Idle]
    BY DEF Init
  <2>2. Idle.daemon = None
    BY DEF Idle
  <2> QED BY <2>1, <2>2 DEF TargetInv, Knows
<1>2. DInv /\ TargetInv /\ [Next]_vars => TargetInv'
  <2> SUFFICES ASSUME DInv, TargetInv, [Next]_vars, NEW c \in Clients PROVE Knows(c)'
    BY DEF TargetInv
  <2>1. Knows(c)
    BY DEF TargetInv
  <2> QED BY <2>1, KnowsOn, OthersAreLeftAlone, OwnStepKnows
<1>3. DInv /\ TargetInv => RestartReplaces
  BY DEF TargetInv, Knows, RestartReplaces, After, Listening
<1>4. Spec => []TargetInv
  BY <1>1, <1>2, AlwaysDInv, PTL DEF Spec
<1> QED BY <1>3, <1>4, AlwaysDInv, PTL

(***************************************************************************)
(* Forced stops                                                            *)
(***************************************************************************)

\* Between its check and its last signal a forced stop knows a pid of a daemon, or
\* of a program that looks like one, or a free one.
ForceInv ==
    /\ ~hit
    /\ \A f, g \in foreign : f = g
    /\ \A c \in Clients :
          client[c].pc \in {"forceTerm", "forcePoll"} => ~Stranger(client[c].pid)

\* If pids are not used again at once, forced stops signal only daemons and
\* programs whose command lines look like a daemon's.
THEOREM ForcedStopsSpareOthers ==
    ASSUME ~FastReuse PROVE Spec => []ForceSparesOthers
<1>1. Init => ForceInv
  BY DEF Init, Idle, ForceInv
<1>2. DInv /\ ForceInv /\ [Next]_vars => ForceInv'
  <2> SUFFICES ASSUME DInv, ForceInv, [Next]_vars PROVE ForceInv'
    OBVIOUS
  <2>c. client \in [Clients -> ClientType]
    BY DEF DInv, TypeOK
  <2>1. CASE ForeignProcess
    BY <2>1 DEF ForeignProcess, ForceInv, Reusable, Stranger
  <2>2. ASSUME NEW c \in Clients, Begin(c) \/ ClientStep(c) PROVE ForceInv'
    <3>1. foreign' = foreign
      BY <2>2 DEF ClientStep, Begin, StopPing, ShutdownRequest, ShutdownUnsent,
            ShutdownAnswer, StopPoll, ForceRead, ForceCheck, ForceTerm, ForcePoll,
            EnsurePing, Launch, LaunchFails, StartPoll, ClientOnly
    <3>2. \A e \in Clients \ {c} : client'[e] = client[e]
      BY <2>2, <2>c
         DEF ClientStep, Begin, StopPing, ShutdownRequest, ShutdownUnsent, ShutdownAnswer,
             ShutdownError, StopPoll, Stopped, ForceRead, ForceCheck, ForceTerm, ForcePoll,
             EnsurePing, Launch, LaunchFails, StartPoll, Goto, Finish
    <3>3. client'[c].pc \in {"forceTerm", "forcePoll"} => ~Stranger(client'[c].pid)
      <4>1. CASE ForceCheck(c)
        <5>1. CASE Goto(c, "forceTerm") /\ Recognized(client[c].pid)
          <6>1. client'[c].pid = client[c].pid
            BY <2>c, <5>1 DEF Goto, ClientType
          <6>2. Of(client[c].pid) # {} => ~Foreign(client[c].pid)
            BY DEF Of, DInv, LaunchInv
          <6>3. ~Stranger(client[c].pid)
            <7>1. CASE Of(client[c].pid) # {}
              BY <6>2, <7>1 DEF Stranger, Foreign
            <7>2. CASE \E f \in foreign : f.pid = client[c].pid /\ f.alike
              BY <7>2 DEF Stranger, ForceInv
            <7> QED BY <5>1, <7>1, <7>2 DEF Recognized
          <6> QED BY <6>1, <6>3
        <5>2. CASE Goto(c, "stopPoll") \/ Finish(c)
          BY <2>c, <5>2 DEF Goto, Finish, Idle, ClientType
        <5> QED BY <4>1, <5>1, <5>2 DEF ForceCheck
      <4>2. CASE ForceTerm(c)
        <5>1. ~Stranger(client[c].pid)
          BY <4>2 DEF ForceTerm, At, ForceInv
        <5>2. CASE Goto(c, "forcePoll")
          BY <2>c, <5>1, <5>2 DEF Goto, ClientType
        <5>3. CASE Finish(c)
          BY <2>c, <5>3 DEF Finish, Idle
        <5> QED BY <4>2, <5>2, <5>3 DEF ForceTerm
      <4>3. CASE Begin(c)
        <5>1. \E cmd : client'[c].pc = EntryOf(cmd)
          BY <2>c, <4>3 DEF Begin, ClientType
        <5> QED BY <5>1 DEF EntryOf
      <4>4. CASE ForceRead(c)
        BY <2>c, <4>4 DEF ForceRead, Goto, Finish, Idle, ClientType
      <4>5. CASE ShutdownRequest(c)
        BY <2>c, <4>5 DEF ShutdownRequest, ClientType
      <4>6. CASE StopPing(c) \/ ShutdownUnsent(c) \/ ShutdownAnswer(c) \/ StopPoll(c)
                 \/ ForcePoll(c) \/ EnsurePing(c) \/ Launch(c) \/ LaunchFails(c)
                 \/ StartPoll(c)
        <5>1. Finish(c) \/ \E pc \in {"shutdown", "ensurePing", "forceRead", "stopPoll",
                                      "launch", "startPoll"} : Goto(c, pc)
          BY <4>6 DEF StopPing, ShutdownUnsent, ShutdownAnswer, ShutdownError, Stopped,
                StopPoll, ForcePoll, EnsurePing, Launch, LaunchFails, StartPoll
        <5> QED BY <2>c, <5>1 DEF Goto, Finish, Idle, ClientType
      <4> QED BY <2>2, <4>1, <4>2, <4>3, <4>4, <4>5, <4>6 DEF ClientStep
    <3>4. ~hit'
      <4>1. CASE ForceTerm(c)
        BY <4>1 DEF ForceTerm, At, ForceInv
      <4>2. CASE ForcePoll(c)
        BY <4>2 DEF ForcePoll, At, ForceInv
      <4>3. CASE hit' = hit
        BY <4>3 DEF ForceInv
      <4> QED
        BY <2>2, <4>1, <4>2, <4>3
           DEF ClientStep, Begin, StopPing, ShutdownRequest, ShutdownUnsent,
               ShutdownAnswer, StopPoll, ForceRead, ForceCheck, EnsurePing, Launch,
               LaunchFails, StartPoll, ClientOnly
    <3> QED BY <3>1, <3>2, <3>3, <3>4 DEF ForceInv, Stranger
  <2>3. CASE UNCHANGED <<client, hit, foreign>>
    BY <2>3 DEF ForceInv, Stranger
  <2>4. ASSUME NEW d \in Instances, DaemonStep(d) \/ Crash(d)
        PROVE  UNCHANGED <<client, hit, foreign>>
    BY <2>4
       DEF DaemonStep, TakeLock, WriteLock, RemoveStaleSocket, Listen, Recover,
           CloseListener, RemoveSocket, ReleaseLock, Crash
  <2> QED BY <2>1, <2>2, <2>3, <2>4 DEF Next, vars
<1>3. ForceInv => ForceSparesOthers
  BY DEF ForceInv, ForceSparesOthers
<1>4. Spec => []ForceInv
  BY <1>1, <1>2, AlwaysDInv, PTL DEF Spec
<1> QED BY <1>3, <1>4, PTL
================================================================================
