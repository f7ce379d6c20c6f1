------------------------ MODULE PortAllocationProofs ------------------------
(***************************************************************************)
(* Proofs about PortAllocation, for every set of clients and every bound,  *)
(* any number of services and ports, and every set of configurations.      *)
(***************************************************************************)
EXTENDS PortAllocation, TLAPS

(***************************************************************************)
(* Operators                                                               *)
(***************************************************************************)

\* The numbers of services, ports and processes.
LEMMA Numbers ==
    /\ Services \subseteq Nat /\ Ports \subseteq Nat /\ Pids \subseteq Nat
    /\ 0 \notin Services /\ 0 \notin Ports /\ 0 \notin Pids
    /\ Ports \subseteq 0..MaxPort /\ 0 \in 0..MaxPort
    /\ \A p \in 0..MaxPort : p # 0 => p \in Ports
    /\ Pids \subseteq 0..MaxProcs + 1 /\ 0 \in 0..MaxProcs + 1 /\ 0 \in 0..MaxProcs
    /\ Pids \subseteq 0..MaxProcs /\ Foreign \notin Pids
    /\ \A pid \in 0..MaxProcs + 1 : pid \notin Pids => pid = 0 \/ pid = Gone
    /\ Foreign \in 0..MaxProcs + 1 /\ Gone \in 0..MaxProcs + 1
  BY ServicesAssumption, BoundsAssumption DEF Services, Ports, Pids, Foreign, Gone

\* Taking note that a port is no longer reserved changes nothing else of a
\* process.
LEMMA HeldProcess ==
    ASSUME NEW recs, NEW s, NEW x \in Process
    PROVE  LET y == Held(recs, s, x)
           IN  /\ y \in Process
               /\ y.service = x.service /\ y.port = x.port /\ y.probed = x.probed
               /\ y.env = x.env /\ y.start = x.start /\ y.robbed = x.robbed
               /\ y.state = x.state
               /\ y.held => x.held /\ recs[s].status \in Reserving /\ recs[s].port = x.port
  BY DEF Held, Process

\* The same of a plan entry.
LEMMA HeldEntry ==
    ASSUME NEW recs, NEW s, NEW x \in PlanEntry
    PROVE  LET y == Held(recs, s, x)
           IN  /\ y \in PlanEntry
               /\ y.port = x.port /\ y.probed = x.probed /\ y.robbed = x.robbed
               /\ y.held => x.held /\ recs[s].status \in Reserving /\ recs[s].port = x.port
  BY DEF Held, PlanEntry

\* What a step that writes records does to the processes.
LEMMA ChangedProcs ==
    ASSUME NEW recs, NEW ps \in [Pids -> Process], NEW ss, Change(recs, ps, ss)
    PROVE  /\ procs' \in [Pids -> Process]
           /\ \A pid \in Pids :
                 LET x == ps[pid] y == procs'[pid]
                 IN  /\ y.service = x.service /\ y.port = x.port /\ y.probed = x.probed
                     /\ y.env = x.env /\ y.start = x.start /\ y.robbed = x.robbed
                     /\ y.state = x.state
                     /\ y.held => x.held /\ recs[x.service].status \in Reserving
                                         /\ recs[x.service].port = x.port
  <1>1. procs' = [pid \in Pids |-> Held(recs, ps[pid].service, ps[pid])]
    BY DEF Change
  <1>2. \A pid \in Pids : ps[pid] \in Process
    OBVIOUS
  <1>3. QED
    BY <1>1, <1>2, HeldProcess

\* What a step that writes records does to the starts.
LEMMA ChangedStarts ==
    ASSUME NEW recs, NEW ps, NEW ss \in [Clients -> Start], Change(recs, ps, ss)
    PROVE  /\ starts' \in [Clients -> Start]
           /\ \A c \in Clients :
                 /\ starts'[c].n = ss[c].n /\ starts'[c].todo = ss[c].todo
                 /\ starts'[c].pid = ss[c].pid /\ starts'[c].alone = ss[c].alone
                 /\ \A s \in Services :
                       LET x == ss[c].plan[s] y == starts'[c].plan[s]
                       IN  /\ y.port = x.port /\ y.probed = x.probed
                           /\ y.robbed = x.robbed
                           /\ y.held => x.held /\ recs[s].status \in Reserving
                                               /\ recs[s].port = x.port
  <1>1. starts' = [c \in Clients |-> [ss[c] EXCEPT !.plan =
                      [s \in Services |-> Held(recs, s, ss[c].plan[s])]]]
    BY DEF Change
  <1>2. \A c \in Clients, s \in Services : ss[c].plan[s] \in PlanEntry
    BY DEF Start
  <1> DEFINE plan(c) == [s \in Services |-> Held(recs, s, ss[c].plan[s])]
  <1>3. \A c \in Clients : plan(c) \in [Services -> PlanEntry]
    BY <1>2, HeldEntry
  <1>4. \A c \in Clients :
            /\ starts'[c] \in Start
            /\ starts'[c].n = ss[c].n /\ starts'[c].todo = ss[c].todo
            /\ starts'[c].pid = ss[c].pid /\ starts'[c].alone = ss[c].alone
            /\ starts'[c].plan = plan(c)
    <2>1. TAKE c \in Clients
    <2>2. starts'[c] = [ss[c] EXCEPT !.plan = plan(c)]
      BY <1>1
    <2>3. plan(c) \in [Services -> PlanEntry] /\ ss[c] \in Start
      BY <1>3
    <2> HIDE DEF plan
    <2>4. QED
      BY <2>2, <2>3 DEF Start
  <1>5. \A c \in Clients, s \in Services : starts'[c].plan[s] = Held(recs, s, ss[c].plan[s])
    BY <1>4
  <1>6. starts' \in [Clients -> Start]
    BY <1>1, <1>4
  <1>7. \A c \in Clients, s \in Services :
            LET x == ss[c].plan[s] y == starts'[c].plan[s]
            IN  /\ y.port = x.port /\ y.probed = x.probed /\ y.robbed = x.robbed
                /\ y.held => x.held /\ recs[s].status \in Reserving /\ recs[s].port = x.port
    BY <1>2, <1>5, HeldEntry
  <1>8. QED
    BY <1>4, <1>6, <1>7

\* The records, processes and plans of the initial state, and what an exit
\* leaves of a process.
LEMMA Blank ==
    /\ NoRecord \in Record /\ NoProcess \in Process /\ NoEntry \in PlanEntry
    /\ NoStart \in Start
  <1>1. NoEntry \in PlanEntry /\ NoRecord \in Record
    BY Numbers DEF NoEntry, PlanEntry, NoRecord, Record
  <1>2. [s \in Services |-> NoEntry] \in [Services -> PlanEntry]
    BY <1>1
  <1>3. NoStart \in Start
    BY <1>2, Numbers, BoundsAssumption DEF NoStart, Start
  <1>4. 1 \in Services
    BY ServicesAssumption DEF Services
  <1>5. NoProcess \in Process
    BY <1>4, Numbers, BoundsAssumption DEF NoProcess, Process
  <1>6. QED
    BY <1>1, <1>3, <1>5

(***************************************************************************)
(* The steps, with the types of what they write                            *)
(***************************************************************************)

\* The starts after c has planned to spawn S.
Plans(c, S, ports, config) ==
    [b \in Clients |->
       IF b # c THEN [starts[b] EXCEPT !.alone = FALSE]
       ELSE IF S = {} THEN NoStart
       ELSE [n |-> count + 1, todo |-> S, plan |-> Entries(S, ports, config),
             pid |-> 0, alone |-> \A d \in Clients : Idle(d)]]

\* StartPlan with the services that are not up and the ports they are given.
Given(c, S, ports, config) ==
    /\ S \in SUBSET Services /\ ports \in [Services -> 0..MaxPort]
    /\ Idle(c) /\ count < MaxStarts
    /\ GivenOut(S, ports, config)
    /\ Change(Recorded(S, ports), procs, Plans(c, S, ports, config))
    /\ count' = count + 1 /\ listener' = listener

\* The plan of a start has its type, and probes the ports that it gave out.
LEMMA EntryTypes ==
    ASSUME NEW S \in SUBSET Services, NEW ports \in [Services -> 0..MaxPort],
           NEW config \in Configs, GivenOut(S, ports, config)
    PROVE  /\ Entries(S, ports, config) \in [Services -> PlanEntry]
           /\ \A s \in Services :
                 LET x == Entries(S, ports, config)[s]
                 IN  /\ s \in S => x.port = ports[s]
                     /\ x.probed = x.port /\ ~x.robbed
                     /\ s \notin S => x = NoEntry
                     /\ x.held => s \in S /\ OwnPort(Recorded(Earlier(S, s), ports), s, ports[s])
  <1> DEFINE e(s) == Entries(S, ports, config)[s]
  <1>1. ASSUME NEW s \in Services, s \notin S
        PROVE  e(s) = NoEntry
    BY <1>1 DEF Entries
  <1>2. ASSUME NEW s \in Services, s \in S
        PROVE  /\ e(s).port = ports[s] /\ e(s).probed = ports[s] /\ e(s).robbed = FALSE
               /\ e(s).held = OwnPort(Recorded(Earlier(S, s), ports), s, ports[s])
               /\ e(s) \in PlanEntry
    <2>1. HealthPort(config.ports[s], ports[s]) = ports[s]
      BY <1>2 DEF GivenOut, HealthPort
    <2>2. e(s) = [port |-> ports[s], probed |-> ports[s],
                  held |-> OwnPort(Recorded(Earlier(S, s), ports), s, ports[s]),
                  robbed |-> FALSE]
      BY <1>2, <2>1 DEF Entries
    <2>3. OwnPort(Recorded(Earlier(S, s), ports), s, ports[s]) \in BOOLEAN
      BY DEF OwnPort
    <2>4. QED
      BY <2>2, <2>3 DEF PlanEntry
  <1>3. \A s \in Services : e(s) \in PlanEntry
    BY <1>1, <1>2, Blank
  <1>4. Entries(S, ports, config) \in [Services -> PlanEntry]
    BY <1>3 DEF Entries
  <1>5. NoEntry.probed = NoEntry.port /\ ~NoEntry.robbed /\ ~NoEntry.held
    BY DEF NoEntry
  <1> HIDE DEF e
  <1>6. \A s \in Services :
            /\ s \in S => e(s).port = ports[s]
            /\ e(s).probed = e(s).port /\ ~e(s).robbed
            /\ s \notin S => e(s) = NoEntry
            /\ e(s).held => s \in S /\ OwnPort(Recorded(Earlier(S, s), ports), s, ports[s])
    BY <1>1, <1>2, <1>5
  <1>7. QED
    BY <1>4, <1>6 DEF e

\* The records of planned services are records.
LEMMA RecordedType ==
    ASSUME TypeOK, NEW S \in SUBSET Services, NEW ports \in [Services -> 0..MaxPort]
    PROVE  Recorded(S, ports) \in [Services -> Record]
  <1>1. \A s \in Services : Planned(s, ports[s]) \in Record
    BY Numbers DEF Planned, Record
  <1>2. QED
    BY <1>1 DEF Recorded, TypeOK

\* The starts after a plan have their type.
LEMMA PlansType ==
    ASSUME TypeOK, NEW c \in Clients, NEW S \in SUBSET Services,
           NEW ports \in [Services -> 0..MaxPort], NEW config \in Configs,
           GivenOut(S, ports, config), count < MaxStarts
    PROVE  Plans(c, S, ports, config) \in [Clients -> Start]
  <1>1. ASSUME NEW b \in Clients PROVE [starts[b] EXCEPT !.alone = FALSE] \in Start
    BY DEF TypeOK, Start
  <1>2. count + 1 \in 0..MaxStarts
    BY BoundsAssumption DEF TypeOK
  <1>3. Entries(S, ports, config) \in [Services -> PlanEntry]
    BY EntryTypes
  <1>4. (\A d \in Clients : Idle(d)) \in BOOLEAN
    OBVIOUS
  <1>5. [n |-> count + 1, todo |-> S, plan |-> Entries(S, ports, config),
         pid |-> 0, alone |-> \A d \in Clients : Idle(d)] \in Start
    BY <1>2, <1>3, <1>4, Numbers DEF Start
  <1>6. QED
    BY <1>1, <1>5, Blank DEF Plans

\* Every plan is given out in such a way.
LEMMA StartPlanGives ==
    ASSUME TypeOK, NEW c \in Clients, NEW services \in SUBSET Services,
           NEW config \in Configs, StartPlan(c, services, config)
    PROVE  \E S \in SUBSET Services, ports \in [Services -> 0..MaxPort] :
              Given(c, S, ports, config)
  <1> DEFINE S == {s \in services : ~Up(records[s])}
  <1>1. PICK ports \in [Services -> Candidates(config)] :
            /\ GivenOut(S, ports, config)
            /\ Change(Recorded(S, ports), procs, Plans(c, S, ports, config))
    BY Zenon DEF StartPlan, Plans
  <1>2. Candidates(config) \subseteq 0..MaxPort
    <2>1. config.low..config.high \subseteq 0..MaxPort
      BY BoundsAssumption, ConfigsAssumption DEF StartPlan, ValidRange
    <2>2. \A s \in Services : records[s].port \in 0..MaxPort
      BY DEF TypeOK, Record
    <2>3. QED
      BY <2>1, <2>2, Numbers DEF Candidates
  <1>3. S \in SUBSET Services /\ ports \in [Services -> 0..MaxPort]
    BY <1>2
  <1>4. Idle(c) /\ count < MaxStarts /\ count' = count + 1 /\ listener' = listener
    BY DEF StartPlan
  <1> HIDE DEF S
  <1>5. Given(c, S, ports, config)
    BY <1>1, <1>3, <1>4 DEF Given
  <1>6. QED
    BY <1>3, <1>5

\* The ways a start goes on or ends keep the starts in their type.
LEMMA StartUpdates ==
    ASSUME TypeOK, NEW c \in Clients
    PROVE  /\ Over(c) \in [Clients -> Start]
           /\ \A pid \in Pids \cup {0, Gone} :
                 [starts EXCEPT ![c].pid = pid] \in [Clients -> Start]
           /\ \A s \in Services : Following(c, s) \in [Clients -> Start]
  <1>1. starts \in [Clients -> Start] /\ starts[c] \in Start
    BY DEF TypeOK
  <1>2. Over(c) \in [Clients -> Start]
    BY <1>1, Blank DEF Over
  <1>3. ASSUME NEW pid \in Pids \cup {0, Gone}
        PROVE  [starts EXCEPT ![c].pid = pid] \in [Clients -> Start]
    <2>1. [starts[c] EXCEPT !.pid = pid] \in Start
      BY <1>1, Numbers DEF Start
    <2>2. QED
      BY <1>1, <2>1
  <1>4. ASSUME NEW s \in Services PROVE Following(c, s) \in [Clients -> Start]
    <2> DEFINE left == starts[c].todo \ {s}
               next == [starts[c] EXCEPT !.todo = left, !.pid = 0, !.plan[s] = NoEntry]
    <2>1. [starts[c].plan EXCEPT ![s] = NoEntry] \in [Services -> PlanEntry]
      BY <1>1, Blank DEF Start
    <2>2. left \in SUBSET Services
      BY <1>1 DEF Start
    <2>3. next \in Start
      BY <1>1, <2>1, <2>2, Numbers DEF Start
    <2>4. [starts EXCEPT ![c] = next] \in [Clients -> Start]
      BY <1>1, <2>3
    <2>5. [starts EXCEPT ![c].todo = left, ![c].pid = 0, ![c].plan[s] = NoEntry]
              = [starts EXCEPT ![c] = next]
      BY <1>1
    <2>6. QED
      BY <1>2, <2>4, <2>5 DEF Following
  <1>5. QED
    BY <1>2, <1>3, <1>4

\* A spawned process is a process that lives, as its plan says.
LEMMA SpawnedType ==
    ASSUME TypeOK, NEW c \in Clients, NEW s \in Services
    PROVE  LET x == starts[c].plan[s] y == Spawned(c, s)
           IN  /\ y \in Process /\ x \in PlanEntry
               /\ y.service = s /\ y.port = x.port /\ y.probed = x.probed
               /\ y.env = Environment
               /\ y.start = IF starts[c].alone THEN starts[c].n ELSE 0
               /\ y.held = x.held /\ y.robbed = x.robbed /\ y.state = "alive"
  <1>1. starts[c].plan[s] \in PlanEntry /\ starts[c].n \in 0..MaxStarts
    BY DEF TypeOK, Start
  <1>2. Environment \in [Services -> 0..MaxPort]
    BY DEF TypeOK, Record, Environment
  <1>3. QED
    BY <1>1, <1>2, BoundsAssumption DEF Spawned, Process, PlanEntry

\* Spawn with the service, the process and what it writes.
Spawning(c, s, pid) ==
    /\ Turn(c, s) /\ starts[c].pid = 0 /\ pid \in Pids /\ procs[pid] = NoProcess
    /\ Change([records EXCEPT ![s] = [status |-> "starting", proc |-> pid,
                                      port |-> starts[c].plan[s].port]],
              [procs EXCEPT ![pid] = Spawned(c, s)],
              [starts EXCEPT ![c].pid = pid])
    /\ listener' = listener /\ count' = count

\* Every spawn is one of a service and a free number.
LEMMA SpawnSpawns ==
    ASSUME NEW c \in Clients, Spawn(c)
    PROVE  \E s \in Services, pid \in Pids : Spawning(c, s, pid)
  <1> DEFINE pid == CHOOSE p \in Pids : procs[p] = NoProcess
  <1>1. pid \in Pids /\ procs[pid] = NoProcess
    BY DEF Spawn
  <1>2. PICK s \in Services :
            /\ Turn(c, s)
            /\ Change([records EXCEPT ![s] = [status |-> "starting", proc |-> pid,
                                              port |-> starts[c].plan[s].port]],
                      [procs EXCEPT ![pid] = Spawned(c, s)],
                      [starts EXCEPT ![c].pid = pid])
    BY DEF Spawn
  <1>3. starts[c].pid = 0 /\ listener' = listener /\ count' = count
    BY DEF Spawn
  <1> HIDE DEF pid
  <1>4. QED
    BY <1>1, <1>2, <1>3 DEF Spawning

\* What a spawn writes has its type.
LEMMA SpawningTypes ==
    ASSUME TypeOK, NEW c \in Clients, NEW s \in Services, NEW pid \in Pids
    PROVE  /\ [records EXCEPT ![s] = [status |-> "starting", proc |-> pid,
                                      port |-> starts[c].plan[s].port]]
                  \in [Services -> Record]
           /\ [procs EXCEPT ![pid] = Spawned(c, s)] \in [Pids -> Process]
           /\ [starts EXCEPT ![c].pid = pid] \in [Clients -> Start]
  <1>1. [status |-> "starting", proc |-> pid, port |-> starts[c].plan[s].port] \in Record
    BY SpawnedType, Numbers DEF Record, PlanEntry, Running
  <1>2. QED
    BY <1>1, SpawnedType, StartUpdates DEF TypeOK

\* Those that die are processes still, and only they change.
LEMMA DeadTypes ==
    ASSUME TypeOK, NEW pids
    PROVE  /\ Dead(pids) \in [Pids -> Process]
           /\ \A pid \in Pids : pid \notin pids => Dead(pids)[pid] = procs[pid]
           /\ \A pid \in Pids : pid \in pids =>
                 LET x == Dead(pids)[pid]
                 IN  /\ x.state = "dead" /\ x.service = procs[pid].service
                     /\ x.port = 0 /\ x.probed = 0 /\ x.start = 0 /\ ~x.held
  <1>1. ASSUME NEW pid \in Pids
        PROVE  LET x == [NoProcess EXCEPT !.service = procs[pid].service, !.state = "dead"]
               IN  /\ x \in Process
                   /\ x.state = "dead" /\ x.service = procs[pid].service
                   /\ x.port = 0 /\ x.probed = 0 /\ x.start = 0 /\ ~x.held
    <2>1. procs[pid].service \in Services
      BY DEF TypeOK, Process
    <2>2. QED
      BY <2>1, Blank DEF NoProcess, Process
  <1>2. \A pid \in Pids : procs[pid] \in Process
    BY DEF TypeOK
  <1>3. QED
    BY <1>1, <1>2 DEF Dead

\* The records that a stop, a verdict, a failure or an exit writes.
LEMMA RecordUpdates ==
    ASSUME TypeOK, NEW s \in Services, NEW status, NEW proc,
           status \in Running \cup {"none", "preparing", "failed", "exited", "stopped"},
           proc = 0 \/ proc = records[s].proc
    PROVE  /\ [records[s] EXCEPT !.status = status, !.proc = proc] \in Record
           /\ [records EXCEPT ![s].status = status] \in [Services -> Record]
           /\ [records EXCEPT ![s].proc = proc, ![s].status = status] \in [Services -> Record]
  <1>1. records[s] \in Record /\ records \in [Services -> Record]
    BY DEF TypeOK
  <1>2. [records[s] EXCEPT !.status = status] \in Record
    BY <1>1 DEF Record
  <1>3. [records[s] EXCEPT !.proc = proc, !.status = status] \in Record
    BY <1>1, Numbers DEF Record
  <1>4. [records[s] EXCEPT !.status = status, !.proc = proc] \in Record
    BY <1>1, Numbers DEF Record
  <1>5. QED
    BY <1>1, <1>2, <1>3, <1>4

\* The records that status writes are records: at most the status changes, and
\* a process is forgotten.
LEMMA RefreshedRecord ==
    ASSUME TypeOK, NEW s \in Services
    PROVE  LET y == Refreshed(records[s])
           IN  /\ y \in Record
               /\ y.port = records[s].port
               /\ y.proc = 0 \/ y.proc = records[s].proc
               /\ y.status = "healthy" =>
                     \/ y = records[s]
                     \/ /\ Alive(records[s].proc)
                        /\ procs[records[s].proc].probed # 0
                        /\ Answers(procs[records[s].proc].probed)
  <1> DEFINE r == records[s]
             probed == IF Alive(r.proc) THEN procs[r.proc].probed ELSE 0
  <1>1. r \in Record
    BY DEF TypeOK
  <1>2. \/ Refreshed(r) = [r EXCEPT !.status = "exited", !.proc = 0]
        \/ /\ probed # 0 /\ Answers(probed)
           /\ Refreshed(r) = [r EXCEPT !.status = "healthy"]
        \/ Refreshed(r) = [r EXCEPT !.status = "unhealthy"]
        \/ Refreshed(r) = r
    BY DEF Refreshed
  <1>3. probed # 0 => Alive(r.proc) /\ probed = procs[r.proc].probed
    OBVIOUS
  <1> HIDE DEF probed
  <1>4. QED
    BY <1>1, <1>2, <1>3, Numbers DEF Record, Running

\* A step that writes records of their type keeps the types.
LEMMA ChangeKeepsTypes ==
    ASSUME NEW recs \in [Services -> Record], NEW ps \in [Pids -> Process],
           NEW ss \in [Clients -> Start], Change(recs, ps, ss)
    PROVE  /\ records' \in [Services -> Record] /\ procs' \in [Pids -> Process]
           /\ starts' \in [Clients -> Start]
  <1>1. records' \in [Services -> Record]
    BY DEF Change
  <1>2. QED
    BY <1>1, ChangedProcs, ChangedStarts

\* Taking note that a port was lost to another changes nothing else.
LEMMA RobbedTypes ==
    ASSUME NEW p
    PROVE  /\ \A x \in Process :
                 LET y == Robbed(x, p)
                 IN  /\ y \in Process
                     /\ y.service = x.service /\ y.port = x.port /\ y.probed = x.probed
                     /\ y.env = x.env /\ y.start = x.start /\ y.held = x.held
                     /\ y.state = x.state
                     /\ ~y.robbed => ~x.robbed /\ x.port # p
           /\ \A x \in PlanEntry :
                 LET y == Robbed(x, p)
                 IN  /\ y \in PlanEntry
                     /\ y.port = x.port /\ y.probed = x.probed /\ y.held = x.held
                     /\ ~y.robbed => ~x.robbed /\ x.port # p
  BY DEF Robbed, Process, PlanEntry

\* What a step by which somebody starts to listen does.
LEMMA ListensChanges ==
    ASSUME TypeOK, NEW p \in Ports, NEW pid \in 0..MaxProcs + 1, Listens(p, pid)
    PROVE  /\ records' = records /\ count' = count
           /\ listener[p] = Nobody /\ listener' = [listener EXCEPT ![p] = pid]
           /\ listener' \in [Ports -> 0..MaxProcs + 1]
           /\ procs' \in [Pids -> Process] /\ starts' \in [Clients -> Start]
           /\ \A q \in Pids :
                 LET x == procs[q] y == procs'[q]
                 IN  /\ y.service = x.service /\ y.port = x.port /\ y.probed = x.probed
                     /\ y.env = x.env /\ y.start = x.start /\ y.held = x.held
                     /\ y.state = x.state
                     /\ ~y.robbed => ~x.robbed /\ (q = pid \/ x.port # p)
           /\ \A c \in Clients :
                 /\ starts'[c].n = starts[c].n /\ starts'[c].todo = starts[c].todo
                 /\ starts'[c].pid = starts[c].pid /\ starts'[c].alone = starts[c].alone
                 /\ \A s \in Services :
                       LET x == starts[c].plan[s] y == starts'[c].plan[s]
                       IN  /\ y.port = x.port /\ y.probed = x.probed /\ y.held = x.held
                           /\ ~y.robbed => ~x.robbed /\ x.port # p
  <1>1. records' = records /\ count' = count /\ listener[p] = Nobody
        /\ listener' = [listener EXCEPT ![p] = pid]
    BY DEF Listens
  <1>2. listener' \in [Ports -> 0..MaxProcs + 1]
    BY <1>1 DEF TypeOK
  <1>3. procs' = [q \in Pids |-> IF q = pid THEN procs[q] ELSE Robbed(procs[q], p)]
    BY DEF Listens
  <1>4. \A q \in Pids : procs[q] \in Process
    BY DEF TypeOK
  <1>5. procs' \in [Pids -> Process]
    BY <1>3, <1>4, RobbedTypes
  <1>6. \A q \in Pids :
            LET x == procs[q] y == procs'[q]
            IN  /\ y.service = x.service /\ y.port = x.port /\ y.probed = x.probed
                /\ y.env = x.env /\ y.start = x.start /\ y.held = x.held
                /\ y.state = x.state
                /\ ~y.robbed => ~x.robbed /\ (q = pid \/ x.port # p)
    BY <1>3, <1>4, RobbedTypes
  <1> DEFINE plan(c) == [s \in Services |-> Robbed(starts[c].plan[s], p)]
  <1>7. starts' = [c \in Clients |-> [starts[c] EXCEPT !.plan = plan(c)]]
    BY DEF Listens
  <1>8. \A c \in Clients : starts[c] \in Start
    BY DEF TypeOK
  <1>9. \A c \in Clients, s \in Services : starts[c].plan[s] \in PlanEntry
    BY <1>8 DEF Start
  <1>10. \A c \in Clients : plan(c) \in [Services -> PlanEntry]
    BY <1>9, RobbedTypes
  <1>11. \A c \in Clients :
            /\ starts'[c] \in Start
            /\ starts'[c].n = starts[c].n /\ starts'[c].todo = starts[c].todo
            /\ starts'[c].pid = starts[c].pid /\ starts'[c].alone = starts[c].alone
            /\ starts'[c].plan = plan(c)
    <2>1. TAKE c \in Clients
    <2>2. starts'[c] = [starts[c] EXCEPT !.plan = plan(c)]
      BY <1>7
    <2>3. plan(c) \in [Services -> PlanEntry] /\ starts[c] \in Start
      BY <1>8, <1>10
    <2> HIDE DEF plan
    <2>4. QED
      BY <2>2, <2>3 DEF Start
  <1>12. starts' \in [Clients -> Start]
    BY <1>7, <1>11
  <1>13. \A c \in Clients, s \in Services :
             LET x == starts[c].plan[s] y == starts'[c].plan[s]
             IN  /\ y.port = x.port /\ y.probed = x.probed /\ y.held = x.held
                 /\ ~y.robbed => ~x.robbed /\ x.port # p
    <2>1. \A c \in Clients, s \in Services : starts'[c].plan[s] = Robbed(starts[c].plan[s], p)
      BY <1>11
    <2>2. QED
      BY <1>9, <2>1, RobbedTypes
  <1> HIDE DEF plan
  <1>14. QED
    BY <1>1, <1>2, <1>5, <1>6, <1>11, <1>12, <1>13

(***************************************************************************)
(* Steps that give nothing out, spawn nothing and listen to nothing: all    *)
(* but StartPlan, Spawn, Bind and ForeignBind                              *)
(***************************************************************************)

\* A process goes on as it is, or is no longer alive and holds nothing more.
FadesProcess(x, y) ==
    /\ y.state = "alive" =>
          /\ x.state = "alive" /\ y.service = x.service /\ y.port = x.port
          /\ y.env = x.env /\ y.start = x.start /\ y.robbed = x.robbed
    /\ y.held => x.held /\ y.service = x.service /\ y.port = x.port
    /\ \/ y.port = x.port /\ y.probed = x.probed
       \/ y.port = 0 /\ y.probed = 0
    /\ y.start = x.start \/ y.start = 0

\* What is left of an entry in a plan.
FadesEntry(x, y) ==
    \/ /\ y.port = x.port /\ y.probed = x.probed /\ y.robbed = x.robbed
       /\ y.held => x.held
    \/ y.port = 0 /\ y.probed = 0 /\ ~y.held

\* A start goes on or is over.
FadesStart(x, y) ==
    /\ \/ y.n = x.n /\ y.alone = x.alone
       \/ y.n = 0 /\ ~y.alone
    /\ y.todo \subseteq x.todo
    /\ \A s \in Services :
          /\ FadesEntry(x.plan[s], y.plan[s])
          /\ Awaits(y, s) => /\ Awaits(x, s)
                             /\ y.plan[s].port = x.plan[s].port
                             /\ y.plan[s].robbed = x.plan[s].robbed

\* A record keeps its port and at most forgets its process; that it becomes
\* healthy has a reason.
FadesRecord(s) ==
    LET x == records[s] y == records'[s]
    IN  /\ y.port = x.port
        /\ y.proc # 0 => /\ y.proc = x.proc /\ procs'[y.proc].state # "none"
                         /\ procs'[y.proc].service = procs[y.proc].service
        /\ y.status = "healthy" =>
              \/ x.status = "healthy"
              \/ /\ Alive(x.proc) /\ procs[x.proc].probed # 0
                 /\ Answers(procs[x.proc].probed)

Fades ==
    /\ count' = count
    /\ \A p \in Ports :
          \/ listener'[p] = listener[p]
          \/ /\ listener'[p] = Nobody
             /\ \A pid \in Pids : listener[p] = pid => procs'[pid].state # "alive"
    /\ \A pid \in Pids : FadesProcess(procs[pid], procs'[pid])
    /\ \A c \in Clients : FadesStart(starts[c], starts'[c])
    /\ \A s \in Services : FadesRecord(s)

\* What is held is reserved, and by nobody else, after a step whose holders
\* were holders before.
Reserved ==
    /\ \A pid \in Pids : procs[pid].held =>
          LET r == records[procs[pid].service]
          IN  r.status \in Reserving /\ r.port = procs[pid].port
    /\ \A c \in Clients, s \in Services : starts[c].plan[s].held =>
          records[s].status \in Reserving /\ records[s].port = starts[c].plan[s].port

\* A step that writes records leaves what is held reserved.
LEMMA ChangeReserves ==
    ASSUME NEW recs, NEW ps \in [Pids -> Process], NEW ss \in [Clients -> Start],
           Change(recs, ps, ss)
    PROVE  Reserved'
  <1>1. records' = recs
    BY DEF Change
  <1>2. \A pid \in Pids : procs'[pid].held =>
            LET r == records'[procs'[pid].service]
            IN  r.status \in Reserving /\ r.port = procs'[pid].port
    BY <1>1, ChangedProcs
  <1>3. \A c \in Clients, s \in Services : starts'[c].plan[s].held =>
            records'[s].status \in Reserving /\ records'[s].port = starts'[c].plan[s].port
    BY <1>1, ChangedStarts
  <1>4. QED
    BY <1>2, <1>3 DEF Reserved

\* The records are about processes of their services, which are probed on
\* their ports.
LEMMA FadesKeepsOwn ==
    ASSUME TypeOK, OwnInv, Fades PROVE OwnInv'
  <1>1. \A s \in Services : records'[s].proc # 0 =>
            LET x == procs'[records'[s].proc] IN x.state # "none" /\ x.service = s
    BY DEF Fades, FadesRecord, OwnInv
  <1>2. \A pid \in Pids : procs'[pid].probed = procs'[pid].port
    BY DEF Fades, FadesProcess, OwnInv
  <1>3. \A c \in Clients, s \in Services :
            starts'[c].plan[s].probed = starts'[c].plan[s].port
    BY DEF Fades, FadesStart, FadesEntry, OwnInv
  <1>4. QED
    BY <1>1, <1>2, <1>3 DEF OwnInv

\* No port comes to be held by two services.
LEMMA FadesKeepsHeld ==
    ASSUME TypeOK, TypeOK', HeldInv, Fades, Reserved' PROVE HeldInv'
  <1>1. \A s \in Services : HeldPorts(s)' \subseteq HeldPorts(s)
    BY DEF Fades, FadesProcess, FadesStart, FadesEntry, HeldPorts
  <1>2. ASSUME NEW s \in Services, NEW p \in HeldPorts(s)'
        PROVE  records'[s].status \in Reserving /\ records'[s].port = p
    BY <1>2 DEF Reserved, HeldPorts
  <1>3. QED
    BY <1>1, <1>2 DEF HeldInv

\* Who lives after such a step is who lived before.
LEMMA FadesAlive ==
    ASSUME TypeOK, Fades, NEW pid, Alive(pid)'
    PROVE  /\ pid \in Pids /\ Alive(pid)
           /\ procs'[pid].service = procs[pid].service /\ procs'[pid].port = procs[pid].port
           /\ procs'[pid].env = procs[pid].env /\ procs'[pid].start = procs[pid].start
           /\ procs'[pid].robbed = procs[pid].robbed
  BY DEF Alive, Fades, FadesProcess

\* A healthy process answers on its port itself.
LEMMA FadesKeepsHealthy ==
    ASSUME TypeOK, OwnInv, ListenInv, HealthyIsOwn, Fades, NEW s \in Services,
           records'[s].status = "healthy", Alive(records[s].proc)',
           records'[s].proc = records[s].proc
    PROVE  LET pid == records[s].proc
           IN  /\ procs'[pid].port # 0
               /\ ~procs'[pid].robbed => listener'[procs'[pid].port] = pid
  <1> DEFINE pid == records[s].proc
             port == procs[pid].port
  <1>1. /\ pid \in Pids /\ Alive(pid) /\ procs'[pid].port = port
        /\ procs'[pid].robbed = procs[pid].robbed
    BY FadesAlive
  <1>2. procs[pid].probed = port
    BY <1>1 DEF OwnInv
  <1>3. \/ records[s].status = "healthy"
        \/ port # 0 /\ Answers(port)
    BY <1>2 DEF Fades, FadesRecord
  <1>4. port # 0 /\ (~procs[pid].robbed => listener[port] = pid)
    <2>1. CASE records[s].status = "healthy"
      BY <1>1, <2>1 DEF ListenInv, HealthyIsOwn
    <2>2. CASE port # 0 /\ Answers(port)
      BY <1>1, <2>2 DEF ListenInv, Answers
    <2>3. QED
      BY <1>3, <2>1, <2>2
  <1>5. port \in Ports
    BY <1>1, <1>4, Numbers DEF TypeOK, Process
  <1>6. ~procs[pid].robbed => listener'[port] = pid
    BY <1>1, <1>4, <1>5 DEF Fades, Alive
  <1>7. QED
    BY <1>1, <1>4, <1>6

\* The ports of those that are not robbed stay theirs.
LEMMA FadesKeepsListen ==
    ASSUME TypeOK, TypeOK', OwnInv, OwnInv', ListenInv, HealthyIsOwn, Fades
    PROVE  ListenInv' /\ HealthyIsOwn'
  <1>1. \A p \in Ports : listener'[p] \in {listener[p], Nobody}
    BY DEF Fades
  <1>2. ASSUME NEW pid \in Pids, Alive(pid)', procs'[pid].port # 0, ~procs'[pid].robbed
        PROVE  listener'[procs'[pid].port] \in {Nobody, pid}
    <2>1. /\ Alive(pid) /\ procs'[pid].port = procs[pid].port
          /\ procs'[pid].robbed = procs[pid].robbed
      BY <1>2, FadesAlive
    <2>2. procs[pid].port \in Ports
      BY <1>2, <2>1, Numbers DEF TypeOK, Process
    <2>3. listener[procs[pid].port] \in {Nobody, pid}
      BY <1>2, <2>1 DEF ListenInv
    <2>4. QED
      BY <1>1, <2>1, <2>2, <2>3
  <1>3. ASSUME NEW c \in Clients, NEW s \in Services, Awaits(starts'[c], s),
               starts'[c].plan[s].port # 0, ~starts'[c].plan[s].robbed
        PROVE  listener'[starts'[c].plan[s].port] = Nobody
    <2>1. /\ Awaits(starts[c], s) /\ starts'[c].plan[s].port = starts[c].plan[s].port
          /\ starts'[c].plan[s].robbed = starts[c].plan[s].robbed
      BY <1>3 DEF Fades, FadesStart
    <2>2. starts[c].plan[s].port \in Ports
      BY <1>3, <2>1, Numbers DEF TypeOK, Start, PlanEntry
    <2>3. listener[starts[c].plan[s].port] = Nobody
      BY <1>3, <2>1 DEF ListenInv
    <2>4. QED
      BY <1>1, <2>1, <2>2, <2>3
  <1>4. ASSUME NEW s \in Services, records'[s].status = "healthy", Alive(records[s].proc)'
        PROVE  LET pid == records'[s].proc
               IN  /\ procs'[pid].port # 0
                   /\ ~procs'[pid].robbed => listener'[procs'[pid].port] = pid
    <2>1. records'[s].proc # 0
      BY <1>4, Numbers DEF Alive
    <2>2. records'[s].proc = records[s].proc
      BY <2>1 DEF Fades, FadesRecord
    <2>3. QED
      BY <1>4, <2>2, FadesKeepsHealthy
  <1>5. ListenInv'
    BY <1>2, <1>3, <1>4 DEF ListenInv
  <1>6. HealthyIsOwn'
    BY <1>4 DEF HealthyIsOwn
  <1>7. QED
    BY <1>5, <1>6

\* What a start that is alone has planned, and told its processes, stays so.
LEMMA FadesKeepsNames ==
    ASSUME TypeOK, TypeOK', NamesInv, PeersAreNamed, Fades
    PROVE  NamesInv' /\ PeersAreNamed'
  <1>1. \A pid \in Pids : procs'[pid].start <= count'
    <2>1. \A pid \in Pids : procs'[pid].start = procs[pid].start \/ procs'[pid].start = 0
      BY DEF Fades, FadesProcess
    <2>2. count' = count /\ 0 <= count
      BY BoundsAssumption DEF Fades, TypeOK
    <2>3. QED
      BY <2>1, <2>2 DEF NamesInv
  <1>2. \A c \in Clients : starts'[c].n <= count'
    <2>1. \A c \in Clients : starts'[c].n = starts[c].n \/ starts'[c].n = 0
      BY DEF Fades, FadesStart
    <2>2. count' = count /\ 0 <= count
      BY BoundsAssumption DEF Fades, TypeOK
    <2>3. QED
      BY <2>1, <2>2 DEF NamesInv
  <1>3. ASSUME NEW c \in Clients, starts'[c].alone
        PROVE  /\ starts'[c].n # 0
               /\ \A b \in Clients \ {c} : Idle(b)' /\ ~starts'[b].alone
               /\ \A s \in Services : Awaits(starts'[c], s) =>
                     records'[s].port = starts'[c].plan[s].port
               /\ \A pid \in Pids : Alive(pid)' /\ procs'[pid].start = starts'[c].n =>
                     /\ records'[procs'[pid].service].port = procs'[pid].port
                     /\ \A s \in Services : Awaits(starts'[c], s) =>
                           procs'[pid].env[s] = starts'[c].plan[s].port
    <2>1. starts[c].alone /\ starts'[c].n = starts[c].n
      BY <1>3 DEF Fades, FadesStart
    <2>2. starts[c].n # 0
      BY <2>1 DEF NamesInv
    <2>3. ASSUME NEW b \in Clients \ {c} PROVE Idle(b)' /\ ~starts'[b].alone
      <3>1. Idle(b) /\ ~starts[b].alone
        BY <2>1 DEF NamesInv
      <3>2. starts'[b].todo \subseteq starts[b].todo /\ (starts'[b].alone => starts[b].alone)
        BY DEF Fades, FadesStart
      <3>3. QED
        BY <3>1, <3>2 DEF Idle
    <2>4. \A s \in Services : records'[s].port = records[s].port
      BY DEF Fades, FadesRecord
    <2>5. \A s \in Services : Awaits(starts'[c], s) =>
              Awaits(starts[c], s) /\ starts'[c].plan[s].port = starts[c].plan[s].port
      BY DEF Fades, FadesStart
    <2>6. \A s \in Services : Awaits(starts'[c], s) => records'[s].port = starts'[c].plan[s].port
      BY <2>1, <2>4, <2>5 DEF NamesInv
    <2>7. ASSUME NEW pid \in Pids, Alive(pid)', procs'[pid].start = starts'[c].n
          PROVE  /\ records'[procs'[pid].service].port = procs'[pid].port
                 /\ \A s \in Services : Awaits(starts'[c], s) =>
                       procs'[pid].env[s] = starts'[c].plan[s].port
      <3>1. /\ Alive(pid) /\ procs'[pid].service = procs[pid].service
            /\ procs'[pid].port = procs[pid].port /\ procs'[pid].env = procs[pid].env
            /\ procs[pid].start = starts[c].n
        BY <2>1, <2>7, FadesAlive
      <3>2. procs[pid].service \in Services
        BY DEF TypeOK, Process
      <3>3. /\ records[procs[pid].service].port = procs[pid].port
            /\ \A s \in Services : Awaits(starts[c], s) => procs[pid].env[s] = starts[c].plan[s].port
        BY <2>1, <3>1 DEF NamesInv
      <3>4. QED
        BY <2>4, <2>5, <3>1, <3>2, <3>3
    <2>8. QED
      BY <2>1, <2>2, <2>3, <2>6, <2>7
  <1>4. NamesInv'
    BY <1>1, <1>2, <1>3 DEF NamesInv
  <1>5. PeersAreNamed'
    BY FadesAlive DEF PeersAreNamed
  <1>6. QED
    BY <1>4, <1>5

\* It is enough to look at what a step writes before it takes note of what is
\* no longer reserved.
LEMMA ChangeFades ==
    ASSUME TypeOK, NEW recs \in [Services -> Record], NEW ps \in [Pids -> Process],
           NEW ss \in [Clients -> Start], Change(recs, ps, ss),
           \A pid \in Pids : FadesProcess(procs[pid], ps[pid]),
           \A c \in Clients : FadesStart(starts[c], ss[c])
    PROVE  /\ \A pid \in Pids : FadesProcess(procs[pid], procs'[pid])
           /\ \A c \in Clients : FadesStart(starts[c], starts'[c])
           /\ \A pid \in Pids : /\ procs'[pid].state = ps[pid].state
                                /\ procs'[pid].service = ps[pid].service
           /\ records' = recs /\ records' \in [Services -> Record]
           /\ procs' \in [Pids -> Process] /\ starts' \in [Clients -> Start]
           /\ Reserved'
  <1>1. \A pid \in Pids : FadesProcess(procs[pid], procs'[pid])
    <2>1. TAKE pid \in Pids
    <2> DEFINE x == ps[pid] y == procs'[pid]
    <2>2. /\ y.service = x.service /\ y.port = x.port /\ y.probed = x.probed
          /\ y.env = x.env /\ y.start = x.start /\ y.robbed = x.robbed
          /\ y.state = x.state /\ (y.held => x.held)
      BY ChangedProcs
    <2>3. FadesProcess(procs[pid], x)
      OBVIOUS
    <2>4. QED
      BY <2>2, <2>3 DEF FadesProcess
  <1>2. \A c \in Clients : FadesStart(starts[c], starts'[c])
    <2>1. TAKE c \in Clients
    <2> DEFINE x == ss[c] y == starts'[c]
    <2>2. /\ y.n = x.n /\ y.todo = x.todo /\ y.pid = x.pid /\ y.alone = x.alone
          /\ \A s \in Services :
                /\ y.plan[s].port = x.plan[s].port /\ y.plan[s].probed = x.plan[s].probed
                /\ y.plan[s].robbed = x.plan[s].robbed
                /\ y.plan[s].held => x.plan[s].held
      BY ChangedStarts
    <2>3. FadesStart(starts[c], x)
      OBVIOUS
    <2> HIDE DEF x, y
    <2>4. \A s \in Services : FadesEntry(starts[c].plan[s], y.plan[s])
      BY <2>2, <2>3 DEF FadesStart, FadesEntry
    <2>5. \A s \in Services : Awaits(y, s) <=> Awaits(x, s)
      BY <2>2 DEF Awaits
    <2>6. FadesStart(starts[c], y)
      BY <2>2, <2>3, <2>4, <2>5 DEF FadesStart
    <2>7. QED
      BY <2>6 DEF y
  <1>3. \A pid \in Pids : procs'[pid].state = ps[pid].state
                          /\ procs'[pid].service = ps[pid].service
    BY ChangedProcs
  <1>4. records' = recs
    BY DEF Change
  <1>5. QED
    BY <1>1, <1>2, <1>3, <1>4, ChangeKeepsTypes, ChangeReserves

\* A process that nothing happens to, or that ends.
LEMMA ProcessesFade ==
    ASSUME TypeOK, NEW pid \in Pids
    PROVE  /\ FadesProcess(procs[pid], procs[pid])
           /\ FadesProcess(procs[pid], NoProcess)
           /\ \A pids : FadesProcess(procs[pid], Dead(pids)[pid])
  <1>1. FadesProcess(procs[pid], procs[pid])
    BY DEF FadesProcess
  <1>2. FadesProcess(procs[pid], NoProcess)
    BY DEF FadesProcess, NoProcess
  <1>3. ASSUME NEW pids PROVE FadesProcess(procs[pid], Dead(pids)[pid])
    <2>1. CASE pid \in pids
      BY <2>1, DeadTypes DEF FadesProcess
    <2>2. CASE pid \notin pids
      BY <1>1, <2>2, DeadTypes
    <2>3. QED
      BY <2>1, <2>2
  <1>4. QED
    BY <1>1, <1>2, <1>3

\* A start that nothing happens to, that is over, turns to its next service or
\* loses its process.
LEMMA StartsFade ==
    ASSUME TypeOK, NEW c \in Clients
    PROVE  /\ FadesStart(starts[c], starts[c])
           /\ \A b \in Clients : FadesStart(starts[b], Over(c)[b])
           /\ \A s \in Services : Turn(c, s) =>
                 \A b \in Clients : FadesStart(starts[b], Following(c, s)[b])
           /\ starts[c].pid # 0 => FadesStart(starts[c], [starts[c] EXCEPT !.pid = Gone])
  <1>1. \A b \in Clients : starts[b] \in Start
    BY DEF TypeOK
  <1>0. \A x : FadesEntry(x, x)
    BY Zenon DEF FadesEntry
  <1>2. \A b \in Clients : FadesStart(starts[b], starts[b])
    BY <1>0 DEF FadesStart
  <1>3. \A b \in Clients : FadesStart(starts[b], NoStart)
    <2>1. /\ NoStart.n = 0 /\ ~NoStart.alone /\ NoStart.todo = {}
          /\ \A s \in Services : NoStart.plan[s] = NoEntry
      BY DEF NoStart
    <2>2. NoEntry.port = 0 /\ NoEntry.probed = 0 /\ ~NoEntry.held
      BY DEF NoEntry
    <2>3. QED
      BY <2>1, <2>2 DEF FadesStart, FadesEntry, Awaits
  <1>4. \A b \in Clients : FadesStart(starts[b], Over(c)[b])
    BY <1>1, <1>2, <1>3 DEF Over, TypeOK
  <1>5. ASSUME NEW s \in Services, Turn(c, s)
        PROVE  \A b \in Clients : FadesStart(starts[b], Following(c, s)[b])
    <2> DEFINE left == starts[c].todo \ {s}
               next == [starts[c] EXCEPT !.todo = left, !.pid = 0, !.plan[s] = NoEntry]
    <2>1. CASE left = {}
      BY <1>4, <2>1 DEF Following
    <2>2. CASE left # {}
      <3>1. /\ next.n = starts[c].n /\ next.alone = starts[c].alone
            /\ next.todo = left
            /\ next.plan = [starts[c].plan EXCEPT ![s] = NoEntry]
        BY <1>1 DEF Start
      <3>2. starts[c].plan \in [Services -> PlanEntry]
        BY <1>1 DEF Start
      <3>3. \A t \in Services : FadesEntry(starts[c].plan[t], next.plan[t])
        <4> HIDE DEF next
        <4>1. \A t \in Services :
                  next.plan[t] = IF t = s THEN NoEntry ELSE starts[c].plan[t]
          BY <3>1, <3>2
        <4>2. NoEntry.port = 0 /\ NoEntry.probed = 0 /\ ~NoEntry.held
          BY DEF NoEntry
        <4>3. QED
          BY <4>1, <4>2 DEF FadesEntry
      <3>4. ASSUME NEW t \in Services, Awaits(next, t)
            PROVE  /\ Awaits(starts[c], t)
                   /\ next.plan[t] = starts[c].plan[t]
        <4>1. t \in starts[c].todo /\ t # s
          BY <3>1, <3>4 DEF Awaits
        <4>2. s < t
          BY <1>5, <4>1, Numbers DEF Turn
        <4>3. next.plan[t] = starts[c].plan[t]
          BY <3>1, <3>2, <4>1
        <4>4. s \in starts[c].todo
          BY <1>5 DEF Turn
        <4>5. QED
          BY <4>1, <4>2, <4>3, <4>4 DEF Awaits
      <3>5. FadesStart(starts[c], next)
        <4> HIDE DEF next
        <4>1. QED
          BY <3>1, <3>3, <3>4 DEF FadesStart
      <3>6. Following(c, s) = [starts EXCEPT ![c] = next]
        BY <2>2 DEF Following, TypeOK
      <3>7. QED
        BY <1>2, <3>5, <3>6 DEF TypeOK
    <2>3. QED
      BY <2>1, <2>2
  <1>6. ASSUME starts[c].pid # 0
        PROVE  FadesStart(starts[c], [starts[c] EXCEPT !.pid = Gone])
    <2>1. starts[c] \in Start
      BY <1>1
    <2>2. Gone # 0
      BY BoundsAssumption DEF Gone
    <2> DEFINE next == [starts[c] EXCEPT !.pid = Gone]
    <2>3. /\ next.n = starts[c].n /\ next.todo = starts[c].todo /\ next.pid = Gone
          /\ next.plan = starts[c].plan /\ next.alone = starts[c].alone
      BY <2>1 DEF Start
    <2> HIDE DEF next
    <2>4. \A s \in Services : Awaits(next, s) => Awaits(starts[c], s)
      BY <2>2, <2>3 DEF Awaits
    <2>5. FadesStart(starts[c], next)
      BY <1>0, <2>3, <2>4 DEF FadesStart
    <2>6. QED
      BY <2>5 DEF next
  <1>7. QED
    BY <1>2, <1>4, <1>5, <1>6

\* HeldInv, said of each holder.
LEMMA HeldIsReserved ==
    ASSUME TypeOK, HeldInv PROVE Reserved
  <1>1. ASSUME NEW pid \in Pids, procs[pid].held
        PROVE  LET r == records[procs[pid].service]
               IN  r.status \in Reserving /\ r.port = procs[pid].port
    <2>1. procs[pid].service \in Services
      BY DEF TypeOK, Process
    <2>2. procs[pid].port \in HeldPorts(procs[pid].service)
      BY <1>1 DEF HeldPorts
    <2>3. QED
      BY <2>1, <2>2 DEF HeldInv
  <1>2. ASSUME NEW c \in Clients, NEW s \in Services, starts[c].plan[s].held
        PROVE  records[s].status \in Reserving /\ records[s].port = starts[c].plan[s].port
    <2>1. starts[c].plan[s].port \in HeldPorts(s)
      BY <1>2 DEF HeldPorts
    <2>2. QED
      BY <2>1 DEF HeldInv
  <1>3. QED
    BY <1>1, <1>2 DEF Reserved

\* A step that only writes records, and with them processes and starts, is such
\* a step when what it writes is.
LEMMA ChangeIsSmall ==
    ASSUME TypeOK, NEW recs \in [Services -> Record], NEW ps \in [Pids -> Process],
           NEW ss \in [Clients -> Start], Change(recs, ps, ss), count' = count,
           \A pid \in Pids : FadesProcess(procs[pid], ps[pid]),
           \A c \in Clients : FadesStart(starts[c], ss[c]),
           listener' \in [Ports -> 0..MaxProcs + 1],
           \A p \in Ports :
              \/ listener'[p] = listener[p]
              \/ /\ listener'[p] = Nobody
                 /\ \A pid \in Pids : listener[p] = pid => ps[pid].state # "alive",
           \A s \in Services :
              LET x == records[s] y == recs[s]
              IN  /\ y.port = x.port
                  /\ y.proc # 0 => /\ y.proc = x.proc /\ ps[y.proc].state # "none"
                                   /\ ps[y.proc].service = procs[y.proc].service
                  /\ y.status = "healthy" =>
                        \/ x.status = "healthy"
                        \/ /\ Alive(x.proc) /\ procs[x.proc].probed # 0
                           /\ Answers(procs[x.proc].probed)
    PROVE  Fades /\ TypeOK' /\ Reserved'
  <1>1. /\ \A pid \in Pids : FadesProcess(procs[pid], procs'[pid])
        /\ \A c \in Clients : FadesStart(starts[c], starts'[c])
        /\ \A pid \in Pids : /\ procs'[pid].state = ps[pid].state
                             /\ procs'[pid].service = ps[pid].service
        /\ records' = recs /\ records' \in [Services -> Record]
        /\ procs' \in [Pids -> Process] /\ starts' \in [Clients -> Start]
        /\ Reserved'
    BY ChangeFades
  <1>2. TypeOK'
    BY <1>1 DEF TypeOK
  <1>3. \A s \in Services : records'[s].proc # 0 => records'[s].proc \in Pids
    BY <1>1, BoundsAssumption DEF Record, Pids
  <1>4. \A s \in Services : FadesRecord(s)
    <2>1. TAKE s \in Services
    <2>2. records'[s] = recs[s]
      BY <1>1
    <2>3. recs[s].proc # 0 => /\ procs'[recs[s].proc].state = ps[recs[s].proc].state
                              /\ procs'[recs[s].proc].service = ps[recs[s].proc].service
      BY <1>1, <1>3, <2>2
    <2>4. QED
      BY <2>2, <2>3 DEF FadesRecord
  <1>5. \A p \in Ports :
            \/ listener'[p] = listener[p]
            \/ /\ listener'[p] = Nobody
               /\ \A pid \in Pids : listener[p] = pid => procs'[pid].state # "alive"
    BY <1>1
  <1>6. Fades
    BY <1>1, <1>4, <1>5 DEF Fades
  <1>7. QED
    BY <1>1, <1>2, <1>6

\* The first service of a plan could not be started.
LEMMA BeforeStartFailsIsSmall ==
    ASSUME TypeOK, OwnInv, NEW c \in Clients, BeforeStartFails(c)
    PROVE  Fades /\ TypeOK' /\ Reserved'
  <1>1. PICK s \in Services :
            Change([records EXCEPT ![s].status = "failed"], procs, Over(c))
    BY DEF BeforeStartFails
  <1> DEFINE recs == [records EXCEPT ![s].status = "failed"]
  <1>2. recs \in [Services -> Record]
    BY RecordUpdates
  <1>3. \A t \in Services :
            /\ recs[t].port = records[t].port /\ recs[t].proc = records[t].proc
            /\ recs[t].status = "healthy" => records[t].status = "healthy"
    <2>1. records \in [Services -> Record] /\ records[s] \in Record
      BY DEF TypeOK
    <2>2. \A t \in Services : recs[t] = IF t = s THEN [records[s] EXCEPT !.status = "failed"]
                                        ELSE records[t]
      BY <2>1
    <2>3. QED
      BY <2>1, <2>2 DEF Record
  <1>4. procs \in [Pids -> Process] /\ Over(c) \in [Clients -> Start]
    BY StartUpdates DEF TypeOK
  <1>5. \A pid \in Pids : FadesProcess(procs[pid], procs[pid])
    BY ProcessesFade
  <1>6. \A b \in Clients : FadesStart(starts[b], Over(c)[b])
    BY StartsFade
  <1>7. listener' = listener /\ count' = count /\ listener \in [Ports -> 0..MaxProcs + 1]
    BY DEF BeforeStartFails, TypeOK
  <1> HIDE DEF recs
  <1>8. \A t \in Services : recs[t].proc # 0 => procs[recs[t].proc].state # "none"
    BY <1>3 DEF OwnInv
  <1>9. Change(recs, procs, Over(c))
    BY <1>1 DEF recs
  <1>10. QED
    BY <1>2, <1>3, <1>4, <1>5, <1>6, <1>7, <1>8, <1>9, ChangeIsSmall

\* The verdict on a process that was spawned.
LEMMA VerdictIsSmall ==
    ASSUME TypeOK, OwnInv, NEW c \in Clients, Verdict(c)
    PROVE  Fades /\ TypeOK' /\ Reserved'
  <1> DEFINE pid == starts[c].pid
  <1>1. PICK s \in Services, status \in Verdicts(pid) :
            /\ Turn(c, s)
            /\ Change(IF records[s].proc = pid THEN [records EXCEPT ![s].status = status]
                      ELSE records, procs, Following(c, s))
    BY DEF Verdict
  <1> DEFINE recs == IF records[s].proc = pid THEN [records EXCEPT ![s].status = status]
                     ELSE records
  <1>2. /\ status \in Running \cup {"exited"}
        /\ status = "healthy" =>
              Alive(pid) /\ procs[pid].probed # 0 /\ Answers(procs[pid].probed)
    <2>1. status \in Verdicts(pid)
      BY <1>1
    <2> HIDE DEF pid
    <2>2. \/ status = "exited"
          \/ status = "running"
          \/ status \in {"healthy", "unhealthy"} /\ Alive(pid) /\ procs[pid].probed # 0
             /\ Answers(procs[pid].probed)
          \/ status = "unhealthy"
      BY <2>1 DEF Verdicts
    <2>3. QED
      BY <2>2 DEF Running
  <1>3. recs \in [Services -> Record]
    BY <1>2, RecordUpdates DEF TypeOK
  <1>4. \A t \in Services :
            /\ recs[t].port = records[t].port /\ recs[t].proc = records[t].proc
            /\ recs[t].status = "healthy" =>
                  \/ records[t].status = "healthy"
                  \/ /\ Alive(records[t].proc) /\ procs[records[t].proc].probed # 0
                     /\ Answers(procs[records[t].proc].probed)
    <2>1. records \in [Services -> Record] /\ records[s] \in Record
      BY DEF TypeOK
    <2> DEFINE r == [records[s] EXCEPT !.status = status]
    <2>2. r.port = records[s].port /\ r.proc = records[s].proc /\ r.status = status
      BY <2>1 DEF Record
    <2> HIDE DEF pid, r
    <2>3. \A t \in Services :
              \/ recs[t] = records[t]
              \/ t = s /\ records[s].proc = pid /\ recs[t] = r
      BY <2>1 DEF r
    <2> HIDE DEF recs
    <2>4. QED
      BY <1>2, <2>2, <2>3
  <1>5. procs \in [Pids -> Process] /\ Following(c, s) \in [Clients -> Start]
    BY StartUpdates DEF TypeOK
  <1>6. \A p \in Pids : FadesProcess(procs[p], procs[p])
    BY ProcessesFade
  <1>7. \A b \in Clients : FadesStart(starts[b], Following(c, s)[b])
    BY <1>1, StartsFade
  <1>8. listener' = listener /\ count' = count /\ listener \in [Ports -> 0..MaxProcs + 1]
    BY DEF Verdict, TypeOK
  <1>9. Change(recs, procs, Following(c, s))
    BY <1>1
  <1> HIDE DEF recs, pid
  <1>10. \A t \in Services : recs[t].proc # 0 => procs[recs[t].proc].state # "none"
    BY <1>4 DEF OwnInv
  <1>11. QED
    BY <1>3, <1>4, <1>5, <1>6, <1>7, <1>8, <1>9, <1>10, ChangeIsSmall

\* The services of a stop are stopped, and their processes die.
LEMMA StopIsSmall ==
    ASSUME TypeOK, OwnInv, NEW services \in SUBSET Services, Stop(services)
    PROVE  Fades /\ TypeOK' /\ Reserved'
  <1> DEFINE pids == {records[s].proc : s \in services} \cap {pid \in Pids : Alive(pid)}
             recs == [s \in Services |-> IF s \in services
                          THEN [records[s] EXCEPT !.status = "stopped", !.proc = 0]
                          ELSE records[s]]
  <1>1. /\ Change(recs, Dead(pids), starts) /\ count' = count
        /\ listener' = [p \in Ports |-> IF listener[p] \in pids THEN Nobody ELSE listener[p]]
    BY DEF Stop, Released
  <1>2. ASSUME NEW s \in Services
        PROVE  /\ recs[s] \in Record /\ recs[s].port = records[s].port
               /\ recs[s].proc # 0 => recs[s].proc = records[s].proc
               /\ recs[s].status = "healthy" => records[s].status = "healthy"
    <2> DEFINE r == [records[s] EXCEPT !.status = "stopped", !.proc = 0]
    <2>1. records[s] \in Record
      BY DEF TypeOK
    <2>2. /\ r \in Record /\ r.port = records[s].port /\ r.proc = 0 /\ r.status = "stopped"
      BY <2>1, Numbers DEF Record
    <2>3. recs[s] = r \/ recs[s] = records[s]
      OBVIOUS
    <2> HIDE DEF r, recs
    <2>4. QED
      BY <2>1, <2>2, <2>3
  <1>3. recs \in [Services -> Record]
    BY <1>2
  <1> HIDE DEF recs, pids
  <1>4. /\ Dead(pids) \in [Pids -> Process] /\ starts \in [Clients -> Start]
        /\ \A pid \in Pids : FadesProcess(procs[pid], Dead(pids)[pid])
        /\ \A c \in Clients : FadesStart(starts[c], starts[c])
    BY DeadTypes, ProcessesFade, StartsFade DEF TypeOK
  <1>5. \A s \in Services : recs[s].proc # 0 =>
            /\ Dead(pids)[recs[s].proc].state # "none"
            /\ Dead(pids)[recs[s].proc].service = procs[recs[s].proc].service
    <2>1. TAKE s \in Services
    <2>2. recs[s].proc # 0 => recs[s].proc \in Pids /\ procs[recs[s].proc].state # "none"
      BY <1>2, BoundsAssumption DEF OwnInv, Record, Pids
    <2>3. QED
      BY <2>2, DeadTypes
  <1>6. listener' \in [Ports -> 0..MaxProcs + 1]
    BY <1>1, Numbers DEF TypeOK, Nobody
  <1>7. \A p \in Ports :
            \/ listener'[p] = listener[p]
            \/ /\ listener'[p] = Nobody
               /\ \A pid \in Pids : listener[p] = pid => Dead(pids)[pid].state # "alive"
    BY <1>1, DeadTypes
  <1>8. QED
    BY <1>1, <1>2, <1>3, <1>4, <1>5, <1>6, <1>7, ChangeIsSmall

\* What status writes of a service.
LEMMA StatusIsSmall ==
    ASSUME TypeOK, OwnInv, Status
    PROVE  Fades /\ TypeOK' /\ Reserved'
  <1> DEFINE recs == [s \in Services |-> Refreshed(records[s])]
  <1>1. Change(recs, procs, starts) /\ listener' = listener /\ count' = count
    BY DEF Status
  <1>2. \A s \in Services :
            LET x == records[s] y == recs[s]
            IN  /\ y \in Record /\ y.port = x.port
                /\ y.proc # 0 => y.proc = x.proc
                /\ y.status = "healthy" =>
                      \/ x.status = "healthy"
                      \/ /\ Alive(x.proc) /\ procs[x.proc].probed # 0
                         /\ Answers(procs[x.proc].probed)
    BY RefreshedRecord
  <1>3. recs \in [Services -> Record]
    BY <1>2
  <1> HIDE DEF recs
  <1>4. /\ procs \in [Pids -> Process] /\ starts \in [Clients -> Start]
        /\ \A pid \in Pids : FadesProcess(procs[pid], procs[pid])
        /\ \A c \in Clients : FadesStart(starts[c], starts[c])
        /\ listener \in [Ports -> 0..MaxProcs + 1]
    BY ProcessesFade, StartsFade DEF TypeOK
  <1>5. \A s \in Services : recs[s].proc # 0 => procs[recs[s].proc].state # "none"
    BY <1>2 DEF OwnInv
  <1>6. QED
    BY <1>1, <1>2, <1>3, <1>4, <1>5, ChangeIsSmall

\* The exit watcher of a dead process writes the record of its service, and the
\* number of the process is free again.
LEMMA ExitIsSmall ==
    ASSUME TypeOK, OwnInv, NEW pid \in Pids, Exit(pid)
    PROVE  Fades /\ TypeOK' /\ Reserved'
  <1> DEFINE s == procs[pid].service
             status == IF records[s].status = "stopped" THEN "stopped" ELSE "exited"
             recs == [records EXCEPT ![s].proc = 0, ![s].status = status]
             ps == [procs EXCEPT ![pid] = NoProcess]
             ss == [c \in Clients |-> IF starts[c].pid = pid
                                      THEN [starts[c] EXCEPT !.pid = Gone] ELSE starts[c]]
  <1>1. s \in Services /\ procs[pid].state = "dead"
    BY DEF Exit, TypeOK, Process
  <1>2. recs = [records EXCEPT ![s].proc = 0,
                               ![s].status = IF @ = "stopped" THEN @ ELSE "exited"]
    BY <1>1 DEF TypeOK, Record
  <1>3. Change(recs, ps, ss) /\ listener' = listener /\ count' = count
    <2> HIDE DEF recs
    <2>1. QED
      BY <1>2 DEF Exit
  <1>4. status \in {"stopped", "exited"}
    OBVIOUS
  <1> HIDE DEF s, status
  <1>5. recs \in [Services -> Record]
    BY <1>1, <1>4, RecordUpdates
  <1>6. \A t \in Services :
            /\ recs[t].port = records[t].port
            /\ t # s => recs[t] = records[t]
            /\ recs[s].proc = 0 /\ recs[s].status = status
    BY <1>1 DEF TypeOK, Record
  <1>7. ps \in [Pids -> Process] /\ \A p \in Pids : FadesProcess(procs[p], ps[p])
    BY Blank, ProcessesFade DEF TypeOK
  <1>8. \A c \in Clients :
            /\ ss[c] \in Start
            /\ FadesStart(starts[c], ss[c])
    <2>1. \A c \in Clients : starts[c] \in Start
      BY DEF TypeOK
    <2>2. ASSUME NEW c \in Clients
          PROVE  [starts[c] EXCEPT !.pid = Gone] \in Start
      BY <2>1, Numbers DEF Start
    <2>3. pid # 0
      BY Numbers
    <2>4. QED
      BY <2>1, <2>2, <2>3, StartsFade
  <1>9. ss \in [Clients -> Start]
    BY <1>8
  <1>10. \A t \in Services : recs[t].proc # 0 =>
             /\ recs[t].proc = records[t].proc
             /\ ps[recs[t].proc].state # "none"
             /\ ps[recs[t].proc].service = procs[recs[t].proc].service
    <2>1. ASSUME NEW t \in Services, recs[t].proc # 0
          PROVE  t # s /\ recs[t].proc = records[t].proc /\ records[t].proc # pid
      <3>1. t # s /\ recs[t] = records[t]
        BY <1>1, <1>6, <2>1
      <3>2. procs[records[t].proc].service = t
        BY <2>1, <3>1 DEF OwnInv
      <3>3. QED
        BY <3>1, <3>2 DEF s
    <2> HIDE DEF recs
    <2>2. \A t \in Services : recs[t].proc # 0 => procs[recs[t].proc].state # "none"
      BY <2>1 DEF OwnInv
    <2>3. QED
      BY <2>1, <2>2 DEF TypeOK
  <1>11. \A t \in Services : recs[t].status = "healthy" => records[t].status = "healthy"
    BY <1>1, <1>4, <1>6
  <1>12. listener \in [Ports -> 0..MaxProcs + 1]
    BY DEF TypeOK
  <1> HIDE DEF recs, ps, ss
  <1>13. QED
    BY <1>3, <1>5, <1>6, <1>7, <1>8, <1>9, <1>10, <1>11, <1>12, ChangeIsSmall

\* A step that leaves the records alone is such a step when what becomes of
\* processes, starts and listeners is.
LEMMA QuietIsSmall ==
    ASSUME TypeOK, OwnInv, HeldInv, records' = records, count' = count,
           starts' \in [Clients -> Start], procs' \in [Pids -> Process],
           listener' \in [Ports -> 0..MaxProcs + 1],
           \A pid \in Pids : /\ FadesProcess(procs[pid], procs'[pid])
                             /\ procs'[pid].service = procs[pid].service
                             /\ procs[pid].state # "none" => procs'[pid].state # "none",
           \A c \in Clients : FadesStart(starts[c], starts'[c]),
           \A p \in Ports :
              \/ listener'[p] = listener[p]
              \/ /\ listener'[p] = Nobody
                 /\ \A pid \in Pids : listener[p] = pid => procs'[pid].state # "alive"
    PROVE  Fades /\ TypeOK' /\ Reserved'
  <1>1. TypeOK'
    BY DEF TypeOK
  <1>2. \A s \in Services : FadesRecord(s)
    <2>1. TAKE s \in Services
    <2>2. records[s].proc # 0 => records[s].proc \in Pids /\ procs[records[s].proc].state # "none"
      BY BoundsAssumption DEF OwnInv, TypeOK, Record, Pids
    <2>3. QED
      BY <2>2 DEF FadesRecord
  <1>3. Fades
    BY <1>2 DEF Fades
  <1>4. Reserved
    BY HeldIsReserved
  <1>5. \A pid \in Pids : procs'[pid].held =>
            /\ procs[pid].held /\ procs'[pid].service = procs[pid].service
            /\ procs'[pid].port = procs[pid].port
    BY DEF FadesProcess
  <1>6. \A c \in Clients, s \in Services : starts'[c].plan[s].held =>
            /\ starts[c].plan[s].held
            /\ starts'[c].plan[s].port = starts[c].plan[s].port
    BY DEF FadesStart, FadesEntry
  <1>7. Reserved'
    BY <1>4, <1>5, <1>6 DEF Reserved
  <1>8. QED
    BY <1>1, <1>3, <1>7

\* No step at all.
LEMMA StutterIsSmall ==
    ASSUME TypeOK, OwnInv, HeldInv, UNCHANGED vars
    PROVE  Fades /\ TypeOK' /\ Reserved'
  <1>1. /\ \A pid \in Pids : FadesProcess(procs[pid], procs[pid])
        /\ \A c \in Clients : FadesStart(starts[c], starts[c])
    BY ProcessesFade, StartsFade
  <1>2. UNCHANGED <<records, procs, listener, starts, count>>
    BY DEF vars
  <1>3. QED
    BY <1>1, <1>2, QuietIsSmall DEF TypeOK

\* A start whose service cannot be spawned ends.
LEMMA SpawnFailsIsSmall ==
    ASSUME TypeOK, OwnInv, HeldInv, NEW c \in Clients, SpawnFails(c)
    PROVE  Fades /\ TypeOK' /\ Reserved'
  <1>1. \A pid \in Pids : FadesProcess(procs[pid], procs[pid])
    BY ProcessesFade
  <1>2. starts' = Over(c) /\ UNCHANGED <<records, procs, listener, count>>
    BY DEF SpawnFails
  <1>3. /\ Over(c) \in [Clients -> Start]
        /\ \A b \in Clients : FadesStart(starts[b], Over(c)[b])
    BY StartUpdates, StartsFade
  <1>4. QED
    BY <1>1, <1>2, <1>3, QuietIsSmall DEF TypeOK

\* A process ends by itself.
LEMMA DieIsSmall ==
    ASSUME TypeOK, OwnInv, HeldInv, NEW pid \in Pids, Die(pid)
    PROVE  Fades /\ TypeOK' /\ Reserved'
  <1>1. /\ procs' = Dead({pid}) /\ records' = records /\ starts' = starts /\ count' = count
        /\ listener' = [p \in Ports |-> IF listener[p] \in {pid} THEN Nobody ELSE listener[p]]
    BY DEF Die, Released
  <1>2. /\ \A q \in Pids : FadesProcess(procs[q], Dead({pid})[q])
        /\ \A c \in Clients : FadesStart(starts[c], starts[c])
    BY ProcessesFade, StartsFade
  <1>3. /\ Dead({pid}) \in [Pids -> Process]
        /\ \A q \in Pids : IF q = pid THEN /\ Dead({pid})[q].state = "dead"
                                           /\ Dead({pid})[q].service = procs[q].service
                           ELSE Dead({pid})[q] = procs[q]
    BY DeadTypes
  <1>4. listener' \in [Ports -> 0..MaxProcs + 1]
    BY <1>1, Numbers DEF TypeOK, Nobody
  <1>5. \A p \in Ports :
            \/ listener'[p] = listener[p]
            \/ /\ listener'[p] = Nobody
               /\ \A q \in Pids : listener[p] = q => procs'[q].state # "alive"
    BY <1>1, <1>3
  <1>6. QED
    BY <1>1, <1>2, <1>3, <1>4, <1>5, QuietIsSmall DEF TypeOK

\* Another program no longer listens.
LEMMA LeaveIsSmall ==
    ASSUME TypeOK, OwnInv, HeldInv, NEW p \in Ports, ForeignLeave(p)
    PROVE  Fades /\ TypeOK' /\ Reserved'
  <1>1. /\ \A pid \in Pids : FadesProcess(procs[pid], procs[pid])
        /\ \A c \in Clients : FadesStart(starts[c], starts[c])
    BY ProcessesFade, StartsFade
  <1>2. /\ listener[p] = Foreign /\ listener' = [listener EXCEPT ![p] = Nobody]
        /\ UNCHANGED <<records, procs, starts, count>>
    BY DEF ForeignLeave
  <1>3. listener' \in [Ports -> 0..MaxProcs + 1]
    BY <1>2, Numbers DEF TypeOK, Nobody
  <1>4. \A q \in Ports :
            \/ listener'[q] = listener[q]
            \/ /\ listener'[q] = Nobody
               /\ \A pid \in Pids : listener[q] = pid => procs'[pid].state # "alive"
    BY <1>2, Numbers DEF TypeOK
  <1>5. QED
    BY <1>1, <1>2, <1>3, <1>4, QuietIsSmall DEF TypeOK

\* Such a step keeps the inductive invariant.
LEMMA FadesKeepsPInv ==
    ASSUME PInv, Fades, TypeOK', Reserved' PROVE PInv'
  <1>1. OwnInv'
    BY FadesKeepsOwn DEF PInv
  <1>2. HeldInv'
    BY FadesKeepsHeld DEF PInv
  <1>3. ListenInv' /\ HealthyIsOwn'
    BY <1>1, FadesKeepsListen DEF PInv
  <1>4. NamesInv' /\ PeersAreNamed'
    BY FadesKeepsNames DEF PInv
  <1>5. QED
    BY <1>1, <1>2, <1>3, <1>4 DEF PInv

(***************************************************************************)
(* Somebody starts to listen                                               *)
(***************************************************************************)

\* It keeps the inductive invariant: whoever has planned the port, or runs with
\* it, is robbed of it.
LEMMA ListensKeepsPInv ==
    ASSUME PInv, NEW p \in Ports, NEW pid \in 0..MaxProcs + 1, Listens(p, pid)
    PROVE  PInv'
  <1>1. TypeOK /\ HeldInv /\ OwnInv /\ ListenInv /\ HealthyIsOwn /\ NamesInv /\ PeersAreNamed
    BY DEF PInv
  <1>2. /\ records' = records /\ count' = count
        /\ listener[p] = Nobody /\ listener' = [listener EXCEPT ![p] = pid]
        /\ listener' \in [Ports -> 0..MaxProcs + 1]
        /\ procs' \in [Pids -> Process] /\ starts' \in [Clients -> Start]
    BY <1>1, ListensChanges
  <1>3. \A q \in Pids :
            LET x == procs[q] y == procs'[q]
            IN  /\ y.service = x.service /\ y.port = x.port /\ y.probed = x.probed
                /\ y.env = x.env /\ y.start = x.start /\ y.held = x.held
                /\ y.state = x.state
                /\ ~y.robbed => ~x.robbed /\ (q = pid \/ x.port # p)
    BY <1>1, ListensChanges
  <1>4. \A c \in Clients :
            /\ starts'[c].n = starts[c].n /\ starts'[c].todo = starts[c].todo
            /\ starts'[c].pid = starts[c].pid /\ starts'[c].alone = starts[c].alone
            /\ \A s \in Services :
                  LET x == starts[c].plan[s] y == starts'[c].plan[s]
                  IN  /\ y.port = x.port /\ y.probed = x.probed /\ y.held = x.held
                      /\ ~y.robbed => ~x.robbed /\ x.port # p
    BY <1>1, ListensChanges
  <1>5. TypeOK'
    BY <1>1, <1>2 DEF TypeOK
  <1>6. \A q : /\ Alive(q)' <=> Alive(q)
               /\ Alive(q) => q \in Pids
    BY <1>3 DEF Alive
  <1>7. \A c \in Clients, s \in Services : Awaits(starts'[c], s) <=> Awaits(starts[c], s)
    BY <1>4 DEF Awaits
  <1>8. HeldInv'
    <2>1. \A s \in Services : HeldPorts(s)' \subseteq HeldPorts(s)
      BY <1>3, <1>4 DEF HeldPorts
    <2>2. QED
      BY <1>1, <1>2, <2>1 DEF HeldInv
  <1>9. OwnInv'
    <2>1. \A s \in Services : records[s].proc # 0 => records[s].proc \in Pids
      BY <1>1, BoundsAssumption DEF TypeOK, Record, Pids
    <2>2. QED
      BY <1>1, <1>2, <1>3, <1>4, <2>1 DEF OwnInv
  <1>10. ListenInv' /\ HealthyIsOwn'
    <2>1. ASSUME NEW q \in Pids, Alive(q)', procs'[q].port # 0, ~procs'[q].robbed
          PROVE  listener'[procs'[q].port] \in {Nobody, q}
      <3>1. /\ Alive(q) /\ procs'[q].port = procs[q].port /\ procs[q].port # 0
            /\ ~procs[q].robbed /\ (q = pid \/ procs[q].port # p)
        BY <1>3, <1>6, <2>1
      <3>2. listener[procs[q].port] \in {Nobody, q}
        BY <1>1, <3>1 DEF ListenInv
      <3>3. QED
        BY <1>1, <1>2, <3>1, <3>2 DEF TypeOK
    <2>2. ASSUME NEW c \in Clients, NEW s \in Services, Awaits(starts'[c], s),
                 starts'[c].plan[s].port # 0, ~starts'[c].plan[s].robbed
          PROVE  listener'[starts'[c].plan[s].port] = Nobody
      <3> DEFINE port == starts[c].plan[s].port
      <3>1. /\ Awaits(starts[c], s) /\ starts'[c].plan[s].port = port
            /\ port # 0 /\ ~starts[c].plan[s].robbed /\ port # p
        BY <1>4, <1>7, <2>2
      <3>2. listener[port] = Nobody
        BY <1>1, <3>1 DEF ListenInv
      <3>3. QED
        BY <1>1, <1>2, <3>1, <3>2 DEF TypeOK
    <2>3. ASSUME NEW s \in Services, records[s].status = "healthy", Alive(records[s].proc)
          PROVE  LET q == records[s].proc
                 IN  /\ procs'[q].port # 0
                     /\ ~procs'[q].robbed => listener'[procs'[q].port] = q
      <3> DEFINE q == records[s].proc
      <3>1. q \in Pids /\ procs'[q].port = procs[q].port
            /\ (~procs'[q].robbed => ~procs[q].robbed)
        BY <1>3, <1>6, <2>3
      <3>2. procs[q].port # 0 /\ (~procs[q].robbed => listener[procs[q].port] = q)
        BY <1>1, <2>3 DEF ListenInv, HealthyIsOwn
      <3>3. q # Nobody
        BY <3>1, Numbers DEF Nobody
      <3>4. ~procs[q].robbed => procs[q].port # p
        BY <1>2, <3>2, <3>3
      <3>5. QED
        BY <1>1, <1>2, <3>1, <3>2, <3>4 DEF TypeOK
    <2>4. \A s \in Services : Alive(records[s].proc)' <=> Alive(records[s].proc)
      BY <1>2, <1>6
    <2>5. ListenInv'
      BY <1>2, <2>1, <2>2, <2>3, <2>4 DEF ListenInv
    <2>6. HealthyIsOwn'
      BY <1>2, <2>3, <2>4 DEF HealthyIsOwn
    <2>7. QED
      BY <2>5, <2>6
  <1>11. NamesInv'
    <2>1. \A q \in Pids : procs[q].service \in Services
      BY <1>1 DEF TypeOK, Process
    <2>2. \A c \in Clients : Idle(c)' <=> Idle(c)
      BY <1>4 DEF Idle
    <2>3. QED
      BY <1>1, <1>2, <1>3, <1>4, <1>6, <1>7, <2>1, <2>2 DEF NamesInv
  <1>12. PeersAreNamed'
    BY <1>1, <1>3, <1>6 DEF PeersAreNamed
  <1>13. QED
    BY <1>5, <1>8, <1>9, <1>10, <1>11, <1>12 DEF PInv

(***************************************************************************)
(* A service is spawned                                                    *)
(***************************************************************************)

\* What a spawn changes.
SpawnChanges(c, s, pid) ==
    /\ TypeOK' /\ Reserved'
    /\ count' = count /\ listener' = listener
    /\ \A t \in Services : t # s => records'[t] = records[t]
    /\ records'[s] = [status |-> "starting", proc |-> pid,
                      port |-> starts[c].plan[s].port]
    /\ \A q \in Pids : q # pid =>
          LET x == procs[q] y == procs'[q]
          IN  /\ y.service = x.service /\ y.port = x.port /\ y.probed = x.probed
              /\ y.env = x.env /\ y.start = x.start /\ y.robbed = x.robbed
              /\ y.state = x.state /\ (y.held => x.held)
    /\ LET x == starts[c].plan[s] y == procs'[pid]
       IN  /\ y.service = s /\ y.port = x.port /\ y.probed = x.probed
           /\ y.env = Environment /\ y.robbed = x.robbed /\ (y.held => x.held)
           /\ y.start = IF starts[c].alone THEN starts[c].n ELSE 0
           /\ y.state = "alive"
    /\ \A b \in Clients :
          /\ starts'[b].n = starts[b].n /\ starts'[b].todo = starts[b].todo
          /\ starts'[b].pid = (IF b = c THEN pid ELSE starts[b].pid)
          /\ starts'[b].alone = starts[b].alone
          /\ \A t \in Services :
                LET x == starts[b].plan[t] y == starts'[b].plan[t]
                IN  /\ y.port = x.port /\ y.probed = x.probed /\ y.robbed = x.robbed
                    /\ y.held => x.held

\* Spawning changes that.
LEMMA SpawningChanges ==
    ASSUME TypeOK, NEW c \in Clients, NEW s \in Services, NEW pid \in Pids,
           Spawning(c, s, pid)
    PROVE  SpawnChanges(c, s, pid)
  <1> DEFINE recs == [records EXCEPT ![s] = [status |-> "starting", proc |-> pid,
                                             port |-> starts[c].plan[s].port]]
             ps == [procs EXCEPT ![pid] = Spawned(c, s)]
             ss == [starts EXCEPT ![c].pid = pid]
  <1>1. Change(recs, ps, ss) /\ count' = count /\ listener' = listener
    BY DEF Spawning
  <1>2. recs \in [Services -> Record] /\ ps \in [Pids -> Process] /\ ss \in [Clients -> Start]
    BY SpawningTypes
  <1>3. /\ \A t \in Services : t # s => recs[t] = records[t]
        /\ recs[s] = [status |-> "starting", proc |-> pid, port |-> starts[c].plan[s].port]
        /\ \A q \in Pids : q # pid => ps[q] = procs[q]
        /\ ps[pid] = Spawned(c, s)
    BY DEF TypeOK
  <1>4. \A b \in Clients :
            /\ ss[b].n = starts[b].n /\ ss[b].todo = starts[b].todo
            /\ ss[b].pid = (IF b = c THEN pid ELSE starts[b].pid)
            /\ ss[b].alone = starts[b].alone /\ ss[b].plan = starts[b].plan
    BY DEF TypeOK, Start
  <1> HIDE DEF recs, ps, ss
  <1>5. records' = recs /\ TypeOK' /\ Reserved'
    <2>1. records' = recs
      BY <1>1 DEF Change
    <2>2. QED
      BY <1>1, <1>2, <2>1, ChangeKeepsTypes, ChangeReserves DEF TypeOK
  <1>6. \A q \in Pids :
            LET x == ps[q] y == procs'[q]
            IN  /\ y.service = x.service /\ y.port = x.port /\ y.probed = x.probed
                /\ y.env = x.env /\ y.start = x.start /\ y.robbed = x.robbed
                /\ y.state = x.state /\ (y.held => x.held)
    BY <1>1, <1>2, ChangedProcs
  <1>7. \A b \in Clients :
            /\ starts'[b].n = ss[b].n /\ starts'[b].todo = ss[b].todo
            /\ starts'[b].pid = ss[b].pid /\ starts'[b].alone = ss[b].alone
            /\ \A t \in Services :
                  LET x == ss[b].plan[t] y == starts'[b].plan[t]
                  IN  /\ y.port = x.port /\ y.probed = x.probed /\ y.robbed = x.robbed
                      /\ y.held => x.held
    BY <1>1, <1>2, ChangedStarts
  <1>8. LET x == starts[c].plan[s] y == procs'[pid]
        IN  /\ y.service = s /\ y.port = x.port /\ y.probed = x.probed
            /\ y.env = Environment /\ y.robbed = x.robbed /\ (y.held => x.held)
            /\ y.start = IF starts[c].alone THEN starts[c].n ELSE 0
            /\ y.state = "alive"
    BY <1>3, <1>6, SpawnedType
  <1>9. \A q \in Pids : q # pid =>
            LET x == procs[q] y == procs'[q]
            IN  /\ y.service = x.service /\ y.port = x.port /\ y.probed = x.probed
                /\ y.env = x.env /\ y.start = x.start /\ y.robbed = x.robbed
                /\ y.state = x.state /\ (y.held => x.held)
    BY <1>3, <1>6
  <1>10. \A b \in Clients :
            /\ starts'[b].n = starts[b].n /\ starts'[b].todo = starts[b].todo
            /\ starts'[b].pid = (IF b = c THEN pid ELSE starts[b].pid)
            /\ starts'[b].alone = starts[b].alone
            /\ \A t \in Services :
                  LET x == starts[b].plan[t] y == starts'[b].plan[t]
                  IN  /\ y.port = x.port /\ y.probed = x.probed /\ y.robbed = x.robbed
                      /\ y.held => x.held
    BY <1>4, <1>7
  <1>11. QED
    BY <1>1, <1>3, <1>5, <1>8, <1>9, <1>10 DEF SpawnChanges

\* A spawn keeps the inductive invariant: the process holds what its entry in
\* the plan held, and knows the ports of the services that are planned with it.
LEMMA SpawningKeepsPInv ==
    ASSUME PInv, NEW c \in Clients, NEW s \in Services, NEW pid \in Pids,
           Spawning(c, s, pid)
    PROVE  PInv'
  <1> DEFINE entry == starts[c].plan[s]
  <1>1. TypeOK /\ HeldInv /\ OwnInv /\ ListenInv /\ HealthyIsOwn /\ NamesInv /\ PeersAreNamed
    BY DEF PInv
  <1>0. SpawnChanges(c, s, pid)
    BY <1>1, SpawningChanges
  <1>2. /\ TypeOK' /\ Reserved' /\ count' = count /\ listener' = listener
        /\ \A t \in Services : t # s => records'[t] = records[t]
        /\ records'[s].status = "starting" /\ records'[s].proc = pid
        /\ records'[s].port = entry.port
    BY <1>0 DEF SpawnChanges
  <1>3. \A q \in Pids : q # pid =>
            LET x == procs[q] y == procs'[q]
            IN  /\ y.service = x.service /\ y.port = x.port /\ y.probed = x.probed
                /\ y.env = x.env /\ y.start = x.start /\ y.robbed = x.robbed
                /\ y.state = x.state /\ (y.held => x.held)
    BY <1>0 DEF SpawnChanges
  <1>4. LET y == procs'[pid]
        IN  /\ y.service = s /\ y.port = entry.port /\ y.probed = entry.probed
            /\ y.env = Environment /\ y.robbed = entry.robbed /\ (y.held => entry.held)
            /\ y.start = IF starts[c].alone THEN starts[c].n ELSE 0
            /\ y.state = "alive"
    BY <1>0 DEF SpawnChanges
  <1>5. \A b \in Clients :
            /\ starts'[b].n = starts[b].n /\ starts'[b].todo = starts[b].todo
            /\ starts'[b].pid = (IF b = c THEN pid ELSE starts[b].pid)
            /\ starts'[b].alone = starts[b].alone
            /\ \A t \in Services :
                  LET x == starts[b].plan[t] y == starts'[b].plan[t]
                  IN  /\ y.port = x.port /\ y.probed = x.probed /\ y.robbed = x.robbed
                      /\ y.held => x.held
    BY <1>0 DEF SpawnChanges
  <1>6. Turn(c, s) /\ starts[c].pid = 0 /\ procs[pid].state = "none" /\ pid # 0
    BY Numbers DEF Spawning, NoProcess
  <1>7. Awaits(starts[c], s)
    BY <1>6 DEF Awaits, Turn
  <1>8. \A b \in Clients, t \in Services : Awaits(starts'[b], t) =>
            Awaits(starts[b], t) /\ (b = c => t # s)
    <2>1. ASSUME NEW t \in Services, Awaits(starts'[c], t)
          PROVE  Awaits(starts[c], t) /\ t # s
      <3>1. t \in starts[c].todo /\ \E u \in starts[c].todo : u < t
        BY <1>5, <1>6, <2>1 DEF Awaits
      <3>2. starts[c].todo \subseteq Nat
        BY <1>1, Numbers DEF TypeOK, Start
      <3>3. t # s
        BY <1>6, <3>1, <3>2, Numbers DEF Turn
      <3>4. QED
        BY <3>1, <3>3 DEF Awaits
    <2>2. \A b \in Clients, t \in Services : b # c =>
              (Awaits(starts'[b], t) <=> Awaits(starts[b], t))
      BY <1>5 DEF Awaits
    <2>3. QED
      BY <2>1, <2>2
  <1>9. \A t \in Services : records[t].proc # 0 =>
            records[t].proc \in Pids /\ records[t].proc # pid
    BY <1>1, <1>6, BoundsAssumption DEF OwnInv, TypeOK, Record, Pids
  <1>10. HeldInv'
    <2>1. \A t \in Services : HeldPorts(t)' \subseteq HeldPorts(t)
      <3>1. ASSUME NEW t \in Services, NEW q \in Pids, procs'[q].service = t, procs'[q].held
            PROVE  procs'[q].port \in HeldPorts(t)
        <4>1. CASE q = pid
          BY <1>4, <3>1, <4>1 DEF HeldPorts
        <4>2. CASE q # pid
          BY <1>3, <3>1, <4>2 DEF HeldPorts
        <4>3. QED
          BY <4>1, <4>2
      <3>2. ASSUME NEW t \in Services, NEW b \in Clients, starts'[b].plan[t].held
            PROVE  starts'[b].plan[t].port \in HeldPorts(t)
        BY <1>5, <3>2 DEF HeldPorts
      <3>3. ASSUME NEW t \in Services, NEW p \in HeldPorts(t)' PROVE p \in HeldPorts(t)
        <4>1. \/ \E q \in Pids : /\ procs'[q].service = t /\ procs'[q].held
                                 /\ p = procs'[q].port
              \/ \E b \in Clients : /\ starts'[b].plan[t].held
                                    /\ p = starts'[b].plan[t].port
          BY <3>3 DEF HeldPorts
        <4>2. QED
          BY <3>1, <3>2, <4>1
      <3>4. QED
        BY <3>3
    <2>2. ASSUME NEW t \in Services, NEW p \in HeldPorts(t)'
          PROVE  records'[t].status \in Reserving /\ records'[t].port = p
      BY <1>2, <2>2 DEF Reserved, HeldPorts
    <2>3. QED
      BY <1>1, <2>1, <2>2 DEF HeldInv
  <1>11. OwnInv'
    <2>1. ASSUME NEW t \in Services, records'[t].proc # 0
          PROVE  LET x == procs'[records'[t].proc] IN x.state # "none" /\ x.service = t
      <3>1. CASE t = s
        BY <1>2, <1>4, <3>1
      <3>2. CASE t # s
        BY <1>1, <1>2, <1>3, <1>9, <2>1, <3>2 DEF OwnInv
      <3>3. QED
        BY <3>1, <3>2
    <2>2. \A q \in Pids : procs'[q].probed = procs'[q].port
      BY <1>1, <1>3, <1>4 DEF OwnInv
    <2>3. \A b \in Clients, t \in Services : starts'[b].plan[t].probed = starts'[b].plan[t].port
      BY <1>1, <1>5 DEF OwnInv
    <2>4. QED
      BY <2>1, <2>2, <2>3 DEF OwnInv
  <1>12. ListenInv' /\ HealthyIsOwn'
    <2>1. ASSUME NEW q \in Pids, Alive(q)', procs'[q].port # 0, ~procs'[q].robbed
          PROVE  listener'[procs'[q].port] \in {Nobody, q}
      <3>1. CASE q = pid
        BY <1>1, <1>2, <1>4, <1>7, <2>1, <3>1 DEF ListenInv
      <3>2. CASE q # pid
        BY <1>1, <1>2, <1>3, <2>1, <3>2 DEF ListenInv, Alive
      <3>3. QED
        BY <3>1, <3>2
    <2>2. ASSUME NEW b \in Clients, NEW t \in Services, Awaits(starts'[b], t),
                 starts'[b].plan[t].port # 0, ~starts'[b].plan[t].robbed
          PROVE  listener'[starts'[b].plan[t].port] = Nobody
      BY <1>1, <1>2, <1>5, <1>8, <2>2 DEF ListenInv
    <2>3. ASSUME NEW t \in Services, records'[t].status = "healthy", Alive(records[t].proc)'
          PROVE  LET q == records'[t].proc
                 IN  /\ procs'[q].port # 0
                     /\ ~procs'[q].robbed => listener'[procs'[q].port] = q
      <3>1. t # s /\ records'[t] = records[t]
        BY <1>2, <2>3
      <3>2. records[t].proc \in Pids /\ records[t].proc # 0
        BY <2>3, <3>1, Numbers DEF Alive
      <3>3. records[t].proc # pid /\ Alive(records[t].proc)
        BY <1>3, <1>9, <2>3, <3>1, <3>2 DEF Alive
      <3>4. QED
        BY <1>1, <1>2, <1>3, <2>3, <3>1, <3>2, <3>3 DEF ListenInv, HealthyIsOwn
    <2>4. ListenInv'
      BY <2>1, <2>2, <2>3 DEF ListenInv
    <2>5. HealthyIsOwn'
      BY <2>3 DEF HealthyIsOwn
    <2>6. QED
      BY <2>4, <2>5
  <1>13. \A b \in Clients : starts[b].alone => b = c
    <2>1. ~Idle(c)
      BY <1>6 DEF Idle, Turn
    <2>2. QED
      BY <1>1, <2>1 DEF NamesInv
  <1>14. starts[c].alone => \A t \in Services :
             records'[t].port = records[t].port /\ Environment[t] = records[t].port
    <2>1. starts[c].alone => records[s].port = entry.port
      BY <1>1, <1>7 DEF NamesInv
    <2>2. QED
      BY <1>2, <2>1 DEF Environment
  <1>15. NamesInv'
    <2>1. \A q \in Pids : procs'[q].start <= count'
      <3>1. starts[c].n <= count /\ 0 <= count
        BY <1>1, BoundsAssumption DEF NamesInv, TypeOK
      <3>2. \A q \in Pids : q # pid => procs'[q].start = procs[q].start
        BY <1>3
      <3>3. procs'[pid].start = IF starts[c].alone THEN starts[c].n ELSE 0
        BY <1>4
      <3>4. QED
        BY <1>1, <1>2, <3>1, <3>2, <3>3 DEF NamesInv
    <2>2. \A b \in Clients : starts'[b].n <= count'
      BY <1>1, <1>2, <1>5 DEF NamesInv
    <2>3. ASSUME starts[c].alone
          PROVE  /\ starts'[c].n # 0
                 /\ \A b \in Clients \ {c} : Idle(b)' /\ ~starts'[b].alone
                 /\ \A t \in Services : Awaits(starts'[c], t) =>
                       records'[t].port = starts'[c].plan[t].port
                 /\ \A q \in Pids : Alive(q)' /\ procs'[q].start = starts'[c].n =>
                       /\ records'[procs'[q].service].port = procs'[q].port
                       /\ \A t \in Services : Awaits(starts'[c], t) =>
                             procs'[q].env[t] = starts'[c].plan[t].port
      <3>1. \A t \in Services : Awaits(starts'[c], t) =>
                records'[t].port = starts'[c].plan[t].port
        BY <1>1, <1>5, <1>8, <1>14, <2>3 DEF NamesInv
      <3>2. ASSUME NEW q \in Pids, Alive(q)', procs'[q].start = starts'[c].n
            PROVE  /\ records'[procs'[q].service].port = procs'[q].port
                   /\ \A t \in Services : Awaits(starts'[c], t) =>
                         procs'[q].env[t] = starts'[c].plan[t].port
        <4>1. CASE q = pid
          <5>1. \A t \in Services : Awaits(starts'[c], t) =>
                    records[t].port = starts'[c].plan[t].port
            BY <1>14, <2>3, <3>1
          <5>2. QED
            BY <1>2, <1>4, <1>14, <2>3, <4>1, <5>1
        <4>2. CASE q # pid
          <5>1. /\ Alive(q) /\ procs[q].start = starts[c].n
                /\ procs'[q].service = procs[q].service /\ procs'[q].port = procs[q].port
                /\ procs'[q].env = procs[q].env
            BY <1>3, <1>5, <3>2, <4>2 DEF Alive
          <5>2. procs[q].service \in Services
            BY <1>1 DEF TypeOK, Process
          <5>3. /\ records[procs[q].service].port = procs[q].port
                /\ \A t \in Services : Awaits(starts[c], t) =>
                      procs[q].env[t] = starts[c].plan[t].port
            BY <1>1, <2>3, <5>1 DEF NamesInv
          <5>4. QED
            BY <1>5, <1>8, <1>14, <2>3, <5>1, <5>2, <5>3
        <4>3. QED
          BY <4>1, <4>2
      <3>3. starts'[c].n # 0 /\ \A b \in Clients \ {c} : Idle(b)' /\ ~starts'[b].alone
        BY <1>1, <1>5, <2>3 DEF NamesInv, Idle
      <3>4. QED
        BY <3>1, <3>2, <3>3
    <2>4. \A b \in Clients : starts'[b].alone => b = c /\ starts[c].alone
      BY <1>5, <1>13
    <2>5. QED
      BY <2>1, <2>2, <2>3, <2>4 DEF NamesInv
  <1>16. PeersAreNamed'
    <2> SUFFICES ASSUME NEW a \in Pids, NEW b \in Pids, Alive(a)', Alive(b)',
                        procs'[a].start = procs'[b].start, procs'[a].start # 0
                 PROVE  procs'[a].env[procs'[b].service] = procs'[b].port
      BY DEF PeersAreNamed
    <2>1. procs'[pid].start # 0 =>
              starts[c].alone /\ procs'[pid].start = starts[c].n
      BY <1>4
    <2>2. \A q \in Pids : q # pid /\ Alive(q)' => Alive(q)
      BY <1>3 DEF Alive
    <2>3. \A q \in Pids : procs[q].service \in Services
      BY <1>1 DEF TypeOK, Process
    <2>4. CASE a # pid /\ b # pid
      BY <1>1, <1>3, <2>2, <2>4 DEF PeersAreNamed
    <2>5. CASE a # pid /\ b = pid
      <3>1. starts[c].alone /\ procs[a].start = starts[c].n /\ Alive(a)
        BY <1>3, <2>1, <2>2, <2>5
      <3>2. procs[a].env[s] = entry.port
        BY <1>1, <1>7, <3>1 DEF NamesInv
      <3>3. QED
        BY <1>3, <1>4, <2>5, <3>2
    <2>6. CASE a = pid /\ b # pid
      <3>1. starts[c].alone /\ procs[b].start = starts[c].n /\ Alive(b)
        BY <1>3, <2>1, <2>2, <2>6
      <3>2. records[procs[b].service].port = procs[b].port
        BY <1>1, <3>1 DEF NamesInv
      <3>3. QED
        BY <1>3, <1>4, <1>14, <2>3, <2>6, <3>1, <3>2
    <2>7. CASE a = pid /\ b = pid
      <3>1. starts[c].alone
        BY <2>1, <2>7
      <3>2. Environment[s] = records'[s].port
        BY <1>14, <3>1
      <3>3. QED
        BY <1>2, <1>4, <2>7, <3>2
    <2>8. QED
      BY <2>4, <2>5, <2>6, <2>7
  <1>17. QED
    BY <1>2, <1>10, <1>11, <1>12, <1>15, <1>16 DEF PInv

(***************************************************************************)
(* A start gives out ports                                                 *)
(***************************************************************************)

\* The records that allocatePort finds when it comes to a service.
RecordsBefore(S, ports, s) == Recorded(Earlier(S, s), ports)

\* The records of a plan, service by service.
LEMMA RecordedRecords ==
    ASSUME NEW S \in SUBSET Services, NEW ports, NEW t \in Services
    PROVE  /\ t \in S => /\ Recorded(S, ports)[t].status = "preparing"
                         /\ Recorded(S, ports)[t].port = ports[t]
                         /\ Recorded(S, ports)[t].proc = 0
           /\ t \notin S => Recorded(S, ports)[t] = records[t]
  BY DEF Recorded, Planned

\* A port that is given out is free; when it is not the earlier one of the
\* service, or that is nobody else's, no other service has reserved it.
LEMMA GivenPort ==
    ASSUME NEW S \in SUBSET Services, NEW ports, NEW config, GivenOut(S, ports, config),
           NEW s \in S, ports[s] # 0
    PROVE  /\ Available(ports[s])
           /\ OwnPort(RecordsBefore(S, ports, s), s, ports[s]) =>
                 \A t \in Services \ {s} :
                    RecordsBefore(S, ports, s)[t].status \in Reserving
                    => RecordsBefore(S, ports, s)[t].port # ports[s]
  <1> DEFINE recs == RecordsBefore(S, ports, s)
             free == Free(config, UsedByOthers(recs, s))
  <1>1. IsAllocated(ports[s], recs, s, config)
    BY DEF GivenOut, RecordsBefore
  <1> HIDE DEF recs
  <1>2. \/ Kept(recs, s) /\ ports[s] = recs[s].port
        \/ ports[s] \in free
    BY <1>1 DEF IsAllocated
  <1>3. Available(ports[s])
    BY <1>2 DEF Kept, Free
  <1>4. ASSUME OwnPort(recs, s, ports[s]), NEW t \in Services \ {s},
               recs[t].status \in Reserving
        PROVE  recs[t].port # ports[s]
    <2>1. CASE ports[s] = recs[s].port
      BY <1>4, <2>1 DEF OwnPort
    <2>2. CASE ports[s] \in free
      BY <1>4, <2>2 DEF Free, UsedByOthers, Reserves
    <2>3. QED
      BY <1>2, <2>1, <2>2
  <1>5. QED
    BY <1>3, <1>4 DEF recs

\* What a plan changes.
GivenChanges(c, S, ports) ==
    /\ TypeOK' /\ Reserved'
    /\ records' = Recorded(S, ports) /\ count' = count + 1 /\ listener' = listener
    /\ \A pid \in Pids :
          LET x == procs[pid] y == procs'[pid]
          IN  /\ y.service = x.service /\ y.port = x.port /\ y.probed = x.probed
              /\ y.env = x.env /\ y.start = x.start /\ y.robbed = x.robbed
              /\ y.state = x.state /\ (y.held => x.held)
    /\ \A b \in Clients \ {c} :
          /\ starts'[b].n = starts[b].n /\ starts'[b].todo = starts[b].todo
          /\ starts'[b].pid = starts[b].pid /\ ~starts'[b].alone
          /\ \A s \in Services :
                LET x == starts[b].plan[s] y == starts'[b].plan[s]
                IN  /\ y.port = x.port /\ y.probed = x.probed /\ y.robbed = x.robbed
                    /\ y.held => x.held
    /\ LET y == starts'[c]
       IN  /\ y.n \in {0, count + 1} /\ y.todo = S
           /\ y.alone => y.n = count + 1 /\ \A d \in Clients : Idle(d)
           /\ \A s \in Services :
                 LET e == y.plan[s]
                 IN  /\ s \in S => e.port = ports[s]
                     /\ e.probed = e.port /\ ~e.robbed
                     /\ e.held => s \in S /\ OwnPort(RecordsBefore(S, ports, s), s, ports[s])

\* Giving out changes that.
LEMMA GivenGives ==
    ASSUME TypeOK, NEW c \in Clients, NEW S, NEW ports, NEW config \in Configs,
           Given(c, S, ports, config)
    PROVE  GivenChanges(c, S, ports)
  <1>1. /\ S \in SUBSET Services /\ ports \in [Services -> 0..MaxPort]
        /\ Idle(c) /\ count < MaxStarts
        /\ GivenOut(S, ports, config)
        /\ Change(Recorded(S, ports), procs, Plans(c, S, ports, config))
        /\ count' = count + 1 /\ listener' = listener
    BY DEF Given
  <1> DEFINE recs == Recorded(S, ports)
             ss == Plans(c, S, ports, config)
  <1>2. recs \in [Services -> Record] /\ ss \in [Clients -> Start]
        /\ procs \in [Pids -> Process]
    BY <1>1, RecordedType, PlansType DEF TypeOK
  <1>3. \A s \in Services :
            LET x == Entries(S, ports, config)[s]
            IN  /\ s \in S => x.port = ports[s]
                /\ x.probed = x.port /\ ~x.robbed
                /\ s \notin S => x = NoEntry
                /\ x.held => s \in S /\ OwnPort(RecordsBefore(S, ports, s), s, ports[s])
    BY <1>1, EntryTypes DEF RecordsBefore
  <1>4. \A b \in Clients \ {c} :
            /\ ss[b].n = starts[b].n /\ ss[b].todo = starts[b].todo
            /\ ss[b].pid = starts[b].pid /\ ~ss[b].alone /\ ss[b].plan = starts[b].plan
    BY DEF TypeOK, Start, Plans
  <1>5. /\ ss[c].n \in {0, count + 1} /\ ss[c].todo = S
        /\ ss[c].alone => ss[c].n = count + 1 /\ \A d \in Clients : Idle(d)
        /\ \A s \in Services :
              LET e == ss[c].plan[s]
              IN  /\ s \in S => e.port = ports[s]
                  /\ e.probed = e.port /\ ~e.robbed
                  /\ e.held => s \in S /\ OwnPort(RecordsBefore(S, ports, s), s, ports[s])
    <2>1. CASE S = {}
      <3>1. ss[c] = NoStart
        BY <2>1 DEF Plans
      <3>2. /\ NoStart.n = 0 /\ NoStart.todo = {} /\ ~NoStart.alone
            /\ \A s \in Services : NoStart.plan[s] = NoEntry
            /\ NoEntry.port = 0 /\ NoEntry.probed = 0 /\ ~NoEntry.robbed /\ ~NoEntry.held
        BY DEF NoStart, NoEntry
      <3>3. QED
        BY <2>1, <3>1, <3>2
    <2>2. CASE S # {}
      <3>1. ss[c] = [n |-> count + 1, todo |-> S, plan |-> Entries(S, ports, config),
                     pid |-> 0, alone |-> \A d \in Clients : Idle(d)]
        BY <2>2 DEF Plans
      <3>2. /\ ss[c].n = count + 1 /\ ss[c].todo = S
            /\ ss[c].plan = Entries(S, ports, config)
            /\ ss[c].alone => \A d \in Clients : Idle(d)
        BY <3>1
      <3>3. QED
        BY <1>3, <3>2
    <2>3. QED
      BY <2>1, <2>2
  <1>6. Change(recs, procs, ss)
    BY <1>1
  <1> HIDE DEF recs, ss
  <1>7. records' = recs
    BY <1>6 DEF Change
  <1>8. Reserved' /\ procs' \in [Pids -> Process] /\ starts' \in [Clients -> Start]
    BY <1>2, <1>6, ChangeReserves, ChangeKeepsTypes
  <1>9. count' \in 0..MaxStarts
    BY <1>1, BoundsAssumption DEF TypeOK
  <1>10. TypeOK'
    BY <1>1, <1>2, <1>7, <1>8, <1>9 DEF TypeOK
  <1>11. \A pid \in Pids :
            LET x == procs[pid] y == procs'[pid]
            IN  /\ y.service = x.service /\ y.port = x.port /\ y.probed = x.probed
                /\ y.env = x.env /\ y.start = x.start /\ y.robbed = x.robbed
                /\ y.state = x.state /\ (y.held => x.held)
    BY <1>2, <1>6, ChangedProcs
  <1>12. \A b \in Clients :
            /\ starts'[b].n = ss[b].n /\ starts'[b].todo = ss[b].todo
            /\ starts'[b].pid = ss[b].pid /\ starts'[b].alone = ss[b].alone
            /\ \A s \in Services :
                  LET x == ss[b].plan[s] y == starts'[b].plan[s]
                  IN  /\ y.port = x.port /\ y.probed = x.probed /\ y.robbed = x.robbed
                      /\ y.held => x.held
    BY <1>2, <1>6, ChangedStarts
  <1>13. \A b \in Clients \ {c} :
            /\ starts'[b].n = starts[b].n /\ starts'[b].todo = starts[b].todo
            /\ starts'[b].pid = starts[b].pid /\ ~starts'[b].alone
            /\ \A s \in Services :
                  LET x == starts[b].plan[s] y == starts'[b].plan[s]
                  IN  /\ y.port = x.port /\ y.probed = x.probed /\ y.robbed = x.robbed
                      /\ y.held => x.held
    BY <1>4, <1>12
  <1>14. LET y == starts'[c]
         IN  /\ y.n \in {0, count + 1} /\ y.todo = S
             /\ y.alone => y.n = count + 1 /\ \A d \in Clients : Idle(d)
             /\ \A s \in Services :
                   LET e == y.plan[s]
                   IN  /\ s \in S => e.port = ports[s]
                       /\ e.probed = e.port /\ ~e.robbed
                       /\ e.held => s \in S /\ OwnPort(RecordsBefore(S, ports, s), s, ports[s])
    BY <1>5, <1>12
  <1>15. QED
    BY <1>1, <1>7, <1>8, <1>10, <1>11, <1>13, <1>14 DEF GivenChanges, recs

\* A service that a plan gives a port to holds it alone.
LEMMA GivenKeepsHeld ==
    ASSUME TypeOK, HeldInv, NEW c \in Clients, NEW S \in SUBSET Services, NEW ports,
           NEW config, GivenOut(S, ports, config), GivenChanges(c, S, ports)
    PROVE  HeldInv'
  <1> DEFINE New(s) == s \in S /\ OwnPort(RecordsBefore(S, ports, s), s, ports[s])
  <1>1. ASSUME NEW s \in Services, NEW p \in HeldPorts(s)'
        PROVE  /\ records'[s].status \in Reserving /\ records'[s].port = p
               /\ p \in HeldPorts(s) \/ (New(s) /\ p = ports[s])
    <2>1. \/ \E pid \in Pids : /\ procs'[pid].service = s /\ procs'[pid].held
                               /\ p = procs'[pid].port
          \/ \E b \in Clients : starts'[b].plan[s].held /\ p = starts'[b].plan[s].port
      BY <1>1 DEF HeldPorts
    <2>2. records'[s].status \in Reserving /\ records'[s].port = p
      BY <2>1 DEF GivenChanges, Reserved
    <2>3. CASE \E pid \in Pids : /\ procs'[pid].service = s /\ procs'[pid].held
                                 /\ p = procs'[pid].port
      BY <2>2, <2>3 DEF GivenChanges, HeldPorts
    <2>4. CASE \E b \in Clients \ {c} :
                  starts'[b].plan[s].held /\ p = starts'[b].plan[s].port
      BY <2>2, <2>4 DEF GivenChanges, HeldPorts
    <2>5. CASE starts'[c].plan[s].held /\ p = starts'[c].plan[s].port
      BY <2>2, <2>5 DEF GivenChanges
    <2>6. QED
      BY <2>1, <2>3, <2>4, <2>5
  <1>2. \A s \in Services : s \notin S => records'[s] = records[s]
    BY RecordedRecords DEF GivenChanges
  <1>3. \A s \in S : records'[s].port = ports[s]
    BY RecordedRecords DEF GivenChanges
  \* No other service has reserved a port that is newly held.
  <1>4. ASSUME NEW s \in S, NEW t \in Services \ {s}, New(s), ports[s] # 0,
               RecordsBefore(S, ports, s)[t].status \in Reserving
        PROVE  RecordsBefore(S, ports, s)[t].port # ports[s]
    BY <1>4, GivenPort
  <1>5. ASSUME NEW s \in Services, NEW t \in Services
        PROVE  /\ t \in S /\ t < s => /\ RecordsBefore(S, ports, s)[t].status = "preparing"
                                      /\ RecordsBefore(S, ports, s)[t].port = ports[t]
               /\ ~(t \in S /\ t < s) => RecordsBefore(S, ports, s)[t] = records[t]
    <2>1. Earlier(S, s) \in SUBSET Services /\ (t \in Earlier(S, s) <=> t \in S /\ t < s)
      BY DEF Earlier
    <2>2. QED
      BY <2>1, RecordedRecords DEF RecordsBefore
  <1> HIDE DEF New
  <1>6. ASSUME NEW s \in Services, NEW t \in Services \ {s}, NEW p,
               p \in HeldPorts(s)', p \in HeldPorts(t)', p # 0
        PROVE  p \in HeldPorts(s) /\ p \in HeldPorts(t)
    <2>1. /\ p \in HeldPorts(s) \/ (New(s) /\ p = ports[s])
          /\ p \in HeldPorts(t) \/ (New(t) /\ p = ports[t])
          /\ records'[s].status \in Reserving /\ records'[s].port = p
          /\ records'[t].status \in Reserving /\ records'[t].port = p
      BY <1>1, <1>6
    <2>2. s \in Nat /\ t \in Nat /\ s # t
      BY Numbers
    <2>3. /\ p \in HeldPorts(s) => records[s].status \in Reserving /\ records[s].port = p
          /\ p \in HeldPorts(t) => records[t].status \in Reserving /\ records[t].port = p
      BY DEF HeldInv
    <2>4. /\ New(s) => s \in S
          /\ New(t) => t \in S
      BY DEF New
    <2>5. "preparing" \in Reserving
      BY DEF Reserving
    \* Either was given the port in view of the other's record.
    <2>6. ASSUME NEW a \in Services, NEW b \in Services \ {a}, New(a), ports[a] = p,
                 ~(New(b) /\ ports[b] = p /\ a < b), a \in Nat, b \in Nat,
                 p \in HeldPorts(b) \/ (New(b) /\ p = ports[b]),
                 New(b) => b \in S, a \in S,
                 p \in HeldPorts(b) => records[b].status \in Reserving /\ records[b].port = p,
                 records'[b].port = p
          PROVE  FALSE
      <3>1. RecordsBefore(S, ports, a)[b].status \in Reserving
            => RecordsBefore(S, ports, a)[b].port # p
        BY <1>4, <1>6, <2>6
      <3>2. CASE b \in S /\ b < a
        BY <1>3, <1>5, <2>5, <2>6, <3>1, <3>2
      <3>3. CASE ~(b \in S /\ b < a)
        <4>1. RecordsBefore(S, ports, a)[b] = records[b]
          BY <1>5, <3>3
        <4>2. CASE p \in HeldPorts(b)
          BY <2>6, <3>1, <4>1, <4>2
        <4>3. CASE New(b) /\ p = ports[b]
          BY <2>6, <3>3, <4>3
        <4>4. QED
          BY <2>6, <4>2, <4>3
      <3>4. QED
        BY <3>2, <3>3
    <2>7. CASE New(s) /\ p = ports[s]
      <3>1. CASE New(t) /\ ports[t] = p /\ s < t
        BY <2>1, <2>2, <2>3, <2>4, <2>6, <2>7, <3>1
      <3>2. CASE ~(New(t) /\ ports[t] = p /\ s < t)
        BY <2>1, <2>2, <2>3, <2>4, <2>6, <2>7, <3>2
      <3>3. QED
        BY <3>1, <3>2
    <2>8. CASE New(t) /\ p = ports[t] /\ ~(New(s) /\ p = ports[s])
      BY <2>1, <2>2, <2>3, <2>4, <2>6, <2>8
    <2>9. QED
      BY <2>1, <2>7, <2>8
  <1>7. QED
    BY <1>1, <1>6 DEF HeldInv

\* Giving out ports keeps the inductive invariant: nobody listens on them yet,
\* and the records name them.
LEMMA GivenKeepsPInv ==
    ASSUME PInv, NEW c \in Clients, NEW S, NEW ports, NEW config \in Configs,
           Given(c, S, ports, config)
    PROVE  PInv'
  <1>1. TypeOK /\ HeldInv /\ OwnInv /\ ListenInv /\ HealthyIsOwn /\ NamesInv /\ PeersAreNamed
    BY DEF PInv
  <1>2. GivenChanges(c, S, ports)
    BY <1>1, GivenGives
  <1>3. S \in SUBSET Services /\ GivenOut(S, ports, config) /\ Idle(c)
    BY DEF Given
  <1>4. /\ TypeOK' /\ Reserved'
        /\ records' = Recorded(S, ports) /\ count' = count + 1 /\ listener' = listener
    BY <1>2 DEF GivenChanges
  <1>5. \A pid \in Pids :
            LET x == procs[pid] y == procs'[pid]
            IN  /\ y.service = x.service /\ y.port = x.port /\ y.probed = x.probed
                /\ y.env = x.env /\ y.start = x.start /\ y.robbed = x.robbed
                /\ y.state = x.state
    BY <1>2 DEF GivenChanges
  <1>6. \A b \in Clients \ {c} :
            /\ starts'[b].n = starts[b].n /\ starts'[b].todo = starts[b].todo
            /\ starts'[b].pid = starts[b].pid /\ ~starts'[b].alone
            /\ \A s \in Services :
                  LET x == starts[b].plan[s] y == starts'[b].plan[s]
                  IN  /\ y.port = x.port /\ y.probed = x.probed /\ y.robbed = x.robbed
    BY <1>2 DEF GivenChanges
  <1>7. LET y == starts'[c]
        IN  /\ y.n \in {0, count + 1} /\ y.todo = S
            /\ y.alone => y.n = count + 1 /\ \A d \in Clients : Idle(d)
            /\ \A s \in Services :
                  LET e == y.plan[s]
                  IN  /\ s \in S => e.port = ports[s]
                      /\ e.probed = e.port /\ ~e.robbed
    BY <1>2 DEF GivenChanges
  <1>8. \A s \in Services :
            \/ /\ s \in S /\ records'[s].status = "preparing" /\ records'[s].port = ports[s]
               /\ records'[s].proc = 0
            \/ s \notin S /\ records'[s] = records[s]
    BY <1>3, <1>4, RecordedRecords
  <1>9. \A q : /\ Alive(q)' <=> Alive(q)
               /\ Alive(q) => q \in Pids
    BY <1>5 DEF Alive
  <1>10. count \in Nat
    BY <1>1, BoundsAssumption DEF TypeOK
  <1>11. HeldInv'
    BY <1>1, <1>2, <1>3, GivenKeepsHeld
  <1>12. OwnInv'
    <2>1. \A s \in Services : records[s].proc # 0 => records[s].proc \in Pids
      BY <1>1, BoundsAssumption DEF TypeOK, Record, Pids
    <2>2. \A s \in Services : records'[s].proc # 0 =>
              LET x == procs'[records'[s].proc] IN x.state # "none" /\ x.service = s
      BY <1>1, <1>5, <1>8, <2>1 DEF OwnInv
    <2>3. \A pid \in Pids : procs'[pid].probed = procs'[pid].port
      BY <1>1, <1>5 DEF OwnInv
    <2>4. \A b \in Clients, s \in Services : starts'[b].plan[s].probed = starts'[b].plan[s].port
      BY <1>1, <1>6, <1>7 DEF OwnInv
    <2>5. QED
      BY <2>2, <2>3, <2>4 DEF OwnInv
  <1>13. ListenInv' /\ HealthyIsOwn'
    <2>1. \A q \in Pids : Alive(q)' /\ procs'[q].port # 0 /\ ~procs'[q].robbed
              => listener'[procs'[q].port] \in {Nobody, q}
      BY <1>1, <1>4, <1>5, <1>9 DEF ListenInv
    <2>2. ASSUME NEW b \in Clients, NEW s \in Services, Awaits(starts'[b], s),
                 starts'[b].plan[s].port # 0, ~starts'[b].plan[s].robbed
          PROVE  listener'[starts'[b].plan[s].port] = Nobody
      <3>1. CASE b = c
        <4>1. s \in S /\ starts'[b].plan[s].port = ports[s]
          BY <1>7, <2>2, <3>1 DEF Awaits
        <4>2. Available(ports[s])
          BY <1>3, <2>2, <4>1, GivenPort
        <4>3. ports[s] \in Ports
          BY <2>2, <4>1, Numbers DEF Given
        <4>4. QED
          BY <1>4, <4>1, <4>2, <4>3 DEF Available
      <3>2. CASE b # c
        <4>1. Awaits(starts[b], s)
          BY <1>6, <2>2, <3>2 DEF Awaits
        <4>2. QED
          BY <1>1, <1>4, <1>6, <2>2, <3>2, <4>1 DEF ListenInv
      <3>3. QED
        BY <3>1, <3>2
    <2>3. ASSUME NEW s \in Services, records'[s].status = "healthy", Alive(records[s].proc)'
          PROVE  LET q == records'[s].proc
                 IN  /\ procs'[q].port # 0
                     /\ ~procs'[q].robbed => listener'[procs'[q].port] = q
      <3>1. records'[s] = records[s]
        BY <1>8, <2>3
      <3>2. Alive(records[s].proc) /\ records[s].proc \in Pids
        BY <1>9, <2>3, <3>1
      <3>3. QED
        BY <1>1, <1>4, <1>5, <2>3, <3>1, <3>2 DEF ListenInv, HealthyIsOwn
    <2>4. ListenInv'
      BY <2>1, <2>2, <2>3 DEF ListenInv
    <2>5. HealthyIsOwn'
      BY <2>3 DEF HealthyIsOwn
    <2>6. QED
      BY <2>4, <2>5
  <1>14. NamesInv'
    <2>1. \A pid \in Pids : procs'[pid].start <= count'
      <3>1. \A pid \in Pids : procs[pid].start <= count /\ procs[pid].start \in Nat
        BY <1>1, BoundsAssumption DEF NamesInv, TypeOK, Process
      <3>2. QED
        BY <1>4, <1>5, <1>10, <3>1
    <2>2. \A b \in Clients : starts'[b].n <= count'
      <3>1. \A b \in Clients : starts[b].n <= count /\ starts[b].n \in Nat
        BY <1>1, BoundsAssumption DEF NamesInv, TypeOK, Start
      <3>2. QED
        BY <1>4, <1>6, <1>7, <1>10, <3>1
    <2>3. ASSUME starts'[c].alone
          PROVE  /\ starts'[c].n # 0
                 /\ \A b \in Clients \ {c} : Idle(b)' /\ ~starts'[b].alone
                 /\ \A s \in Services : Awaits(starts'[c], s) =>
                       records'[s].port = starts'[c].plan[s].port
                 /\ \A pid \in Pids : Alive(pid)' => procs'[pid].start # starts'[c].n
      <3>1. starts'[c].n = count + 1 /\ \A d \in Clients : Idle(d)
        BY <1>7, <2>3
      <3>2. \A b \in Clients \ {c} : Idle(b)' /\ ~starts'[b].alone
        BY <1>6, <3>1 DEF Idle
      <3>3. \A s \in Services : Awaits(starts'[c], s) =>
                records'[s].port = starts'[c].plan[s].port
        BY <1>7, <1>8 DEF Awaits
      <3>4. \A pid \in Pids : procs'[pid].start # starts'[c].n
        <4>1. \A pid \in Pids : procs[pid].start <= count
          BY <1>1 DEF NamesInv
        <4>2. QED
          BY <1>5, <1>10, <3>1, <4>1
      <3>5. QED
        BY <1>10, <3>1, <3>2, <3>3, <3>4
    <2>4. \A b \in Clients : starts'[b].alone => b = c
      BY <1>6
    <2>5. QED
      BY <2>1, <2>2, <2>3, <2>4 DEF NamesInv
  <1>15. PeersAreNamed'
    BY <1>1, <1>5, <1>9 DEF PeersAreNamed
  <1>16. QED
    BY <1>4, <1>11, <1>12, <1>13, <1>14, <1>15 DEF PInv

(***************************************************************************)
(* The theorems                                                            *)
(***************************************************************************)

\* The invariant holds at first.
LEMMA InitPInv == Init => PInv
  <1> SUFFICES ASSUME Init PROVE PInv
    OBVIOUS
  <1>1. /\ \A s \in Services : records[s] = NoRecord
        /\ \A pid \in Pids : procs[pid] = NoProcess
        /\ \A c \in Clients : starts[c] = NoStart
        /\ count = 0
    BY DEF Init
  <1>2. TypeOK
    BY Blank, Numbers, BoundsAssumption DEF Init, TypeOK, Nobody
  <1>3. /\ NoRecord.proc = 0 /\ NoRecord.status = "none"
        /\ NoProcess.port = 0 /\ NoProcess.probed = 0 /\ NoProcess.start = 0
        /\ NoProcess.state = "none" /\ ~NoProcess.held
        /\ NoStart.n = 0 /\ NoStart.todo = {} /\ ~NoStart.alone
        /\ \A s \in Services : /\ NoStart.plan[s].port = 0 /\ NoStart.plan[s].probed = 0
                               /\ ~NoStart.plan[s].held
    BY DEF NoRecord, NoProcess, NoStart, NoEntry
  <1>4. \A s \in Services : HeldPorts(s) = {}
    BY <1>1, <1>3 DEF HeldPorts
  <1>5. HeldInv
    BY <1>4 DEF HeldInv
  <1>6. OwnInv
    BY <1>1, <1>3 DEF OwnInv
  <1>7. \A pid : ~Alive(pid)
    BY <1>1, <1>3 DEF Alive
  <1>8. ListenInv /\ HealthyIsOwn /\ PeersAreNamed
    BY <1>1, <1>3, <1>7 DEF ListenInv, HealthyIsOwn, PeersAreNamed
  <1>9. NamesInv
    BY <1>1, <1>3 DEF NamesInv
  <1>10. QED
    BY <1>2, <1>5, <1>6, <1>8, <1>9 DEF PInv

\* Every step keeps the invariant.
LEMMA StepPInv == PInv /\ [Next]_vars => PInv'
  <1> SUFFICES ASSUME PInv, [Next]_vars PROVE PInv'
    OBVIOUS
  <1>0. TypeOK /\ OwnInv /\ HeldInv
    BY DEF PInv
  <1>1. ASSUME NEW c \in Clients, NEW services \in SUBSET Services, NEW config \in Configs,
               StartPlan(c, services, config)
        PROVE  PInv'
    BY <1>0, <1>1, StartPlanGives, GivenKeepsPInv
  <1>2. ASSUME NEW c \in Clients, StartStep(c) PROVE PInv'
    <2>1. CASE BeforeStartFails(c)
      BY <1>0, <2>1, BeforeStartFailsIsSmall, FadesKeepsPInv
    <2>2. CASE SpawnFails(c)
      BY <1>0, <2>2, SpawnFailsIsSmall, FadesKeepsPInv
    <2>3. CASE Spawn(c)
      BY <2>3, SpawnSpawns, SpawningKeepsPInv
    <2>4. CASE Verdict(c)
      BY <1>0, <2>4, VerdictIsSmall, FadesKeepsPInv
    <2>5. QED
      BY <1>2, <2>1, <2>2, <2>3, <2>4 DEF StartStep
  <1>3. ASSUME NEW services \in SUBSET Services, Stop(services) PROVE PInv'
    BY <1>0, <1>3, StopIsSmall, FadesKeepsPInv
  <1>4. CASE Status
    BY <1>0, <1>4, StatusIsSmall, FadesKeepsPInv
  <1>5. ASSUME NEW pid \in Pids, Bind(pid) \/ Die(pid) \/ Exit(pid) PROVE PInv'
    <2>1. CASE Bind(pid)
      BY <2>1, Numbers, ListensKeepsPInv DEF Bind
    <2>2. CASE Die(pid)
      BY <1>0, <2>2, DieIsSmall, FadesKeepsPInv
    <2>3. CASE Exit(pid)
      BY <1>0, <2>3, ExitIsSmall, FadesKeepsPInv
    <2>4. QED
      BY <1>5, <2>1, <2>2, <2>3
  <1>6. ASSUME NEW p \in Ports, ForeignBind(p) \/ ForeignLeave(p) PROVE PInv'
    <2>1. CASE ForeignBind(p)
      BY <2>1, Numbers, ListensKeepsPInv DEF ForeignBind
    <2>2. CASE ForeignLeave(p)
      BY <1>0, <2>2, LeaveIsSmall, FadesKeepsPInv
    <2>3. QED
      BY <1>6, <2>1, <2>2
  <1>7. CASE UNCHANGED vars
    BY <1>0, <1>7, StutterIsSmall, FadesKeepsPInv
  <1>8. QED
    BY <1>1, <1>2, <1>3, <1>4, <1>5, <1>6, <1>7 DEF Next

\* PInv is an invariant.
LEMMA PInvHolds == Spec => []PInv
  BY InitPInv, StepPInv, PTL DEF Spec

\* Every variable of a run's ports keeps its type: whatever the configuration
\* says, no port above MaxPort is given out, written to a record, put into an
\* environment or probed.
THEOREM PortTypes == Spec => []TypeOK
  <1>1. PInv => TypeOK
    BY DEF PInv
  <1>2. QED
    BY <1>1, PInvHolds, PTL

\* Services of a run that are given ports by whatever starts, in whatever
\* order, live on different ports as long as their records reserve them.
THEOREM GivenPortsDiffer == Spec => []PortsAreDistinct
  <1>1. PInv => PortsAreDistinct
    <2> SUFFICES ASSUME PInv, NEW a \in Pids, NEW b \in Pids,
                        procs[a].service # procs[b].service,
                        procs[a].held, procs[b].held, procs[a].port # 0
                 PROVE  procs[a].port # procs[b].port
      BY DEF PortsAreDistinct
    <2>1. procs[a].service \in Services /\ procs[b].service \in Services
      BY DEF PInv, TypeOK, Process
    <2>2. /\ procs[a].port \in HeldPorts(procs[a].service)
          /\ procs[b].port \in HeldPorts(procs[b].service)
      BY DEF HeldPorts
    <2>3. HeldPorts(procs[a].service) \cap HeldPorts(procs[b].service) \subseteq {0}
      BY <2>1 DEF PInv, HeldInv
    <2>4. QED
      BY <2>2, <2>3
  <1>2. QED
    BY <1>1, PInvHolds, PTL

\* The services that a start spawns, no other being under way, are told each
\* other's ports.
THEOREM PeersKnowPorts == Spec => []PeersAreNamed
  <1>1. PInv => PeersAreNamed
    BY DEF PInv
  <1>2. QED
    BY <1>1, PInvHolds, PTL

\* A service that is recorded as healthy listens on its port itself, if no
\* other program took it between the probe and the service.
THEOREM HealthyAnswersItself == Spec => []HealthyIsOwn
  <1>1. PInv => HealthyIsOwn
    BY DEF PInv
  <1>2. QED
    BY <1>1, PInvHolds, PTL

=============================================================================
