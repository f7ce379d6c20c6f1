--------------------------- MODULE PortAllocation ---------------------------
(***************************************************************************)
(* The ports of one run's services (internal/worker/ports.go and the parts *)
(* of lifecycle.go that use them).  A start gives out ports under d.mu and *)
(* spawns later; a port is free when nobody listens on it, which is only   *)
(* known of the moment it is probed.  The services of other runs are like  *)
(* any other program of the machine: they listen on ports, and the daemon  *)
(* looks for theirs by probing only.                                       *)
(*                                                                         *)
(* Services are numbered in the order of their names, port 0 is none.      *)
(***************************************************************************)
EXTENDS Naturals, FiniteSets

CONSTANTS
    Clients,      \* starts under way at a time
    NumServices,  \* of the run
    MaxPort,      \* 65535
    Configs,      \* the workyard.yaml that a start may find
    MaxStarts,    \* bound: starts
    MaxProcs,     \* bound: processes that live or have an exit watcher
    MaxForeign    \* bound: ports that other programs listen on at a time

Services == 1..NumServices
Ports == 1..MaxPort
Pids == 1..MaxProcs

ASSUME ServicesAssumption == NumServices \in Nat \ {0}
ASSUME ConfigsAssumption ==
    Configs \subseteq [ports : [Services -> Nat], low : Nat, high : Nat]
ASSUME BoundsAssumption ==
    MaxPort \in Nat /\ MaxStarts \in Nat /\ MaxProcs \in Nat /\ MaxForeign \in Nat

VARIABLES
    records,   \* state.json: of every service
    procs,     \* the processes spawned, by number
    listener,  \* who listens on a port
    starts,    \* the starts under way
    count      \* of the starts, for MaxStarts

vars == <<records, procs, listener, starts, count>>

Nobody == 0
Foreign == MaxProcs + 1  \* a program that the daemon did not start
Gone == MaxProcs + 1     \* a process that a start still has a verdict to come of

NoRecord == [status |-> "none", port |-> 0, proc |-> 0]
NoProcess == [service |-> 1, port |-> 0, probed |-> 0, env |-> [t \in Services |-> 0],
              start |-> 0, held |-> FALSE, robbed |-> FALSE,
              state |-> "none"]

\* What start remembers of a service between its plan and its verdict.
NoEntry == [port |-> 0, probed |-> 0, held |-> FALSE, robbed |-> FALSE]
NoStart == [n |-> 0, todo |-> {}, plan |-> [s \in Services |-> NoEntry], pid |-> 0,
            alone |-> FALSE]

Idle(c) == starts[c].todo = {}
Alive(pid) == pid \in Pids /\ procs[pid].state = "alive"

Init ==
    /\ records = [s \in Services |-> NoRecord]
    /\ procs = [pid \in Pids |-> NoProcess]
    /\ listener = [p \in Ports |-> Nobody]
    /\ starts = [c \in Clients |-> NoStart]
    /\ count = 0

(***************************************************************************)
(* Configuration                                                           *)
(***************************************************************************)

\* Validate, as far as it is about ports.
Valid(config) == \A s \in Services : config.ports[s] <= MaxPort

\* Mutant of ValidRange: the end of the range is not checked.
ValidRangeOpen(config) == 1 <= config.low /\ config.low <= config.high

\* parsePortRange
ValidRange(config) ==
    1 <= config.low /\ config.low <= config.high /\ config.high <= MaxPort

(***************************************************************************)
(* allocatePort                                                            *)
(***************************************************************************)

Running == {"starting", "running", "healthy", "unhealthy"}
Reserving == Running \cup {"preparing"}

\* Mutant of Reserves: a service that is yet to be spawned reserves nothing.
ReservesRunning(status) == status \in Running

Reserves(status) == status \in Reserving

\* portAvailable
Available(p) == p \in Ports => listener[p] = Nobody

UsedByOthers(recs, s) == {recs[t].port : t \in {t \in Services \ {s} : Reserves(recs[t].status)}}

Free(config, used) == {p \in config.low..config.high : p \notin used /\ Available(p)}

\* Mutant of Kept: the earlier port is not probed again.
KeptBlindly(recs, s) == recs[s].port # 0

\* A service gets its earlier port back when nobody listens on it.
Kept(recs, s) == recs[s].port # 0 /\ Available(recs[s].port)

\* The port for s: its earlier one, the configured one, or the first that is
\* free; 0 when there is none.
IsAllocated(port, recs, s, config) ==
    LET free == Free(config, UsedByOthers(recs, s))
    IN  \/ Kept(recs, s) /\ port = recs[s].port
        \/ /\ ~Kept(recs, s)
           /\ \/ port \in free /\ port = config.ports[s]
              \/ /\ port \in free /\ config.ports[s] \notin free
                 /\ \A q \in free : port <= q
              \/ free = {} /\ port = 0

(***************************************************************************)
(* History: a service holds its port as long as its record has reserved it *)
(* ever since the port was given out, but not when it is the earlier port  *)
(* of the service and another has it by now; it is robbed of its port when *)
(* another program listens first.                                          *)
(***************************************************************************)

Held(recs, s, x) ==
    [x EXCEPT !.held = @ /\ recs[s].status \in Reserving /\ recs[s].port = x.port]

\* New records, with what becomes of the history.
Change(recs, ps, ss) ==
    /\ records' = recs
    /\ procs' = [pid \in Pids |-> Held(recs, ps[pid].service, ps[pid])]
    /\ starts' = [c \in Clients |-> [ss[c] EXCEPT !.plan =
                      [s \in Services |-> Held(recs, s, ss[c].plan[s])]]]

Robbed(x, p) == [x EXCEPT !.robbed = @ \/ x.port = p]

\* pid, or another program, starts to listen on p.
Listens(p, pid) ==
    /\ listener[p] = Nobody
    /\ listener' = [listener EXCEPT ![p] = pid]
    /\ procs' = [q \in Pids |-> IF q = pid THEN procs[q] ELSE Robbed(procs[q], p)]
    /\ starts' = [c \in Clients |-> [starts[c] EXCEPT !.plan =
                      [s \in Services |-> Robbed(starts[c].plan[s], p)]]]
    /\ UNCHANGED <<records, count>>

(***************************************************************************)
(* start                                                                   *)
(***************************************************************************)

Up(record) == record.status \in Running /\ Alive(record.proc)

\* Mutant of Planned: the record is written when the service is spawned.
PlannedLater(s, port) == records[s]

Planned(s, port) == [status |-> "preparing", port |-> port, proc |-> 0]

\* runtimeHealthURL, for a URL with the configured port.
HealthPort(configured, assigned) ==
    IF configured = 0 \/ assigned = 0 THEN configured ELSE assigned

\* The records after the services of S were planned with these ports.
Recorded(S, ports) ==
    [s \in Services |-> IF s \in S THEN Planned(s, ports[s]) ELSE records[s]]

\* Before s, the earlier services were planned.
Earlier(S, s) == {t \in S : t < s}

\* What may be given out at all: a port of the range, or an earlier one.
Candidates(config) ==
    {0} \cup config.low..config.high \cup {records[s].port : s \in Services}

\* One service after the other gets its port, and each that wants one has one.
GivenOut(S, ports, config) ==
    \A s \in Services :
        IF s \in S /\ config.ports[s] # 0
        THEN IsAllocated(ports[s], Recorded(Earlier(S, s), ports), s, config) /\ ports[s] # 0
        ELSE ports[s] = 0

\* History: a port that another service has reserved as well is not held.
OwnPort(recs, s, port) ==
    port = recs[s].port =>
        port \notin {recs[t].port : t \in {t \in Services \ {s} : recs[t].status \in Reserving}}

Entries(S, ports, config) ==
    [s \in Services |->
        IF s \in S
        THEN [port |-> ports[s], probed |-> HealthPort(config.ports[s], ports[s]),
              held |-> OwnPort(Recorded(Earlier(S, s), ports), s, ports[s]),
              robbed |-> FALSE]
        ELSE NoEntry]

\* The ports of all services are given out and recorded before the first is
\* spawned.
StartPlan(c, services, config) ==
    LET S == {s \in services : ~Up(records[s])}
    IN  /\ Idle(c) /\ count < MaxStarts
        /\ Valid(config) /\ ValidRange(config)
        /\ \E ports \in [Services -> Candidates(config)] :
              /\ GivenOut(S, ports, config)
              /\ Change(Recorded(S, ports), procs,
                    [b \in Clients |->
                       IF b # c THEN [starts[b] EXCEPT !.alone = FALSE]
                       ELSE IF S = {} THEN NoStart
                       ELSE [n |-> count + 1, todo |-> S, plan |-> Entries(S, ports, config),
                             pid |-> 0, alone |-> \A d \in Clients : Idle(d)]])
        /\ count' = count + 1
        /\ UNCHANGED listener

\* The service that c is at.
Turn(c, s) == s \in starts[c].todo /\ \A t \in starts[c].todo : s <= t

Over(c) == [starts EXCEPT ![c] = NoStart]

BeforeStartFails(c) ==
    /\ starts[c].pid = 0
    /\ \E s \in Services :
          /\ Turn(c, s)
          /\ Change([records EXCEPT ![s].status = "failed"], procs, Over(c))
    /\ UNCHANGED <<listener, count>>

\* The command of a service, or its log files, cannot be opened.
SpawnFails(c) ==
    /\ ~Idle(c) /\ starts[c].pid = 0
    /\ starts' = Over(c)
    /\ UNCHANGED <<records, procs, listener, count>>

\* serviceEnvForRun: the environment has the port of every service with a
\* record; the service's own record is still the one of the plan.
Environment == [t \in Services |-> records[t].port]

\* A process is made of the entry of s in the plan of c.
Spawned(c, s) ==
    LET x == starts[c].plan[s]
    IN  [service |-> s, port |-> x.port, probed |-> x.probed, env |-> Environment,
         start |-> IF starts[c].alone THEN starts[c].n ELSE 0,
         held |-> x.held, robbed |-> x.robbed, state |-> "alive"]

Spawn(c) ==
    LET pid == CHOOSE pid \in Pids : procs[pid] = NoProcess
    IN  /\ starts[c].pid = 0
        /\ \E p \in Pids : procs[p] = NoProcess
        /\ \E s \in Services :
              /\ Turn(c, s)
              /\ Change([records EXCEPT ![s] = [status |-> "starting", proc |-> pid,
                                               port |-> starts[c].plan[s].port]],
                        [procs EXCEPT ![pid] = Spawned(c, s)],
                        [starts EXCEPT ![c].pid = pid])
        /\ UNCHANGED <<listener, count>>

\* healthOK: somebody answers.
Answers(p) == p \in Ports /\ listener[p] # Nobody

\* waitInitialHealth; the verdict is for the record if that is still about the
\* process.
Verdicts(pid) ==
    IF ~Alive(pid) THEN {"exited"}
    ELSE IF procs[pid].probed = 0 THEN {"running"}
    ELSE {"unhealthy"} \cup {v \in {"healthy"} : Answers(procs[pid].probed)}

\* start turns to its next service, if there is one.
Following(c, s) ==
    LET left == starts[c].todo \ {s}
    IN  IF left = {} THEN Over(c)
        ELSE [starts EXCEPT ![c].todo = left, ![c].pid = 0, ![c].plan[s] = NoEntry]

Verdict(c) ==
    LET pid == starts[c].pid
    IN  /\ pid # 0
        /\ \E s \in Services, status \in Verdicts(pid) :
              /\ Turn(c, s)
              /\ Change(IF records[s].proc = pid THEN [records EXCEPT ![s].status = status]
                        ELSE records,
                        procs, Following(c, s))
        /\ UNCHANGED <<listener, count>>

(***************************************************************************)
(* stop, status and exit watchers                                          *)
(***************************************************************************)

Dead(pids) ==
    [pid \in Pids |-> IF pid \in pids
                      THEN [NoProcess EXCEPT !.service = procs[pid].service, !.state = "dead"]
                      ELSE procs[pid]]

Released(pids) == listener' = [p \in Ports |-> IF listener[p] \in pids THEN Nobody
                                               ELSE listener[p]]

Stop(services) ==
    LET pids == {records[s].proc : s \in services} \cap {pid \in Pids : Alive(pid)}
    IN  /\ \A s \in services : records[s].status # "none"
        /\ Change([s \in Services |-> IF s \in services
                      THEN [records[s] EXCEPT !.status = "stopped", !.proc = 0]
                      ELSE records[s]],
                  Dead(pids), starts)
        /\ Released(pids)
        /\ UNCHANGED count

\* refreshState, for one record.
Refreshed(record) ==
    LET live == Alive(record.proc)
        probed == IF live THEN procs[record.proc].probed ELSE 0
    IN  CASE ~live /\ record.proc # 0 /\ record.status \in Running ->
                [record EXCEPT !.status = "exited", !.proc = 0]
          [] probed # 0 /\ Answers(probed) -> [record EXCEPT !.status = "healthy"]
          [] probed # 0 /\ ~Answers(probed) /\ record.status = "healthy" ->
                [record EXCEPT !.status = "unhealthy"]
          [] OTHER -> record

Status ==
    /\ Change([s \in Services |-> Refreshed(records[s])], procs, starts)
    /\ UNCHANGED <<listener, count>>

\* waitForExit, whatever the record is about by now.
Exit(pid) ==
    LET s == procs[pid].service
    IN  /\ procs[pid].state = "dead"
        /\ Change([records EXCEPT ![s].proc = 0,
                                  ![s].status = IF @ = "stopped" THEN @ ELSE "exited"],
                  [procs EXCEPT ![pid] = NoProcess],
                  [c \in Clients |-> IF starts[c].pid = pid THEN [starts[c] EXCEPT !.pid = Gone]
                                     ELSE starts[c]])
        /\ UNCHANGED <<listener, count>>

(***************************************************************************)
(* Processes and other programs                                            *)
(***************************************************************************)

\* A service listens on its port; when it is taken, it ends or goes on
\* without.
Bind(pid) ==
    /\ Alive(pid) /\ procs[pid].port \in Ports
    /\ Listens(procs[pid].port, pid)

Die(pid) ==
    /\ Alive(pid)
    /\ procs' = Dead({pid})
    /\ Released({pid})
    /\ UNCHANGED <<records, starts, count>>

ForeignBind(p) ==
    /\ Cardinality({q \in Ports : listener[q] = Foreign}) < MaxForeign
    /\ Listens(p, Foreign)

ForeignLeave(p) ==
    /\ listener[p] = Foreign
    /\ listener' = [listener EXCEPT ![p] = Nobody]
    /\ UNCHANGED <<records, procs, starts, count>>

StartStep(c) == BeforeStartFails(c) \/ SpawnFails(c) \/ Spawn(c) \/ Verdict(c)

Next ==
    \/ \E c \in Clients, services \in SUBSET Services \ {{}}, config \in Configs :
          StartPlan(c, services, config)
    \/ \E c \in Clients : StartStep(c)
    \/ \E services \in SUBSET Services \ {{}} : Stop(services)
    \/ Status
    \/ \E pid \in Pids : Bind(pid) \/ Die(pid) \/ Exit(pid)
    \/ \E p \in Ports : ForeignBind(p) \/ ForeignLeave(p)

Spec == Init /\ [][Next]_vars

(***************************************************************************)
(* Properties                                                              *)
(***************************************************************************)

Record == [status : Running \cup {"none", "preparing", "failed", "exited", "stopped"},
           port : 0..MaxPort, proc : 0..MaxProcs]
Process == [service : Services, port : 0..MaxPort, probed : 0..MaxPort,
            env : [Services -> 0..MaxPort], start : 0..MaxStarts,
            held : BOOLEAN, robbed : BOOLEAN, state : {"none", "alive", "dead"}]
PlanEntry == [port : 0..MaxPort, probed : 0..MaxPort, held : BOOLEAN, robbed : BOOLEAN]
Start == [n : 0..MaxStarts, todo : SUBSET Services, plan : [Services -> PlanEntry],
          pid : 0..MaxProcs + 1, alone : BOOLEAN]

\* Every variable has its type: no port that is given out is none, whatever
\* the configuration says.
TypeOK ==
    /\ records \in [Services -> Record]
    /\ procs \in [Pids -> Process]
    /\ listener \in [Ports -> 0..MaxProcs + 1]
    /\ starts \in [Clients -> Start]
    /\ count \in 0..MaxStarts

\* Two services of a run are not started on one port, as long as what start
\* has written into their records to reserve it stays there: it does not when
\* a service gets its earlier port back that is another's by now, when an exit
\* watcher of an old process overwrites the record, or when a second start of
\* the service does.
PortsAreDistinct ==
    \A a, b \in Pids :
        (/\ Alive(a) /\ Alive(b) /\ procs[a].service # procs[b].service
         /\ procs[a].held /\ procs[b].held /\ procs[a].port # 0)
        => procs[a].port # procs[b].port

\* The services that one start has spawned know each other's ports from their
\* environment, the first the ones of those that came later too; unless
\* another start was under way.
PeersAreNamed ==
    \A a, b \in Pids :
        (/\ Alive(a) /\ Alive(b) /\ procs[a].start = procs[b].start /\ procs[a].start # 0)
        => procs[a].env[procs[b].service] = procs[b].port

\* A service that the state calls healthy answers on its port itself, unless
\* another program has taken the port between start's probe and the service.
HealthyIsOwn ==
    \A s \in Services :
        LET pid == records[s].proc
        IN  (records[s].status = "healthy" /\ Alive(pid) /\ ~procs[pid].robbed)
            => listener[procs[pid].port] = pid

(***************************************************************************)
(* The inductive invariant                                                 *)
(***************************************************************************)

\* A start that has yet to spawn s.
Awaits(start, s) ==
    s \in start.todo /\ (start.pid = 0 \/ \E t \in start.todo : t < s)

\* The ports that s holds, as a process or in a plan.
HeldPorts(s) ==
    {procs[pid].port : pid \in {p \in Pids : procs[p].service = s /\ procs[p].held}}
        \cup {starts[c].plan[s].port : c \in {b \in Clients : starts[b].plan[s].held}}

\* What is held is reserved, and by one service.
HeldInv ==
    /\ \A s \in Services : \A p \in HeldPorts(s) :
          records[s].status \in Reserving /\ records[s].port = p
    /\ \A s, t \in Services : s # t => HeldPorts(s) \cap HeldPorts(t) \subseteq {0}

\* A record is about a process of the service, and what is probed is its port.
OwnInv ==
    /\ \A s \in Services : records[s].proc # 0 =>
          LET x == procs[records[s].proc] IN x.state # "none" /\ x.service = s
    /\ \A pid \in Pids : procs[pid].probed = procs[pid].port
    /\ \A c \in Clients, s \in Services : starts[c].plan[s].probed = starts[c].plan[s].port

\* Who is not robbed has its port to itself.
ListenInv ==
    /\ \A pid \in Pids : Alive(pid) /\ procs[pid].port # 0 /\ ~procs[pid].robbed
          => listener[procs[pid].port] \in {Nobody, pid}
    /\ \A c \in Clients, s \in Services :
          LET x == starts[c].plan[s]
          IN  Awaits(starts[c], s) /\ x.port # 0 /\ ~x.robbed => listener[x.port] = Nobody
    /\ \A s \in Services :
          records[s].status = "healthy" /\ Alive(records[s].proc)
          => procs[records[s].proc].port # 0

\* A start that is alone finds in the records what it has planned, and told the
\* processes that it has spawned so.
NamesInv ==
    /\ \A pid \in Pids : procs[pid].start <= count
    /\ \A c \in Clients : starts[c].n <= count
    /\ \A c \in Clients : starts[c].alone =>
          /\ starts[c].n # 0
          /\ \A b \in Clients \ {c} : Idle(b) /\ ~starts[b].alone
          /\ \A s \in Services : Awaits(starts[c], s) => records[s].port = starts[c].plan[s].port
          /\ \A pid \in Pids : Alive(pid) /\ procs[pid].start = starts[c].n =>
                /\ records[procs[pid].service].port = procs[pid].port
                /\ \A s \in Services : Awaits(starts[c], s) =>
                      procs[pid].env[s] = starts[c].plan[s].port

PInv == TypeOK /\ HeldInv /\ OwnInv /\ ListenInv /\ HealthyIsOwn /\ NamesInv /\ PeersAreNamed

=============================================================================
