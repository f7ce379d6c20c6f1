----------------------------- MODULE ServiceLife -----------------------------
(***************************************************************************)
(* What the daemon promises about the services of a run to whoever asks    *)
(* for them: the life of a service as state.json tells it, without locks,  *)
(* handlers, signals or exit watchers.  A process is shown at most once,   *)
(* after it was started and before it is let go; a service is up only      *)
(* with a process; nothing brings a process back.                          *)
(***************************************************************************)
EXTENDS Naturals, FiniteSets

CONSTANTS
    Services,  \* the run's services
    MaxProcs   \* how many processes may be started

VARIABLES
    shown,    \* "absent", "preparing", "up" or "down", for every service
    process,  \* the process that a service is shown with, 0 for none
    fresh,    \* processes that were started and are yet to be shown
    started   \* how many processes were started, of services or not

vars == <<shown, process, fresh, started>>

Init ==
    /\ shown = [s \in Services |-> "absent"]
    /\ process = [s \in Services |-> 0]
    /\ fresh = {}
    /\ started = 0

\* A start begins: its services are being prepared, without a process.
Plan(S) ==
    /\ shown' = [s \in Services |-> IF s \in S THEN "preparing" ELSE shown[s]]
    /\ process' = [s \in Services |-> IF s \in S THEN 0 ELSE process[s]]
    /\ UNCHANGED <<fresh, started>>

\* A process is started, for a service or by somebody else.
Launch(F) ==
    /\ started < MaxProcs
    /\ started' = started + 1
    /\ fresh' = fresh \cup F
    /\ F \subseteq {started + 1}
    /\ UNCHANGED <<shown, process>>

\* A fresh process is shown, in place of whatever was.
Show(s, n) ==
    /\ n \in fresh
    /\ shown' = [shown EXCEPT ![s] = "up"]
    /\ process' = [process EXCEPT ![s] = n]
    /\ fresh' = fresh \ {n}
    /\ UNCHANGED started

\* A fresh process is never shown: its record could not be saved, or the
\* daemon was killed.
Lose(F) ==
    /\ fresh' = fresh \ F
    /\ UNCHANGED <<shown, process, started>>

\* A service may turn from up to down and back with the process that it is
\* shown with; without one it may only be down, once it was planned.
Turns(s) ==
    /\ process'[s] = process[s]
    /\ \/ shown'[s] = shown[s]
       \/ process[s] # 0 /\ shown'[s] \in {"up", "down"}
       \/ shown[s] # "absent" /\ shown'[s] = "down"

\* It ends: the process is let go.
Ends(s) == shown[s] # "absent" /\ shown'[s] = "down" /\ process'[s] = 0

Report ==
    /\ shown' \in [Services -> {"absent", "preparing", "up", "down"}]
    /\ process' \in [Services -> 0..MaxProcs]
    /\ \A s \in Services : Turns(s) \/ Ends(s)
    /\ UNCHANGED <<fresh, started>>

Next ==
    \/ \E S \in SUBSET Services : Plan(S)
    \/ \E F \in SUBSET (1..MaxProcs) : Launch(F) \/ Lose(F)
    \/ \E s \in Services, n \in fresh : Show(s, n)
    \/ Report

Spec == Init /\ [][Next]_vars

=============================================================================
