SPECIFICATION Spec
CONSTANTS
    Clients = {c1, c2}
    Pids = {p1, p2}
    Commands = {"ensure", "restart"}
    SshLoses = {"shutdown"}
    SlowPolls = FALSE
    FastReuse = FALSE
    Lookalikes = FALSE
    MaxLaunches = 2
    MaxCrashes = 1
INVARIANT RestartReplaces
PROPERTIES StartServes ToldEnds
CHECK_DEADLOCK FALSE
