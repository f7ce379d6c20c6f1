SPECIFICATION Spec
CONSTANTS
    Clients = {c1, c2}
    Pids = {p1, p2}
    Commands = {"ensure", "restart", "stopLocal"}
    SshLoses = {"ping", "shutdown", "launch"}
    SlowPolls = TRUE
    FastReuse = FALSE
    Lookalikes = TRUE
    MaxLaunches = 3
    MaxCrashes = 1
INVARIANTS TypeOK OneOwner ServingReachable LockFileNamesOwner ForceSparesOthers
SYMMETRY ClientsAndPids
CHECK_DEADLOCK FALSE
