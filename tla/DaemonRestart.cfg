SPECIFICATION Spec
CONSTANTS
    Clients = {c1}
    Pids = {p1, p2}
    Commands = {"restartLocal"}
    SshLoses = {}
    SlowPolls = FALSE
    FastReuse = FALSE
    Lookalikes = TRUE
    MaxLaunches = 3
    MaxCrashes = 0
PROPERTY RestartEndsServing
CHECK_DEADLOCK FALSE
