SPECIFICATION FairSpec
CONSTANTS
    Clients = {c1, c2}
    Main = Main
    Free = Free
    Services = {1}
    Pids = {p1}
    Probed = {}
    HasBeforeStart = {}
    Requests = {{}}
    DiskErrors = FALSE
    FastReuse = FALSE
    MaxProcs = 1
    MaxBoots = 1
CHECK_DEADLOCK FALSE
PROPERTIES RequestsAnswered ExitIsRecorded TerminatedDies ShutdownEnds
