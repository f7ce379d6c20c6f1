SPECIFICATION Spec
CONSTANTS
    Clients = {c1}
    Main = Main
    Free = Free
    Services = {1}
    Pids = {p1, p2}
    Probed = {}
    HasBeforeStart = {}
    Requests = {{}}
    DiskErrors = FALSE
    FastReuse = FALSE
    MaxProcs = 2
    MaxBoots = 0
CHECK_DEADLOCK FALSE
PROPERTY StopStopsAll
