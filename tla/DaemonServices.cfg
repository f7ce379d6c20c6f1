SPECIFICATION Spec
CONSTANTS
    Clients = {c1}
    Main = Main
    Free = Free
    Services = {1, 2}
    Pids = {p1, p2}
    Probed = {1}
    HasBeforeStart = {2}
    Requests = {{}, {1}, {2}}
    DiskErrors = FALSE
    FastReuse = FALSE
    MaxProcs = 2
    MaxBoots = 1
CHECK_DEADLOCK FALSE
SYMMETRY Symmetry
PROPERTIES RecoveryIsTruthful ShutdownStopsRecorded
