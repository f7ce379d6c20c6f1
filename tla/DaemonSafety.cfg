SPECIFICATION Spec
CONSTANTS
    Clients = {c1, c2}
    Main = Main
    Free = Free
    Services = {1}
    Pids = {p1, p2}
    Probed = {1}
    HasBeforeStart = {1}
    Requests = {{}}
    DiskErrors = TRUE
    FastReuse = FALSE
    MaxProcs = 2
    MaxBoots = 1
CHECK_DEADLOCK FALSE
SYMMETRY Symmetry
INVARIANTS TypeOK RecordsAreTruthful SignalsOnlyOwn
PROPERTIES NeverForgotten StoppedStays ImplementsLife
