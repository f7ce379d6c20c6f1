\* Two tools with a command each, a service and two edits.
SPECIFICATION Spec
CONSTANTS
    Clients = {c1, c2}
    Services = {s1}
    MaxEdits = 2
    MaxCommands = 2
SYMMETRY Symmetry
INVARIANTS TypeOK RunningIsListed WatchKeepsUp DeployedIsFresh CleanupEndsServices
\* The user may stop giving commands.
CHECK_DEADLOCK FALSE
