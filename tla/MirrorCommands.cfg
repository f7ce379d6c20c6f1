\* Two tools, a background mirror, two roots and one destination.
SPECIFICATION Spec
CONSTANTS
    Clients = {c1, c2}
    Ids = {i1, i2}
    NoId = noid
    Names = {n1}
    Roots = {r1, r2}
    Dests = {d1}
    Inodes = {inode1, inode2}
    NoInode = noinode
    MaxCommands = 3
    MaxLaunches = 2
    MaxOutside = 2
SYMMETRY Symmetry
INVARIANTS TypeOK StopReaches
PROPERTIES SavesKeepOthers AcceptedIsOwn DeletesOnlyOwn
\* The user may stop giving commands.
CHECK_DEADLOCK FALSE
