\* Two profiles, one file each: an edit between initial sync and watcher.
SPECIFICATION Spec
CONSTANTS
    NumRoots = 2
    Files = {"top"}
    Nested = {}
    Refusals = FALSE
    MaxEdits = 1
PROPERTIES EditsArrive
CHECK_DEADLOCK FALSE
