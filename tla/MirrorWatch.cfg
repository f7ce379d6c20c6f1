\* Two profiles, each with a file in a directory that is made on the way.
SPECIFICATION Spec
CONSTANTS
    NumRoots = 2
    Files = {"nested"}
    Nested = {"nested"}
    Refusals = TRUE
    MaxEdits = 3
INVARIANTS TypeOK OwnStatus QuietIsFresh
PROPERTIES NoticedArrives AllWatched
\* The user may stop editing.
CHECK_DEADLOCK FALSE
