\* Two files, one of them the name of two pools; one crash, one failing save.
SPECIFICATION Spec
CONSTANTS
    pool = pool
    dash = dash
    underscore = underscore
    own = own
    shared = shared
    Ids = {pool, dash, underscore}
    Files = {own, shared}
    SnapshotPath <- MCSnapshotPath
    MaxEvents <- MCMaxEvents
    MaxCrashes = 1
    MaxFailures = 1
    Nothing = Nothing
    Junk = Junk
INVARIANTS
    TypeOK
    LostIsExplained
    ResyncRestores
\* every event handled and nothing left to remove
CHECK_DEADLOCK FALSE
