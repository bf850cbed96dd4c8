\* A listener without any source: only publish and stop race the pump.
SPECIFICATION FairSpec
CONSTANTS
    Controllers = {c1}
    Tasks = {t1}
    Manual = {m1}
    MaxSource = 0
    MaxSinks = 1
    StoreMayFail = FALSE
    SourcePolls = FALSE
PROPERTY
    StopJoinsPump
CHECK_DEADLOCK FALSE
