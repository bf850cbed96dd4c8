\* A fetch task and an outside publish that share the queue and the store, which
\* can fail; weakly fair tasks and a source that always answers.
SPECIFICATION PollingSpec
CONSTANTS
    Controllers = {c1}
    Tasks = {t1}
    Manual = {m1}
    MaxSource = 1
    MaxSinks = 1
    StoreMayFail = TRUE
    SourcePolls = TRUE
INVARIANT
    AcceptedIsStored
PROPERTIES
    QueuedIsDispatched
    StopJoinsFetch
CHECK_DEADLOCK FALSE
