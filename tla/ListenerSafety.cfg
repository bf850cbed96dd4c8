\* One caller that starts and stops the listener, twice at most, a source of
\* three events and two sinks.
SPECIFICATION Spec
CONSTANTS
    Controllers = {c1}
    Tasks = {t1, t2}
    Manual = {}
    MaxSource = 3
    MaxSinks = 2
    StoreMayFail = FALSE
    SourcePolls = TRUE
SYMMETRY TaskSymmetry
INVARIANTS
    TypeOK
    NothingLostOrOvertaken
    SourceOrderKept
    QuietWhenStopped
    SinkSeesWhatEarlierTook
PROPERTY
    ImplementsOrderedFeed
CHECK_DEADLOCK FALSE
