SPECIFICATION ReadersSpec
CONSTANTS
    FifoWords = 7
    BurstWords = 3
    Batch = 2
    Slack = 1
    Jitter = 2
    MaxRefusals = 1
    MaxErrors = 2
    MaxFailures = 2
    AnchorEvery = 3
    BadCounters = {1, 5}
    Horizon = 5
    Faults = 2
    BadReads = 1
    Period = 2
    FallbackWait = 4
    PollEvery = 1
    StallAfter = 6
    SetPeriods = {4, 7}
    MagErrors = 2
    MagResets = 2
    MagFaults = 2
    MissedEdges = 2
    SlowReads = 1
INVARIANTS
    SamplesTrue
    FieldWatched
PROPERTIES
    BurstsFollow
    ReadersGiveUp
