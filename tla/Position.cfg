\* Limits of two and three seconds, a poll interval longer than a retry; the
\* shortest waits that still separate them.
SPECIFICATION FairSpec
CONSTANTS
    Places = {p1, p2}
    SpeedTTL = 2
    FixTTL = 3
    PollS = 3
    RetryS = 1
    ConnectS = 1
    ResponseS = 1
    Old = 16
INVARIANTS
    PublishedFresh
    FixIsApplied
PROPERTIES
    PacedAndStopped
