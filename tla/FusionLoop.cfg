\* Two writes after the initial one: a reload, and a second inside the window
\* of the first or after it.
SPECIFICATION FairSpec
CONSTANT MaxWrites = 3
INVARIANTS
    FilterInStep
    SetResetNotLost
PROPERTIES
    PublishedIsAttitude
    NeverBackwards
    FusionStops
