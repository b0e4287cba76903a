\* A ring of three and batches of two, one record to a file, four files over
\* the runs of a daemon, a directory listing that holds three names, and a clock
\* that is set forward and back.
SPECIFICATION Spec
CONSTANTS
    RingLen = 3
    BatchMax = 2
    MaxRecs = 1
    Limits = {0, 1, 2, 3}
    DirMax = 3
    Bumps = 5
    Clocks = {1, 4}
    MaxOffered = 5
    MaxBorn = 4
INVARIANTS
    NothingLostSilently
    ReadBackInOrder
PROPERTIES
    FilesSafe
