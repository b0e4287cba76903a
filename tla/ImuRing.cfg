\* A ring of two slots, bursts of up to three: one burst laps the ring.
SPECIFICATION FairSpec
CONSTANTS
    RingLen = 2
    MaxBurst = 3
    MaxSamples = 5
    MaxOverflows = 1
INVARIANTS
    RingSound
PROPERTIES
    ImplementsQueue
    ThreadsProgress
