\* Nothing optional, and two halves that between them start every thread and
\* fail in every arm; a replay that may poll once while it drains.
SPECIFICATION FairSpec
CONSTANTS
    Configurations = {{}, {"mag", "capture", "nmea"}, {"hirate", "stream", "position"}}
    DrainPolls = 1
    MaxReloads = 1
INVARIANTS
    SaysWhatItIs
    LeavesCleanly
PROPERTIES
    ProcessEnds
