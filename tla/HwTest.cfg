SPECIFICATION TestSpec
CONSTANTS
    Ranges = {"2g", "4g"}
    Base = "2g"
    Orientations = 2
    Turns = 2
INVARIANTS
    LeftAsFound
    RecommendationEarned
PROPERTIES
    PassiveRunEnds
CHECK_DEADLOCK FALSE
