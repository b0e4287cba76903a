\* Every program; two destinations, so that a reload can move the output; one
\* gated topic under two prefixes.
SPECIFICATION Spec
CONSTANTS
    Kinds = {"signalk", "influx", "mavlink", "mqtt", "prom"}
    Dests = {d1, d2}
    Prefixes = {p1, p2}
    Topics = {heading}
    NoSocket = NoSocket
INVARIANTS
    ReloadsHonoured
    NothingOutdated
PROPERTIES
    BridgesProgress
