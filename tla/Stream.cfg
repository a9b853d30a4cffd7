CONSTANTS
    Clients = {c1, c2}
    MaxStreams = 2
    MaxRecordings = 1
SPECIFICATION FairSpec
INVARIANTS
    TypeOK
    NoStray
    OnlineMeansPulled
PROPERTIES
    ImplementsLife
    UnwatchedStops
CHECK_DEADLOCK FALSE
