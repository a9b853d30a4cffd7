\* Two clients, two events and the smallest buffers, so that events wait, are
\* dropped and are missed, under fairness.
CONSTANTS
    Clients = {c1, c2}
    BusBuffer = 1
    SendBuffer = 1
    MaxEvents = 2
SPECIFICATION FairSpec
INVARIANTS
    TypeOK
    SendNeverReopened
    OrderKept
    GapMeansRemoval
PROPERTIES
    RemovalCompletes
CHECK_DEADLOCK FALSE
