\* Two callers: one stops the session while the other deletes it.
CONSTANTS
    Recordings = {r1}
    Clients = {c1, c2}
    Sweeper = Sweeper
    Closer = Closer
    Booter = Booter
    None = None
    ZombieVisible = TRUE
    MaxRestarts = 0
    MaxDbFaults = 0
SPECIFICATION Spec
PROPERTY
    DeleteStopsFirst
CHECK_DEADLOCK FALSE
