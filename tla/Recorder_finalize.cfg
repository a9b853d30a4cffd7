\* One caller, whose stop meets the watcher that has claimed the session.
CONSTANTS
    Recordings = {r1}
    Clients = {c1}
    Sweeper = Sweeper
    Closer = Closer
    Booter = Booter
    None = None
    ZombieVisible = TRUE
    MaxRestarts = 0
    MaxDbFaults = 0
SPECIFICATION Spec
PROPERTY
    FinalizedOnce
CHECK_DEADLOCK FALSE
