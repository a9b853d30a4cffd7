\* No caller is needed: the watcher of an exited FFmpeg suffices.
CONSTANTS
    Recordings = {r1}
    Clients = {}
    Sweeper = Sweeper
    Closer = Closer
    Booter = Booter
    None = None
    ZombieVisible = TRUE
    MaxRestarts = 1
    MaxDbFaults = 0
SPECIFICATION Spec
PROPERTY
    ShutdownLeavesNoOrphan
CHECK_DEADLOCK FALSE
