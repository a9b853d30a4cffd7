\* Liveness of one session with one caller, without restarts or failed writes
\* (both may leave a row behind, see RowAccounted).
CONSTANTS
    Recordings = {r1}
    Clients = {c1}
    Sweeper = Sweeper
    Closer = Closer
    Booter = Booter
    None = None
    ZombieVisible = FALSE
    MaxRestarts = 0
    MaxDbFaults = 0
SPECIFICATION FairSpec
PROPERTIES
    DeadProcessFinalized
    LeaseEnds
    ShutdownEnds
CHECK_DEADLOCK FALSE
