\* One session and one caller, with a restart at any step and one failing write:
\* every race of stop, delete, heartbeat, watcher, watchdog, sweep, shutdown and
\* startup recovery.
CONSTANTS
    Recordings = {r1}
    Clients = {c1}
    Sweeper = Sweeper
    Closer = Closer
    Booter = Booter
    None = None
    ZombieVisible = TRUE
    MaxRestarts = 1
    MaxDbFaults = 1
SPECIFICATION Spec
INVARIANTS
    TypeOK
    OneClaimant
    ProcessAccounted
    RowAccounted
    ShutdownDrainsTasks
PROPERTY
    NoSpawnAfterShutdown
CHECK_DEADLOCK FALSE
