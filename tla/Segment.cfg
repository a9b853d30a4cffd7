\* One caller, two segments, one fault and one restart, under fairness.
CONSTANTS
    Callers = {c1}
    Watcher = Watcher
    Sweeper = Sweeper
    Booter = Booter
    MaxFiles = 2
    MaxFaults = 1
    MaxRestarts = 1
SPECIFICATION FairSpec
INVARIANTS
    FinalizedAlone
    ArchiveSound
PROPERTIES
    StopMeansFinal
    RowsFit
    SessionEnds
    StopTakesEffect
CHECK_DEADLOCK FALSE
