CONSTANTS
    MaxSessions = 2
    MaxSegments = 3
    Quota = 1
    Full = 3
    MaxRestarts = 1
    MaxLate = 1
    MaxMishaps = 1
SPECIFICATION FairSpec
INVARIANTS
    IndexSound
    AggregateFits
    PlaybackFollows
PROPERTIES
    RetentionSpares
    RetentionCatchesUp
CHECK_DEADLOCK FALSE
