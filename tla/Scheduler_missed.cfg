\* The same without faults.
CONSTANTS
    Schedules = {s1}
    Recs = {r1}
    None = None
    DayLength = 5
    WeekLength = 1
    Windows <- MCWindows
    MaxFaults = 0
    MaxEdits = 1
SPECIFICATION FairSpec
PROPERTY NoneMissed
CHECK_DEADLOCK FALSE
