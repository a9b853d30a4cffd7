\* One schedule, two sessions, one fault and one edit.
CONSTANTS
    Schedules = {s1}
    Recs = {r1, r2}
    None = None
    DayLength = 5
    WeekLength = 2
    Windows <- MCWindows
    MaxFaults = 1
    MaxEdits = 1
SPECIFICATION Spec
SYMMETRY Symmetry
INVARIANTS
    SessionsAccounted
    WithinWindow
    LimitedSessionEnds
CHECK_DEADLOCK FALSE
