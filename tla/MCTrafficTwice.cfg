\* A session that begins and ends around one poll.
SPECIFICATION Spec
CONSTANTS
    Sessions = {s1}
    Pollers = {p1}
    Retention = 1
    PeriodDays = 1
    MaxBytes = 2
    MaxHooks = 1
    MaxDay = 0
    MaxPeriods = 0
INVARIANT BookedOnce
CHECK_DEADLOCK FALSE
