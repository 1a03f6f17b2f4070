\* One poller, a hook that may get lost, periods no longer than samples are kept.
SPECIFICATION FairSpec
CONSTANTS
    Sessions = {s1, s2}
    Pollers = {p1}
    Retention = 1
    PeriodDays = 1
    MaxBytes = 1
    MaxHooks = 1
    MaxDay = 2
    MaxPeriods = 1
INVARIANTS TypeOK BookedByRows FinalIsComplete
PROPERTIES UsageOnlyGrows EndedIsClosed OnlineIsBooked
CHECK_DEADLOCK FALSE
