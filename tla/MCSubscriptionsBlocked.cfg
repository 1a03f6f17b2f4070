\* A grant that loaded the client before it was blocked.
CONSTANTS
    NoLimit = NoLimit
    MaxDays = 2
    Clients = {c1}
    TrialTerms <- MCTrialTerms
    PaidTerms <- MCPaidTerms
    Extras = {1}
    UsageLevels = {0, 6}
    MaxClock = 2
    Horizon = 4
    MaxLimit = 6
    MaxBonus = 1
    MaxSlow = 1
SPECIFICATION Spec
PROPERTIES BlockedClientGetsNothing
CHECK_DEADLOCK FALSE
