\* One client, every operation, one call waiting for the lock.
CONSTANTS
    NoLimit = NoLimit
    MaxDays = 2
    Clients = {c1}
    TrialTerms <- MCTrialTerms
    PaidTerms <- MCPaidTermsBoth
    Extras = {1}
    UsageLevels = {0, 4, 6}
    MaxClock = 2
    Horizon = 4
    MaxLimit = 6
    MaxBonus = 1
    MaxSlow = 1
SPECIFICATION FairSpec
INVARIANTS TypeOK StatusFits
CHECK_DEADLOCK FALSE
PROPERTIES TrialGivenOnce AccessChangesAnnounced PaidTermNeverShrinks RenewalsAddUp OverdueIsClosed
