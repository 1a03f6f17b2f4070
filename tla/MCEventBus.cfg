\* The first event never returns; two dispatchers must settle the other two.
SPECIFICATION FairSpec
CONSTANTS
    MaxEvents = 3
    Dispatchers = {d1, d2}
    NumHandlers = 2
    MaxAttempts = 2
    MaxBackoff = 2
    Retention = 0
    Hanging = {1}
    MaxOverdue = 1
    MaxAge = 2
    Null = Null
INVARIANTS TypeOK EffectsOnce DeadOnlyAfterPatience
PROPERTIES ImplementsDelivery EventsAreSettled
