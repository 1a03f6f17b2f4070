\* The database is down for the failure record, too.
SPECIFICATION FairSpec
CONSTANTS
    Hooks = {1}
    Payments = {"p"}
    Kind <- PaymentAndNotes
    PaymentOf <- SamePayment
    MaxTries = 2
    MaxJobs <- TwoForEach
    Faults = {"exception", "outage"}
PROPERTY AcceptedIsSettled
CHECK_DEADLOCK FALSE
