\* Every kind of body; Redis may be down and the processing may fail.
SPECIFICATION FairSpec
CONSTANTS
    Hooks = {1, 2}
    Payments = {"p"}
    Kind <- PaymentAndNotes
    PaymentOf <- SamePayment
    MaxTries = 2
    MaxJobs <- TwoForEach
    Faults = {"redis", "exception"}
PROPERTY AcceptedIsSettled
CHECK_DEADLOCK FALSE
