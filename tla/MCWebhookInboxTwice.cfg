\* Two bodies about one payment, both requeued.
SPECIFICATION Spec
CONSTANTS
    Hooks = {1, 2}
    Payments = {"p"}
    Kind <- PaymentTwice
    PaymentOf <- SamePayment
    MaxTries = 2
    MaxJobs <- TwoForEach
    Faults = {}
INVARIANT PaymentCreditedOnce
CHECK_DEADLOCK FALSE
