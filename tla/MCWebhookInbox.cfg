\* Two bodies about one payment; everything may go wrong.
SPECIFICATION Spec
CONSTANTS
    Hooks = {1, 2, 3, 4}
    Payments = {"p"}
    Kind <- PaymentTwice
    PaymentOf <- SamePayment
    MaxTries = 2
    MaxJobs <- TwoForTheFirst
    Faults = {"redis", "exception", "crash", "timeout", "outage"}
INVARIANTS TypeOK GrantedOnce NoMoneyWithoutTrace RefundsHavePayments
PROPERTY ClosedStaysClosed
CHECK_DEADLOCK FALSE
