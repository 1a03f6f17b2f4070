\* A dispatcher and reconcile against an outage and an edit by hand.
CONSTANTS
    Users = {"u1", "u2"}
    Dispatchers = {"d1"}
    Reconcilers = {"r1"}
    MaxChanges = 2
    MaxOutages = 1
    Edits = 1
\* Two runs of apply_revocations, a worker for the other jobs, an outage, an edit by hand.
CONSTANTS
    Certificates = {"v1", "v2"}
    Appliers = {"a1", "a2"}
    Refreshers = {"r1"}
\* One checker, two turns of the node, two renewed certificates, a failure.
CONSTANTS
    Checkers = {"c1"}
    CertRenewals = 2
    NodeTurns = 2
    ServerFailures = 1
\* Two messages, two senders; one chat refuses, one is flooded, one answer is lost.
CONSTANTS
    MaxMessages = 2
    Senders = {"s1", "s2"}
    MaxAttempts = 2
    MaxBackoff = 2
    BatchSize = 2
    Gone = {2}
    Broken = {2}
    Flooded = {1}
    MaxLosses = 1
\* Two terms, two traffic periods, one event under way.
CONSTANTS
    MaxTerms = 2
    MaxPeriods = 2
    MaxPending = 1
\* A migration, copies of two days, two commands, a step that fails.
CONSTANTS
    Keep = 1
    KeepEmergency = 1
    Migrations = {2}
    Together = FALSE
    MaxRev = 2
    MaxData = 1
    MaxNow = 2
    MaxCommands = 2
\* Two answers for the domain, two interrupted runs, an operator who reads hints.
CONSTANTS
    Domains = {1, 2}
    StopsOnHint = TRUE
    InstallFailures = 2
\* Two requests at once, one at a time of them about the second factor; one attempt.
CONSTANTS
    LoginLimit = 1
    Window = 1
    Windows = {"w1", "w2"}
    Overlap = FALSE
    MaxSecrets = 2
    MaxSessions = 1
\* Two requests, a limit that goes up and down, three devices at most.
CONSTANTS
    DeviceRequests = {r1, r2}
    Limits = {0, 1, 2}
    MaxSeq = 3
    DeviceChanges = 2
\* Three requests of two clients for a code of one use or of any number.
CONSTANTS
    CodeClients = {a, b}
    CodeRequests = {r1, r2, r3}
    MaxUses = {0, 1}
    CodeChanges = 3
\* Two friends, three payments, a cap of one, a tier at the second reward.
CONSTANTS
    Friends = {f1, f2}
    Cap = 1
    Tiers = {2}
    TierDays <- MCTierDays
    InviterDays = 1
    MaxPayments = 3
    MaxRenewals = 1
    MaxTurns = 2
    MaxFailures = 1
\* Four requests of two people, two at a time.
CONSTANTS
    People = {a, b}
    Requests = {k1, k2}
    MaxRequests = 4
\* An admin and reconcile, two changes, an outage, a failure, an edit by hand.
CONSTANTS
    Lists = {"none", "x"}
    Admins = {"a1"}
\* A window of two parts, two thresholds, a change.
CONSTANTS
    Thresholds = {2, 4}
    ReminderWindow = 2
    Day = 3
    Terms = {3, 5}
    ReminderNow = 6
    TermChanges = 1
SPECIFICATION PartsSpec
INVARIANTS
    PartsTypeOK
    NodeFilesAreSound
    NodeIsWatched
    MessagesGoOnce
    
    
    
    RewardsAddUp
PROPERTIES
    
    DevicesAddUp
    CodesAddUp
    ReferralForest
CHECK_DEADLOCK FALSE
