SPECIFICATION FairSpec
CONSTANTS
    s1 = s1
    Subs = {s1}
    Modes = {"Public", "AuthGated"}
    Classify = {"Abort", "ImmediateReconnect", "BackoffReconnect"}
    RetryAnswers = {TRUE, FALSE}
    Delays = {0, 1}
    MaxCommands = 2
    MaxReplays = 2
INVARIANTS
    AuthGate
    SubscriptionsConverge
    InOrder
    StatusTruthful
    LifecycleReports
PROPERTIES
    LossIsAccounted
    StopEndsLoop
    DropEndsLoop
