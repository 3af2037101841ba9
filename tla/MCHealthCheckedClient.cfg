SPECIFICATION HealthSpec
CONSTANTS
    Subs = {}
    Modes = {"Public", "AuthGated"}
    Classify = {"Abort", "BackoffReconnect", "ImmediateReconnect"}
    RetryAnswers = {TRUE}
    Delays = {1}
    MaxCommands = 1
    MaxReplays = 1
    Strategies = {"Protocol", "ServerDriven"}
    Interval = 1
    Timeout = 0
    StaleThreshold = 2
    MaxCount = 2
    MaxStall = 1
PROPERTIES ImplementsManagedLoop
INVARIANTS SilenceBounded UnansweredBounded
