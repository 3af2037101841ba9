SPECIFICATION Spec
CONSTANTS
    s1 = s1
    Subs = {s1}
    Modes = {"Public", "AuthGated"}
    Classify = {"Abort", "ImmediateReconnect", "BackoffReconnect"}
    RetryAnswers = {TRUE, FALSE}
    Delays = {0, 1}
    MaxCommands = 1
    MaxReplays = 2
INVARIANTS
    DisconnectAlwaysReported
