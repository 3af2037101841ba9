SPECIFICATION FairSpec
CONSTANTS
    Conns = {c1, c2, c3, c4}
    MaxConnections = 1
    MaxAttempts = {3}
    InitialBackoff = 2
    MaxBackoff = 5
    FaultAfter = {3}
    Workers = 1
INVARIANTS SlotAccounting JoinSetBounded NoOrphans RetryBudget
PROPERTIES ImplementsLifecycle ShutdownEndsTask HandleGoneFreesSlots
