SPECIFICATION Spec
CONSTANTS
    Conns = {c1}
    MaxConnections = 1
    MaxAttempts = {1}
    InitialBackoff = 2
    MaxBackoff = 5
    FaultAfter = {}
    Workers = 1
PROPERTIES ShutdownIsNeverTerminal
