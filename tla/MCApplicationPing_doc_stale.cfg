SPECIFICATION Spec
CONSTANTS
    Keys = {k1}
    KeyPolicies = {"Repeating"}
    MaxPending = 3
    Interval = 1
    Timeout = 4
    MaxStall = 1
INVARIANTS StaleMeansOverdue
