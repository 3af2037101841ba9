SPECIFICATION Spec
CONSTANTS
    Keys = {k1, k2, k3, k4}
    KeyPolicies = {"Unique", "Repeating"}
    MaxPending = 3
    Interval = 1
    Timeout = 4
    MaxStall = 1
INVARIANTS OverdueEndsSession UniqueKeysNeverStaleByMistake
