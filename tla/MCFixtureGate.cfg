SPECIFICATION FairSpec
CONSTANTS
    Checkers = {p, q}
    f1 = f1
    f2 = f2
    Paths = {f1, f2}
    NoPath = NoPath
    Inventories <- SomeInventories
    Recordings <- SomeRecordings
INVARIANTS GateSound RefusedForCause RoundTrip
PROPERTIES CheckEnds
