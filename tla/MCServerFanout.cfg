SPECIFICATION Spec
CONSTANTS
    Conns = {c1, c2}
    Callers = {d1}
    Retained = 1
    Capacity = 1
    Awaited = {"Listening"}
    MaxCommands = 2
SYMMETRY FanoutSymmetry
INVARIANTS GapFree CloseTellsCause DispatchNeverStopped WaiterInformed
PROPERTIES ImplementsBroadcast
