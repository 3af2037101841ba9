SPECIFICATION Spec
CONSTANTS
    Errors = {e1, e2}
    MaxRecent = 2
    MinRtt = 1
    MaxRtt = 4
    Width = 2
    Latencies = {0, 1, 3, 4, 6}
    FrameCounts = {0, 1, 2}
    MaxU64 = 4
    MaxErrors = 3
    MaxSamples = 3
    MaxAge = 2
INVARIANTS RingsHoldLatest StatsConsistent
