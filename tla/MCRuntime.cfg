SPECIFICATION MCSpec
CONSTANTS
    Python = {"p"}
    Native = {"n"}
    Capacity = 1
    Tensors = {"s1", "s2", "s3"}
    Parts <- MCParts
    Callers = {"t1", "t2"}
    MaxCalls = 2
    Users = {"t1", "t2"}
    Low <- MCLow
    High <- MCHigh
    Host <- MCHost
    Shared = FALSE
    Limits <- MCLimits
    Child = "kid"
    Count = 2
    Uses <- MCUses
    MaxThrown = 1
    Shapes <- Models
    NumThreads = 2
    UseFp8 = TRUE
    MaxFailed = 1
    MaxLoads = 2
INVARIANTS
    WorkTruthful
    StreamsSound
    StatsWithinDevice CollectedBeforeRetry LocksExact
PROPERTIES
    StartSound
    UploadSound
    CallsReturn
CHECK_DEADLOCK FALSE
