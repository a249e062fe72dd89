SPECIFICATION FairClock
CONSTANTS
    MaxFrame = 4
    Keys = {1, 3}
    FlowCap = 1
    PendingCap = 1
    MaxInput = 2
    MaxSurface = 2
    Faults = {"codec"}
    MaxTime = 4
    Period = 1
    Origins = {0, 2, 5}
    MaxAudio = 2
    Startup = 2
    MaxDelay = 3
    Slack = 1
    Grain = 1
    None = None
INVARIANTS Decodable PostedOnce
PROPERTIES InSync EveryFrameShown
\* The frames and the surfaces are bounded.
CHECK_DEADLOCK FALSE
