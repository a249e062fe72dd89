SPECIFICATION FairSpec
CONSTANTS
    Sessions = {s1}
    Relayed = {}
    MaxStream = 2
    Cap = 1
    VideoCap = 1
    Attempts = 1
    MaxAsk = 1
    MaxOut = 2
    Audios = {TRUE}
    Faults = {"encoder", "capture", "audio", "peer", "lag"}
INVARIANTS KeyframeNotLost
PROPERTIES AnnouncedFirst ScreenIsFreed
CHECK_DEADLOCK FALSE
