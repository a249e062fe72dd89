SPECIFICATION FairSpec
CONSTANTS
    Servers = {pc}
    Vias = {"lan", "relay"}
    MaxDial = 2
    MaxCode = 2
    MaxCrash = 1
    Faults = {"save", "file", "expire", "link", "offline"}
INVARIANTS CodePairsOnce TokenIsOnDisk WrongKeyTakesNothing FallbackOnce
PROPERTIES DialEnds
CHECK_DEADLOCK FALSE
