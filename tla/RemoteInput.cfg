SPECIFICATION FairSpec
CONSTANTS
    Spots = {s1, s2}
    Macros = {"ctrl", "alt"}
    MaxGesture = 3
    MaxRun = 2
    WireCap = 1
    Acts = {"drag", "scroll", "long"}
    Faults = {"link", "surface"}
INVARIANTS KeysFollow ClicksLand
PROPERTIES NothingStaysDown
CHECK_DEADLOCK FALSE
