SPECIFICATION FairSpec
CONSTANTS
    Phones = {p1}
    MaxTunnel = 2
    MaxData = 2
    OutCap = 2
    MaxOut = 2
    Quits = {p1}
    Links = {"wedged", "dead"}
PROPERTIES OrphansEnd
CHECK_DEADLOCK FALSE
