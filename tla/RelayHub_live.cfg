SPECIFICATION PingingSpec
CONSTANTS
    Hosts = {h1}
    Clients = {c1}
    MaxInstance = 2
    FastCap = 1
    BulkCap = 1
    ToHostCap = 1
    MaxBulk = 0
    MaxPong = 0
    HostLinks = {"dead"}
    PhoneLinks = {}
    Together = 1
    Busy = {c1}
    NoHost = NoHost
PROPERTIES PhoneGoneReachesPC ClientLoopReturns DisplacedPhoneLeaves
CHECK_DEADLOCK FALSE
