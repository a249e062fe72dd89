SPECIFICATION Spec
CONSTANTS
    Hosts = {h1}
    Clients = {c1, c2}
    MaxInstance = 2
    FastCap = 0
    BulkCap = 1
    ToHostCap = 1
    MaxBulk = 2
    MaxPong = 1
    HostLinks = {"wedged"}
    PhoneLinks = {"wedged"}
    Together = 1
    Busy = {c1}
    NoHost = NoHost
INVARIANTS LiveSessionPublished BulkInOrder NoOrphanSession NoStaleRoute
PROPERTY OnlineIsSessionSlot
CHECK_DEADLOCK FALSE
