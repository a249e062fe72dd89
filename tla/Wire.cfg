SPECIFICATION FairWire
CONSTANTS
    MaxFrame = 3
    Depth = 1
    a = a
    b = b
    Chars = {a, b}
    Wide = {b}
    MaxText = 2
    MaxEdit = 2
    Base = 4
    IdLen = 2
    Scenes = {"screen", "files", "typing", "talk"}
    Routes = {"lan", "relay"}
    VideoCap = 1
    BulkCap = 1
    FastCap = 1
    RelayBulkCap = 1
    ToHostCap = 1
    SocketCap = 1
    MaxSound = 1
    MaxChunk = 2
    Moment = 257
INVARIANTS NeverStarved NothingRefused Mirrored
PROPERTIES LanesKept AllArrives
\* Pictures, files, edits and messages are bounded.
CHECK_DEADLOCK FALSE
