SPECIFICATION Spec
CONSTANTS
    Sessions = {s1}
    MaxUpload = 2
    MaxChunk = 2
    MaxSuffix = 1
    WireCap = 2
    Faults = {"read", "dir", "create", "write", "link", "user"}
INVARIANTS DownloadsWhole FailedIsNotThere
CHECK_DEADLOCK FALSE
