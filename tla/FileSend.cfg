SPECIFICATION FairSpec
CONSTANTS
    Transfers = {f1}
    Sessions = {s1, s2}
    Nobody = Nobody
    MaxChunk = 2
    BulkCap = 1
    Faults = {"upload", "read", "phone", "wedge", "drop"}
    Cancels = {"browser", "phone"}
INVARIANTS SpoolHasOwner SpoolKeptWhileStreaming ArrivesWhole
PROPERTIES BridgeIsSessionSlot EverySendEnds
CHECK_DEADLOCK FALSE
