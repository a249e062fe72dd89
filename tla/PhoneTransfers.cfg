SPECIFICATION PhoneSpec
CONSTANTS
    MaxDown = 1
    MaxUp = 2
    EventCap = 3
    Acts = {"cancel", "disconnect", "link", "disk"}
INVARIANTS ReceivedWhole CardsSettle
\* One session, with a bounded number of files.
CHECK_DEADLOCK FALSE
