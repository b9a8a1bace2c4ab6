SPECIFICATION FairSpec
CONSTANTS
    Keys = {"a", "lshift", "rshift", "caps", "del", "pause", "home", "num"}
    QueueSize = 3
    AckTries = 2
    MaxEvents = 4
    MaxSent = 8
INVARIANTS TypedText StateFollows
PROPERTIES Delivered
CHECK_DEADLOCK FALSE
