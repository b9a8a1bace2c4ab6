SPECIFICATION FairSpec
CONSTANTS
    Chars = {97}
    LineSize = 2
    InputSize = 4
    HitSize = 2
    MaxKeys = 4
    MaxCalls = 3
    MaxPrints = 1
INVARIANTS EventsExact ReadsInOrder FaultsOnlyFull
PROPERTIES Answered
CHECK_DEADLOCK FALSE
