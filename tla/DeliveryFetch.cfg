CONSTANTS
    Subs = {s1, s2}
    LongPoll = {}
    MaxId = 1
    Starts <- MCStarts
    MayDefer = FALSE
    MayFail = FALSE
    MaxStored = 1
    NthTag = 1
    MayExhaust = FALSE
    MaxPipe = 2
    MaxFetches = 1
    MaxOwed = 3
SPECIFICATION DeliveryBoundedSpec
INVARIANT FetchOnlyInvalid
CHECK_DEADLOCK FALSE
