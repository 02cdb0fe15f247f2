CONSTANTS
    Lengths = {1, 4}
    Timeouts = {1, 2}
    TagMax = 4
    MayDelete = FALSE
    MaxTime = 5
    MaxTag = 3
    SIZE = 3
    FirstMod = 6
    PipeCap = 2
    MaxSent = 16
    Subs = {s1}
    LongPoll = {}
    MaxId = 2
    Starts <- MCStarts
    MayDefer = TRUE
    MayFail = FALSE
    MaxStored = 2
    NthTag = 2
    MayExhaust = FALSE
    MaxPipe = 2
    MaxFetches = 1
SPECIFICATION MCSpec
INVARIANTS IncreasingIds PushReachesCaughtUp LookupFindsNext Fifo
PROPERTIES AllReceived EventuallyPast
CHECK_DEADLOCK FALSE
