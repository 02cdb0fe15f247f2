CONSTANTS
    Subs = {s1, s2}
    LongPoll = {s1}
    MaxId = 3
    Starts <- MCOldestNewest
    MayDefer = FALSE
    MayFail = FALSE
    MaxStored = 2
    NthTag = 2
    MayExhaust = TRUE
    MaxPipe = 2
    MaxFetches = 2
    MaxOwed = 3
    GroupWorkers = {o, f, g}
    GroupOwner = o
    Users = {o, f}
    MaxChannels = 2
    MaxSubscribers = 1
    MaxJoined = 2
    MaxPending = 1
    MaxDeletes = 1
SPECIFICATION MCSpec
INVARIANTS InOrder NoGap CountsExact GroupsSafe
CHECK_DEADLOCK FALSE
