CONSTANTS
    Subs = {s1}
    LongPoll = {}
    MaxId = 1
    Starts <- MCStarts
    MayDefer = FALSE
    MayFail = TRUE
    MaxFetches = 1
SPECIFICATION MCSpec
INVARIANT WaitsForSomething
