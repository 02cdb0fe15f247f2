CONSTANTS
    Subs = {s1, s2}
    LongPoll = {s1}
    MaxId = 1
    Starts <- MCStarts
    MayDefer = TRUE
    MayFail = FALSE
    MaxFetches = 2
SPECIFICATION MCSpec
INVARIANT WaitsForSomething
