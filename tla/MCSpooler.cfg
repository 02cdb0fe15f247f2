CONSTANTS
    Subs = {s1, s2}
    LongPoll = {s1}
    MaxId = 2
    Starts <- MCStarts
    MayDefer = FALSE
    MayFail = TRUE
    MaxFetches = 1
SPECIFICATION MCSpec
INVARIANT SubscriberInItsSpool
PROPERTY NeverBack
