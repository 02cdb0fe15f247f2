CONSTANTS
    n1 = n1
    n2 = n2
    n3 = n3
    None = None
    Nodes <- MCNodes
    Slots = {1, 2}
    Setups <- MCSetups
    MaxFaults = 2
    RcSetups <- MCRcSetups
    RsSetups <- MCRsSetups
    RsWorkers = {w1, w2}
    MaxClock = 6
    IdleTtl <- MCIdleTtl
    NotReadyRetry = 5
    SafetyMargin = 1
    FourYears = 126144000
    ChannelTimeouts <- MCChannelTimeouts
SPECIFICATION MCSpec
INVARIANTS NodesetSafe RcSafe RecoveredWhenQuiet RsSafe ReaderMissesNothing KeptAlive
PROPERTIES BecomesReady EventuallyReady
CHECK_DEADLOCK FALSE
