CONSTANTS
    MaxSubs = 2
    MaxIpcSubs = 2
    MayCrash = TRUE
    MayFull = TRUE
    MaxHeads = 2
    MaxOwn = 1
    MaxPipe = 3
    Chans = {1, 2}
    MaxTag = 2
    MaxTime = 3
    MaxMsgs = 2
    MaxTimeouts = 1
    Workers = {wo, wf, wg}
    MsgOwner = wo
    Requests = {r1, r2, r3}
    WorkerOf <- MCWorkerOf
    MaxAlerts = 2
    Things = {a, b, c}
    NULL = NULL
    Kinds <- MCKinds
    wo = wo
    wf = wf
    wg = wg
    r1 = r1
    r2 = r2
    r3 = r3
SPECIFICATION MCSpec
INVARIANTS HeadsSafe MultiSafe RefsSafe ReaperSafe
PROPERTIES WaitingEnds MultiDelivers EventuallyFreed EventuallyReaped KeepsPromise
CHECK_DEADLOCK FALSE
