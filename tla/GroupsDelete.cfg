CONSTANTS
    GroupWorkers = {o, f}
    GroupOwner = o
    Users = {o, f}
    MaxChannels = 0
    MaxSubscribers = 0
    MaxJoined = 1
    MaxPending = 1
    MaxDeletes = 1
SPECIFICATION GroupsSpec
INVARIANT DeletesAll
CHECK_DEADLOCK FALSE
