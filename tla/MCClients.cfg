CONSTANTS
    Kinds = {"longpoll", "multimsg", "intervalpoll", "eventsource", "chunked", "multipart", "raw"}
    Checks = {"none", "local", "remote", "redis"}
    MaxMsgs = 2
    MaxLoops = 1
    MayFull = TRUE
    Roles = {"sub", "pubsub", "pub"}
    Offers <- MCOffers
    WindowBits = 10
    MaxPubs = 3
    MaxPending = 2
    Frames <- MCFrames
    MaxFrames = 2
    Requests <- MCRequests
    Procs = {p1, p2, p3}
    NoPid = NoPid
    CmpStreams <- MCStreams
    Rooms <- MCRooms
    Messages <- MCMessages
SPECIFICATION MCSpec
INVARIANTS HttpSafe WsSafe FeSafe ReadsBack MessageSurvives
PROPERTIES HttpEnds WsEnds AllFramesRead RequestEnds LockPromise
CHECK_DEADLOCK FALSE
