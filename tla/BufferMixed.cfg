CONSTANTS
    Lengths = {0, 1}
    Timeouts = {1, 2}
    TagMax = 3
    MayDelete = FALSE
    MaxTime = 4
    MaxTag = 2
SPECIFICATION BufferBoundedSpec
INVARIANT IncreasingIds
