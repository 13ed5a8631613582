SPECIFICATION SafeSpec
CONSTANTS
    a1 = a1
    a2 = a2
    b1 = b1
    A = A
    B = B
    Runs = {a1, a2, b1}
    Instances = {A}
    InstanceOf <- EmbeddedInstances
    NoInstance = NoInstance
    NoRun = NoRun
    Service = FALSE
    CanFail = TRUE
    Bookmarks = {2}
    PageSize = 1
    MaxReads = 3
    MaxEvents = 2
CHECK_DEADLOCK FALSE
INVARIANT ShownRunIsRequested
PROPERTY ImplementsLatestRead
