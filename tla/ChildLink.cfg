SPECIFICATION ChildLinkSpec
CONSTANTS
    a1 = a1
    a2 = a2
    b1 = b1
    A = A
    B = B
    Runs = {a1, a2, b1}
    Instances = {A}
    InstanceOf <- EmbeddedInstances
    NoInstance = NoInstance
    NoRun = NoRun
    Service = FALSE
    CanFail = TRUE
    Bookmarks = {2}
    PageSize = 1
    MaxReads = 3
    MaxEvents = 2
    c1 = c1
    f1 = f1
    f2 = f2
    Steps = {a1, a2}
    Children = {c1}
    Sections = {card}
    card = card
    NoAnchor = NoAnchor
    EventOf <- FailuresOfA1
    Inputs = {"wheel", "arrow"}
    MaxSequence = 2
    MaxOpenings = 2
CHECK_DEADLOCK FALSE
INVARIANT ChildLinkFindsChild
