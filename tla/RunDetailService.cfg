SPECIFICATION TimelineStudySpec
CONSTANTS
    a1 = a1
    a2 = a2
    b1 = b1
    A = A
    B = B
    Runs = {a1}
    Instances = {A}
    InstanceOf <- SingleRun
    NoInstance = NoInstance
    NoRun = NoRun
    Service = TRUE
    CanFail = TRUE
    Bookmarks = {}
    PageSize = 1
    MaxReads = 3
    MaxEvents = 3
    c1 = c1
    f1 = f1
    f2 = f2
    Steps = {a1, a2}
    Children = {c1}
    Sections = {card}
    card = card
    NoAnchor = NoAnchor
    EventOf <- FailuresOfA1
    Inputs = {"wheel", "arrow"}
    MaxSequence = 2
    MaxOpenings = 2
CHECK_DEADLOCK FALSE
INVARIANTS
    TimelineOfShownRun
    DetailTellsTheRun
PROPERTIES
    TotalCountsSnapshot
    LoadSettles
    OperatorKeepsPage
    LinkEndsAtRow
