SPECIFICATION HistorySpec
CONSTANTS
    a1 = a1
    a2 = a2
    a3 = a3
    b1 = b1
    b2 = b2
    A = A
    B = B
    NoRun = NoRun
    Runs = {a1, a2, b1}
    Instances = {A, B}
    InstanceOf <- AndAnother
    FirstRuns = {a1, b1}
    CanFail = TRUE
    LeavesDialog = TRUE
    MaxConfirmations = 2
    MaxPosts = 2
    MaxReads = 3
    new = new
    old = old
    approve = approve
    reject = reject
    object = object
    charge = charge
    ShownRuns = {new, old}
    Activities = {charge}
    Names = {approve, reject}
    Contracts = {object}
    NoContract = NoContract
    DetailOf <- NewAndOld
    MaxPrompts = 2
    MaxInspections = 2
    MaxLeaves = 2
CHECK_DEADLOCK FALSE
INVARIANT AcceptedNotOfferedAgain
PROPERTIES
    ConfirmationSettles
    RedriveOpensSuccessor
    ResultOfShownRun
    InspectionSettles
