SPECIFICATION SafeSpec
CONSTANTS
    a1 = a1
    a2 = a2
    a3 = a3
    b1 = b1
    b2 = b2
    A = A
    B = B
    NoRun = NoRun
    Runs = {a1, a2, b1, b2}
    Instances = {A, B}
    InstanceOf <- TwoInstances
    FirstRuns = {a1, b1}
    CanFail = TRUE
    LeavesDialog = TRUE
    MaxConfirmations = 1
    MaxPosts = 2
    MaxReads = 4
CHECK_DEADLOCK FALSE
INVARIANT OneSuccessorPerConfirmation
