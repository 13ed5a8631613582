SPECIFICATION SafeSpec
CONSTANTS
    a1 = a1
    a2 = a2
    a3 = a3
    b1 = b1
    b2 = b2
    A = A
    B = B
    NoRun = NoRun
    Runs = {a1, a2, a3, b1}
    Instances = {A, B}
    InstanceOf <- LongerA
    FirstRuns = {a1, b1}
    CanFail = TRUE
    LeavesDialog = FALSE
    MaxConfirmations = 2
    MaxPosts = 3
    MaxReads = 3
CHECK_DEADLOCK FALSE
INVARIANTS
    RejectedMeansNotDone
    ConfirmationIsKept
    OneSuccessorPerConfirmation
