SPECIFICATION SchedulesSpec
CONSTANTS
    MaxSchedules = 2
    CanFail = TRUE
    PageSize = 1
    MaxReads = 3
    MaxWrites = 2
    Listed = {nightly, hourly}
    nightly = nightly
    hourly = hourly
    None = None
    PageLimit = 1
    MaxDialogReads = 3
    MaxLoads = 1
    MaxEvents = 2
CHECK_DEADLOCK FALSE
INVARIANTS
    WaitsAreOwned
    TableAnswersRequest
    AcceptedActionShown
    DetailOfNamedSchedule
    HistoryGapFree
    SchedulesTellTheirState
PROPERTY DetailSettles
