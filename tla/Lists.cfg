SPECIFICATION MCSpec
CONSTANTS
    Buckets = {running}
    running = running
    Views = {}
    NoView = NoView
    CanFail = TRUE
    Runs = {1, 2, 3}
    MaxChains = 2
    MaxReads = 4
    MaxPage = 3
    ResponseMargin = 3
    Browsers = {1, 5, 6, 9}
    MaxCall = 3
    MaxAsked = 5
    MaxOptions = 1
    MaxRequests = 3
CHECK_DEADLOCK FALSE
INVARIANTS
    ListsTellTheirState
    AnsweredInTime
    AnswerTellsItsPlace
    ChoicesAreKept
PROPERTY LatestReadsAndSavesSettle
