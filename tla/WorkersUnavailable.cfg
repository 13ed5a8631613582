SPECIFICATION MCSafeSpec
CONSTANTS
    NoQuery = NoQuery
    All = All
    Scopes = {s1}
    MaxVisits = 2
    MaxStatsReads = 2
    CallScopes = {"relevant", "caller"}
    Statuses = {"pending"}
    StatusBuckets = {"open"}
    Outcomes = {}
    OutcomeBuckets = {"policy"}
    CatalogIds = {"id"}
    LastPages = {1, 2}
    Words <- MCWords
    CatalogLinks <- MCLinks
INVARIANTS
    ErrorAlertsDisplayed

