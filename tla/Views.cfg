SPECIFICATION MCSpec
CONSTANTS
    Buckets = {running, failed}
    Views = {large}
    NoView = NoView
    CanFail = FALSE
    Runs = {}
    MaxChains = 3
    MaxReads = 3
    payments = payments
    orders = orders
    region = region
    tier = tier
    mine = mine
    new = new
    Types = {payments, orders}
    Windows = {86400}
    Unset = Unset
    AnyTime = AnyTime
    Labels = {}
    Attributes = {region, tier}
    SavedIds = {mine, new}
    NoId = NoId
    Links <- SomeLinks
    Stores <- SomeStores
    MaxChanges = 1
    StatusBuckets = {open, closed}
    Owners = {ann, bob}
    Names = {short, long}
    Contents = {any}
    MaxRequests = 4
    MaxInFlight = 3
SYMMETRY Symmetry
CHECK_DEADLOCK FALSE
INVARIANTS
    ScreenMatchesAddress
    NamesUnique
PROPERTIES
    LinkedViewKept
    EditorKeepsItsWord
    SavedViewListsTheSame
    OwnerMutates
