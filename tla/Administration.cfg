SPECIFICATION MCSpec
CONSTANTS
    Areas = {"permissions", "registers", "categories", "articles", "suggestions", "signup", "passwords", "limiter"}
    Actors = {a1, a2}
    Ids = {x1, x2, x3}
    seed = seed
    ListLimit = 2
    Keys = {y1, y2}
    Notes = {"a", "b"}
    Tenants = {z1, z2}
    Slugs = {"one", "other"}
    Skus = {"a", "A", "ART-001"}
    Example = "ART-001"
    Lower <- MCLower
    Rows <- MCRows
    Pods = {z1, z2}
    Requests = {a1, a2}
    TTL = 2
    MaxDelay = 1
    MaxTime = 5
    MaxVersion = 2
    Kinds = {"locations", "clients", "location types", "presentation types", "reason codes", "conversions", "serials", "lots", "users"}
    MaxEdits = 3
    MaxCalls = 3
    MaxResets = 3
    Burst = 2
    PerToken = 5
    Second = 2
    IdleTicks = 4
    Window = 12
    Positions = {1, 2, 3}
    Sites = {"here", "there"}
    LocationOf <- MCLocationOf
    Stocks <- MCStocks
    Wanted <- MCWanted
    Forever = 9
SYMMETRY Symmetry
INVARIANTS
    AdministrationTypeOK
    StalenessBounded
    RegistersAreAsAsked
    TreeIsWhole
    ArticlesAreAsTold
    SuggestsWhatThereIs
    TenantIsWhole
    LinksAreSpent
    LimiterIsHonest
PROPERTIES
    NothingComesBack
CHECK_DEADLOCK FALSE
