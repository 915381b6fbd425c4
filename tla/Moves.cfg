SPECIFICATION MCSpec
CONSTANTS
    c1 = c1
    c2 = c2
    t1 = t1
    dock = dock
    aisle = aisle
    Clients = {c1, c2}
    Locations = {dock, aisle}
    Transfers = {t1}
    Ids = {1, 2, 3}
    LineChoices <- OneOrTwoLines
    Amounts = {1}
    Allocations <- EitherSign
    FileChoices <- SomeFiles
    MaxQuantity = 2
    MaxHeld = 2
    MaxRequests = 5
    InitialStock <- StockAtDock
SYMMETRY ClientSymmetry
INVARIANTS
    TypeOK
    MovementsExplainStock
    ReservedIsCovered
CHECK_DEADLOCK FALSE
