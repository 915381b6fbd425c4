SPECIFICATION MCSpec
CONSTANTS
    c1 = c1
    c2 = c2
    t1 = t1
    t2 = t2
    r1 = r1
    r2 = r2
    Clients = {c1, c2}
    Tasks = {t1, t2}
    Rows = {r1, r2}
    Plans <- MCPlans
    MaxQuantity = 2
    InitialStock <- MCStock
SYMMETRY RaceSymmetry
INVARIANTS
    RowsAddUp
PROPERTIES
    TasksSerialise
    CommitsWithinStock
CHECK_DEADLOCK FALSE
