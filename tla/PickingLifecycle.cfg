SPECIFICATION FairTaskSpec
CONSTANTS
    t1 = t1
    t2 = t2
    t3 = t3
    r1 = r1
    r2 = r2
    skuA = skuA
    skuB = skuB
    Tasks = {t1, t2}
    Rows = {r1, r2}
    Skus = {skuA}
    SkuOf <- OneSku
    Quantities = {1}
    InitialStock <- Uneven
    OversellBound = 0
INVARIANTS
    ReservationsBalanced
    NeverOversold
    ShipsOnce
PROPERTIES
    KeepsPromises
    ForgottenIsReleased
CHECK_DEADLOCK FALSE
