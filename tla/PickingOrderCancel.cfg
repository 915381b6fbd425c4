SPECIFICATION CancelSpec
CONSTANTS
    t1 = t1
    t2 = t2
    t3 = t3
    r1 = r1
    r2 = r2
    skuA = skuA
    skuB = skuB
    Tasks = {t1, t2}
    Rows = {r1}
    Skus = {skuA}
    SkuOf <- OneSku
    Quantities = {1}
    InitialStock <- Stock1
    OversellBound = 0
PROPERTIES
    CancelReleases
CHECK_DEADLOCK FALSE
