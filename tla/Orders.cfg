SPECIFICATION MCSpec
CONSTANTS
    c1 = c1
    c2 = c2
    t1 = t1
    t2 = t2
    t3 = t3
    skuA = skuA
    skuB = skuB
    Clients = {c1, c2}
    Tasks = {t1, t2, t3}
    Skus = {skuA, skuB}
    MaxQuantity = 2
    MaxEdits = 1
    MaxByHand = 1
SYMMETRY MCSymmetry
INVARIANTS
    TypeOK
    NothingCountsTwice
    SerialOrdersAddUp
CHECK_DEADLOCK FALSE
