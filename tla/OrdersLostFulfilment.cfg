SPECIFICATION MCPickingSpec
CONSTANTS
    c1 = c1
    c2 = c2
    t1 = t1
    t2 = t2
    t3 = t3
    skuA = skuA
    skuB = skuB
    Clients = {c1, c2}
    Tasks = {t1, t2, t3}
    Skus = {skuA}
    MaxQuantity = 3
    MaxEdits = 0
    MaxByHand = 0
SYMMETRY OrderSymmetry
PROPERTIES
    ReducesWhatIsLeft
CHECK_DEADLOCK FALSE
