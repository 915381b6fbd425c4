SPECIFICATION MCSpec
CONSTANTS
    c1 = c1
    c2 = c2
    t1 = t1
    t2 = t2
    skuA = skuA
    skuB = skuB
    Clients = {c1, c2}
    Tasks = {t1, t2}
    Skus = {skuA, skuB}
    Tracked = {skuA}
    MaxQuantity = 2
    Quantities <- TwoLines
    Sent <- FromClients
    Requests <- Receipts
    Absent = Absent
    EditStatuses = {"in_progress", "cancelled"}
    MaxEdits = 1
    MaxInbound = 2
SYMMETRY ReceivingSymmetry
INVARIANTS
    TypeOK
    WithinOrdered
    OrderFollowsReceipts
    StockIsWhatLinesSay
PROPERTIES
    AccountedNeverShrinks
CHECK_DEADLOCK FALSE
