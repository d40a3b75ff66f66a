SPECIFICATION MCSpec
CONSTANTS
    Owners = {"m1", "m2"}
    Onboarded = {"m1"}
    Projects = {g1, g2}
    Products = {p1}
    KeyProducts = {k1}
    Links = {l1}
    Skus = {"sku"}
    NoSku = ""
    NoItem = NoItem
    Handlers = {h1, h2}
    LastDay = 2
    MaxCatalogueCalls = 4
    Tables = {"paymentSystem", "paymentMerchant", "moneyBackSystem", "moneyBackMerchant"}
    Clerks = {w1}
    CostIds = {h1, h2}
    Countries = {"AZ"}
    Starts = {0, 5}
    Values = {1, 2}
    NoCost = NoCost
    MaxCostEdits = 3
    MaxCostTroubles = 1
SYMMETRY MCSymmetry
CHECK_DEADLOCK FALSE
INVARIANTS ShopTypesOK SoldByOwner SetTakesEffect
PROPERTY DeletedLinkStaysDeleted
