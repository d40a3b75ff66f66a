SPECIFICATION MCSpec
CONSTANTS
    k1 = k1
    k2 = k2
    s1 = s1
    o1 = o1
    o2 = o2
    Keys = {k1, k2}
    Stocks = {s1}
    StockOf <- MCStockOf
    Orders = {o1, o2}
    NoOrder = NoOrder
    Handlers = {p1, p2}
    Subs = {"s1"}
    Customers = {"c1", "c2"}
    Merchants = {"m1", "m2"}
    Nobody = ""
    OwnerOf <- MCOwnerOf
    MerchantOf <- MCMerchantOf
    Cards = {"card1", "card2"}
    CardOwner <- MCCardOwner
    EarlyDelete = FALSE
    MaxCharges = 2
    MaxSubFailures = 1
CHECK_DEADLOCK FALSE
INVARIANTS SubTypeOK ChargedIsListed TotalCountsPaidOrders
PROPERTIES ReservationEnds FailedChargeStops
