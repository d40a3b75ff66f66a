CONSTANTS
    o1 = o1
    o2 = o2
    k1 = k1
    k2 = k2
    g1 = g1
    g2 = g2
    steam = steam
    gog = gog
    Keys = {k1}
    Stocks <- OneStock
    StockOf <- OneStockOf
    Orders = {o1}
    NoOrder = NoOrder
    Workers = {p1, p2}
    Products = {g1}
    Platforms = {steam}
    Basket <- OneGame
    NoDoc = NoDoc
    CompleteIsEnded = FALSE
    CallbackStatuses = {"Complete", "Declined", "Canceled", "Refund"}
    ConcurrentCallbacks = FALSE
    Recreation = FALSE
    MaxPayments = 1
    MaxEntries = 2
SPECIFICATION Spec
SYMMETRY Symmetric
INVARIANTS TypeOK PaidFirst AccountedOnce
