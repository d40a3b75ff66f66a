CONSTANTS
    o1 = o1
    o2 = o2
    k1 = k1
    k2 = k2
    g1 = g1
    g2 = g2
    steam = steam
    gog = gog
    Keys = {k1}
    Stocks <- OneStock
    StockOf <- OneStockOf
    Orders = {o1, o2}
    NoOrder = NoOrder
    Workers = {p1}
    Products = {g1}
    Platforms = {steam}
    Basket <- OneGame
    NoDoc = NoDoc
    CompleteIsEnded = FALSE
    CallbackStatuses = {"Complete", "Declined", "Canceled", "Refund"}
    ConcurrentCallbacks = FALSE
    Recreation = TRUE
    MaxPayments = 1
    MaxEntries = 2
SPECIFICATION Spec
SYMMETRY Interchangeable
PROPERTY ImplementsLease
