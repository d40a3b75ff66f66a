CONSTANTS
    o1 = o1
    o2 = o2
    k1 = k1
    k2 = k2
    g1 = g1
    g2 = g2
    steam = steam
    gog = gog
    Keys = {k1, k2}
    Stocks <- TwoGames
    StockOf <- TwoGamesOf
    Orders = {o1, o2}
    NoOrder = NoOrder
    Workers = {p1}
    Products = {g1, g2}
    Platforms = {steam}
    Basket <- Bundle
    NoDoc = NoDoc
    CompleteIsEnded = TRUE
    CallbackStatuses = {"Complete"}
    ConcurrentCallbacks = FALSE
    Recreation = FALSE
    MaxPayments = 1
    MaxEntries = 2
SPECIFICATION Spec
SYMMETRY Interchangeable
INVARIANTS ListedKeyIsHeld SoldTwiceOnlyIfReleased
