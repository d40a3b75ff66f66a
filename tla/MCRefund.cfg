SPECIFICATION Spec
CONSTANTS
    Workers = {p1}
    Refunds = {r1, r2}
    RefundOrders = {o1, o2}
    Order = order
    None = none
    FactsOfOrder <- MCFacts
    Rebuilds = {"order"}
    MaxFailures = 1
    MaxRepairs = 1
CHECK_DEADLOCK FALSE
INVARIANTS
    TypeOK PaidBackOnce RefundBookedOnce BooksFollowGateway NoGainFromRefund ViewsFollowBooks
PROPERTIES PaidBackIsBooked
