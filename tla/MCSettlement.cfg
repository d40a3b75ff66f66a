CONSTANTS
    r1 = r1
    r2 = r2
    r3 = r3
    t1 = t1
    t2 = t2
    Workers = {p1, p2}
    Reports = {r1}
    Payouts = {x1, x2}
    Periods = {t1}
    PeriodOf <- OnePeriod
    Royalty = 1
    B2BVatAmount = 0
    MinimalPayout = 0
    MinPayoutAmounts = {0, 2}
    NoDoc = NoDoc
    NoPayout = NoPayout
    NoBalance = NoBalance
    Failures = TRUE
    CorrectionAmounts = {1}
    MaxCorrections = 0
    ReserveAmounts = {1}
    MaxReserve = 0
    MaxRequests = 5
SPECIFICATION Spec
SYMMETRY Symmetric
INVARIANTS BoundToItsPayout PaidAfterItsPayout
CHECK_DEADLOCK FALSE
