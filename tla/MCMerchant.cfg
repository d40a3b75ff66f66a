CONSTANTS
    r1 = r1
    r2 = r2
    r3 = r3
    t1 = t1
    t2 = t2
    Workers = {p1}
    Reports = {r1, r2, r3}
    Payouts = {x1, x2}
    Periods = {t1, t2}
    PeriodOf <- WithSpare
    Royalty = 2
    B2BVatAmount = 1
    MinimalPayout = 1
    MinPayoutAmounts = {0, 2}
    NoDoc = NoDoc
    NoPayout = NoPayout
    NoBalance = NoBalance
    Failures = FALSE
    CorrectionAmounts <- UpOrDown
    MaxCorrections = 1
    ReserveAmounts <- UpOrDown
    MaxReserve = 1
    MaxRequests = 8
    Editors = {q1, q2}
    Tariffs = {"eu", "us"}
    DefaultTariff = "eu"
    NoMerchant = NoMerchant
    StatusChanges <- MCStatusChanges
    MaxMerchantTroubles = 1
SPECIFICATION MCSpec
SYMMETRY MCSymmetry
CHECK_DEADLOCK FALSE
INVARIANTS AccountTypesOK BalanceIsCovered PaidOutOnce OneReportPerPeriod SignedByBoth
PROPERTIES ImplementsAccount NothingIsForgotten
