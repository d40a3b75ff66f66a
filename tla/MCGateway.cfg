SPECIFICATION GatewaySpec
CONSTANTS
    Callers = {h1, h2}
    Terminals = {t1, t2}
    NoToken = nil
    Lifetimes <- MCLifetimes
    MaxTime = 2
    MaxTroubles = 1
CHECK_DEADLOCK FALSE
INVARIANTS GatewayTypeOK RequestHasItsToken PanicNeedsExpiry
PROPERTIES RequestsEnd
