SPECIFICATION TickingSpec
CONSTANTS
    r1 = r1
    r2 = r2
    k1 = k1
    v1 = v1
    v2 = v2
    Requests <- MCRequests
    Keys <- MCKeys
    Values <- MCValues
    TTL = 3
    NoKey = NoKey
    NoValue = NoValue
    NoEntry = NoEntry
    Pending = Pending
INVARIANTS TypeOK NoStaleEntry
PROPERTIES ImplementsBoundedStaleness Converges
