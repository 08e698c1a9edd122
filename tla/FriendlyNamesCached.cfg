SPECIFICATION Spec
CONSTANTS
    r1 = r1
    r2 = r2
    a1 = a1
    a2 = a2
    n1 = n1
    Requests <- MCRequests
    Accounts <- MCAccounts
    Names <- MCNames
    AccountName = AccountName
    NotListed = NotListed
    NoEntry = NoEntry
INVARIANT CachedListIsUsed
