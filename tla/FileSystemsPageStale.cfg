SPECIFICATION Spec
CONSTANTS
    a1 = a1
    a2 = a2
    a3 = a3
    Accounts <- MCAccounts
    NoAccount = NoAccount
    NoTable = NoTable
    NoRow = NoRow
    MaxRequests = 3
INVARIANT SettledTableIsSelected
CHECK_DEADLOCK FALSE
