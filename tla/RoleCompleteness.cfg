SPECIFICATION Spec
CONSTANTS
    r1 = r1
    r2 = r2
    s1 = s1
    s2 = s2
    s3 = s3
    a1 = a1
    a2 = a2
    c1 = c1
    c2 = c2
    reader = reader
    contributor = contributor
    owner = owner
    Requests <- MCOneRequest
    Subscriptions <- MCSubscriptions
    Malformed <- MCNoMalformed
    Accounts <- MCAccounts
    Grants <- MCGrants
    Assignments <- MCAssignments
    DataRoles <- MCDataRoles
    Existing <- MCExisting
    Whole = Whole
    NoAccount = NoAccount
    NoRow = NoRow
    Idle = Idle
    Pending = Pending
INVARIANT ReturnedListIsComplete
