SPECIFICATION Spec
CONSTANTS
    c1 = c1
    c2 = c2
    user = user
    group = group
    service = service
    whole = whole
    Containers <- MCContainers
    Grants <- MCGrants
    DataRoles <- MCDataRoles
    ShownTypes <- MCShownTypes
    Whole = whole
    NoList = NoList
    NoRow = NoRow
    Idle = Idle
    Pending = Pending
INVARIANT AnswerIsComplete
