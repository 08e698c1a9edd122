SPECIFICATION FrontEndFairSpec
CONSTANTS
    a1 = a1
    a2 = a2
    Accounts <- MCAccounts
    NoAccount = NoAccount
    NoTable = NoTable
    NoRow = NoRow
    MaxRequests = 2
    Members <- MCMembers
    Delay = 1
    MaxTimers = 2
    MissingSettings <- MCMissing
INVARIANTS FrontEndTypeOK InOrderTableIsSelected SpinnerlessTableExplained ToastAgrees DetailsOfTable MarkTellsTruth MarkStays MissingAreNamed AskingEnds
PROPERTIES SpinnerEnds MarkEnds UserSeesContainers
