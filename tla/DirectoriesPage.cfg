SPECIFICATION Spec
CONSTANTS
    a1 = a1
    a2 = a2
    f1 = f1
    f2 = f2
    n1 = n1
    Accounts <- MCAccounts
    FileSystems <- MCFileSystems
    Listed <- MCListed
    Names <- MCNames
    Texts <- MCTexts
    None = None
    MaxCalls = 2
    MaxCreates = 1
INVARIANTS TypeOK TableIsSelected TableIsExact SubmittedIsMeant UserListFaithful
CHECK_DEADLOCK FALSE
