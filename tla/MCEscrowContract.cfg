SPECIFICATION Spec

CONSTANTS
    e1 = e1
    e2 = e2
    s1 = s1
    owner = owner
    Account <- MCAccount
    Employer = {e1, e2}
    Seeker = {e2, s1}
    Agent = {e2}
    Owner = owner
    Amount = {0, 7}
    Cost = {0, 2, 5}
    DefaultCost = 2
    MaxRecords = 2
    U128Max = 880
    InitialWallet <- MCInitialWallet
    InitialNative = 1
    MaxReceipts = 6

INVARIANTS
    TypeOK
    Solvent
    LedgerBalanced
    EarningsMatchHistory
    AccessHistoryIsRecent
    NoOverflowAbort

PROPERTIES
    SpendAuthorised

CHECK_DEADLOCK FALSE
