SPECIFICATION FairSpec
CONSTANTS
    t1 = t1
    t2 = t2
    i1 = i1
    i2 = i2
    Tabs = {t1}
    Instances = {i1}
    PassLife = 1
    PendingLife = 2
    RowLife = 2
    RowsPerWallet = 3
    MaxDay = 3
    MaxTickets = 5
    MaxPosts = 6
    MaxFaults = 2
    MaxRestores = 0
INVARIANTS
    ConfirmedOnce
PROPERTIES
    CredentialKept
    SetupCompletes
CHECK_DEADLOCK FALSE
