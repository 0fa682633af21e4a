SPECIFICATION Spec
CONSTANTS
    t1 = t1
    t2 = t2
    i1 = i1
    i2 = i2
    Tabs = {t1, t2}
    Instances = {i1}
    PassLife = 1
    PendingLife = 2
    RowLife = 2
    RowsPerWallet = 3
    MaxDay = 1
    MaxTickets = 3
    MaxPosts = 3
    MaxFaults = 0
    MaxRestores = 0
SYMMETRY Interchangeable
PROPERTIES
    CredentialKept
CHECK_DEADLOCK FALSE
