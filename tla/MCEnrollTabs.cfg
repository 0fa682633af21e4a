SPECIFICATION Spec
CONSTANTS
    t1 = t1
    t2 = t2
    i1 = i1
    i2 = i2
    Tabs = {t1, t2}
    Instances = {i1}
    PassLife = 1
    PendingLife = 1
    RowLife = 1
    RowsPerWallet = 3
    MaxDay = 2
    MaxTickets = 3
    MaxPosts = 2
    MaxFaults = 1
    MaxRestores = 1
SYMMETRY Interchangeable
INVARIANTS
    HolderKept
    SubmittedIsQueued
CHECK_DEADLOCK FALSE
