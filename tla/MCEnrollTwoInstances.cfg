SPECIFICATION Spec
CONSTANTS
    t1 = t1
    t2 = t2
    i1 = i1
    i2 = i2
    Tabs = {t1}
    Instances = {i1, i2}
    PassLife = 1
    PendingLife = 2
    RowLife = 2
    RowsPerWallet = 3
    MaxDay = 1
    MaxTickets = 2
    MaxPosts = 2
    MaxFaults = 1
    MaxRestores = 0
SYMMETRY Interchangeable
INVARIANTS
    OneRowPerTicket
CHECK_DEADLOCK FALSE
