SPECIFICATION MCSpec
CONSTANTS
    a1 = a1
    a2 = a2
    Keys = {a1, a2}
    Filters = {1, 2}
    Leases = {1, 2}
    Deletable = {a1}
    Concurrency = 1
    Backlog = 1
    MaxRounds = 2
    MaxRetries = 1
    MaxHead = 4
    MaxStarts = 1
    MaxFaults = 1
    JobOf <- OneJob
    RewardOf <- Rewards
INVARIANTS
    DeletionsShown
CHECK_DEADLOCK FALSE
