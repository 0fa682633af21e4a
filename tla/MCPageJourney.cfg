SPECIFICATION Spec
CONSTANTS
    w1 = w1
    w2 = w2
    Wallets = {w1, w2}
    NoWallet = NoWallet
    Arbitrator = w2
    MaxJobs = 1
    MaxSwitches = 1
    MaxUnheard = 1
    MaxLate = 1
INVARIANTS
    SentForSender
    ViewsAreOwn
    ListedByClient
PROPERTIES
    TakeEnds
CHECK_DEADLOCK FALSE
