SPECIFICATION MCSpec
CONSTANTS
    alice = alice
    wanda = wanda
    ops = ops
    h1 = h1
    h2 = h2
    doc = doc
    Accounts = {alice, wanda, ops}
    EscrowAddress = EscrowAddress
    ZeroAddress = ZeroAddress
    Issuer = ops
    Arbitrator = ops
    Funds <- MCFunds
    Amounts = {0, 1, 2}
    Gifts = {1}
    Fees = {0, 1}
    Shares = {0, 1, 2, 3}
    Classes = {7}
    Indexes = {0, 1}
    Holders = {h1, h2}
    Credentials <- MCCredentials
    IssuerKey = IssuerKey
    Wallets <- MCWallets
    Windows <- MCWindows
    Documents = {doc}
    NoDocument = NoDocument
    MaxJobs = 2
    MaxEpoch = 3
    MaxTime = 5
INVARIANTS
    Solvency
    DeliveredIsNeverRefunded
    OfferedExactlyWhenAllowed
PROPERTIES
    QualifiedAdmission
    KeepsPromise
    EventuallySettled
CHECK_DEADLOCK FALSE
