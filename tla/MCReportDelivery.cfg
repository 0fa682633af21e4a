SPECIFICATION Spec
CONSTANTS
    client = client
    worker = worker
    p1 = p1
    t1 = t1
    t2 = t2
    Accounts = {client, worker}
    Client = client
    Worker = worker
    Profiles = {p1}
    Tabs = {t1, t2}
    ProfileOf <- MCProfileOf
    WalletsOf <- MCWalletsOf
    MaxHistory = 2
    Life = 1
    MaxKeys = 3
    MaxSent = 2
    MaxTime = 2
    Nobody = Nobody
    NoReport = NoReport
SYMMETRY Interchangeable
CONSTRAINTS
    Prompt
    Aging
INVARIANTS
    RegisteredIsKept
    DeliveredIsReadable
    RecipientsAreCurrent
CHECK_DEADLOCK FALSE
