SPECIFICATION Spec
CONSTANTS
    alice = alice
    bob = bob
    Identities = {alice, bob}
    Nobody = Nobody
    u1 = u1
    u2 = u2
    Uploads = {u1, u2}
    MaxRetries = 2
    MaxRevision = 2
    MaxSwitches = 3
    MaxPosts = 2
    r1 = r1
    r2 = r2
    r3 = r3
    d1 = d1
    d2 = d2
    d3 = d3
    Requests = {r1, r2, r3}
    Owners = {1}
    Contents = {d1, d2, d3}
    TermsQuota = 2
    ReportQuota = 2
    MaxServed = 5
    MaxRestarts = 1
    w1 = w1
    w2 = w2
    Posts = {1, 2}
    MaxJobs = 2
    MaxActions = 6
    NoProof = NoProof
    NoDocument = NoDocument
    Runs = {w1, w2}
    NoRun = NoRun
    NoFile = NoFile
    Torn = Torn
    s1 = s1
    s2 = s2
    References = {s1, s2}
    NoReference = NoReference
    MaxSetups = 2
    MaxSnapshots = 2
    MaxStarts = 6
    o1 = o1
    o2 = o2
    Operators = {o1, o2}
    NoOperator = NoOperator
    MaxIndex = 5
    MaxBreaks = 3
CONSTRAINTS StillOpen ProverWaitedFor
INVARIANTS
    NoResultAcrossAccounts
    QuotasHold
    LockedWhileUploading
    AnswersAreOwn
    DeployedOnce
    ManifestIsDeployed
    IndexesSpent
PROPERTIES
    ReferenceIsKept
    PaidOnce
CHECK_DEADLOCK FALSE
