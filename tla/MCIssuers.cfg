SPECIFICATION MCSpec
CONSTANTS
    t1 = t1
    t2 = t2
    t3 = t3
    d1 = d1
    d2 = d2
    c1 = c1
    c3 = c3
    c4 = c4
    c5 = c5
    Tickets = {t1, t2, t3}
    Digests = {d1, d2}
    Calls = {c1, c3, c4, c5}
    TicketOf <- MCTicketOf
    DigestOf <- MCDigestOf
    MaxAttempts = 2
    Capacity = 2
    NoEntry = NoEntry
    NoAnswer = NoAnswer
    i1 = i1
    i2 = i2
    a1 = a1
    a2 = a2
    r1 = r1
    r2 = r2
    Commands = {i1, i2, a1, a2, r1, r2}
    Op <- MCOp
    Holder <- MCHolder
    Target <- MCTarget
    TreeSize = 2
    Absent = Absent
    NoRecord = NoRecord
    Nobody = Nobody
INVARIANTS
    IndexesPartitioned
    BusyMeansServed
    NoIndexSignedTwice
    RevocationSticks
PROPERTIES
    KeepsPromise
CHECK_DEADLOCK FALSE
