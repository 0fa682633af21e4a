SPECIFICATION Spec
CONSTANTS
    MaxHeight = 2
    MaxForks = 1
    NoReceipt = NoReceipt
CONSTRAINT InTurn
INVARIANTS
    ServedIsSettled
    SettledIsReadable
PROPERTIES
    SettlementKeepsPromise
    WaitEnds
CHECK_DEADLOCK FALSE
