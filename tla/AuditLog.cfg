SPECIFICATION ASpec
CONSTANTS
    Proc = {p1, p2}
    Body = {a, b}
    MaxEvents = 3
INVARIANTS ATypeOK LogIsTree SerialChainIntact AckedDurable
PROPERTY ImplementsLedger
