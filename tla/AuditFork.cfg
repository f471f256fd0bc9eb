SPECIFICATION ASpec
CONSTANTS
    Proc = {p1, p2}
    Body = {a}
    MaxEvents = 2
INVARIANT SeqIncreasing
