SPECIFICATION PSpec
CONSTANT Proc = {p1, p2}
INVARIANTS PTypeOK NoPostureLost LastWriterWins SameVerdicts
PROPERTY ImplementsPort
