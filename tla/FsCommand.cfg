SPECIFICATION Spec
CONSTANTS
    Proc = {p1, p2}
    What <- MCWhat
    MaxTime = 3
    Path = {"plain", "secret"}
    Denylisted = {"secret"}
    MaxCommands = 3
SYMMETRY ProcSymmetry
INVARIANTS TypeOK SnapshotChain SuccessIsComplete DeclaredStateIsActual
PROPERTY OrderedSnapshotsImmutable
CHECK_DEADLOCK FALSE
