SPECIFICATION Spec
CONSTANTS
    Proc = {p1}
    What <- MCWhat
    MaxTime = 2
    Path = {"plain"}
    Denylisted = {}
    MaxCommands = 3
PROPERTY SnapshotsImmutable
CHECK_DEADLOCK FALSE
