SPECIFICATION Spec
CONSTANTS
    Proc = {p1, p2}
    Body <- EventBody
    Command <- MCCommand
    StartContent = {"GAME"}
    MaxEvents = 4
    MaxFaults = 2
SYMMETRY ProcSymmetry
INVARIANTS TypeOK AuditedBeforeRun RecordsAreTrue HistoryTellsPosture ChainIntact EvidenceConsistent
PROPERTIES SerialRunsObeyPosture FragmentStops
CHECK_DEADLOCK FALSE
