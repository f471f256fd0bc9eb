SPECIFICATION Spec
CONSTANTS
    Proc = {p1, p2}
    Body <- EventBody
    Command <- MCCommand
    StartContent = {"absent"}
    MaxEvents = 4
    MaxFaults = 0
INVARIANT PostureChangesAudited
CHECK_DEADLOCK FALSE
