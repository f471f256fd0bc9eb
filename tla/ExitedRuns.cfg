SPECIFICATION Spec
CONSTANTS
    Proc = {p1, p2}
    Body <- EventBody
    Command <- MCCommand
    StartContent = {"absent", "EXITED"}
    MaxEvents = 4
    MaxFaults = 0
PROPERTY ExitedRunsNothing
CHECK_DEADLOCK FALSE
