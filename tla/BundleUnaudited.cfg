SPECIFICATION Spec
CONSTANTS
    Proc = {p1, p2}
    Body <- EventBody
    Command <- MCCommand
    StartContent = {"absent"}
    MaxEvents = 2
    MaxFaults = 1
INVARIANT BundlesAudited
CHECK_DEADLOCK FALSE
