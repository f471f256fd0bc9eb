SPECIFICATION SysFairSpec
CONSTANTS
    Proc = {p1, p2}
    Body <- EventBody
    Command <- MCMixedCommand
    StartContent = {"GAME"}
    MaxEvents = 4
    MaxFaults = 1
    MaxTime = 1
    Path = {"plain"}
    Denylisted = {}
    StartIDs = {{1}}
INVARIANTS RecordsAreTrue OutcomesRecorded
PROPERTIES InvocationsEnd
CHECK_DEADLOCK FALSE
