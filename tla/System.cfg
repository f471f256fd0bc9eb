SPECIFICATION SysSpec
CONSTANTS
    Proc = {p1, p2}
    Body <- EventBody
    Command <- MCPolicyCommand
    StartContent = {"absent"}
    MaxEvents = 4
    MaxFaults = 1
    MaxTime = 2
    Path = {"plain", "secret"}
    Denylisted = {"secret"}
    StartIDs <- MCStartIDs
SYMMETRY ProcSymmetry
INVARIANTS SysTypeOK AclChangesAudited DeclarationsBacked RollbackStands LogTellsEntries
CHECK_DEADLOCK FALSE
