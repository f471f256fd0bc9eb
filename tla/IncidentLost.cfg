SPECIFICATION PSpec
CONSTANT Proc = {p1}
INVARIANT IncidentComesBack
