------------------------------ MODULE MCSystem ------------------------------
(* Model-checking instance of System. *)
EXTENDS System, TLC

ProcSymmetry == Permutations(Proc)

PolicyCommand(kind, v, x, role, snapshot) ==
    [kind |-> kind, verb |-> v, path |-> x, role |-> role,
     snapshot |-> snapshot, envCap |-> "", object |-> "", registered |-> TRUE,
     target |-> "NORMAL"]

(* Commands on the same path that undo each other, one on a denylisted path,  *)
(* one that RBAC denies, and the commands that read and write the snapshots.  *)
MCPolicyCommand ==
    {PolicyCommand("fs", "GRANT_FS", "plain", "admin", 0),
     PolicyCommand("fs", "REVOKE_FS", "plain", "admin", 0),
     PolicyCommand("fs", "GRANT_FS", "secret", "admin", 0),
     PolicyCommand("fs", "GRANT_FS", "plain", "operator", 0),
     PolicyCommand("capture", "", "none", "operator", 0),
     PolicyCommand("rollback", "", "none", "admin", 1)}

OtherCommand(kind, v, role, registered, to) ==
    [kind |-> kind, verb |-> v, path |-> "none", role |-> role, snapshot |-> 0,
     envCap |-> "", object |-> "other", registered |-> registered,
     target |-> to]

(* Commands of every kind that leaves the log, the posture file or the store  *)
(* in a state that a later one may not be able to read, and refused ones.     *)
MCMixedCommand ==
    {PolicyCommand("fs", "GRANT_FS", "plain", "admin", 0),
     PolicyCommand("capture", "", "none", "operator", 0),
     PolicyCommand("rollback", "", "none", "guest", 1),
     OtherCommand("verb", "DOMAIN_START", "operator", TRUE, "NORMAL"),
     OtherCommand("verb", "UNKNOWN", "operator", FALSE, "NORMAL"),
     OtherCommand("bundle", "", "operator", TRUE, "NORMAL"),
     OtherCommand("export", "", "auditor", TRUE, "NORMAL"),
     OtherCommand("posture", "", "admin", TRUE, "NORMAL"),
     OtherCommand("posture", "", "operator", TRUE, "NORMAL")}

MCStartIDs == {{}, {1}}
=============================================================================
