------------------------------ MODULE MCKernel ------------------------------
(* Model-checking instances of Kernel. *)
EXTENDS Kernel, TLC

ProcSymmetry == Permutations(Proc)

VerbCommand(verb, envCap, object, role, registered) ==
    [kind |-> "verb", verb |-> verb, envCap |-> envCap, object |-> object,
     role |-> role, registered |-> registered, target |-> "NORMAL"]

PostureCommand(target, role) ==
    [kind |-> "posture", verb |-> "", envCap |-> "", object |-> "", role |-> role,
     registered |-> TRUE, target |-> target]

EvidenceCommand(kind, role) ==
    [kind |-> kind, verb |-> "", envCap |-> "", object |-> "", role |-> role,
     registered |-> TRUE, target |-> "NORMAL"]

(* Verbs that each posture treats differently, from roles that may and may   *)
(* not use them, with posture changes and every kind of evidence.            *)
MCCommand ==
    {VerbCommand("NET", "", "other", "operator", TRUE),
     VerbCommand("EXEC", "", "domain:game", "admin", TRUE),
     PostureCommand("SIEGE", "admin"),
     PostureCommand("GAME", "admin"),
     EvidenceCommand("bundle", "auditor"),
     EvidenceCommand("export", "auditor"),
     EvidenceCommand("verify", "auditor")}
=============================================================================
