------------------------------- MODULE Policy -------------------------------
(***************************************************************************)
(* The fixed tables of EmilyOS: the postures, their transitions and their  *)
(* capability overrides (internal/posture/machine.go), the roles and their *)
(* capabilities (internal/policy/rbac.go), and the capability a verb needs *)
(* (cmd/emilyos/main.go).                                                  *)
(***************************************************************************)

State == {"NORMAL", "SIEGE", "MERCY", "INCIDENT", "GAME", "EXITED"}

transitions(from) ==
    CASE from = "NORMAL"   -> {"SIEGE", "MERCY", "GAME", "INCIDENT", "EXITED"}
      [] from = "SIEGE"    -> {"NORMAL", "GAME", "EXITED"}
      [] from = "MERCY"    -> {"NORMAL", "SIEGE", "GAME", "EXITED"}
      [] from = "INCIDENT" -> {"NORMAL", "EXITED"}
      [] from = "GAME"     -> {"NORMAL", "EXITED"}
      [] OTHER             -> {}

(* GAME while in GAME is the way back to NORMAL. *)
Target(from, to) == IF from = "GAME" /\ to = "GAME" THEN "NORMAL" ELSE to

Capability ==
    {"session.open", "posture.set", "posture.admin", "exec", "net",
     "domain.start", "domain.stop", "ssh.connect", "ssh.manage_hosts",
     "ssh.manage_keys", "policy.write", "audit.read", "export", "fs.grant",
     "fs.revoke"}

Verdict == {"PassThrough", "ForceOff", "ForceOn", "PinnedOnly", "GameDomainOnly"}

(* Mutant: the row of GAME lacks its entry for the network. *)
CapabilityVerdict_GameOnline(posture, cap) ==
    CASE posture = "SIEGE" /\ cap = "net"                     -> "ForceOff"
      [] posture = "SIEGE" /\ cap = "domain.start"            -> "PinnedOnly"
      [] posture = "MERCY" /\ cap \in {"exec", "domain.start"} -> "PinnedOnly"
      [] posture = "INCIDENT" /\ cap \in {"net", "exec", "domain.start"}
                                                              -> "ForceOff"
      [] posture = "INCIDENT" /\ cap = "export"               -> "ForceOn"
      [] posture = "GAME" /\ cap \in {"domain.start", "exec"} -> "GameDomainOnly"
      [] OTHER                                                -> "PassThrough"

(* How a posture treats a capability; what is not listed passes through. *)
CapabilityVerdict(posture, cap) ==
    CASE posture = "SIEGE" /\ cap = "net"                     -> "ForceOff"
      [] posture = "SIEGE" /\ cap = "domain.start"            -> "PinnedOnly"
      [] posture = "MERCY" /\ cap \in {"exec", "domain.start"} -> "PinnedOnly"
      [] posture = "INCIDENT" /\ cap \in {"net", "exec", "domain.start"}
                                                              -> "ForceOff"
      [] posture = "INCIDENT" /\ cap = "export"               -> "ForceOn"
      [] posture = "GAME" /\ cap = "net"                      -> "ForceOff"
      [] posture = "GAME" /\ cap \in {"domain.start", "exec"} -> "GameDomainOnly"
      [] OTHER                                                -> "PassThrough"

Role == {"operator", "admin", "auditor"}

roleCaps(role) ==
    CASE role = "operator" -> {"session.open", "posture.set", "exec", "net",
                               "domain.start", "domain.stop", "ssh.connect"}
      [] role = "admin"    -> Capability
      [] role = "auditor"  -> {"audit.read", "export"}
      [] OTHER             -> {}

HasCapability(role, cap) == cap \in roleCaps(role)

(* A role that nobody knows counts as the operator's. *)
callerRole(role) == IF role \in Role THEN role ELSE "operator"

(* The verb table of "emilyos verb dispatch", unless EMILY_VERB_CAP names the *)
(* capability; every verb not listed needs the exec capability.               *)
capForVerb(verb, envCap) ==
    IF envCap # "" THEN envCap ELSE
    CASE verb \in {"ENTER", "RESUME", "PAUSE", "EXIT", "WITHDRAW", "GAME"}
                                          -> "session.open"
      [] verb \in {"EXEC", "DOMAIN_EXEC"} -> "exec"
      [] verb \in {"NET", "SSH"}          -> "net"
      [] verb = "INCIDENT"                -> "posture.admin"
      [] verb = "EXPORT"                  -> "export"
      [] verb = "POLICY_CHANGE"           -> "policy.write"
      [] verb = "AUDIT_READ"              -> "audit.read"
      [] verb = "DOMAIN_START"            -> "domain.start"
      [] verb = "DOMAIN_STOP"             -> "domain.stop"
      [] verb = "SSH_MANAGE_HOSTS"        -> "ssh.manage_hosts"
      [] verb = "SSH_MANAGE_KEYS"         -> "ssh.manage_keys"
      [] OTHER                            -> "exec"
=============================================================================
