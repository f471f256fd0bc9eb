----------------------------- MODULE PosturePort -----------------------------
(***************************************************************************)
(* The Ada port of the posture machine (ada/posture): one protected object *)
(* in memory, with the transitions as a full table.  It is the abstract    *)
(* specification that the persistent machine of internal/posture is held   *)
(* against.                                                                *)
(***************************************************************************)
CONSTANT Posture_State
VARIABLE Current_State

Init == Current_State = "NORMAL"

(* The True cells of the table. *)
Allowed ==
    ({"NORMAL"} \X {"SIEGE", "MERCY", "GAME", "INCIDENT", "EXITED"})
    \cup ({"SIEGE"} \X {"NORMAL", "GAME", "EXITED"})
    \cup ({"MERCY"} \X {"NORMAL", "SIEGE", "GAME", "EXITED"})
    \cup ({"INCIDENT", "GAME"} \X {"NORMAL", "EXITED"})

Set(State_To) ==
    LET Game == Current_State = "GAME" /\ State_To = "GAME"
        TargetState == IF Game THEN "NORMAL" ELSE State_To
    IN  /\ Current_State # "EXITED"
        /\ <<Current_State, TargetState>> \in Allowed
        /\ Current_State' = TargetState

(* The capabilities of posture.ads, by the names of rbac.go. *)
Capability ==
    {"posture.set", "posture.admin", "session.open", "net", "exec",
     "domain.start", "domain.stop", "ssh.connect", "ssh.manage_hosts",
     "ssh.manage_keys", "policy.write", "audit.read", "export"}

(* The cells of the verdict table that are not Pass_Through. *)
Overrides ==
    ({"SIEGE", "INCIDENT", "GAME"} \X {"net"} \X {"ForceOff"})
    \cup {<<"INCIDENT", "exec", "ForceOff">>,
          <<"INCIDENT", "domain.start", "ForceOff">>,
          <<"INCIDENT", "export", "ForceOn">>,
          <<"SIEGE", "domain.start", "PinnedOnly">>}
    \cup ({"MERCY"} \X {"exec", "domain.start"} \X {"PinnedOnly"})
    \cup ({"GAME"} \X {"exec", "domain.start"} \X {"GameDomainOnly"})

(* Verdict(Cap) = v. *)
Verdict(Cap, v) ==
    \/ <<Current_State, Cap, v>> \in Overrides
    \/ /\ v = "PassThrough"
       /\ \A w \in {"ForceOff", "ForceOn", "PinnedOnly", "GameDomainOnly"} :
              <<Current_State, Cap, w>> \notin Overrides

Next == \E State_To \in Posture_State : Set(State_To)

Spec == Init /\ [][Next]_Current_State
=============================================================================
