------------------------------- MODULE Kernel -------------------------------
(***************************************************************************)
(* The emilyos command: invocations that share one audit log and one       *)
(* posture file.  Each process of Proc is one invocation and runs one      *)
(* command of cmd/emilyos/main.go:                                         *)
(*   "verb"     verb dispatch         (runVerb, through verb.Dispatch)     *)
(*   "bundle"   audit bundle          (runAuditBundle, through Dispatch)   *)
(*   "export"   audit export          (runAuditExport)                     *)
(*   "verify"   audit verify          (runAudit)                           *)
(*   "posture"  posture set           (runPosture)                         *)
(* The commands over the snapshot store ("fs", "rollback", "capture") take *)
(* the same way through Dispatch; what else they do is in System.          *)
(* The log and the posture machine are the components AuditLog and         *)
(* PostureMachine; this module adds the order in which a command calls     *)
(* them and what it does with their errors.                                *)
(***************************************************************************)
EXTENDS AuditLog, PostureMachine

CONSTANTS Command,      \* the commands the processes may be given
          StartContent, \* what posture.json may hold at first
          MaxFaults     \* bound: failures of the operating system

(* The hashed fields of an event, as far as they are told apart: the session, *)
(* the decision and its reason, and the result.                               *)
EventBody == [by : Proc, decision : {"allow", "deny"},
              reason : {"", "verb.unknown", "rbac", "posture", "transition"},
              result : {"pending", "success", "error", "failure"}]

ASSUME KernelAssumption ==
    /\ EventBody \subseteq Body
    /\ StartContent \subseteq Content
    /\ MaxFaults \in Nat

VARIABLES
    cmd,       \* per process: its command
    pc,        \* per process: where it is
    bundle,    \* per process: the evidence it has collected: the manifest's
               \* event_count and chain_ok; the whole events of the copy,
               \* and whether it also holds a fragment; whether the error of
               \* a read was ignored; whether all of this is out
    ran,       \* history: processes whose handler was executed
    changed,   \* history: processes whose posture change reached the file
    overlapped,\* history: two invocations were alive at the same time
    faults     \* how many failures there have been

vars == <<avars, pvars, cmd, pc, bundle, ran, changed, overlapped,
          faults>>

Goto(p, l) == pc' = [pc EXCEPT ![p] = l]
Keep == UNCHANGED <<cmd, bundle, ran, changed>>

(* A step that is a failure of the operating system, not of the program. *)
Fault == faults < MaxFaults /\ faults' = faults + 1
NoFault == UNCHANGED faults

(* Places of pc at which the process is inside, or about to enter, Log. *)
LogPoint == {"deny", "pending", "outcome.ok", "outcome.error", "set.denied",
             "set.allowed"}
Ended == {"done", "denied", "died", "crashed"}

Dispatches(c) == c.kind \in {"verb", "bundle", "fs", "rollback"}

(* The capability the command's verb is registered with. *)
capability(c) ==
    CASE c.kind = "bundle"   -> "export"
      [] c.kind = "rollback" -> "policy.write"
      [] c.kind = "fs"       -> IF c.verb = "GRANT_FS" THEN "fs.grant" ELSE "fs.revoke"
      [] OTHER               -> capForVerb(c.verb, c.envCap)

-----------------------------------------------------------------------------
(* Dispatch, steps 1 and 2: the reason for which a command is denied. *)
Reason(c, state) ==
    LET verdict == CapabilityVerdict(state, capability(c))
        capable == HasCapability(callerRole(c.role), capability(c))
    IN  CASE ~c.registered -> "verb.unknown"
          [] c.registered /\ ~capable -> "rbac"
          [] /\ c.registered /\ capable
             /\ \/ verdict \in {"ForceOff", "PinnedOnly"}
                \/ verdict = "GameDomainOnly" /\ c.object # "domain:game"
             -> "posture"
          [] OTHER -> ""

(* The event the process logs at its LogPoint. *)
Record(p) ==
    LET event(d, rc, res) ==
            [by |-> p, decision |-> d, reason |-> rc, result |-> res]
    IN  CASE pc[p] = "deny" ->
                 event("deny", Reason(cmd[p], current[p]), "failure")
          [] pc[p] = "pending"       -> event("allow", "", "pending")
          [] pc[p] = "outcome.ok"    -> event("allow", "", "success")
          [] pc[p] = "outcome.error" -> event("allow", "", "error")
          [] pc[p] = "set.denied"    -> event("deny", "transition", "failure")
          [] pc[p] = "set.allowed"   -> event("allow", "", "success")

(* Mutant: runFs does not look at the error of Dispatch. *)
AfterDispatch_AnyOutcome(p, l) ==
    CASE cmd[p].kind = "bundle" -> "close"
      [] cmd[p].kind = "fs"     -> "snap"
      [] OTHER                  -> l

(* Where a command goes on after Dispatch that did not deny. *)
AfterDispatch(p, l) ==
    CASE cmd[p].kind = "bundle"            -> "close"
      [] cmd[p].kind = "fs" /\ l = "done" -> "snap"
      [] OTHER                             -> l

(* Mutant: Dispatch does not look at the error of the pending event either. *)
AfterLog_Ignores(p, ok) ==
    CASE pc[p] \in {"deny", "set.denied"} -> "denied"
      [] pc[p] = "pending"                -> "execute"
      [] pc[p] = "outcome.ok"             -> AfterDispatch(p, "done")
      [] pc[p] = "outcome.error"          -> AfterDispatch(p, "died")
      [] pc[p] = "set.allowed"            -> "done"

(* Where Log returns to.  Only the pending event's error is looked at, by    *)
(* Dispatch; runAuditBundle then goes on, as the error is not an ErrDenied.  *)
AfterLog(p, ok) ==
    CASE pc[p] \in {"deny", "set.denied"}            -> "denied"
      [] pc[p] = "pending" /\ ok                     -> "execute"
      [] pc[p] = "pending" /\ ~ok                    -> AfterDispatch(p, "died")
      [] pc[p] = "outcome.ok"                        -> AfterDispatch(p, "done")
      [] pc[p] = "outcome.error"                     -> AfterDispatch(p, "died")
      [] pc[p] = "set.allowed"                       -> "done"

-----------------------------------------------------------------------------

Alive(p) == \/ pc[p] \notin Ended \cup {"start"}
            \/ status[p] # "closed" \/ phase[p] # "down"

(* Every first step of a process notes whether it finds another one alive. *)
NoteStart(p) ==
    overlapped' = \/ overlapped
                  \/ pc[p] = "start" /\ \E q \in Proc \ {p} : Alive(q)

NoBundle == [count |-> 0, chainOK |-> FALSE, copy |-> <<>>, torn |-> FALSE,
             blind |-> FALSE, written |-> FALSE]

(* posture.json may hold what earlier invocations left. *)
Init ==
    /\ AInit
    /\ pfile \in StartContent
    /\ pdisk = pfile
    /\ phase = [p \in Proc |-> "down"]
    /\ current = [p \in Proc |-> "NORMAL"]
    /\ old = [p \in Proc |-> "NORMAL"]
    /\ perr = [p \in Proc |-> FALSE]
    /\ posture = Loaded(pfile)
    /\ pmishaps = {}
    /\ cmd \in [Proc -> Command]
    /\ pc = [p \in Proc |-> "start"]
    /\ bundle = [p \in Proc |-> NoBundle]
    /\ ran = {}
    /\ changed = {}
    /\ overlapped = FALSE
    /\ faults = 0

(* Where a command opens the log: first of all, or once the snapshot of a    *)
(* rollback is verified, or once posture set has loaded the posture and      *)
(* checked the role.                                                         *)
OpensAt(c) == CASE c.kind = "rollback" -> "verified"
                [] c.kind = "posture"  -> "loaded"
                [] OTHER               -> "start"

(* audit.Open. *)
OpenLog(p) ==
    /\ Dispatches(cmd[p]) \/ cmd[p].kind = "posture"
    /\ pc[p] = OpensAt(cmd[p])
    /\ \/ Open(p) /\ Goto(p, "opened") /\ NoFault
       \/ OpenFails(p) /\ Goto(p, "died") /\ IF torn THEN NoFault ELSE Fault
    /\ NoteStart(p)
    /\ UNCHANGED pvars /\ Keep

(* Mutant: a command that is refused ends without a Deny. *)
LoadPosture_SilentDenial(p) ==
    /\ \/ Dispatches(cmd[p]) /\ pc[p] = "opened"
       \/ cmd[p].kind = "posture" /\ pc[p] = "start"
    /\ \/ /\ New(p) /\ NoFault
          /\ Goto(p, CASE cmd[p].kind = "posture" ->
                             IF callerRole(cmd[p].role) = "admin"
                             THEN "loaded" ELSE "denied"
                       [] OTHER ->
                             IF Reason(cmd[p], current'[p]) = ""
                             THEN "pending" ELSE "denied")
       \/ /\ NewFails(p) /\ Goto(p, "died")
          /\ IF pfile \in Broken THEN NoFault ELSE Fault
    /\ NoteStart(p)
    /\ UNCHANGED avars /\ Keep

(* posture.New, and in a dispatching command the decision of Dispatch, which *)
(* depends on nothing that is read later.                                    *)
LoadPosture(p) ==
    /\ \/ Dispatches(cmd[p]) /\ pc[p] = "opened"
       \/ cmd[p].kind = "posture" /\ pc[p] = "start"
    /\ \/ /\ New(p) /\ NoFault
          /\ Goto(p, CASE cmd[p].kind = "posture" ->
                             IF callerRole(cmd[p].role) = "admin"
                             THEN "loaded" ELSE "denied"
                       [] OTHER ->
                             IF Reason(cmd[p], current'[p]) = ""
                             THEN "pending" ELSE "deny")
       \/ /\ NewFails(p) /\ Goto(p, "died")
          /\ IF pfile \in Broken THEN NoFault ELSE Fault
    /\ NoteStart(p)
    /\ UNCHANGED avars /\ Keep

(* The write of a Log call, and the three ways in which it returns. *)
LogWrites(p) ==
    /\ pc[p] \in LogPoint
    /\ Write(p, Record(p))
    /\ UNCHANGED <<pvars, pc, overlapped>> /\ Keep /\ NoFault

LogReturns(p) ==
    /\ pc[p] \in LogPoint
    /\ \/ Sync(p) /\ Goto(p, AfterLog(p, TRUE)) /\ NoFault
       \/ SyncFails(p) /\ Goto(p, AfterLog(p, FALSE)) /\ Fault
       \/ WriteFails(p, Record(p)) /\ Goto(p, AfterLog(p, FALSE)) /\ Fault
    /\ UNCHANGED <<pvars, overlapped>> /\ Keep

(* Dispatch, step 4: the handler, which may return an error; those of         *)
(* EXPORT_EVIDENCE and POLICY_ROLLBACK do nothing and return nil.             *)
Execute(p) ==
    /\ pc[p] = "execute" /\ cmd[p].kind # "fs"
    /\ ran' = ran \cup {p}
    /\ \/ Goto(p, "outcome.ok")
       \/ cmd[p].kind = "verb" /\ Goto(p, "outcome.error")
    /\ UNCHANGED <<avars, pvars, cmd, bundle, changed, overlapped, faults>>

(* posture set: Transition and its outcomes. *)
SetPosture(p) ==
    /\ pc[p] = "opened" /\ cmd[p].kind = "posture"
    /\ \/ Transition(p, cmd[p].target) /\ Goto(p, "setting") /\ NoFault
       \/ /\ TransitionFails(p) /\ Goto(p, "set.denied")
          /\ IF Permitted(current[p], cmd[p].target) THEN Fault ELSE NoFault
    /\ UNCHANGED <<avars, overlapped>> /\ Keep

(* Mutant: runPosture does not look at the error of Transition. *)
PersistPosture_IgnoresError(p) ==
    /\ pc[p] = "setting"
    /\ \/ /\ Persist(p) /\ Goto(p, "set.allowed") /\ NoFault
          /\ changed' = changed \cup {p}
       \/ PersistFails(p) /\ Goto(p, "set.allowed") /\ Fault /\ UNCHANGED changed
    /\ UNCHANGED <<avars, cmd, bundle, ran, overlapped>>

(* The end of Transition: persist, or its failure, which may leave the file  *)
(* changed.                                                                  *)
PersistPosture(p) ==
    /\ pc[p] = "setting"
    /\ \/ /\ Persist(p) /\ Goto(p, "set.allowed") /\ NoFault
          /\ changed' = changed \cup {p}
       \/ PersistFails(p) /\ Goto(p, "set.denied") /\ Fault /\ UNCHANGED changed
       \/ /\ CloseFails(p) /\ Goto(p, "set.denied") /\ Fault
          /\ changed' = changed \cup {p}
    /\ UNCHANGED <<avars, cmd, bundle, ran, overlapped>>

(* runAuditBundle closes the log after Dispatch. *)
CloseLog(p) ==
    /\ pc[p] = "close"
    /\ Close(p)
    /\ Goto(p, "read")
    /\ UNCHANGED <<pvars, overlapped>> /\ Keep /\ NoFault

(* The events that ReadFile returns; with an error it returns none. *)
EventsRead == IF Readable THEN log ELSE <<>>

(* What a command does if ReadFile fails: runAuditBundle ignores the error    *)
(* and goes on without events, the others give up.                            *)
Unread(p) ==
    IF cmd[p].kind = "bundle"
    THEN /\ bundle' = [bundle EXCEPT ![p].chainOK = VerifyEvents(<<>>),
                                     ![p].blind = TRUE]
         /\ Goto(p, "copy")
    ELSE UNCHANGED bundle /\ Goto(p, "died")

(* Mutant: the result of VerifyEvents is not looked at. *)
ReadEvidence_Unverified(p) ==
    /\ \/ pc[p] = "read"
       \/ pc[p] = "start" /\ cmd[p].kind \in {"export", "verify"}
    /\ \/ /\ Readable
          /\ bundle' = [bundle EXCEPT ![p].count = Len(log), ![p].chainOK = TRUE]
          /\ Goto(p, "copy") /\ NoFault
       \/ Unread(p) /\ IF Readable THEN Fault ELSE NoFault
    /\ NoteStart(p)
    /\ UNCHANGED <<avars, pvars, cmd, ran, changed>>

(* The log is read and verified, once the directory of an export is made.     *)
(* "verify" ends here if the chain does not hold.                             *)
ReadEvidence(p) ==
    /\ \/ pc[p] = "read"
       \/ pc[p] = "start" /\ cmd[p].kind \in {"export", "verify"}
    /\ \/ /\ Readable
          /\ bundle' = [bundle EXCEPT ![p].count = Len(log),
                                      ![p].chainOK = VerifyEvents(log)]
          /\ Goto(p, IF cmd[p].kind = "verify" /\ ~VerifyEvents(log)
                     THEN "died" ELSE "copy")
          /\ NoFault
       \/ Unread(p) /\ IF Readable THEN Fault ELSE NoFault
    /\ NoteStart(p)
    /\ UNCHANGED <<avars, pvars, cmd, ran, changed>>

(* What the second read of the file yields. *)
Copied(p, events, fragment, blind) ==
    /\ bundle' = [bundle EXCEPT ![p].copy = events, ![p].torn = fragment,
                                ![p].blind = @ \/ blind]
    /\ Goto(p, "write")

(* The file is read a second time: as bytes for the copy, or by "verify" as   *)
(* events for the number it prints.  "bundle" ignores an error and takes the  *)
(* bytes it got, "verify" ignores it and has no events; copyFile gives up,    *)
(* and a bundle panics if there is no snapshot directory.                     *)
CopyEvidence(p) ==
    /\ pc[p] = "copy"
    /\ \/ cmd[p].kind # "verify" /\ Copied(p, log, torn, FALSE) /\ NoFault
       \/ cmd[p].kind = "verify" /\ Copied(p, EventsRead, FALSE, ~Readable) /\ NoFault
       \/ cmd[p].kind = "verify" /\ Copied(p, <<>>, FALSE, TRUE) /\ Fault
       \/ /\ cmd[p].kind = "bundle" /\ Fault
          /\ \E n \in 0..Len(log), fragment \in BOOLEAN :
                 /\ fragment => torn \/ n < Len(log)
                 /\ Copied(p, SubSeq(log, 1, n), fragment, TRUE)
       \/ cmd[p].kind # "verify" /\ Goto(p, "died") /\ Fault /\ UNCHANGED bundle
    /\ UNCHANGED <<avars, pvars, cmd, ran, changed, overlapped>>

(* The evidence is out; a chain that is not ok then exits with 3. *)
ExitCode(p) == IF bundle[p].chainOK THEN "done" ELSE "died"
Out(p) == /\ bundle' = [bundle EXCEPT ![p].written = TRUE]
          /\ Goto(p, ExitCode(p)) /\ NoFault

(* The archive with the manifest.  A failure to write is fatal, except that   *)
(* the errors of closing the archive are ignored.                             *)
WriteBundle(p) ==
    /\ pc[p] = "write" /\ cmd[p].kind = "bundle"
    /\ \/ Out(p)
       \/ Fault /\ UNCHANGED bundle /\ \E l \in {"died", ExitCode(p)} : Goto(p, l)
    /\ UNCHANGED <<avars, pvars, cmd, ran, changed, overlapped>>

(* The manifest beside the copy. *)
WriteExport(p) ==
    /\ pc[p] = "write" /\ cmd[p].kind = "export"
    /\ Out(p) \/ (Fault /\ UNCHANGED bundle /\ Goto(p, "died"))
    /\ UNCHANGED <<avars, pvars, cmd, ran, changed, overlapped>>

(* The line that "verify" prints. *)
PrintVerified(p) ==
    /\ pc[p] = "write" /\ cmd[p].kind = "verify"
    /\ Out(p)
    /\ UNCHANGED <<avars, pvars, cmd, ran, changed, overlapped>>

(* Returning from main closes the log (deferred Close), and so does a bundle  *)
(* that is denied; any other os.Exit does not.                                *)
Exit(p) ==
    /\ pc[p] \in Ended
    /\ status[p] # "closed" \/ phase[p] # "down"
    /\ IF /\ status[p] # "closed"
          /\ \/ pc[p] = "done"
             \/ pc[p] = "denied" /\ cmd[p].kind = "bundle"
       THEN Close(p)
       ELSE Gone({p}) /\ UNCHANGED <<fileVars, acked, mishaps>>
    /\ PGone({p})
    /\ UNCHANGED <<pfile, pdisk, posture, pmishaps, pc, overlapped>> /\ Keep /\ NoFault

(* The process is killed. *)
Crash(p) ==
    /\ Alive(p)
    /\ Gone({p}) /\ UNCHANGED <<fileVars, acked, mishaps>>
    /\ PGone({p}) /\ UNCHANGED <<pfile, pdisk, posture, pmishaps>>
    /\ Goto(p, "crashed")
    /\ UNCHANGED overlapped /\ Keep /\ Fault

PowerLoss ==
    /\ APowerLoss
    /\ PPowerLoss
    /\ pc' = [p \in Proc |-> IF Alive(p) THEN "crashed" ELSE pc[p]]
    /\ UNCHANGED overlapped /\ Keep /\ Fault

Work(p) ==
    \/ OpenLog(p) \/ LoadPosture(p) \/ LogWrites(p) \/ LogReturns(p)
    \/ Execute(p) \/ SetPosture(p) \/ PersistPosture(p)
    \/ CloseLog(p) \/ ReadEvidence(p) \/ CopyEvidence(p)
    \/ WriteBundle(p) \/ WriteExport(p) \/ PrintVerified(p)

Step(p) == Work(p) \/ Exit(p)

Next == PowerLoss \/ \E p \in Proc : Step(p) \/ Crash(p)

Spec == Init /\ [][Next]_vars

-----------------------------------------------------------------------------

TypeOK ==
    /\ ATypeOK /\ PTypeOK
    /\ cmd \in [Proc -> Command]
    /\ pc \in [Proc -> LogPoint \cup Ended \cup
                   {"start", "verified", "opened", "loaded", "execute", "handler",
                    "snap", "setting", "close", "read", "copy", "write"}]
    /\ bundle \in [Proc -> [count : Nat, chainOK : BOOLEAN, copy : Seq(Event),
                            torn : BOOLEAN, blind : BOOLEAN, written : BOOLEAN]]
    /\ ran \subseteq Proc /\ changed \subseteq Proc
    /\ overlapped \in BOOLEAN
    /\ faults \in 0..MaxFaults

Logged(n, p, d, res) ==
    \E i \in 1..n : /\ log[i].body.by = p
                    /\ log[i].body.decision = d
                    /\ log[i].body.result = res

(* No audit, no action: whenever a verb's handler has run, the event that    *)
(* announced it is on stable storage, and stays there through every crash,   *)
(* power loss and interleaving with other commands.                          *)
AuditedBeforeRun == \A p \in ran : Logged(synced, p, "allow", "pending")

(* The log does not lie: a success it records for a verb or a posture change *)
(* did happen, an outcome follows the event that announced it, and what it   *)
(* records as denied never ran and never changed the posture, unless the     *)
(* Close of a whole posture file failed.                                     *)
RecordsAreTrue ==
    \A i \in 1..Len(log) :
        LET e == log[i].body
        IN  /\ e.decision = "allow" /\ cmd[e.by].kind # "posture"
                  /\ e.result # "pending"
               => e.by \in ran /\ Logged(i - 1, e.by, "allow", "pending")
            /\ e.decision = "allow" /\ cmd[e.by].kind = "posture"
               => e.by \in changed
            /\ e.decision = "deny" => /\ e.by \notin ran
                                      /\ "close" \notin pmishaps => e.by \notin changed

(* The record of a command that ended by itself, and none of whose own calls  *)
(* of Log returned an error, is complete and stays so, whatever else fails,   *)
(* crashes or writes the log at the same time: a command that was refused by  *)
(* Dispatch or by Transition has its durable deny, what ran has its durable   *)
(* outcome, and so has what changed the posture, as a success or, when the    *)
(* Close of a whole posture file failed, as a denial.  A posture set by       *)
(* another role than admin is refused before the log is open.                 *)
OutcomesRecorded ==
    \A p \in Proc : pc[p] \in Ended \ {"crashed"} /\ ~failed[p] =>
        /\ pc[p] = "denied" /\ (Dispatches(cmd[p]) \/ callerRole(cmd[p].role) = "admin")
           => Logged(synced, p, "deny", "failure")
        /\ p \in ran => \E res \in {"success", "error"} :
                            Logged(synced, p, "allow", res)
        /\ p \in changed => \/ Logged(synced, p, "allow", "success")
                            \/ /\ "close" \in pmishaps
                               /\ Logged(synced, p, "deny", "failure")

(* The posture changes in the log; "audit history" lists them, and denials. *)
Transitions == {i \in 1..Len(log) : /\ log[i].body.decision = "allow"
                                    /\ cmd[log[i].body.by].kind = "posture"}

(* The history tells the posture: as long as invocations do not overlap, no   *)
(* power loss destroys the posture file and every change got its event, the   *)
(* "to" of the last change in the log is the posture of the system.  GAME in  *)
(* GAME goes back to NORMAL and is recorded as a change to GAME.              *)
HistoryTellsPosture ==
    ~overlapped /\ pmishaps = {}
        /\ (\A p \in changed : \E i \in Transitions : log[i].body.by = p) =>
        \A i \in Transitions : (\A j \in Transitions : j <= i) =>
            LET to == cmd[log[i].body.by].target
            IN  posture \in {to} \cup (IF to = "GAME" THEN {"NORMAL"} ELSE {})

(* No command uses its Logger again after an error; so, as long as           *)
(* invocations do not overlap, failed writes and syncs, crashes and power    *)
(* losses leave one chain of whole events.  "audit verify" rejects such a    *)
(* log only for a fragment, and that takes a failure.                        *)
ChainIntact ==
    /\ "retry" \notin mishaps
    /\ ~overlapped => /\ VerifyEvents(log)
                      /\ VerifyChain \/ (torn /\ faults > 0)

(* No audit, no action, when the log cannot be read: once it holds a         *)
(* fragment, invocations that do not overlap execute no handler, change no   *)
(* posture and write no event behind it (where ReadFile would never find it),*)
(* until a power loss takes the fragment away.                               *)
FragmentStops ==
    [][~overlapped /\ torn /\ torn'
           => /\ ran' = ran /\ changed' = changed
              /\ Len(log') <= Len(log)]_vars

Forbids(state, c) ==
    LET verdict == CapabilityVerdict(state, capability(c))
    IN  \/ verdict \in {"ForceOff", "PinnedOnly"}
        \/ verdict = "GameDomainOnly" /\ c.object # "domain:game"

(* As long as invocations do not overlap and no power loss destroys the      *)
(* posture file, no handler runs that the posture of the system forbids,     *)
(* also after a process died in the middle of changing the posture.          *)
SerialRunsObeyPosture ==
    [][\A p \in ran' \ ran : ~overlapped /\ pmishaps = {}
           => ~Forbids(posture, cmd[p])]_vars

(* Evidence that is out can be trusted, whatever other commands wrote between *)
(* its two reads of the log: if the manifest counts events and the copy has   *)
(* that many, chain_ok says whether just these events of the copy verify.  So *)
(* a manifest made blindly, after a read whose error was ignored, counts      *)
(* nothing, or more than there is, or is right about what it counts.  Other   *)
(* manifests never count more than the copy has, and without overlap exactly  *)
(* what it has.                                                               *)
EvidenceConsistent ==
    \A p \in Proc : bundle[p].written =>
        LET b == bundle[p]
        IN  /\ b.count \in 1..Len(b.copy)
               => b.chainOK = VerifyEvents(SubSeq(b.copy, 1, b.count))
            /\ ~b.blind => b.count <= Len(b.copy)
            /\ ~b.blind /\ ~overlapped => b.count = Len(b.copy) /\ ~b.torn

-----------------------------------------------------------------------------
(* What the repository says and the code does not do. *)

(* dispatch.go:117: "Audit write failure -> deny execution (no audit = no    *)
(* action)"; an evidence bundle that is out has its event in the log.        *)
BundlesAudited ==
    \A p \in Proc : bundle[p].written /\ cmd[p].kind = "bundle"
                        => Logged(synced, p, "allow", "pending")

(* docs/AUDIT.md:142: "Never execute then audit." *)
PostureChangesAudited ==
    \A p \in changed : \E i \in 1..Len(log) : log[i].body.by = p

(* machine.go:73, of EXITED: "no capabilities allowed in exited state        *)
(* (handled separately)".                                                    *)
ExitedRunsNothing ==
    [][ran' # ran => posture # "EXITED"]_vars
=============================================================================
