------------------------------- MODULE System -------------------------------
(***************************************************************************)
(* The commands of cmd/emilyos/main.go over the audit log, the posture     *)
(* file, the snapshot store and the entries that setfacl makes: Kernel     *)
(* with the commands                                                       *)
(*   "fs"        fs grant|revoke       (runFs, through Dispatch)           *)
(*   "rollback"  snapshot rollback     (runSnapshotRollback, the same)     *)
(*   "capture"   snapshot capture      (runSnapshot)                       *)
(* The handler of "fs" and the writing of snapshots are those of           *)
(* FsCommand; this module puts them into their places in the command.      *)
(***************************************************************************)
EXTENDS Kernel

CONSTANTS MaxTime,           \* bound: seconds, for the IDs of snapshots
          Path, Denylisted,  \* as in FsCommand
          StartIDs           \* snapshots that earlier captures may have left

VARIABLES
    dir, empty, partial, sphase, prevID, snapID, smishaps,     \* of Snapshots
    access, default, fphase, verb, path, attempt, fmishaps,    \* of FsCommand
    verified   \* per process: the snapshot runSnapshotRollback has verified

What == [verb : {"GRANT_FS", "REVOKE_FS", "roles"}, path : Path \cup {"none"}]

(* An invocation is one command, so that the count of FsCommand is not used;  *)
(* nor is its note of undeclared paths.                                      *)
F == INSTANCE FsCommand WITH commands <- 0, MaxCommands <- 0, undeclared <- {}

(* Earlier captures have IDs of the clock, "none" is no path, and fs commands *)
(* are those that runFs makes.                                                *)
ASSUME SystemAssumption ==
    /\ MaxTime \in Nat \ {0}
    /\ Denylisted \subseteq Path /\ "none" \notin Path
    /\ \A ids \in StartIDs : ids \subseteq F!ID
    /\ \A c \in Command : c.kind = "fs" => c.verb \in F!Verb /\ c.path \in Path

policyVars == <<dir, empty, partial, sphase, prevID, snapID, smishaps,
                access, default, fphase, verb, path, attempt, fmishaps>>
sysVars == <<vars, policyVars, verified>>

Captured == [prev |-> 0, what |-> [verb |-> "roles", path |-> "none"]]
NoSnapshot == [prev |-> 0, what |-> [verb |-> "none", path |-> "none"]]

SysInit ==
    /\ Init
    /\ F!SIdle /\ F!FInit
    /\ \E ids \in StartIDs : dir = [i \in ids |-> Captured]
    /\ verified = [p \in Proc |-> NoSnapshot]

(* A step of FsCommand, at which the process does nothing else than go on. *)
PolicyStep == UNCHANGED <<avars, pvars, cmd, bundle, changed, verified>>

(* NewSnapshotStore fails, or a rollback cannot read its snapshot.  runFs     *)
(* makes the store after posture.New, when nothing of the decision has        *)
(* happened yet.                                                              *)
StoreFails(p) ==
    /\ \/ cmd[p].kind \in {"rollback", "capture"} /\ pc[p] = "start"
       \/ /\ cmd[p].kind = "fs" /\ pc[p] \in {"pending", "deny"}
          /\ status[p] = "open"
    /\ Goto(p, "died") /\ Fault /\ NoteStart(p)
    /\ PolicyStep /\ UNCHANGED <<ran, policyVars>>

(* Mutant: the error of Get is not looked at. *)
LoadTarget_Unchecked(p) ==
    /\ cmd[p].kind = "rollback" /\ pc[p] = "start"
    /\ Goto(p, "verified")
    /\ NoteStart(p)
    /\ UNCHANGED <<avars, pvars, policyVars, verified>> /\ Keep /\ NoFault

(* runSnapshotRollback gets the snapshot and verifies its hash. *)
LoadTarget(p) ==
    /\ cmd[p].kind = "rollback" /\ pc[p] = "start"
    /\ \/ /\ cmd[p].snapshot \in DOMAIN dir
          /\ verified' = [verified EXCEPT ![p] = dir[cmd[p].snapshot]]
          /\ Goto(p, "verified")
       \/ /\ cmd[p].snapshot \notin DOMAIN dir
          /\ Goto(p, "died") /\ UNCHANGED verified
    /\ NoteStart(p)
    /\ UNCHANGED <<avars, pvars, policyVars>> /\ Keep /\ NoFault

(* Mutant: the handler returns nil without having run setfacl. *)
Handler_NotRun(p) ==
    /\ pc[p] = "execute" /\ cmd[p].kind = "fs"
    /\ Goto(p, "outcome.ok") /\ NoFault
    /\ PolicyStep /\ UNCHANGED <<policyVars, ran, overlapped>>

(* Dispatch, step 4, for "fs": the handler runs setfacl.  What made the first *)
(* run fail may make the second one fail too, and counts once.                *)
Handler(p) ==
    /\ \/ /\ pc[p] = "execute" /\ cmd[p].kind = "fs"
          /\ F!Trigger(p, cmd[p].verb, cmd[p].path)
          /\ ran' = ran \cup {p} /\ NoFault
       \/ /\ pc[p] = "handler"
          /\ F!SetfaclOK(p)
          /\ UNCHANGED ran /\ NoFault
       \/ /\ pc[p] = "handler"
          /\ F!SetfaclFails(p)
          /\ UNCHANGED ran /\ IF attempt[p] = 1 THEN Fault ELSE NoFault
    /\ Goto(p, CASE fphase'[p] = "done"  -> "outcome.ok"
                 [] fphase'[p] = "error" -> "outcome.error"
                 [] OTHER                -> "handler")
    /\ PolicyStep /\ UNCHANGED overlapped

(* "snapshot capture" reads the latest snapshot. *)
Capture(p) ==
    /\ cmd[p].kind = "capture" /\ pc[p] = "start"
    /\ \E ok \in BOOLEAN : F!Capture(p, ok) /\ IF ok THEN NoFault ELSE Fault
    /\ Goto(p, "snap") /\ NoteStart(p)
    /\ PolicyStep /\ UNCHANGED ran

(* The snapshot of "fs" and of "capture". *)
RecordSnapshot(p) ==
    /\ pc[p] = "snap"
    /\ \/ /\ \E ok \in BOOLEAN : F!Link(p, ok) /\ IF ok THEN NoFault ELSE Fault
          /\ Goto(p, "snap")
       \/ (\E now \in F!ID : F!Truncate(p, now)) /\ Goto(p, "snap") /\ NoFault
       \/ F!Save(p, F!Declares(p)) /\ Goto(p, "done") /\ NoFault
       \/ F!SaveFails(p, F!Declares(p)) /\ Goto(p, "died") /\ Fault
    /\ UNCHANGED <<access, default, fphase, verb, path, attempt, fmishaps>>
    /\ PolicyStep /\ UNCHANGED <<ran, overlapped>>

(* The process ends. *)
SysExit(p) ==
    /\ pc[p] \in Ended
    /\ Exit(p) \/ (fphase[p] = "capture" /\ UNCHANGED vars)
    /\ F!FGone(p) /\ UNCHANGED <<fmishaps, verified>>

SysCrash(p) ==
    /\ Crash(p)
    /\ F!FGone(p) /\ UNCHANGED <<fmishaps, verified>>

SysStep(p) ==
    \/ Work(p) /\ UNCHANGED <<policyVars, verified>>
    \/ StoreFails(p) \/ LoadTarget(p) \/ Handler(p)
    \/ Capture(p) \/ RecordSnapshot(p)
    \/ SysExit(p)

SysNext == \E p \in Proc : SysStep(p) \/ SysCrash(p)

(* The operating system runs every process that can run: no command waits   *)
(* for another one.                                                         *)
SysFairness == \A p \in Proc : WF_sysVars(SysStep(p))

SysSpec == SysInit /\ [][SysNext]_sysVars
SysFairSpec == SysSpec /\ SysFairness

-----------------------------------------------------------------------------

SysTypeOK ==
    /\ TypeOK /\ F!TypeOK
    /\ verified \in [Proc -> F!Snapshot \cup {NoSnapshot}]

(* No audit, no change: a path whose entries are not those of the beginning  *)
(* has the durable event of a command on that path, however the setfacl      *)
(* calls, the second run of a failed command and crashes interleave.         *)
AclChangesAudited ==
    \A x \in Path : access[x] # "none" \/ default[x] # "none" =>
        \E p \in Proc : /\ cmd[p].kind = "fs" /\ cmd[p].path = x
                        /\ Logged(synced, p, "allow", "pending")

(* A snapshot that declares entries goes back to a command that the log      *)
(* durably announced, and for which it records neither a denial nor an       *)
(* error: the store never declares what the log says did not happen.         *)
DeclarationsBacked ==
    \A i \in DOMAIN dir : dir[i].what.path \in Path =>
        \E p \in Proc :
            /\ cmd[p].kind = "fs"
            /\ dir[i].what = [verb |-> cmd[p].verb, path |-> cmd[p].path]
            /\ Logged(synced, p, "allow", "pending")
            /\ ~Logged(Len(log), p, "allow", "error")
            /\ ~Logged(Len(log), p, "deny", "failure")

(* Between the verification of a rollback's snapshot and its audit event     *)
(* other commands write the store.  As long as no ID is taken twice and IDs  *)
(* increase, the snapshot the log names is still there, whole, and is the    *)
(* one that was verified.                                                    *)
RollbackStands ==
    "clock" \notin smishaps =>
        \A p \in Proc :
            cmd[p].kind = "rollback" /\ Logged(Len(log), p, "allow", "pending")
                => /\ cmd[p].snapshot \in DOMAIN dir
                   /\ dir[cmd[p].snapshot] = verified[p]

(* The log tells the entries: without overlap, if the last command on a path *)
(* is on record as a success, both kinds of entries are what it asked for,   *)
(* whatever earlier commands left half done when they failed or died.        *)
LogTellsEntries ==
    ~overlapped =>
        \A i \in 1..Len(log) :
            LET p == log[i].body.by
                after == {j \in i..Len(log) : /\ cmd[log[j].body.by].kind = "fs"
                                              /\ cmd[log[j].body.by].path = cmd[p].path}
            IN  /\ cmd[p].kind = "fs" /\ log[i].body.result = "success"
                /\ \A j \in after : log[j].body.by = p \/ log[j].body.decision = "deny"
                => LET goal == IF cmd[p].verb = "GRANT_FS" THEN "all" ELSE "none"
                   IN  access[cmd[p].path] = goal /\ default[cmd[p].path] = goal

(* Every invocation that begins ends: no command blocks on another one or    *)
(* retries for ever, whatever its predecessors left in the files.            *)
InvocationsEnd == \A p \in Proc : pc[p] # "start" ~> pc[p] \in Ended
=============================================================================
