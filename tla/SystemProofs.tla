---------------------------- MODULE SystemProofs ----------------------------
(***************************************************************************)
(* Proofs about System, for every set of processes, commands and paths:    *)
(* the commands over the snapshot store keep the invariant of              *)
(* KernelProofs, and what they change is announced in the log.             *)
(***************************************************************************)
EXTENDS System, KernelProofs

(* Where a command is with respect to its setfacl calls and its snapshot. *)
FsControl(p) ==
    /\ pc[p] = "handler" => p \in ran
    /\ fphase[p] \in {"first", "second"} => pc[p] = "handler"
    /\ fphase[p] \notin {"idle", "capture"}
          => /\ cmd[p].kind = "fs" /\ p \in ran
             /\ verb[p] = cmd[p].verb /\ path[p] = cmd[p].path
    /\ pc[p] = "outcome.ok" /\ cmd[p].kind = "fs" => fphase[p] = "done"
    /\ pc[p] = "snap" => fphase[p] \in {"done", "capture"}

FsTypes ==
    /\ access \in [Path -> {"none", "some", "all"}]
    /\ default \in [Path -> {"none", "some", "all"}]
    /\ fphase \in [Proc -> {"idle", "first", "second", "done", "error", "capture"}]
    /\ verb \in [Proc -> F!Verb] /\ path \in [Proc -> Path \cup {F!NoPath}]
    /\ attempt \in [Proc -> 1..2]
    /\ fmishaps \subseteq {"overlap"}

(* The entries of a path were changed by a command that ran. *)
EntriesMade ==
    \A x \in Path : access[x] # "none" \/ default[x] # "none" =>
        \E p \in ran : cmd[p].kind = "fs" /\ cmd[p].path = x

SystemInv ==
    /\ KernelInv /\ FsTypes /\ EntriesMade
    /\ \A p \in Proc : FsControl(p)

-----------------------------------------------------------------------------

(* A step that leaves the log and the posture alone. *)
LEMMA QuietKeeps ==
    ASSUME KernelInv, NEW p \in Proc,
           NEW l \in LogPoint \cup Ended \cup {"verified", "handler", "snap"}, Goto(p, l),
           UNCHANGED <<avars, pvars, cmd, bundle, changed>>,
           ran' \in {ran, ran \cup {p}},
           pc[p] \in Refused => l \in Refused /\ ran' = ran,
           overlapped' \in BOOLEAN, Fault \/ NoFault, Control(p)', Recorded(p)'
    PROVE  KernelInv' /\ Does(p)
  <1>1. TreeInv /\ PostureInv /\ KernelTypes
    BY Parts
  <1>2. TreeInv' /\ PostureInv'
    BY <1>1, StutterKeeps
  <1>3. KernelTypes'
    BY <1>1, FaultTypes DEF KernelTypes, Goto, Bundle
  <1>4. /\ pc'[p] = l /\ log' = log /\ synced' = synced
        /\ \A q \in Proc \ {p} : SameFor(q)
        /\ pmishaps' = pmishaps
    BY <1>1 DEF KernelTypes, Goto, SameFor, avars, pvars
  <1>5. Does(p)
    BY <1>1, <1>4, SameLogGrows DEF Does
  <1> QED
    BY <1>1, <1>2, <1>3, <1>4, <1>5, StepKeeps, SameLogGrows

(* The store cannot be opened. *)
LEMMA StoreFailsKeeps ==
    ASSUME SystemInv, NEW p \in Proc, StoreFails(p)
    PROVE  KernelInv' /\ Does(p)
  <1>1. KernelInv /\ KernelTypes /\ Control(p) /\ Recorded(p)
    BY Parts DEF SystemInv
  <1>2. /\ Goto(p, "died") /\ pc[p] \in {"start", "pending", "deny"}
        /\ UNCHANGED <<avars, pvars, cmd, bundle, changed>> /\ ran' = ran /\ Fault
    BY DEF StoreFails, PolicyStep
  <1>3. overlapped' \in BOOLEAN
    BY <1>1, Zenon DEF StoreFails, NoteStart, KernelTypes
  <1>4. pc'[p] = "died" /\ log' = log /\ synced' = synced /\ status' = status
    BY <1>1, <1>2 DEF Goto, KernelTypes, avars
  <1>5. Control(p)'
    BY <1>1, <1>2, <1>4 DEF Control, Running, Untouched
  <1>6. Recorded(p)'
    <2>1. p \notin ran /\ status[p] # "written"
      BY <1>1, <1>2 DEF Control, Recorded, Untouched, StoreFails, LogPoint
    <2> QED
      BY <1>2, <1>4, <2>1 DEF Recorded, Running, Afterwards, Ended
  <1>7. "died" \in Ended /\ "died" \in Refused
    BY DEF Ended, Refused
  <1> QED
    BY <1>1, <1>2, <1>3, <1>5, <1>6, <1>7, QuietKeeps

(* The first steps of a rollback and of a capture. *)
LEMMA FirstStepKeeps ==
    ASSUME SystemInv, NEW p \in Proc, LoadTarget(p) \/ Capture(p)
    PROVE  KernelInv' /\ Does(p)
  <1>1. KernelInv /\ KernelTypes /\ Control(p) /\ Recorded(p)
    BY Parts DEF SystemInv
  <1>2. PICK l \in {"verified", "died", "snap"} : Goto(p, l)
    BY DEF LoadTarget, Capture
  <1>3. /\ pc[p] = "start" /\ ran' = ran /\ (Fault \/ NoFault)
        /\ UNCHANGED <<avars, pvars, cmd, bundle, changed>>
    BY Zenon DEF LoadTarget, Capture, Keep, PolicyStep
  <1>4. overlapped' \in BOOLEAN
    BY <1>1, Zenon DEF LoadTarget, Capture, NoteStart, KernelTypes
  <1>5. pc'[p] = l /\ log' = log /\ synced' = synced /\ status' = status
           /\ failed' = failed
    BY <1>1, <1>2, <1>3 DEF Goto, KernelTypes, avars
  <1>6. p \notin ran \cup changed /\ status[p] # "written" /\ ~failed[p]
    BY <1>1, <1>3 DEF Control, Recorded, Untouched, LogPoint, Afterwards, Ended
  <1>7. Control(p)' /\ Recorded(p)'
    BY <1>2, <1>3, <1>5, <1>6 DEF Control, Recorded, Running
  <1> QED
    BY <1>1, <1>2, <1>3, <1>4, <1>7, QuietKeeps DEF Refused, Ended

(* The handler of "fs" runs after its event is durable. *)
LEMMA HandlerKeeps ==
    ASSUME SystemInv, NEW p \in Proc, Handler(p)
    PROVE  KernelInv' /\ Does(p)
  <1>1. KernelInv /\ KernelTypes /\ Control(p) /\ Recorded(p) /\ FsControl(p)
    BY Parts DEF SystemInv
  <1>2. PICK l \in {"handler", "outcome.ok", "outcome.error"} : Goto(p, l)
    BY Zenon DEF Handler
  <1>3. /\ pc[p] \in {"execute", "handler"} /\ (Fault \/ NoFault)
        /\ ran' = ran \cup {p}
    <2>1. pc[p] = "handler" => ran \cup {p} = ran
      BY <1>1 DEF FsControl
    <2> QED
      BY <2>1, Zenon DEF Handler
  <1>4. UNCHANGED <<avars, pvars, cmd, bundle, changed, overlapped>>
    BY Zenon DEF Handler, PolicyStep
  <1>5. pc'[p] = l /\ log' = log /\ synced' = synced /\ status' = status
           /\ failed' = failed
    BY <1>1, <1>2, <1>4 DEF Goto, KernelTypes, avars
  <1>6. overlapped' \in BOOLEAN
    BY <1>1, <1>4 DEF KernelTypes
  <1>7. Control(p)'
    BY <1>1, <1>2, <1>3, <1>4, <1>5 DEF Control, Running, Untouched
  <1>8. Recorded(p)'
    <2>1. Logged(synced, p, "allow", "pending") /\ status[p] # "written" /\ ~failed[p]
      BY <1>1, <1>3 DEF Recorded, Running, LogPoint, Afterwards, Ended
    <2> QED
      BY <1>5, <2>1 DEF Recorded, Logged
  <1>9. l \in LogPoint \cup Ended \cup {"verified", "handler", "snap"}
           /\ pc[p] \notin Refused
    BY <1>2, <1>3 DEF LogPoint, Refused, Ended
  <1> QED
    BY <1>1, <1>2, <1>3, <1>4, <1>6, <1>7, <1>8, <1>9, QuietKeeps

(* The snapshot is written after everything else. *)
LEMMA RecordSnapshotKeeps ==
    ASSUME SystemInv, NEW p \in Proc, RecordSnapshot(p)
    PROVE  KernelInv' /\ Does(p)
  <1>1. KernelInv /\ KernelTypes /\ Control(p) /\ Recorded(p)
    BY Parts DEF SystemInv
  <1>2. PICK l \in {"snap", "done", "died"} : Goto(p, l)
    BY DEF RecordSnapshot
  <1>3. /\ pc[p] = "snap" /\ ran' = ran /\ (Fault \/ NoFault)
        /\ UNCHANGED <<avars, pvars, cmd, bundle, changed, overlapped>>
    BY Zenon DEF RecordSnapshot, PolicyStep
  <1>4. pc'[p] = l /\ log' = log /\ synced' = synced /\ status' = status
           /\ failed' = failed
    BY <1>1, <1>2, <1>3 DEF Goto, KernelTypes, avars
  <1>5. overlapped' \in BOOLEAN
    BY <1>1, <1>3 DEF KernelTypes
  <1>6. Control(p)'
    BY <1>1, <1>2, <1>3, <1>4 DEF Control, Running, Untouched
  <1>7. Recorded(p)'
    <2>1. status[p] # "written"
      BY <1>1, <1>3 DEF Recorded, LogPoint
    <2> QED
      BY <1>1, <1>2, <1>3, <1>4, <2>1 DEF Recorded, Running, Afterwards, Ended, Logged
  <1> QED
    BY <1>1, <1>2, <1>3, <1>5, <1>6, <1>7, QuietKeeps DEF Refused, Ended

(* Every step of a process keeps the invariant of the log and the posture. *)
LEMMA SysKernel ==
    ASSUME SystemInv, NEW p \in Proc, SysStep(p) \/ SysCrash(p)
    PROVE  KernelInv' /\ Does(p)
  <1>1. KernelInv /\ KernelTypes /\ TreeInv
    BY Parts DEF SystemInv
  <1>2. CASE Work(p) \/ Exit(p) \/ Crash(p)
    BY <1>1, <1>2, StepKernel DEF Step
  <1>3. CASE UNCHANGED vars
    <2>1. KernelInv'
      BY <1>1, <1>3, KernelNext
    <2>2. LogGrows
      BY <1>1, <1>3, SameLogGrows DEF vars, avars
    <2>3. Does(p)
      BY <1>3, <2>2 DEF Does, SameFor, vars, avars, pvars
    <2> QED
      BY <2>1, <2>3
  <1> QED
    BY <1>2, <1>3, StoreFailsKeeps, FirstStepKeeps, HandlerKeeps, RecordSnapshotKeeps
       DEF SysStep, SysExit, SysCrash

entries == <<access, default, fphase, verb, path, attempt, fmishaps>>

(* What a step does to the entries and to the processes that make them. *)
FsEffect(p) ==
    \/ UNCHANGED entries
    \/ F!Trigger(p, cmd[p].verb, cmd[p].path) /\ cmd[p].kind = "fs"
    \/ F!SetfaclOK(p) \/ F!SetfaclFails(p)
    \/ \E ok \in BOOLEAN : F!Capture(p, ok)
    \/ F!FGone(p) /\ UNCHANGED fmishaps

(* Every step has such an effect. *)
LEMMA SysEffect ==
    ASSUME NEW p \in Proc, SysStep(p) \/ SysCrash(p)
    PROVE  FsEffect(p)
  BY Zenon DEF SysStep, SysCrash, StoreFails, LoadTarget, Handler, Capture, RecordSnapshot,
               SysExit, FsEffect, entries, policyVars

(* The effect is on the process and on its path. *)
LEMMA EffectFacts ==
    ASSUME SystemInv, NEW p \in Proc, FsEffect(p)
    PROVE  /\ FsTypes'
           /\ \A q \in Proc \ {p} : /\ fphase'[q] = fphase[q]
                                    /\ verb'[q] = verb[q] /\ path'[q] = path[q]
           /\ \A x \in Path : \/ access'[x] = access[x] /\ default'[x] = default[x]
                              \/ p \in ran /\ cmd[p].kind = "fs" /\ cmd[p].path = x
  <1>1. FsTypes /\ FsControl(p) /\ cmd \in [Proc -> Command]
    BY DEF SystemInv, KernelInv, KernelTypes
  <1>2. CASE UNCHANGED entries
    BY <1>1, <1>2 DEF entries, FsTypes, F!Verb, F!NoPath
  <1>3. CASE F!Trigger(p, cmd[p].verb, cmd[p].path) /\ cmd[p].kind = "fs"
    <2>1. cmd[p].verb \in F!Verb /\ cmd[p].path \in Path
      BY <1>1, <1>3, SystemAssumption
    <2>2. FsTypes'
      BY <1>1, <1>3, <2>1 DEF F!Trigger, FsTypes, F!Verb, F!NoPath
    <2>3. UNCHANGED <<access, default>>
      BY <1>3 DEF F!Trigger
    <2>4. \A q \in Proc \ {p} : /\ fphase'[q] = fphase[q]
                               /\ verb'[q] = verb[q] /\ path'[q] = path[q]
      BY <1>1, <1>3 DEF F!Trigger, FsTypes
    <2> QED
      BY <2>2, <2>3, <2>4
  <1>4. CASE F!SetfaclOK(p) \/ F!SetfaclFails(p)
    <2>1. fphase[p] \in {"first", "second"}
      BY <1>4 DEF F!SetfaclOK, F!SetfaclFails, F!RunFails
    <2>2. /\ p \in ran /\ cmd[p].kind = "fs" /\ path[p] = cmd[p].path
      BY <1>1, <2>1 DEF FsControl
    <2>3. \E v, w \in {"none", "some", "all"} :
             /\ access' \in {access, [access EXCEPT ![path[p]] = v]}
             /\ default' \in {default, [default EXCEPT ![path[p]] = w]}
      BY <1>4 DEF F!SetfaclOK, F!SetfaclFails, F!RunFails, F!Applied, F!Mangled, F!Goal
    <2>4. /\ verb' = verb /\ path' = path
          /\ \E f \in {"first", "second", "done", "error"} :
                fphase' = [fphase EXCEPT ![p] = f]
          /\ attempt' \in {attempt, [attempt EXCEPT ![p] = 2]}
          /\ fmishaps' = fmishaps
      BY <1>4 DEF F!SetfaclOK, F!SetfaclFails
    <2>5. FsTypes'
      BY <1>1, <2>3, <2>4 DEF FsTypes, F!Verb, F!NoPath
    <2>6. \A x \in Path : \/ access'[x] = access[x] /\ default'[x] = default[x]
                          \/ path[p] = x
      BY <1>1, <2>3 DEF FsTypes
    <2> QED
      BY <1>1, <2>2, <2>4, <2>5, <2>6 DEF FsTypes
  <1>5. CASE \E ok \in BOOLEAN : F!Capture(p, ok)
    BY <1>1, <1>5 DEF F!Capture, FsTypes, F!Verb, F!NoPath
  <1>6. CASE F!FGone(p) /\ UNCHANGED fmishaps
    BY <1>1, <1>6 DEF F!FGone, FsTypes, F!Verb, F!NoPath
  <1> QED
    BY <1>2, <1>3, <1>4, <1>5, <1>6 DEF FsEffect

(* The entries go back to commands that ran. *)
LEMMA SysEntries ==
    ASSUME SystemInv, NEW p \in Proc, FsEffect(p), Does(p)
    PROVE  EntriesMade'
  <1> SUFFICES ASSUME NEW x \in Path, access'[x] # "none" \/ default'[x] # "none"
               PROVE  \E q \in ran' : cmd'[q].kind = "fs" /\ cmd'[q].path = x
    BY DEF EntriesMade
  <1>1. ran \subseteq ran' /\ cmd' = cmd
    BY DEF Does
  <1>2. CASE access'[x] = access[x] /\ default'[x] = default[x]
    BY <1>1, <1>2 DEF SystemInv, EntriesMade
  <1>3. CASE p \in ran /\ cmd[p].kind = "fs" /\ cmd[p].path = x
    BY <1>1, <1>3
  <1> QED
    BY <1>2, <1>3, EffectFacts

(* No step of Kernel enters or leaves the handler of "fs", and only an "fs"    *)
(* command whose handler succeeded goes on to its snapshot.                    *)
LEMMA WorkPlaces ==
    ASSUME KernelInv, NEW p \in Proc, Work(p)
    PROVE  /\ pc[p] # "handler" /\ pc'[p] # "handler"
           /\ pc'[p] = "outcome.ok" => pc[p] = "outcome.ok" \/ cmd[p].kind # "fs"
           /\ pc'[p] = "snap" => pc[p] = "outcome.ok" /\ cmd[p].kind = "fs"
  <1>1. KernelTypes /\ ATypeOK
    BY Parts
  <1>2. CASE OpenLog(p)
    BY <1>1, <1>2 DEF OpenLog, OpensAt, Goto, KernelTypes
  <1>3. CASE LoadPosture(p)
    <2>1. \E l \in {"loaded", "denied", "pending", "deny", "died"} : Goto(p, l)
      BY <1>3, Zenon DEF LoadPosture
    <2>2. pc[p] \in {"start", "opened"}
      BY <1>3 DEF LoadPosture
    <2> QED
      BY <1>1, <2>1, <2>2 DEF Goto, KernelTypes
  <1>4. CASE LogWrites(p)
    BY <1>4 DEF LogWrites, LogPoint
  <1>5. CASE LogReturns(p)
    <2>1. PICK ok \in BOOLEAN : Goto(p, AfterLog(p, ok))
      BY <1>5 DEF LogReturns
    <2>2. pc[p] \in LogPoint /\ pc'[p] = AfterLog(p, ok)
      BY <1>1, <1>5, <2>1 DEF LogReturns, Goto, KernelTypes
    <2>3. pc'[p] \in {"denied", "execute", "done", "died", "close", "snap"}
      BY <2>1, <2>2, AfterLogFacts
    <2>4. pc'[p] = "snap" => pc[p] = "outcome.ok" /\ cmd[p].kind = "fs"
      <3>1. \A l : l # "snap" /\ AfterDispatch(p, l) = "snap"
                      => l = "done" /\ cmd[p].kind = "fs"
        BY DEF AfterDispatch
      <3> QED
        BY <2>2, <3>1 DEF AfterLog, LogPoint
    <2> QED
      BY <2>2, <2>3, <2>4 DEF LogPoint
  <1>6. CASE Execute(p) \/ SetPosture(p) \/ PersistPosture(p) \/ CloseLog(p)
    BY <1>1, <1>6 DEF Execute, SetPosture, PersistPosture, CloseLog, Goto, KernelTypes
  <1>7. CASE CollectsEvidence(p)
    <2>1. PICK l \in {"copy", "write", "done", "died"} : Goto(p, l)
      BY <1>1, <1>7, CollectingFacts
    <2>2. pc[p] \in {"start", "read", "copy", "write"}
      BY <1>1, <1>7, CollectingFacts
    <2> QED
      BY <1>1, <2>1, <2>2 DEF Goto, KernelTypes
  <1> QED
    BY <1>2, <1>3, <1>4, <1>5, <1>6, <1>7 DEF Work, CollectsEvidence

(* A process is at its setfacl calls exactly in its handler. *)
LEMMA OwnFsControl ==
    ASSUME SystemInv, NEW p \in Proc, SysStep(p) \/ SysCrash(p)
    PROVE  FsControl(p)'
  <1>1. KernelInv /\ KernelTypes /\ FsControl(p) /\ FsTypes
    BY Parts DEF SystemInv
  <1>2. Does(p) /\ cmd' = cmd /\ (p \in ran => p \in ran')
    BY SysKernel DEF Does
  <1>3. CASE Work(p) /\ UNCHANGED <<policyVars, verified>>
    <2>1. fphase' = fphase /\ verb' = verb /\ path' = path
      BY <1>3 DEF policyVars
    <2> QED
      BY <1>1, <1>2, <1>3, <2>1, WorkPlaces DEF FsControl
  <1>4. CASE StoreFails(p) \/ LoadTarget(p)
    <2>1. fphase' = fphase /\ verb' = verb /\ path' = path
      BY <1>4 DEF StoreFails, LoadTarget, policyVars
    <2>2. pc'[p] \in {"died", "verified"} /\ pc[p] # "handler"
      BY <1>1, <1>4 DEF StoreFails, LoadTarget, Goto, KernelTypes
    <2> QED
      BY <1>1, <1>2, <2>1, <2>2 DEF FsControl
  <1>5. CASE Handler(p)
    <2>1. /\ fphase'[p] = "done" => Goto(p, "outcome.ok")
          /\ fphase'[p] = "error" => Goto(p, "outcome.error")
          /\ fphase'[p] \notin {"done", "error"} => Goto(p, "handler")
      BY <1>5, Zenon DEF Handler
    <2>2. /\ fphase'[p] \in {"first", "second", "done", "error"}
          /\ p \in ran' /\ cmd[p].kind = "fs"
          /\ verb'[p] = cmd[p].verb /\ path'[p] = cmd[p].path
      <3>1. CASE /\ cmd[p].kind = "fs" /\ F!Trigger(p, cmd[p].verb, cmd[p].path)
                 /\ ran' = ran \cup {p}
        BY <1>1, <3>1 DEF F!Trigger, FsTypes
      <3>2. CASE F!SetfaclOK(p) \/ F!SetfaclFails(p)
        <4>1. fphase[p] \in {"first", "second"} /\ verb' = verb /\ path' = path
          BY <3>2 DEF F!SetfaclOK, F!SetfaclFails, F!RunFails
        <4>2. fphase'[p] \in {"first", "second", "done", "error"}
          BY <1>1, <3>2 DEF F!SetfaclOK, F!SetfaclFails, FsTypes
        <4> QED
          BY <1>1, <1>2, <4>1, <4>2 DEF FsControl
      <3> QED
        BY <1>5, <3>1, <3>2, Zenon DEF Handler
    <2> QED
      BY <1>1, <1>2, <2>1, <2>2 DEF Goto, KernelTypes, FsControl
  <1>6. CASE Capture(p)
    <2>1. fphase'[p] = "capture" /\ pc'[p] = "snap"
      BY <1>1, <1>6 DEF Capture, F!Capture, Goto, KernelTypes, FsTypes
    <2> QED
      BY <2>1 DEF FsControl
  <1>7. CASE RecordSnapshot(p)
    <2>1. /\ fphase' = fphase /\ verb' = verb /\ path' = path /\ pc[p] = "snap"
          /\ pc'[p] \in {"snap", "done", "died"}
      BY <1>1, <1>7 DEF RecordSnapshot, Goto, KernelTypes
    <2> QED
      BY <1>1, <1>2, <2>1 DEF FsControl
  <1>8. CASE F!FGone(p) /\ pc'[p] \in Ended
    <2>1. fphase'[p] = "idle"
      BY <1>1, <1>8 DEF F!FGone, FsTypes
    <2> QED
      BY <1>8, <2>1 DEF FsControl, Ended
  <1>9. SysExit(p) \/ SysCrash(p) => F!FGone(p) /\ pc'[p] \in Ended
    BY <1>1 DEF SysExit, SysCrash, Exit, Crash, Goto, KernelTypes, Ended, vars
  <1> QED
    BY <1>3, <1>4, <1>5, <1>6, <1>7, <1>8, <1>9 DEF SysStep

(* At first nothing is declared and no entry is made. *)
LEMMA SystemInit == SysInit => SystemInv
  <1> SUFFICES ASSUME SysInit PROVE SystemInv
    OBVIOUS
  <1>1. KernelInv
    BY KernelInit DEF SysInit
  <1>2. FsTypes /\ EntriesMade
    <2>1. F!FInit
      BY DEF SysInit
    <2>2. FsTypes
      BY <2>1 DEF F!FInit, FsTypes, F!Verb
    <2> QED
      BY <2>1, <2>2 DEF F!FInit, EntriesMade
  <1>3. \A p \in Proc : FsControl(p)
    BY DEF SysInit, Init, F!FInit, FsControl
  <1> QED
    BY <1>1, <1>2, <1>3 DEF SystemInv

(* No step breaks the invariant. *)
LEMMA SystemNext == SystemInv /\ [SysNext]_sysVars => SystemInv'
  <1> SUFFICES ASSUME SystemInv, [SysNext]_sysVars PROVE SystemInv'
    OBVIOUS
  <1>1. ASSUME NEW p \in Proc, SysStep(p) \/ SysCrash(p) PROVE SystemInv'
    <2>1. KernelInv' /\ Does(p) /\ FsEffect(p)
      BY <1>1, SysKernel, SysEffect
    <2>2. FsTypes' /\ EntriesMade'
      BY <2>1, EffectFacts, SysEntries
    <2>3. ASSUME NEW q \in Proc \ {p} PROVE FsControl(q)'
      <3>1. FsControl(q) /\ SameFor(q) /\ cmd' = cmd /\ (q \in ran => q \in ran')
        BY <2>1 DEF SystemInv, Does
      <3>2. fphase'[q] = fphase[q] /\ verb'[q] = verb[q] /\ path'[q] = path[q]
        BY <2>1, EffectFacts
      <3> QED
        BY <3>1, <3>2 DEF SameFor, FsControl
    <2>4. FsControl(p)'
      BY <1>1, OwnFsControl
    <2> QED
      BY <2>1, <2>2, <2>3, <2>4 DEF SystemInv
  <1>2. CASE UNCHANGED sysVars
    <2>1. KernelInv'
      BY <1>2, KernelNext DEF SystemInv, sysVars
    <2>2. FsTypes' /\ EntriesMade'
      BY <1>2 DEF SystemInv, sysVars, policyVars, vars, FsTypes, EntriesMade, F!Verb,
                  F!NoPath
    <2>3. \A p \in Proc : FsControl(p)'
      BY <1>2 DEF SystemInv, sysVars, policyVars, vars, FsControl
    <2> QED
      BY <2>1, <2>2, <2>3 DEF SystemInv
  <1> QED
    BY <1>1, <1>2 DEF SysNext

(* dispatch.go and main.go, fs grant and revoke: no entry was changed without *)
(* the durable event of a command on that path.                               *)
THEOREM NoAuditNoEntry == SysSpec => []AclChangesAudited
  <1>1. SystemInv => AclChangesAudited
    <2> SUFFICES ASSUME SystemInv, NEW x \in Path,
                        access[x] # "none" \/ default[x] # "none"
                 PROVE  \E p \in Proc : /\ cmd[p].kind = "fs" /\ cmd[p].path = x
                                        /\ Logged(synced, p, "allow", "pending")
      BY DEF AclChangesAudited
    <2>1. PICK p \in ran : cmd[p].kind = "fs" /\ cmd[p].path = x
      BY DEF SystemInv, EntriesMade
    <2>2. p \in Proc /\ Logged(synced, p, "allow", "pending")
      BY DEF SystemInv, KernelInv, KernelTypes, Recorded
    <2> QED
      BY <2>1, <2>2
  <1> QED
    BY <1>1, SystemInit, SystemNext, PTL DEF SysSpec

(* The log does not lie about the commands over the snapshot store either.    *)
THEOREM SystemLogDoesNotLie == SysSpec => []RecordsAreTrue
  <1>1. SystemInv => RecordsAreTrue
    BY DEF SystemInv, KernelInv, LogTrue, TrueAt, Denied, RecordsAreTrue
  <1> QED
    BY <1>1, SystemInit, SystemNext, PTL DEF SysSpec

(* dispatch.go: no handler has run without its durable event, the one of "fs" *)
(* included, and the one of a rollback.                                       *)
THEOREM SystemNoAuditNoAction == SysSpec => []AuditedBeforeRun
  <1>1. SystemInv => AuditedBeforeRun
    BY DEF SystemInv, KernelInv, KernelTypes, Recorded, AuditedBeforeRun
  <1> QED
    BY <1>1, SystemInit, SystemNext, PTL DEF SysSpec

(* audit/log.go: as the commands use it, the log keeps for ever the events    *)
(* whose Log call returned nil, and is a tree rooted at genesis, whatever     *)
(* overlaps.                                                                  *)
THEOREM SystemDurability == SysSpec => [](AckedDurable /\ LogIsTree)
  <1>1. SystemInv => AckedDurable /\ LogIsTree
    BY DEF SystemInv, KernelInv, TreeInv
  <1> QED
    BY <1>1, SystemInit, SystemNext, PTL DEF SysSpec

(* posture/machine.go: as the commands use it, crashes and failed writes do   *)
(* not lose the posture that was acknowledged, as long as no two processes    *)
(* have the machine at once; a file that parses is always the last one        *)
(* acknowledged.                                                              *)
THEOREM SystemKeepsPosture == SysSpec => [](NoPostureLost /\ LastWriterWins)
  <1>1. SystemInv => NoPostureLost /\ LastWriterWins
    BY DEF SystemInv, KernelInv, PostureInv, NoPostureLost, LastWriterWins, Serial
  <1> QED
    BY <1>1, SystemInit, SystemNext, PTL DEF SysSpec

-----------------------------------------------------------------------------
(* Success. *)

(* What the calls of a handler have achieved. *)
Reached(p) ==
    /\ fphase[p] \in {"second", "done"} => access[path[p]] = F!Goal(p)
    /\ fphase[p] = "done" => default[path[p]] = F!Goal(p)

(* As long as no two handlers overlap, at most one process has entries to     *)
(* make, and those it has made are still there.                               *)
SuccessInv ==
    "overlap" \notin fmishaps =>
        /\ \A p, q \in Proc : F!Busy(p) /\ F!Busy(q) => p = q
        /\ \A p \in Proc : Reached(p)

(* A handler has its entries to itself. *)
LEMMA EffectSuccess ==
    ASSUME SystemInv, SuccessInv, NEW p \in Proc, FsEffect(p)
    PROVE  SuccessInv'
  <1>1. FsTypes /\ FsControl(p) /\ cmd \in [Proc -> Command]
    BY DEF SystemInv, KernelInv, KernelTypes
  <1> SUFFICES ASSUME "overlap" \notin fmishaps'
               PROVE  /\ \A q, r \in Proc : F!Busy(q)' /\ F!Busy(r)' => q = r
                      /\ \A q \in Proc : Reached(q)'
    BY DEF SuccessInv
  <1>2. fmishaps \subseteq fmishaps'
    BY DEF FsEffect, entries, F!Trigger, F!Capture, F!SetfaclOK, F!SetfaclFails
  <1>3. /\ \A q, r \in Proc : F!Busy(q) /\ F!Busy(r) => q = r
        /\ \A q \in Proc : Reached(q)
    BY <1>2 DEF SuccessInv
  <1>4. \A q \in Proc \ {p} : /\ fphase'[q] = fphase[q]
                              /\ verb'[q] = verb[q] /\ path'[q] = path[q]
                              /\ (F!Busy(q)' <=> F!Busy(q))
    BY EffectFacts DEF F!Busy
  <1>5. CASE F!Trigger(p, cmd[p].verb, cmd[p].path)
    <2>1. \A q \in Proc \ {p} : ~F!Busy(q)
      BY <1>5 DEF F!Trigger
    <2>2. fphase'[p] \in {"first", "error"}
      BY <1>1, <1>5 DEF F!Trigger, FsTypes
    <2>3. \A q \in Proc \ {p} : fphase'[q] \in {"idle", "capture"} /\ ~F!Busy(q)'
      BY <1>4, <2>1 DEF F!Busy
    <2> QED
      BY <2>2, <2>3 DEF Reached
  <1>6. CASE F!SetfaclOK(p) \/ F!SetfaclFails(p)
    <2>1. fphase[p] \in {"first", "second"} /\ verb' = verb /\ path' = path
      BY <1>6 DEF F!SetfaclOK, F!SetfaclFails, F!RunFails
    <2>2. cmd[p].kind = "fs" /\ path[p] = cmd[p].path
      BY <1>1, <2>1 DEF FsControl
    <2>3. path[p] \in Path /\ F!Busy(p)
      BY <1>1, <2>1, <2>2, SystemAssumption DEF F!Busy
    <2>4. \A q \in Proc \ {p} : fphase'[q] \in {"idle", "capture"} /\ ~F!Busy(q)'
      BY <1>3, <1>4, <2>3 DEF F!Busy
    <2>5. Reached(p)'
      BY <1>1, <1>3, <1>6, <2>1, <2>3 DEF F!SetfaclOK, F!SetfaclFails, F!Applied, F!Goal,
                                         Reached, FsTypes
    <2> QED
      BY <2>4, <2>5 DEF Reached
  <1>7. CASE UNCHANGED entries \/ (\E ok \in BOOLEAN : F!Capture(p, ok)) \/ F!FGone(p)
    <2>1. /\ UNCHANGED <<access, default>>
          /\ \/ UNCHANGED <<fphase, verb, path>>
             \/ fphase'[p] \in {"idle", "capture"}
      BY <1>1, <1>7 DEF entries, F!Capture, F!FGone, FsTypes
    <2>2. Reached(p)' /\ (F!Busy(p)' => F!Busy(p))
      BY <1>3, <2>1 DEF Reached, F!Goal, F!Busy
    <2>3. \A q \in Proc \ {p} : Reached(q)'
      BY <1>3, <1>4, <2>1 DEF Reached, F!Goal
    <2> QED
      BY <1>3, <1>4, <2>2, <2>3
  <1> QED
    BY <1>5, <1>6, <1>7 DEF FsEffect

(* fsacl.go:72: in its command too, a handler that reports success to         *)
(* Dispatch has made both kinds of entries, also after a second run and       *)
(* whatever was left half done, unless two handlers overlapped.               *)
THEOREM SystemSuccess == SysSpec => []F!SuccessIsComplete
  <1>1. SysInit => SuccessInv
    BY DEF SysInit, F!FInit, SuccessInv, Reached, F!Busy
  <1>2. SystemInv /\ SuccessInv /\ [SysNext]_sysVars => SuccessInv'
    <2> SUFFICES ASSUME SystemInv, SuccessInv, [SysNext]_sysVars PROVE SuccessInv'
      OBVIOUS
    <2>1. CASE UNCHANGED sysVars
      BY <2>1 DEF sysVars, policyVars, SuccessInv, Reached, F!Goal, F!Busy
    <2> QED
      BY <2>1, SysEffect, EffectSuccess DEF SysNext
  <1>3. SuccessInv => F!SuccessIsComplete
    BY DEF SuccessInv, F!SuccessIsComplete, Reached
  <1> QED
    BY <1>1, <1>2, <1>3, SystemInit, SystemNext, PTL DEF SysSpec
=============================================================================
