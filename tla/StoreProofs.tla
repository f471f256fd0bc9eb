---------------------------- MODULE StoreProofs ----------------------------
(***************************************************************************)
(* Proofs about the snapshot store in System: what it declares was         *)
(* announced in the log, and the target of a rollback stays what was       *)
(* verified.                                                               *)
(***************************************************************************)
EXTENDS SystemProofs, WellFoundedInduction

(* What the store declares. *)

(* Where a process is that has logged an error, and where one is that has  *)
(* logged all of its events.                                               *)
AfterError == {"outcome.error", "close", "read", "copy", "write"} \cup Ended
Silent == {"snap"} \cup Ended

ErrorsPlaced == \A i \in 1..Len(log) : log[i].body.result = "error"
                                          => pc[log[i].body.by] \in AfterError

DeclaredBy(i, p) ==
    /\ cmd[p].kind = "fs" /\ p \in ran /\ pc[p] \in Silent
    /\ dir[i].what = [verb |-> cmd[p].verb, path |-> cmd[p].path]
    /\ ~Logged(Len(log), p, "allow", "error")

DeclarationInv ==
    /\ ErrorsPlaced
    /\ \A i \in DOMAIN dir : dir[i].what.path \in Path
          => \E p \in Proc : DeclaredBy(i, p)

(* A step writes no event, or the event of its place. *)
LEMMA SysLog ==
    ASSUME SystemInv, NEW p \in Proc, SysStep(p) \/ SysCrash(p)
    PROVE  \/ log' = log
           \/ /\ pc[p] \in LogPoint /\ log' = Append(log, NewEvent(p, Record(p)))
              /\ LogWrites(p) \/ LogReturns(p)
  <1>2. KernelTypes /\ ATypeOK
    BY Parts DEF SystemInv
  <1>3. CASE LogWrites(p) \/ LogReturns(p)
    BY <1>3 DEF LogWrites, LogReturns, Write, Sync, SyncFails, WriteFails, fileVars
  <1>4. CASE OpenLog(p) \/ LoadPosture(p)
    BY <1>4 DEF OpenLog, Open, OpenFails, fileVars, LoadPosture, avars
  <1>5. CASE Execute(p) \/ SetPosture(p) \/ PersistPosture(p) \/ CloseLog(p)
    BY <1>5 DEF Execute, SetPosture, PersistPosture, CloseLog, Close, fileVars, avars
  <1>6. CASE CollectsEvidence(p)
    BY <1>2, <1>6, CollectingFacts DEF avars
  <1>7. CASE StoreFails(p) \/ LoadTarget(p) \/ Handler(p) \/ Capture(p)
                \/ RecordSnapshot(p)
    <2>1. UNCHANGED avars
      BY <1>7, Zenon DEF StoreFails, LoadTarget, Handler, Capture, RecordSnapshot,
                         PolicyStep
    <2> QED
      BY <2>1 DEF avars
  <1>8. CASE SysExit(p) \/ SysCrash(p)
    BY <1>8 DEF SysExit, SysCrash, Exit, Crash, Close, fileVars, vars, avars
  <1> QED
    BY <1>3, <1>4, <1>5, <1>6, <1>7, <1>8 DEF SysStep, Work, CollectsEvidence

(* The last element of a sequence to which one was appended. *)
LEMMA AppendedLast ==
    ASSUME NEW S, NEW s \in Seq(S), NEW e, NEW i \in 1..Len(Append(s, e)),
           i \notin 1..Len(s)
    PROVE  Append(s, e)[i] = e
  OBVIOUS

(* An event that a step adds is what the place of its process says. *)
LEMMA NewestEvent ==
    ASSUME SystemInv, NEW p \in Proc, SysStep(p) \/ SysCrash(p),
           NEW i \in 1..Len(log'), i \notin 1..Len(log)
    PROVE  /\ pc[p] \in LogPoint /\ log'[i].body.by = p
           /\ log'[i].body.result = ResultAt(pc[p])
  <1>1. log \in Seq(Event)
    BY Parts DEF SystemInv, ATypeOK
  <1>2. pc[p] \in LogPoint /\ log' = Append(log, NewEvent(p, Record(p)))
    BY SysLog
  <1>3. log'[i] = NewEvent(p, Record(p))
    BY <1>1, <1>2, AppendedLast
  <1>4. NewEvent(p, Record(p)).body = Record(p)
    BY DEF NewEvent
  <1>5. log'[i].body = Record(p)
    BY <1>3, <1>4
  <1>6. Record(p).by = p /\ Record(p).result = ResultAt(pc[p])
    BY <1>2, RecordFacts
  <1> QED
    BY <1>2, <1>5, <1>6

(* A process that has logged its last event, or an error, goes nowhere else. *)
LEMMA SysPlaces ==
    ASSUME SystemInv, NEW p \in Proc, SysStep(p) \/ SysCrash(p)
    PROVE  /\ pc[p] \in Silent => pc'[p] \in Silent /\ log' = log
           /\ pc[p] \in AfterError => pc'[p] \in AfterError
  <1>1. KernelTypes /\ ATypeOK /\ Control(p)
    BY Parts DEF SystemInv
  <1>2. pc[p] \in Silent => log' = log
    BY SysLog DEF Silent, LogPoint, Ended
  <1>3. CASE LogWrites(p)
    BY <1>3 DEF LogWrites, LogPoint, Silent, Ended
  <1>4. CASE LogReturns(p)
    <2>1. PICK ok \in BOOLEAN : Goto(p, AfterLog(p, ok))
      BY <1>4 DEF LogReturns
    <2>2. pc[p] \in LogPoint /\ pc'[p] = AfterLog(p, ok)
      BY <1>1, <1>4, <2>1 DEF LogReturns, Goto, KernelTypes
    <2>3. pc[p] = "outcome.error" => AfterLog(p, ok) \in {"close", "died"}
      <3>1. AfterDispatch(p, "died") \in {"close", "died"}
        BY DEF AfterDispatch
      <3> QED
        BY <3>1 DEF AfterLog
    <2> QED
      BY <2>2, <2>3 DEF LogPoint, Silent, AfterError, Ended
  <1>5. CASE OpenLog(p) \/ LoadPosture(p)
    <2>1. pc[p] \in {"start", "verified", "loaded", "opened"}
      BY <1>5 DEF OpenLog, OpensAt, LoadPosture
    <2> QED
      BY <2>1 DEF Silent, AfterError, Ended
  <1>6. CASE Execute(p) \/ SetPosture(p) \/ PersistPosture(p)
    BY <1>6 DEF Execute, SetPosture, PersistPosture, Silent, AfterError, Ended
  <1>7. CASE CloseLog(p)
    BY <1>1, <1>7 DEF CloseLog, Goto, KernelTypes, Silent, AfterError, Ended
  <1>8. CASE CollectsEvidence(p)
    <2>1. PICK l \in {"copy", "write", "done", "died"} : Goto(p, l)
      BY <1>1, <1>8, CollectingFacts
    <2>2. pc[p] \in {"start", "read", "copy", "write"}
      BY <1>1, <1>8, CollectingFacts
    <2> QED
      BY <1>1, <2>1, <2>2 DEF Goto, KernelTypes, Silent, AfterError, Ended
  <1>9. CASE StoreFails(p) \/ LoadTarget(p) \/ Handler(p) \/ Capture(p)
    <2>1. pc[p] \in {"start", "pending", "deny", "execute", "handler"}
      BY <1>9, Zenon DEF StoreFails, LoadTarget, Handler, Capture
    <2> QED
      BY <2>1 DEF Silent, AfterError, Ended
  <1>10. CASE RecordSnapshot(p)
    BY <1>1, <1>2, <1>10 DEF RecordSnapshot, Goto, KernelTypes, Silent, AfterError, Ended
  <1>11. CASE SysExit(p) \/ SysCrash(p)
    BY <1>1, <1>2, <1>11 DEF SysExit, SysCrash, Exit, Crash, Goto, KernelTypes, vars,
                             Silent, AfterError, Ended
  <1> QED
    BY <1>3, <1>4, <1>5, <1>6, <1>7, <1>8, <1>9, <1>10, <1>11
       DEF SysStep, Work, CollectsEvidence

(* Errors are logged at their place. *)
LEMMA ErrorsStayPlaced ==
    ASSUME SystemInv, ErrorsPlaced, NEW p \in Proc, SysStep(p) \/ SysCrash(p)
    PROVE  ErrorsPlaced'
  <1>1. Does(p) /\ LogGrows /\ ATypeOK /\ TreeInv /\ KernelTypes /\ LogTrue
    BY SysKernel, Parts DEF Does, SystemInv, KernelInv
  <1> SUFFICES ASSUME NEW i \in 1..Len(log'), log'[i].body.result = "error"
               PROVE  pc'[log'[i].body.by] \in AfterError
    BY DEF ErrorsPlaced
  <1>2. CASE i \in 1..Len(log)
    <2>1. log'[i] = log[i] /\ log[i].body.by \in Proc
      BY <1>1, <1>2 DEF LogGrows, LogTrue, TrueAt, EventBody
    <2>2. pc[log[i].body.by] \in AfterError
      BY <1>2, <2>1 DEF ErrorsPlaced
    <2>3. PICK q \in Proc : q = log[i].body.by
      BY <2>1
    <2>4. pc'[q] \in AfterError
      <3>1. q # p => pc'[q] = pc[q]
        BY <1>1 DEF Does, SameFor
      <3>2. q = p => pc'[q] \in AfterError
        BY <2>2, <2>3, SysPlaces
      <3> QED
        BY <2>2, <2>3, <3>1, <3>2
    <2> QED
      BY <2>1, <2>3, <2>4
  <1>3. CASE i \notin 1..Len(log)
    <2>1. /\ pc[p] \in LogPoint /\ log'[i].body.by = p
          /\ ResultAt(pc[p]) = "error"
      BY <1>3, NewestEvent
    <2>2. pc[p] = "outcome.error"
      BY <2>1 DEF ResultAt, LogPoint
    <2>3. pc'[p] \in AfterError
      BY <2>2, SysPlaces DEF AfterError
    <2> QED
      BY <2>1, <2>3
  <1> QED
    BY <1>2, <1>3

(* A step of p leaves the snapshots alone, takes some away, or writes what p *)
(* declares.                                                                 *)
LEMMA SysDir ==
    ASSUME SystemInv, NEW p \in Proc, SysStep(p) \/ SysCrash(p),
           NEW i \in DOMAIN dir'
    PROVE  \/ i \in DOMAIN dir /\ dir'[i] = dir[i]
           \/ pc[p] = "snap" /\ dir'[i].what = F!Declares(p)
  <1>1. CASE UNCHANGED dir
    BY <1>1
  <1>2. CASE RecordSnapshot(p)
    <2>1. CASE \E ok \in BOOLEAN : F!Link(p, ok)
      BY <2>1 DEF F!Link, F!sfiles
    <2>2. ASSUME NEW now \in F!ID, F!Truncate(p, now)
          PROVE  i \in DOMAIN dir /\ dir'[i] = dir[i]
      BY <2>2 DEF F!Truncate, F!Without, F!Restrict
    <2>3. CASE F!WriteFile(p, F!Declares(p))
      <3>1. PICK id : id = snapID[p]
        OBVIOUS
      <3>2. CASE dir' = F!Without(id)
        BY <3>2 DEF F!Without, F!Restrict
      <3>3. CASE dir' = [j \in DOMAIN dir \cup {id} |->
                            IF j = id THEN [prev |-> prevID[p], what |-> F!Declares(p)]
                            ELSE dir[j]]
        <4>1. CASE i = id
          BY <1>2, <3>3, <4>1 DEF RecordSnapshot
        <4>2. CASE i # id
          BY <3>3, <4>2
        <4> QED
          BY <4>1, <4>2
      <3> QED
        BY <2>3, <3>1, <3>2, <3>3 DEF F!WriteFile
    <2>4. CASE UNCHANGED dir \/ dir' = F!Without(snapID[p])
      BY <2>4 DEF F!Without, F!Restrict
    <2>5. F!Save(p, F!Declares(p)) \/ F!SaveFails(p, F!Declares(p))
             => \/ F!WriteFile(p, F!Declares(p))
                \/ UNCHANGED dir \/ dir' = F!Without(snapID[p])
      BY Zenon DEF F!Save, F!SaveFails, F!sfiles
    <2>6. \/ \E ok \in BOOLEAN : F!Link(p, ok)
          \/ \E now \in F!ID : F!Truncate(p, now)
          \/ F!Save(p, F!Declares(p)) \/ F!SaveFails(p, F!Declares(p))
      BY <1>2, Zenon DEF RecordSnapshot
    <2> QED
      BY <2>1, <2>2, <2>3, <2>4, <2>5, <2>6
  <1>3. UNCHANGED dir \/ RecordSnapshot(p)
    <2>1. CASE UNCHANGED policyVars
      BY <2>1 DEF policyVars
    <2>2. CASE Handler(p)
      <3>1. \/ F!Trigger(p, cmd[p].verb, cmd[p].path) \/ F!SetfaclOK(p)
            \/ F!SetfaclFails(p)
        BY <2>2, Zenon DEF Handler
      <3> QED
        BY <3>1 DEF F!Trigger, F!SetfaclOK, F!SetfaclFails, F!svars
    <2>3. CASE Capture(p) \/ F!FGone(p)
      BY <2>3 DEF Capture, F!Capture, F!Link, F!FGone, F!sfiles
    <2> QED
      BY <2>1, <2>2, <2>3, Zenon DEF SysStep, SysExit, SysCrash, StoreFails, LoadTarget
  <1> QED
    BY <1>1, <1>2, <1>3

(* A command that has declared its entries stays what it is. *)
LEMMA DeclarersStay ==
    ASSUME SystemInv, NEW p \in Proc, SysStep(p) \/ SysCrash(p),
           NEW i \in DOMAIN dir, i \in DOMAIN dir', dir'[i] = dir[i],
           NEW q \in Proc, DeclaredBy(i, q)
    PROVE  DeclaredBy(i, q)'
  <1>1. Does(p) /\ LogGrows /\ cmd' = cmd /\ ATypeOK /\ LogTrue
    BY SysKernel, Parts DEF Does, SystemInv, KernelInv
  <1>2. q \in ran' /\ pc'[q] \in Silent
    BY <1>1, SysPlaces DEF Does, SameFor, DeclaredBy
  <1>3. ~Logged(Len(log), q, "allow", "error")'
    <2> SUFFICES ASSUME NEW j \in 1..Len(log'), log'[j].body.by = q,
                        log'[j].body.decision = "allow",
                        log'[j].body.result = "error"
                 PROVE  FALSE
      BY DEF Logged
    <2>1. j \notin 1..Len(log)
      BY <1>1 DEF LogGrows, Logged, DeclaredBy
    <2>2. pc[p] \in LogPoint /\ p = q
      BY <2>1, NewestEvent
    <2> QED
      BY <2>2 DEF DeclaredBy, Silent, LogPoint, Ended
  <1> QED
    BY <1>1, <1>2, <1>3 DEF DeclaredBy

(* A step keeps the store in agreement with the log. *)
LEMMA StepDeclares ==
    ASSUME SystemInv, DeclarationInv, NEW p \in Proc, SysStep(p) \/ SysCrash(p)
    PROVE  DeclarationInv'
  <1>1. ErrorsPlaced'
    BY ErrorsStayPlaced DEF DeclarationInv
  <1>2. ASSUME NEW i \in DOMAIN dir', dir'[i].what.path \in Path
        PROVE  \E q \in Proc : DeclaredBy(i, q)'
    <2>1. CASE i \in DOMAIN dir /\ dir'[i] = dir[i]
      <3>1. PICK q \in Proc : DeclaredBy(i, q)
        BY <1>2, <2>1 DEF DeclarationInv
      <3> QED
        BY <2>1, <3>1, DeclarersStay
    <2>2. CASE pc[p] = "snap" /\ dir'[i].what = F!Declares(p)
      <3>1. FsControl(p) /\ Does(p) /\ cmd' = cmd
        BY SysKernel DEF SystemInv, Does
      <3>2. fphase[p] # "capture"
        <4>1. F!Declares(p).path \in Path /\ F!NoPath \notin Path
          BY <1>2, <2>2, SystemAssumption DEF F!NoPath
        <4> QED
          BY <4>1 DEF F!Declares
      <3>3. /\ cmd[p].kind = "fs" /\ p \in ran'
            /\ dir'[i].what = [verb |-> cmd[p].verb, path |-> cmd[p].path]
        BY <2>2, <3>1, <3>2 DEF FsControl, F!Declares, Does
      <3>4. pc'[p] \in Silent /\ log' = log
        BY <2>2, SysPlaces DEF Silent
      <3>5. ~Logged(Len(log), p, "allow", "error")
        BY <2>2 DEF Logged, DeclarationInv, ErrorsPlaced, AfterError, Ended
      <3>6. ~Logged(Len(log), p, "allow", "error")'
        BY <3>4, <3>5 DEF Logged
      <3>7. DeclaredBy(i, p)'
        BY <3>1, <3>3, <3>4, <3>6 DEF DeclaredBy
      <3> QED
        BY <3>7
    <2> QED
      BY <2>1, <2>2, SysDir
  <1> QED
    BY <1>1, <1>2 DEF DeclarationInv

(* main.go, runFs: what the store declares was durably announced, and the log *)
(* records neither a denial nor an error of it.                               *)
THEOREM DeclarationsAreBacked == SysSpec => []DeclarationsBacked
  <1>1. SysInit => DeclarationInv
    <2> SUFFICES ASSUME SysInit PROVE DeclarationInv
      OBVIOUS
    <2>1. Len(log) = 0
      BY DEF SysInit, Init, AInit
    <2>2. \A i \in DOMAIN dir : dir[i].what.path \notin Path
      BY SystemAssumption DEF SysInit, Captured
    <2>3. ErrorsPlaced
      <3>1. 1..Len(log) = {}
        BY <2>1
      <3> QED
        BY <3>1 DEF ErrorsPlaced
    <2> QED
      BY <2>2, <2>3 DEF DeclarationInv
  <1>2. SystemInv /\ DeclarationInv /\ [SysNext]_sysVars => DeclarationInv'
    <2> SUFFICES ASSUME SystemInv, DeclarationInv, [SysNext]_sysVars
                 PROVE  DeclarationInv'
      OBVIOUS
    <2>1. CASE UNCHANGED sysVars
      <3>1. /\ log' = log /\ pc' = pc /\ dir' = dir /\ cmd' = cmd /\ ran' = ran
        BY <2>1 DEF sysVars, vars, avars, policyVars
      <3>2. ErrorsPlaced'
        BY <3>1 DEF DeclarationInv, ErrorsPlaced
      <3>3. \A i, p : DeclaredBy(i, p) => DeclaredBy(i, p)'
        BY <3>1 DEF DeclaredBy, Logged
      <3> QED
        BY <3>1, <3>2, <3>3 DEF DeclarationInv
    <2> QED
      BY <2>1, StepDeclares DEF SysNext
  <1>3. SystemInv /\ DeclarationInv => DeclarationsBacked
    <2> SUFFICES ASSUME SystemInv, DeclarationInv,
                        NEW i \in DOMAIN dir, dir[i].what.path \in Path
                 PROVE  \E p \in Proc :
                           /\ cmd[p].kind = "fs"
                           /\ dir[i].what = [verb |-> cmd[p].verb, path |-> cmd[p].path]
                           /\ Logged(synced, p, "allow", "pending")
                           /\ ~Logged(Len(log), p, "allow", "error")
                           /\ ~Logged(Len(log), p, "deny", "failure")
      BY DEF DeclarationsBacked
    <2>1. PICK p \in Proc : DeclaredBy(i, p)
      BY DEF DeclarationInv
    <2>2. Logged(synced, p, "allow", "pending")
      BY <2>1 DEF DeclaredBy, SystemInv, KernelInv, Recorded
    <2>3. ~Logged(Len(log), p, "deny", "failure")
      BY <2>1 DEF DeclaredBy, Logged, SystemInv, KernelInv, LogTrue, TrueAt, Denied
    <2> QED
      BY <2>1, <2>2, <2>3 DEF DeclaredBy
  <1> QED
    BY <1>1, <1>2, <1>3, SystemInit, SystemNext, PTL DEF SysSpec

-----------------------------------------------------------------------------
(* What a rollback has verified. *)

(* As long as IDs increase, every file that is being written is empty and *)
(* belongs to one process.                                                *)
StoreInv ==
    /\ sphase \in [Proc -> {"idle", "linked", "truncated", "saved", "failed"}]
    /\ snapID \in [Proc -> 0..MaxTime]
    /\ empty \cap DOMAIN dir = {}
    /\ "clock" \notin smishaps =>
          \A p \in Proc : sphase[p] = "truncated" =>
              /\ snapID[p] \in empty
              /\ \A q \in Proc \ {p} : sphase[q] = "truncated" => snapID[q] # snapID[p]

Stands(p) == cmd[p].snapshot \in DOMAIN dir /\ dir[cmd[p].snapshot] = verified[p]

(* A rollback that is under way or on record has a target that stands. *)
RollbackInv ==
    /\ DOMAIN verified = Proc
    /\ "clock" \notin smishaps =>
          \A p \in Proc :
              /\ cmd[p].kind = "rollback"
              /\ \/ pc[p] \notin Ended \cup {"start"}
                 \/ Logged(Len(log), p, "allow", "pending")
              => Stands(p)

StoreEffect(p) ==
    \/ UNCHANGED <<dir, empty, partial, sphase, prevID, snapID, smishaps>>
    \/ \E ok \in BOOLEAN : F!Link(p, ok)
    \/ \E now \in F!ID : F!Truncate(p, now)
    \/ F!Save(p, F!Declares(p)) \/ F!SaveFails(p, F!Declares(p))
    \/ F!SGone({p}) /\ UNCHANGED <<dir, empty, partial, smishaps>>

(* Every step has such an effect on the store. *)
LEMMA SysStore ==
    ASSUME NEW p \in Proc, SysStep(p) \/ SysCrash(p)
    PROVE  StoreEffect(p)
  <1>1. CASE UNCHANGED policyVars
    BY <1>1 DEF policyVars, StoreEffect
  <1>2. CASE Handler(p)
    <2>1. \/ F!Trigger(p, cmd[p].verb, cmd[p].path) \/ F!SetfaclOK(p)
          \/ F!SetfaclFails(p)
      BY <1>2, Zenon DEF Handler
    <2> QED
      BY <2>1 DEF F!Trigger, F!SetfaclOK, F!SetfaclFails, F!svars, StoreEffect
  <1>3. CASE F!FGone(p)
    BY <1>3 DEF F!FGone, F!sfiles, StoreEffect
  <1>4. CASE Capture(p) \/ RecordSnapshot(p)
    BY <1>4, Zenon DEF Capture, F!Capture, RecordSnapshot, StoreEffect
  <1> QED
    BY <1>1, <1>2, <1>3, <1>4, Zenon DEF SysStep, SysExit, SysCrash, StoreFails,
                                         LoadTarget

(* No file is taken by two processes, and no whole one is written again. *)
LEMMA StoreKeeps ==
    ASSUME StoreInv, NEW p \in Proc, StoreEffect(p)
    PROVE  /\ StoreInv'
           /\ "clock" \notin smishaps' =>
                 /\ "clock" \notin smishaps
                 /\ \A i \in DOMAIN dir : i \in DOMAIN dir' /\ dir'[i] = dir[i]
  <1>1. CASE UNCHANGED <<dir, empty, partial, sphase, prevID, snapID, smishaps>>
    BY <1>1 DEF StoreInv
  <1>2. CASE \E ok \in BOOLEAN : F!Link(p, ok)
    <2>1. /\ UNCHANGED <<dir, empty, snapID>>
          /\ sphase' = [sphase EXCEPT ![p] = "linked"]
          /\ "clock" \in smishaps' <=> "clock" \in smishaps
      BY <1>2 DEF F!Link, F!sfiles
    <2> QED
      BY <2>1 DEF StoreInv
  <1>3. ASSUME NEW now \in F!ID, F!Truncate(p, now)
        PROVE  /\ StoreInv'
               /\ "clock" \notin smishaps' =>
                     /\ "clock" \notin smishaps
                     /\ \A i \in DOMAIN dir : i \in DOMAIN dir' /\ dir'[i] = dir[i]
    <2>1. now \in 0..MaxTime /\ now >= now
      BY SystemAssumption DEF F!ID
    <2>2. /\ DOMAIN dir' = DOMAIN dir \ {now} /\ empty' = empty \cup {now}
          /\ \A i \in DOMAIN dir' : dir'[i] = dir[i]
      BY <1>3 DEF F!Truncate, F!Without, F!Restrict
    <2>3. "clock" \notin smishaps' =>
             "clock" \notin smishaps /\ now \notin DOMAIN dir \cup empty
      BY <1>3, <2>1 DEF F!Truncate, F!Names, F!Torn
    <2>4. /\ sphase' = [sphase EXCEPT ![p] = "truncated"]
          /\ snapID' = [snapID EXCEPT ![p] = now]
      BY <1>3 DEF F!Truncate
    <2> QED
      BY <2>1, <2>2, <2>3, <2>4 DEF StoreInv
  <1>4. CASE F!Save(p, F!Declares(p)) \/ F!SaveFails(p, F!Declares(p))
    <2>1. /\ smishaps' = smishaps /\ snapID' = snapID
          /\ \E f \in {"saved", "failed"} : sphase' = [sphase EXCEPT ![p] = f]
      BY <1>4 DEF F!Save, F!SaveFails
    <2>2. \/ dir' = dir /\ empty' = empty
          \/ /\ sphase[p] = "truncated" /\ empty' = empty \ {snapID[p]}
             /\ \A i \in DOMAIN dir \ {snapID[p]} : i \in DOMAIN dir' /\ dir'[i] = dir[i]
             /\ DOMAIN dir' \subseteq DOMAIN dir \cup {snapID[p]}
      BY <1>4 DEF F!Save, F!SaveFails, F!WriteFile, F!sfiles, F!Without, F!Restrict
    <2> QED
      BY <2>1, <2>2 DEF StoreInv
  <1>5. CASE F!SGone({p}) /\ UNCHANGED <<dir, empty, partial, smishaps>>
    <2>1. /\ sphase' \in [Proc -> {"idle", "linked", "truncated", "saved", "failed"}]
          /\ snapID' \in [Proc -> 0..MaxTime]
          /\ \A q \in Proc : sphase'[q] = "truncated"
                => sphase[q] = "truncated" /\ snapID'[q] = snapID[q]
      BY <1>5, SystemAssumption DEF F!SGone, StoreInv
    <2> QED
      BY <1>5, <2>1 DEF StoreInv
  <1> QED
    BY <1>1, <1>2, <1>3, <1>4, <1>5 DEF StoreEffect

(* Only the first step of a rollback verifies. *)
LEMMA StepVerifies ==
    ASSUME NEW p \in Proc, SysStep(p) \/ SysCrash(p)
    PROVE  LoadTarget(p) \/ verified' = verified
  BY Zenon DEF SysStep, SysExit, SysCrash, StoreFails, Handler, Capture,
               RecordSnapshot, PolicyStep

(* Only the verification of its target starts a rollback. *)
LEMMA RollbackStarts ==
    ASSUME SystemInv, NEW p \in Proc, SysStep(p) \/ SysCrash(p),
           cmd[p].kind = "rollback"
    PROVE  /\ pc[p] = "start" => LoadTarget(p) \/ pc'[p] \in Ended \cup {"start"}
           /\ pc[p] \in Ended => pc'[p] \in Ended
  <1>1. KernelTypes /\ ATypeOK
    BY Parts DEF SystemInv
  <1>2. pc[p] \in Ended => pc'[p] \in Ended
    <2> SUFFICES ASSUME pc[p] \in Ended PROVE pc'[p] \in Ended
      OBVIOUS
    <2>1. pc'[p] \in Silent /\ pc'[p] \in AfterError
      BY SysPlaces DEF Silent, AfterError
    <2> QED
      BY <2>1 DEF Silent, AfterError, Ended
  <1>3. ASSUME pc[p] = "start" PROVE LoadTarget(p) \/ pc'[p] \in Ended \cup {"start"}
    <2>1. ~Work(p)
      <3>1. ~OpenLog(p) /\ ~LoadPosture(p)
        BY <1>3 DEF OpenLog, OpensAt, LoadPosture
      <3>2. ~LogWrites(p) /\ ~LogReturns(p)
        BY <1>3 DEF LogWrites, LogReturns, LogPoint
      <3>3. ~Execute(p) /\ ~SetPosture(p) /\ ~PersistPosture(p) /\ ~CloseLog(p)
        BY <1>3 DEF Execute, SetPosture, PersistPosture, CloseLog
      <3>4. ~CollectsEvidence(p)
        BY <1>3 DEF CollectsEvidence, ReadEvidence, CopyEvidence, WriteBundle,
                    WriteExport, PrintVerified
      <3> QED
        BY <3>1, <3>2, <3>3, <3>4 DEF Work, CollectsEvidence
    <2>2. CASE StoreFails(p)
      BY <1>1, <2>2 DEF StoreFails, Goto, KernelTypes, Ended
    <2>3. ~Handler(p) /\ ~Capture(p) /\ ~RecordSnapshot(p)
      <3>1. Handler(p) => pc[p] \in {"execute", "handler"}
        BY Zenon DEF Handler
      <3> QED
        BY <1>3, <3>1 DEF Capture, RecordSnapshot
    <2>4. ~SysExit(p)
      BY <1>3 DEF SysExit, Ended
    <2>5. CASE SysCrash(p)
      BY <1>1, <2>5 DEF SysCrash, Crash, Goto, KernelTypes, Ended
    <2> QED
      BY <2>1, <2>2, <2>3, <2>4, <2>5 DEF SysStep
  <1> QED
    BY <1>2, <1>3

(* A step logs only for its own process. *)
LEMMA OwnEvents ==
    ASSUME SystemInv, NEW p \in Proc, SysStep(p) \/ SysCrash(p), NEW q \in Proc \ {p},
           NEW d, NEW res, Logged(Len(log), q, d, res)'
    PROVE  Logged(Len(log), q, d, res)
  <1>1. LogGrows /\ ATypeOK
    BY SysKernel, Parts DEF Does, SystemInv
  <1>2. PICK i \in 1..Len(log') : /\ log'[i].body.by = q /\ log'[i].body.decision = d
                                  /\ log'[i].body.result = res
    BY DEF Logged
  <1>3. CASE i \in 1..Len(log)
    BY <1>1, <1>2, <1>3 DEF Logged, LogGrows
  <1>4. CASE i \notin 1..Len(log)
    <2>1. log'[i].body.by = p
      BY <1>4, NewestEvent
    <2> QED
      BY <1>2, <2>1
  <1> QED
    BY <1>3, <1>4

(* The target of a rollback stands while other commands write the store. *)
LEMMA StepRollback ==
    ASSUME SystemInv, StoreInv, RollbackInv, NEW p \in Proc, SysStep(p) \/ SysCrash(p)
    PROVE  StoreInv' /\ RollbackInv'
  <1>1. StoreEffect(p) /\ Does(p) /\ LogGrows /\ cmd' = cmd /\ KernelTypes /\ ATypeOK
    BY SysStore, SysKernel, Parts DEF Does, SystemInv
  <1>2. /\ StoreInv'
        /\ "clock" \notin smishaps' =>
              /\ "clock" \notin smishaps
              /\ \A i \in DOMAIN dir : i \in DOMAIN dir' /\ dir'[i] = dir[i]
    BY <1>1, StoreKeeps
  <1>3. ASSUME "clock" \notin smishaps', NEW q \in Proc, cmd[q].kind = "rollback",
               \/ pc'[q] \notin Ended \cup {"start"}
               \/ Logged(Len(log), q, "allow", "pending")'
        PROVE  Stands(q)'
    <2>1. CASE verified'[q] = verified[q] /\ Stands(q)
      BY <1>1, <1>2, <1>3, <2>1 DEF Stands
    <2>2. CASE LoadTarget(p) /\ q = p
      <3>1. /\ dir' = dir /\ log' = log /\ pc[p] = "start"
        BY <2>2 DEF LoadTarget, policyVars, avars
      <3>2. CASE cmd[p].snapshot \in DOMAIN dir
        BY <1>1, <2>2, <3>1, <3>2 DEF LoadTarget, Stands, RollbackInv
      <3>3. CASE cmd[p].snapshot \notin DOMAIN dir
        <4>1. pc'[p] = "died" /\ verified' = verified
          BY <1>1, <2>2, <3>3 DEF LoadTarget, Goto, KernelTypes
        <4>2. Logged(Len(log), q, "allow", "pending")
          BY <1>3, <2>2, <3>1, <4>1 DEF Ended, Logged
        <4>3. Stands(q)
          BY <1>2, <1>3, <4>2 DEF RollbackInv
        <4> QED
          BY <2>1, <4>1, <4>3
      <3> QED
        BY <3>2, <3>3
    <2>3. CASE ~LoadTarget(p) \/ q # p
      <3>1. verified'[q] = verified[q]
        <4>1. verified' = verified \/ (LoadTarget(p) /\ q # p)
          BY <2>3, StepVerifies
        <4>2. LoadTarget(p) /\ q # p => verified'[q] = verified[q]
          BY DEF LoadTarget, RollbackInv
        <4> QED
          BY <4>1, <4>2
      <3>2. \/ pc[q] \notin Ended \cup {"start"}
            \/ Logged(Len(log), q, "allow", "pending")
        <4>1. CASE q # p
          <5>1. pc'[q] = pc[q]
            BY <1>1, <4>1 DEF Does, SameFor
          <5>2. Logged(Len(log), q, "allow", "pending")'
                   => Logged(Len(log), q, "allow", "pending")
            BY <1>1, <4>1, OwnEvents
          <5> QED
            BY <1>3, <5>1, <5>2
        <4>2. CASE q = p /\ pc[p] \in Ended \cup {"start"}
          <5>1. pc'[p] \in Ended \cup {"start"}
            BY <1>3, <2>3, <4>2, RollbackStarts
          <5>2. log' = log
            BY <4>2, SysLog DEF LogPoint, Ended
          <5> QED
            BY <1>3, <4>2, <5>1, <5>2 DEF Logged
        <4> QED
          BY <4>1, <4>2
      <3>3. Stands(q)
        BY <1>2, <1>3, <3>2 DEF RollbackInv
      <3> QED
        BY <2>1, <3>1, <3>3
    <2> QED
      BY <2>2, <2>3
  <1>4. (DOMAIN verified = Proc)'
    <2>1. LoadTarget(p) => DOMAIN verified' = DOMAIN verified
      BY DEF LoadTarget
    <2> QED
      BY <2>1, StepVerifies DEF RollbackInv
  <1> QED
    BY <1>1, <1>2, <1>3, <1>4 DEF RollbackInv

(* cmd/emilyos/main.go, runSnapshotRollback: as long as IDs increase, the    *)
(* snapshot that the log names is the one that was verified.                 *)
THEOREM RollbacksStand == SysSpec => []RollbackStands
  <1>1. SysInit => StoreInv /\ RollbackInv
    <2> SUFFICES ASSUME SysInit PROVE StoreInv /\ RollbackInv
      OBVIOUS
    <2>1. StoreInv
      BY SystemAssumption DEF SysInit, F!SIdle, StoreInv
    <2>2. \A p \in Proc : pc[p] = "start" /\ Len(log) = 0
      BY DEF SysInit, Init, AInit
    <2> QED
      BY <2>1, <2>2 DEF SysInit, RollbackInv, Logged
  <1>2. SystemInv /\ StoreInv /\ RollbackInv /\ [SysNext]_sysVars
           => (StoreInv /\ RollbackInv)'
    <2> SUFFICES ASSUME SystemInv, StoreInv, RollbackInv, [SysNext]_sysVars
                 PROVE  (StoreInv /\ RollbackInv)'
      OBVIOUS
    <2>1. CASE UNCHANGED sysVars
      <3>1. StoreInv'
        BY <2>1 DEF sysVars, policyVars, StoreInv
      <3>2. RollbackInv'
        BY <2>1 DEF sysVars, vars, avars, policyVars, RollbackInv, Stands, Logged
      <3> QED
        BY <3>1, <3>2
    <2> QED
      BY <2>1, StepRollback DEF SysNext
  <1>3. RollbackInv => RollbackStands
    BY DEF RollbackInv, RollbackStands, Stands
  <1> QED
    BY <1>1, <1>2, <1>3, SystemInit, SystemNext, PTL DEF SysSpec

(* policy/snapshot.go:3: in the commands too no whole snapshot is changed     *)
(* while IDs increase; whether writers overlap does not matter.               *)
THEOREM SystemSnapshotsStay == SysSpec => F!OrderedSnapshotsImmutable
  <1>1. SysInit => StoreInv
    BY SystemAssumption DEF SysInit, F!SIdle, StoreInv
  <1>2. StoreInv /\ [SysNext]_sysVars
           => /\ StoreInv'
              /\ "clock" \notin smishaps' =>
                    \A i \in DOMAIN dir : i \in DOMAIN dir' /\ dir'[i] = dir[i]
    <2> SUFFICES ASSUME StoreInv, [SysNext]_sysVars
                 PROVE  /\ StoreInv'
                        /\ "clock" \notin smishaps' =>
                              \A i \in DOMAIN dir : i \in DOMAIN dir' /\ dir'[i] = dir[i]
      OBVIOUS
    <2>1. CASE UNCHANGED sysVars
      BY <2>1 DEF sysVars, policyVars, StoreInv
    <2> QED
      BY <2>1, SysStore, StoreKeeps DEF SysNext
  <1>3. StoreInv /\ [SysNext]_sysVars
           => [\A i \in DOMAIN dir : "clock" \notin smishaps'
                  => i \in DOMAIN dir' /\ dir'[i] = dir[i]]_(F!svars)
    BY <1>2
  <1> QED
    BY <1>1, <1>2, <1>3, PTL DEF SysSpec, F!OrderedSnapshotsImmutable

-----------------------------------------------------------------------------
(* The types of the store. *)

(* A set of times that is not empty has a last one. *)
LEMMA LastTime ==
    ASSUME NEW S \in SUBSET (0..MaxTime), S # {}
    PROVE  F!Max(S) \in S
  <1> DEFINE R == {ss \in Nat \X Nat : ss[1] < ss[2]}
             T == {n \in Nat : MaxTime - n \in S}
  <1>1. MaxTime \in Nat
    BY SystemAssumption
  <1>2. IsWellFoundedOn(R, Nat)
    BY NatLessThanWellFounded DEF OpToRel
  <1>3. T \subseteq Nat /\ T # {}
    <2>1. PICK i \in S : i \in 0..MaxTime
      OBVIOUS
    <2>2. MaxTime - i \in Nat /\ MaxTime - (MaxTime - i) = i
      BY <1>1, <2>1
    <2> QED
      BY <2>2
  <1>4. PICK t \in T : \A u \in T : ~(<<u, t>> \in R)
    <2> HIDE DEF R, T
    <2> QED
      BY <1>2, <1>3, WFMin
  <1>5. PICK i \in S : i = MaxTime - t
    OBVIOUS
  <1>6. \A j \in S : i >= j
    <2> SUFFICES ASSUME NEW j \in S PROVE i >= j
      OBVIOUS
    <2>1. MaxTime - j \in Nat /\ MaxTime - (MaxTime - j) = j /\ t \in Nat
      BY <1>1
    <2>2. ~(MaxTime - j < t)
      BY <1>4, <2>1
    <2> QED
      BY <1>1, <1>5, <2>1, <2>2
  <1> QED
    BY <1>6 DEF F!Max

(* Every file that is being written has an ID of the clock. *)
StoreTypes ==
    /\ F!STypeOK
    /\ \A p \in Proc : sphase[p] = "truncated" => snapID[p] \in F!ID
    /\ verified \in [Proc -> F!Snapshot \cup {NoSnapshot}]

(* The latest ID is an ID, or 0. *)
LEMMA LatestTime ==
    ASSUME F!STypeOK
    PROVE  F!LatestID \in 0..MaxTime
  <1>1. F!Names \in SUBSET (0..MaxTime)
    BY SystemAssumption DEF F!STypeOK, F!Names, F!Torn, F!ID
  <1>2. F!Names # {} => F!Max(F!Names) \in F!Names
    BY <1>1, LastTime
  <1>3. 0 \in 0..MaxTime
    BY SystemAssumption
  <1> QED
    BY <1>1, <1>2, <1>3 DEF F!LatestID

(* Taking a file out of the directory leaves snapshots. *)
LEMMA WithoutTypes ==
    ASSUME F!STypeOK, NEW id
    PROVE  /\ DOMAIN F!Without(id) = DOMAIN dir \ {id}
           /\ F!Without(id) \in [DOMAIN F!Without(id) -> F!Snapshot]
  BY DEF F!STypeOK, F!Without, F!Restrict

(* A write of a snapshot keeps the types. *)
LEMMA WriteTypes ==
    ASSUME F!STypeOK, FsTypes, NEW p \in Proc, snapID[p] \in F!ID,
           F!WriteFile(p, F!Declares(p)), UNCHANGED <<prevID, snapID, smishaps>>,
           NEW f \in {"saved", "failed"}, sphase' = [sphase EXCEPT ![p] = f]
    PROVE  F!STypeOK'
  <1> DEFINE id == snapID[p]
             snap == [prev |-> prevID[p], what |-> F!Declares(p)]
  <1>1. snap \in F!Snapshot
    <2>1. F!Declares(p) \in What
      BY DEF F!Declares, FsTypes, What, F!Verb, F!NoPath
    <2> QED
      BY <2>1 DEF F!Snapshot, F!STypeOK
  <1>2. /\ dir' \in [DOMAIN dir' -> F!Snapshot] /\ empty' = empty \ {id}
        /\ \/ DOMAIN dir' = DOMAIN dir \cup {id} /\ partial' = partial \ {id}
           \/ DOMAIN dir' = DOMAIN dir \ {id} /\ partial' = partial \cup {id}
    <2>1. CASE dir' = [i \in DOMAIN dir \cup {id} |-> IF i = id THEN snap ELSE dir[i]]
                  /\ partial' = partial \ {id}
      BY <1>1, <2>1 DEF F!WriteFile, F!STypeOK
    <2>2. CASE dir' = F!Without(id) /\ partial' = partial \cup {id}
      BY <2>2, WithoutTypes DEF F!WriteFile
    <2> QED
      BY <2>1, <2>2 DEF F!WriteFile
  <1> HIDE DEF snap
  <1> QED
    BY <1>1, <1>2 DEF F!STypeOK

(* Every effect on the store keeps its types. *)
LEMMA EffectTypes ==
    ASSUME F!STypeOK, FsTypes, NEW p \in Proc, StoreEffect(p),
           \A q \in Proc : sphase[q] = "truncated" => snapID[q] \in F!ID
    PROVE  /\ F!STypeOK'
           /\ \A q \in Proc : sphase'[q] = "truncated" => snapID'[q] \in F!ID
  <1>1. F!ID \subseteq 0..MaxTime /\ 0 \in 0..MaxTime
    BY SystemAssumption DEF F!ID
  <1>2. CASE UNCHANGED <<dir, empty, partial, sphase, prevID, snapID, smishaps>>
    BY <1>2 DEF F!STypeOK, F!ID, F!Snapshot
  <1>3. ASSUME NEW ok \in BOOLEAN, F!Link(p, ok)
        PROVE  /\ F!STypeOK'
               /\ \A q \in Proc : sphase'[q] = "truncated" => snapID'[q] \in F!ID
    <2>1. PICK n \in 0..MaxTime : prevID' = [prevID EXCEPT ![p] = n]
      BY <1>1, <1>3, LatestTime DEF F!Link
    <2>2. /\ UNCHANGED <<dir, empty, partial, snapID>>
          /\ sphase' = [sphase EXCEPT ![p] = "linked"]
          /\ smishaps' \subseteq smishaps \cup {"overlap", "unread"}
      BY <1>3 DEF F!Link, F!sfiles
    <2> QED
      BY <2>1, <2>2 DEF F!STypeOK, F!ID, F!Snapshot
  <1>4. ASSUME NEW now \in F!ID, F!Truncate(p, now)
        PROVE  /\ F!STypeOK'
               /\ \A q \in Proc : sphase'[q] = "truncated" => snapID'[q] \in F!ID
    <2>1. DOMAIN dir' = DOMAIN dir \ {now} /\ dir' \in [DOMAIN dir' -> F!Snapshot]
      BY <1>4, WithoutTypes DEF F!Truncate
    <2> QED
      BY <1>1, <1>4, <2>1 DEF F!Truncate, F!STypeOK
  <1>5. CASE F!Save(p, F!Declares(p)) \/ F!SaveFails(p, F!Declares(p))
    <2>1. PICK f \in {"saved", "failed"} : sphase' = [sphase EXCEPT ![p] = f]
      BY <1>5 DEF F!Save, F!SaveFails
    <2>2. UNCHANGED <<prevID, snapID, smishaps>>
      BY <1>5 DEF F!Save, F!SaveFails
    <2>3. \A q \in Proc : sphase'[q] = "truncated" => snapID'[q] \in F!ID
      BY <2>1, <2>2 DEF F!STypeOK
    <2>4. CASE sphase[p] = "truncated" /\ F!WriteFile(p, F!Declares(p))
      BY <2>1, <2>2, <2>3, <2>4, WriteTypes
    <2>5. CASE \/ UNCHANGED <<dir, empty, partial>>
               \/ /\ sphase[p] = "truncated" /\ dir' = F!Without(snapID[p])
                  /\ empty' = empty \ {snapID[p]}
                  /\ partial' = partial \cup {snapID[p]}
      <3>1. \/ UNCHANGED <<dir, empty, partial>>
            \/ /\ dir' \in [DOMAIN dir' -> F!Snapshot] /\ empty' = empty \ {snapID[p]}
               /\ DOMAIN dir' = DOMAIN dir \ {snapID[p]} /\ snapID[p] \in F!ID
               /\ partial' = partial \cup {snapID[p]}
        BY <2>5, WithoutTypes
      <3>2. F!STypeOK'
        BY <2>1, <2>2, <3>1 DEF F!STypeOK
      <3> QED
        BY <2>3, <3>2
    <2> QED
      BY <1>5, <2>4, <2>5, Zenon DEF F!Save, F!SaveFails, F!sfiles
  <1>6. CASE F!SGone({p}) /\ UNCHANGED <<dir, empty, partial, smishaps>>
    <2>1. /\ sphase' \in [Proc -> {"idle", "linked", "truncated", "saved", "failed"}]
          /\ prevID' \in [Proc -> 0..MaxTime] /\ snapID' \in [Proc -> 0..MaxTime]
          /\ \A q \in Proc : sphase'[q] = "truncated"
                => sphase[q] = "truncated" /\ snapID'[q] = snapID[q]
      BY <1>1, <1>6 DEF F!SGone, F!STypeOK
    <2> QED
      BY <1>6, <2>1 DEF F!STypeOK
  <1> QED
    BY <1>2, <1>3, <1>4, <1>5, <1>6 DEF StoreEffect

(* A step keeps the types of the store and of what was verified. *)
LEMMA StepStoreTypes ==
    ASSUME SystemInv, StoreTypes, NEW p \in Proc, SysStep(p) \/ SysCrash(p)
    PROVE  StoreTypes'
  <1>1. /\ F!STypeOK'
        /\ \A q \in Proc : sphase'[q] = "truncated" => snapID'[q] \in F!ID
    BY SysStore, EffectTypes DEF SystemInv, StoreTypes
  <1>2. verified' \in [Proc -> F!Snapshot \cup {NoSnapshot}]
    <2>1. CASE LoadTarget(p)
      <3>1. cmd[p].snapshot \in DOMAIN dir => dir[cmd[p].snapshot] \in F!Snapshot
        BY DEF StoreTypes, F!STypeOK
      <3> QED
        BY <2>1, <3>1 DEF LoadTarget, StoreTypes
    <2>2. CASE verified' = verified
      BY <2>2 DEF StoreTypes
    <2> QED
      BY <2>1, <2>2, StepVerifies
  <1>3. (F!ID)' = F!ID /\ (F!Snapshot)' = F!Snapshot
    BY DEF F!ID, F!Snapshot
  <1> QED
    BY <1>1, <1>2, <1>3 DEF StoreTypes

(* The state of the commands over the store keeps its types: IDs in the store *)
(* are times, no file is both whole and torn, and what a rollback has         *)
(* verified is a snapshot.                                                    *)
THEOREM SystemTypeCorrect == SysSpec => []SysTypeOK
  <1>1. SysInit => StoreTypes
    <2> SUFFICES ASSUME SysInit PROVE StoreTypes
      OBVIOUS
    <2>1. PICK ids \in StartIDs : dir = [i \in ids |-> Captured]
      BY DEF SysInit
    <2>2. ids \subseteq F!ID /\ 0 \in 0..MaxTime
      BY SystemAssumption
    <2>3. Captured \in F!Snapshot
      BY <2>2 DEF Captured, F!Snapshot, What
    <2>4. F!SIdle
      BY DEF SysInit
    <2>5. F!STypeOK
      BY <2>1, <2>2, <2>3, <2>4 DEF F!SIdle, F!STypeOK
    <2> QED
      BY <2>4, <2>5 DEF SysInit, F!SIdle, StoreTypes
  <1>2. SystemInv /\ StoreTypes /\ [SysNext]_sysVars => StoreTypes'
    <2> SUFFICES ASSUME SystemInv, StoreTypes, [SysNext]_sysVars PROVE StoreTypes'
      OBVIOUS
    <2>1. CASE UNCHANGED sysVars
      BY <2>1 DEF sysVars, policyVars, StoreTypes, F!STypeOK, F!ID, F!Snapshot
    <2> QED
      BY <2>1, StepStoreTypes DEF SysNext
  <1>3. SystemInv /\ StoreTypes => SysTypeOK
    <2> SUFFICES ASSUME SystemInv, StoreTypes PROVE SysTypeOK
      OBVIOUS
    <2>1. TypeOK
      BY DEF SystemInv, KernelInv, TreeInv, PostureInv, KernelTypes, Bundle, TypeOK
    <2>2. F!STypeOK /\ FsTypes /\ 0 \in 0..0
      BY DEF StoreTypes, SystemInv
    <2>3. F!TypeOK
      BY <2>2, Zenon DEF FsTypes, F!TypeOK
    <2> QED
      BY <2>1, <2>3 DEF StoreTypes, SysTypeOK
  <1> QED
    BY <1>1, <1>2, <1>3, SystemInit, SystemNext, PTL DEF SysSpec
=============================================================================
