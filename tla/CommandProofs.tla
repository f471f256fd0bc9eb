--------------------------- MODULE CommandProofs ---------------------------
(***************************************************************************)
(* Proofs about System.  What KernelProofs and HistoryProofs prove of the  *)
(* commands of Kernel holds with the commands over the snapshot store as   *)
(* well, and the log tells the entries that the setfacl calls have made.   *)
(***************************************************************************)
EXTENDS StoreProofs, HistoryProofs

(* A step of System that is none of Kernel. *)
Quiet(p) ==
    /\ UNCHANGED <<avars, pvars, cmd, bundle, changed>>
    /\ pc[p] \in {"start", "pending", "deny", "execute", "handler", "snap"}
    /\ pc'[p] \in {"verified", "handler", "outcome.ok", "outcome.error", "snap",
                   "done", "died"}
    /\ pc[p] # "start" \/ NoteStart(p)
    /\ overlapped => overlapped'
    /\ Fault \/ NoFault
    /\ ran' = ran \/ (ran' = ran \cup {p} /\ pc[p] \in {"execute", "handler"})
    /\ pc'[p] \in Afterwards => ran' = ran /\ pc[p] \in {"start", "pending", "deny", "snap"}

(* The steps of System, as the log and the posture see them. *)
LEMMA SysSplit ==
    ASSUME SystemInv, NEW p \in Proc, SysStep(p) \/ SysCrash(p)
    PROVE  Step(p) \/ Crash(p) \/ UNCHANGED vars \/ Quiet(p)
  <1>1. KernelTypes /\ FsControl(p)
    BY Parts DEF SystemInv
  <1>2. CASE StoreFails(p)
    <2>1. /\ UNCHANGED <<avars, pvars, cmd, bundle, changed>> /\ ran' = ran /\ Fault
          /\ pc[p] \in {"start", "pending", "deny"} /\ pc'[p] = "died" /\ NoteStart(p)
      BY <1>1, <1>2 DEF StoreFails, PolicyStep, Goto, KernelTypes
    <2>2. overlapped => overlapped'
      BY <2>1, Zenon DEF NoteStart
    <2> QED
      BY <2>1, <2>2 DEF Quiet
  <1>3. CASE LoadTarget(p) \/ Capture(p)
    <2>1. /\ UNCHANGED <<avars, pvars, cmd, bundle, changed>> /\ ran' = ran
          /\ pc[p] = "start" /\ pc'[p] \in {"verified", "died", "snap"} /\ NoteStart(p)
      BY <1>1, <1>3 DEF LoadTarget, Capture, PolicyStep, Keep, Goto, KernelTypes
    <2>2. overlapped => overlapped'
      BY <2>1, Zenon DEF NoteStart
    <2>3. Fault \/ NoFault
      BY <1>3, Zenon DEF LoadTarget, Capture
    <2> QED
      BY <2>1, <2>2, <2>3 DEF Quiet
  <1>4. CASE Handler(p)
    <2>1. PICK l \in {"handler", "outcome.ok", "outcome.error"} : Goto(p, l)
      BY <1>4, Zenon DEF Handler
    <2>2. /\ pc[p] \in {"execute", "handler"} /\ (Fault \/ NoFault)
          /\ ran' = ran \/ ran' = ran \cup {p}
      BY <1>4, Zenon DEF Handler
    <2>3. UNCHANGED <<avars, pvars, cmd, bundle, changed, overlapped>>
      BY <1>4, Zenon DEF Handler, PolicyStep
    <2>4. pc'[p] = l
      BY <1>1, <2>1 DEF Goto, KernelTypes
    <2> QED
      BY <2>1, <2>2, <2>3, <2>4 DEF Quiet, Afterwards, Ended
  <1>5. CASE RecordSnapshot(p)
    <2>1. /\ UNCHANGED <<avars, pvars, cmd, bundle, changed, overlapped>> /\ ran' = ran
          /\ pc[p] = "snap"
      BY <1>5, Zenon DEF RecordSnapshot, PolicyStep
    <2>2. Fault \/ NoFault
      BY <1>5, Zenon DEF RecordSnapshot
    <2>3. PICK l \in {"snap", "done", "died"} : Goto(p, l)
      BY <1>5, Zenon DEF RecordSnapshot
    <2>4. pc'[p] = l
      BY <1>1, <2>3 DEF Goto, KernelTypes
    <2> QED
      BY <2>1, <2>2, <2>3, <2>4 DEF Quiet
  <1> QED
    BY <1>2, <1>3, <1>4, <1>5 DEF SysStep, SysExit, SysCrash, Step

(* A quiet step is the step of a process that is alive, or starts. *)
LEMMA QuietActs ==
    ASSUME NEW p \in Proc, Quiet(p), Does(p)
    PROVE  Acts(p) /\ Apart(p)
  <1>1. Alive(p) \/ (pc[p] = "start" /\ NoteStart(p))
    BY DEF Quiet, Alive, Ended
  <1>2. Apart(p)
    BY DEF Quiet, Apart, avars, pvars, Ended
  <1> QED
    BY <1>1, <1>2 DEF Acts, Quiet

(* What holds without overlap goes on to hold. *)
LEMMA QuietAlone ==
    ASSUME SystemInv, AloneInv, NEW p \in Proc, Quiet(p), Does(p), KernelInv'
    PROVE  AloneInv'
  <1>1. KernelInv /\ Alone /\ SerialInv /\ TreeInv /\ Acts(p)
    BY QuietActs DEF SystemInv, KernelInv, AloneInv
  <1>2. SerialInv'
    BY <1>1, SerialNext DEF Quiet
  <1>3. Alone'
    <2>1. mishaps' = mishaps
      BY DEF Quiet, avars
    <2>2. ASSUME ~overlapped'
          PROVE  ~overlapped /\ \A q, r \in Proc : Alive(q)' /\ Alive(r)' => q = r
      BY <1>1, <2>2, StepAlone DEF Acts
    <2>3. torn' => faults' > 0
      <3>1. torn' = torn /\ faults \in Nat /\ faults' \in {faults, faults + 1}
        BY Parts, KernelAssumption DEF Quiet, avars, Fault, NoFault, SystemInv, KernelTypes
      <3> QED
        BY <1>1, <3>1 DEF Alone
    <2> QED
      BY <1>1, <2>1, <2>2, <2>3 DEF Alone
  <1>4. Evidence(p)'
    <2>1. /\ bundle' = bundle /\ pc'[p] \notin {"copy", "write"}
          /\ pc[p] \notin {"copy", "write"} \cup Ended
      BY DEF Quiet, Ended
    <2>2. ~bundle[p].written /\ bundle[p].count = 0
      BY <2>1 DEF AloneInv, Evidence
    <2> QED
      BY <2>1, <2>2 DEF Evidence
  <1>5. \A q \in Proc : Evidence(q)'
    BY <1>1, <1>4, OthersEvidence DEF AloneInv, Acts
  <1> QED
    BY <1>2, <1>3, <1>5 DEF AloneInv

(* A step of System keeps what holds without overlap, and the history. *)
LEMMA SysSerialStep ==
    ASSUME SystemInv, AloneInv, HistoryInv, NEW p \in Proc, SysStep(p) \/ SysCrash(p)
    PROVE  AloneInv' /\ HistoryInv'
  <1>1. KernelInv /\ KernelInv' /\ Does(p) /\ Alone
    BY SysKernel DEF SystemInv, AloneInv
  <1>2. CASE Step(p) \/ Crash(p)
    BY <1>1, <1>2, StepAloneInv, StepHistory
  <1>3. CASE UNCHANGED vars
    BY <1>1, <1>3, AloneNext, StutterHistory
  <1>4. CASE Quiet(p)
    BY <1>1, <1>4, QuietAlone, QuietActs, ApartHistory
  <1> QED
    BY <1>2, <1>3, <1>4, SysSplit

(* At first nothing runs. *)
LEMMA SysSerialInit == SysInit => AloneInv /\ HistoryInv
  BY AloneInit, HistoryInit DEF SysInit

(* No step of System breaks what holds without overlap, nor the history. *)
LEMMA SysSerialNext ==
    SystemInv /\ AloneInv /\ HistoryInv /\ [SysNext]_sysVars => (AloneInv /\ HistoryInv)'
  <1> SUFFICES ASSUME SystemInv, AloneInv, HistoryInv, [SysNext]_sysVars
               PROVE  AloneInv' /\ HistoryInv'
    OBVIOUS
  <1>1. CASE UNCHANGED sysVars
    <2>1. UNCHANGED vars /\ KernelInv
      BY <1>1 DEF sysVars, SystemInv
    <2> QED
      BY <2>1, AloneNext, StutterHistory
  <1> QED
    BY <1>1, SysSerialStep DEF SysNext

(* Commands of every kind that do not overlap leave a log that "audit verify" *)
(* accepts, unless a failed write has left a fragment at its end, and none    *)
(* logs again through a Logger that failed.                                   *)
THEOREM SystemKeepsChain == SysSpec => []ChainIntact
  <1>1. SystemInv /\ AloneInv => ChainIntact
    BY AloneChain DEF SystemInv
  <1> QED
    BY <1>1, SystemInit, SystemNext, SysSerialInit, SysSerialNext, PTL DEF SysSpec

(* main.go, audit bundle, export and verify: what EvidenceHolds says, with    *)
(* the commands over the snapshot store beside those that collect evidence.   *)
THEOREM SystemEvidence == SysSpec => []EvidenceConsistent
  <1> QED
    BY EvidenceOut, SystemInit, SystemNext, SysSerialInit, SysSerialNext, PTL DEF SysSpec

(* main.go, posture set and audit history: what HistoryIsTrue says, with the  *)
(* commands over the snapshot store between the posture changes.              *)
THEOREM SystemHistoryIsTrue == SysSpec => []HistoryTellsPosture
  BY HistoryShows, SystemInit, SystemNext, SysSerialInit, SysSerialNext, PTL DEF SysSpec

(* dispatch.go: neither a verb's handler nor that of "fs grant|revoke" runs   *)
(* when the posture of the system forbids it, without overlap and without a   *)
(* power loss that destroys the posture file.                                 *)
THEOREM SystemObeysPosture == SysSpec => SerialRunsObeyPosture
  <1>1. SystemInv /\ [SysNext]_sysVars
           => [\A p \in ran' \ ran : ~overlapped /\ pmishaps = {}
                   => ~Forbids(posture, cmd[p])]_vars
    <2> SUFFICES ASSUME SystemInv, [SysNext]_sysVars, NEW q \in ran' \ ran,
                        pmishaps = {}
                 PROVE  ~Forbids(posture, cmd[q])
      OBVIOUS
    <2>1. PICK p \in Proc : SysStep(p) \/ SysCrash(p)
      BY DEF SysNext, sysVars, vars
    <2>2. CASE Step(p) \/ Crash(p)
      BY <2>2, StepRuns, RunsObey DEF SystemInv
    <2>3. CASE Quiet(p)
      <3>1. q = p /\ pc[p] \in {"execute", "handler"}
        BY <2>3 DEF Quiet
      <3>2. pc[p] # "handler"
        BY <3>1 DEF SystemInv, FsControl
      <3> QED
        BY <3>1, <3>2, RunsObey DEF SystemInv
    <2> QED
      BY <2>1, <2>2, <2>3, SysSplit DEF vars
  <1> QED
    BY <1>1, SystemInit, SystemNext, PTL DEF SysSpec, SerialRunsObeyPosture

(* A quiet step leaves no command that ran at its end without its outcome. *)
LEMMA QuietComplete ==
    ASSUME SystemInv, NEW p \in Proc, Quiet(p), Does(p), Complete(p)
    PROVE  Complete(p)'
  <1> SUFFICES ASSUME ~failed'[p], pc'[p] \in Afterwards
               PROVE  /\ p \in ran' => \E res \in {"success", "error"} :
                                           Logged(synced, p, "allow", res)'
                      /\ p \in changed' => \/ Logged(synced, p, "allow", "success")'
                                           \/ /\ "close" \in pmishaps'
                                              /\ Logged(synced, p, "deny", "failure")'
    <2>1. pc'[p] # "denied"
      BY DEF Quiet
    <2> QED
      BY <2>1 DEF Complete, Dispatches, callerRole
  <1>1. KernelTypes /\ Control(p)
    BY Parts DEF SystemInv
  <1>2. ~failed[p] /\ pmishaps' = pmishaps
    BY DEF Quiet, avars, pvars
  <1>3. pc[p] \in {"start", "pending", "deny", "snap"} /\ ran' = ran /\ changed' = changed
    BY DEF Quiet
  <1>4. \A d, res : Logged(synced, p, d, res) => Logged(synced, p, d, res)'
    BY SyncedStays DEF Does
  <1> QED
    BY <1>1, <1>2, <1>3, <1>4 DEF Complete, Control, Untouched, Afterwards

(* dispatch.go, runPosture and runFs: a refusal and an outcome are on stable  *)
(* storage when the command ends, the commands over the snapshot store        *)
(* included, unless one of its own Log calls has returned an error.           *)
THEOREM SystemRecordsOutcomes == SysSpec => []OutcomesRecorded
  <1> DEFINE C == \A p \in Proc : Complete(p)
  <1>1. SysInit => C
    BY DEF SysInit, Init, Complete, Afterwards, Ended
  <1>2. SystemInv /\ C /\ [SysNext]_sysVars => C'
    <2> SUFFICES ASSUME SystemInv, C, [SysNext]_sysVars, NEW q \in Proc
                 PROVE  Complete(q)'
      OBVIOUS
    <2>1. KernelInv
      BY DEF SystemInv
    <2>2. CASE UNCHANGED vars
      BY <2>2, CompleteStays
    <2>3. ASSUME NEW p \in Proc, SysStep(p) \/ SysCrash(p), Step(p) \/ Crash(p)
          PROVE  Complete(q)'
      <3>1. Does(p)
        BY <2>1, <2>3, StepKernel
      <3> QED
        BY <2>1, <2>3, <3>1, OwnComplete, OthersComplete
    <2>4. ASSUME NEW p \in Proc, SysStep(p) \/ SysCrash(p), Quiet(p)
          PROVE  Complete(q)'
      <3>1. Does(p)
        BY <2>4, SysKernel
      <3> QED
        BY <2>4, <3>1, QuietComplete, OthersComplete
    <2>5. CASE UNCHANGED sysVars
      BY <2>2, <2>5 DEF sysVars
    <2> QED
      BY <2>2, <2>3, <2>4, <2>5, SysSplit DEF SysNext
  <1>3. C => OutcomesRecorded
    BY DEF Complete, OutcomesRecorded, Afterwards
  <1> QED
    BY <1>1, <1>2, <1>3, SystemInit, SystemNext, PTL DEF SysSpec

(* audit/log.go:64: every behaviour of the commands of every kind is a        *)
(* behaviour of Ledger.                                                       *)
THEOREM SystemKeepsLedger == SysSpec => ImplementsLedger
  <1>1. SysInit => Abstract!Init
    BY LedgerInit DEF SysInit, Init
  <1>2. SystemInv /\ [SysNext]_sysVars => [Abstract!Next]_<<Bodies, synced>>
    <2> SUFFICES ASSUME SystemInv, [SysNext]_sysVars
                 PROVE  [Abstract!Next]_<<Bodies, synced>>
      OBVIOUS
    <2>1. KernelInv /\ TreeInv
      BY DEF SystemInv, KernelInv
    <2>2. CASE UNCHANGED vars \/ UNCHANGED sysVars
      BY <2>1, <2>2, LedgerStays DEF sysVars, vars, avars
    <2>3. ASSUME NEW p \in Proc, Quiet(p) PROVE [Abstract!Next]_<<Bodies, synced>>
      BY <2>1, <2>3, LedgerStays DEF Quiet, avars
    <2> QED
      BY <2>1, <2>2, <2>3, SysSplit, StepLedger DEF SysNext
  <1> QED
    BY <1>1, <1>2, SystemInit, SystemNext, PTL
       DEF SysSpec, ImplementsLedger, Abstract!Spec

(* cmd/emilyos and ada/posture: the commands over the snapshot store leave    *)
(* the posture alone, and the others move it as the Ada port does.            *)
THEOREM SystemImplementsPort == SysSpec => ImplementsPort
  <1>1. SystemInv /\ [SysNext]_sysVars
           => [pmishaps' = {} => [Port!Next]_posture]_pvars
    <2> SUFFICES ASSUME SystemInv, [SysNext]_sysVars, pmishaps' = {},
                        posture' # posture
                 PROVE  Port!Next
      OBVIOUS
    <2>1. KernelInv /\ PostureInv
      BY DEF SystemInv, KernelInv
    <2>2. PICK p \in Proc : SysStep(p) \/ SysCrash(p)
      BY DEF SysNext, sysVars, vars, pvars
    <2>3. Persist(p)
      BY <2>1, <2>2, SysSplit, StepPosture DEF Quiet, vars, pvars
    <2> QED
      BY <2>1, <2>3, PortPersist
  <1> QED
    BY <1>1, SystemInit, SystemNext, PTL DEF SysSpec, ImplementsPort

-----------------------------------------------------------------------------
(* What the log tells about the entries. *)

(* Where a process is that has logged a success. *)
AfterSuccess == {"outcome.ok", "set.allowed", "close", "read", "copy", "write", "snap"}
                    \cup Ended

(* A process with an event has started, and one with a success is past it. *)
Placed ==
    \A i \in 1..Len(log) :
        /\ pc[log[i].body.by] # "start"
        /\ log[i].body.result = "success" => pc[log[i].body.by] \in AfterSuccess

(* Without overlap nobody logs after a process that is still alive. *)
Latest ==
    ~overlapped => \A i, j \in 1..Len(log) :
        i < j /\ Alive(log[i].body.by) => log[j].body.by = log[i].body.by

Asked(p) == IF cmd[p].verb = "GRANT_FS" THEN "all" ELSE "none"

(* What a handler has achieved, without overlap. *)
Made(p) ==
    ~overlapped /\ cmd[p].kind = "fs" =>
        /\ pc[p] = "handler" /\ fphase[p] = "second" => access[cmd[p].path] = Asked(p)
        /\ pc[p] = "outcome.ok" => /\ access[cmd[p].path] = Asked(p)
                                   /\ default[cmd[p].path] = Asked(p)

EntriesInv ==
    /\ Placed /\ Latest /\ LogTellsEntries
    /\ \A p \in Proc : Made(p)

(* A process that has logged a success goes nowhere else, and none starts     *)
(* again.                                                                     *)
LEMMA SuccessPlaces ==
    ASSUME SystemInv, NEW p \in Proc, SysStep(p) \/ SysCrash(p)
    PROVE  /\ pc[p] # "start" => pc'[p] # "start"
           /\ pc[p] \in AfterSuccess => pc'[p] \in AfterSuccess
  <1>1. KernelTypes /\ ATypeOK
    BY Parts DEF SystemInv
  <1>2. CASE LogWrites(p)
    BY <1>2 DEF LogWrites
  <1>3. CASE LogReturns(p)
    <2>1. PICK ok \in BOOLEAN : Goto(p, AfterLog(p, ok))
      BY <1>3 DEF LogReturns
    <2>2. pc[p] \in LogPoint /\ pc'[p] = AfterLog(p, ok)
      BY <1>1, <1>3, <2>1 DEF LogReturns, Goto, KernelTypes
    <2>3. pc'[p] \in {"denied", "execute", "done", "died", "close", "snap"}
      BY <2>1, <2>2, AfterLogFacts
    <2>4. pc'[p] = "execute" => pc[p] = "pending"
      BY <2>1, <2>2, AfterLogFacts
    <2> QED
      BY <2>3, <2>4 DEF AfterSuccess, Ended
  <1>4. CASE OpenLog(p) \/ LoadPosture(p)
    <2>1. pc[p] \in {"start", "verified", "loaded", "opened"}
      BY <1>4 DEF OpenLog, OpensAt, LoadPosture
    <2>2. \E l \in {"opened", "loaded", "denied", "pending", "deny", "died"} : Goto(p, l)
      BY <1>4, Zenon DEF OpenLog, LoadPosture
    <2>3. pc'[p] # "start"
      BY <1>1, <2>2 DEF Goto, KernelTypes
    <2> QED
      BY <2>1, <2>3 DEF AfterSuccess, Ended
  <1>5. CASE Execute(p) \/ SetPosture(p) \/ PersistPosture(p) \/ CloseLog(p)
    BY <1>1, <1>5 DEF Execute, SetPosture, PersistPosture, CloseLog, Goto, KernelTypes,
                      AfterSuccess, Ended
  <1>6. CASE CollectsEvidence(p)
    <2>1. PICK l \in {"copy", "write", "done", "died"} : Goto(p, l)
      BY <1>1, <1>6, CollectingFacts
    <2>2. pc'[p] = l
      BY <1>1, <2>1 DEF Goto, KernelTypes
    <2> QED
      BY <2>1, <2>2 DEF AfterSuccess, Ended
  <1>7. CASE StoreFails(p) \/ LoadTarget(p) \/ Handler(p) \/ Capture(p)
    <2>1. pc[p] \in {"start", "pending", "deny", "execute", "handler"}
      BY <1>7, Zenon DEF StoreFails, LoadTarget, Handler, Capture
    <2>2. \E l \in {"verified", "died", "handler", "outcome.ok", "outcome.error", "snap"} :
             Goto(p, l)
      BY <1>7, Zenon DEF StoreFails, LoadTarget, Handler, Capture
    <2>3. pc'[p] # "start"
      BY <1>1, <2>2 DEF Goto, KernelTypes
    <2> QED
      BY <2>1, <2>3 DEF AfterSuccess, Ended
  <1>8. CASE RecordSnapshot(p)
    BY <1>1, <1>8 DEF RecordSnapshot, Goto, KernelTypes, AfterSuccess, Ended
  <1>9. CASE SysExit(p) \/ SysCrash(p)
    BY <1>1, <1>9 DEF SysExit, SysCrash, Exit, Crash, Goto, KernelTypes, vars,
                      AfterSuccess, Ended
  <1> QED
    BY <1>2, <1>3, <1>4, <1>5, <1>6, <1>7, <1>8, <1>9 DEF SysStep, Work, CollectsEvidence

(* Positions in a log, and in one that is at least as long. *)
LEMMA Positions ==
    ASSUME NEW m \in Nat, NEW n \in Nat, m <= n, NEW i \in 1..m
    PROVE  /\ i \in 1..n
           /\ \A j \in i..m : j \in 1..m /\ j \in i..n
           /\ \A j \in 1..m : ~(j < i) => j \in i..m
  OBVIOUS

(* Events stay, with the process that logged them. *)
LEMMA OldEvents ==
    ASSUME SystemInv, NEW p \in Proc, SysStep(p) \/ SysCrash(p), NEW i \in 1..Len(log)
    PROVE  /\ i \in 1..Len(log') /\ log'[i] = log[i]
           /\ log[i].body.by \in Proc
  <1>1. LogGrows /\ TrueAt(i)
    BY SysKernel DEF Does, SystemInv, KernelInv, LogTrue
  <1>2. log[i].body.by \in Proc
    BY <1>1 DEF TrueAt, EventBody
  <1>3. i \in 1..Len(log')
    BY <1>1, Positions DEF LogGrows
  <1> QED
    BY <1>1, <1>2, <1>3 DEF LogGrows

(* A step places its events. *)
LEMMA StepPlaced ==
    ASSUME SystemInv, Placed, NEW p \in Proc, SysStep(p) \/ SysCrash(p)
    PROVE  Placed'
  <1> SUFFICES ASSUME NEW i \in 1..Len(log')
               PROVE  /\ pc'[log'[i].body.by] # "start"
                      /\ log'[i].body.result = "success"
                            => pc'[log'[i].body.by] \in AfterSuccess
    BY DEF Placed
  <1>1. \A q \in Proc \ {p} : pc'[q] = pc[q]
    BY SysKernel DEF Does, SameFor
  <1>2. CASE i \in 1..Len(log)
    <2>1. log'[i] = log[i] /\ log[i].body.by \in Proc
      BY <1>2, OldEvents
    <2>2. PICK q \in Proc : q = log[i].body.by
      BY <2>1
    <2>3. pc[q] # "start" /\ (log[i].body.result = "success" => pc[q] \in AfterSuccess)
      BY <1>2, <2>2 DEF Placed
    <2> QED
      BY <1>1, <2>1, <2>2, <2>3, SuccessPlaces
  <1>3. CASE i \notin 1..Len(log)
    <2>1. /\ pc[p] \in LogPoint /\ log'[i].body.by = p
          /\ log'[i].body.result = ResultAt(pc[p])
      BY <1>3, NewestEvent
    <2>2. pc[p] # "start" /\ (ResultAt(pc[p]) = "success" => pc[p] \in AfterSuccess)
      BY <2>1 DEF ResultAt, LogPoint, AfterSuccess
    <2> QED
      BY <2>1, <2>2, SuccessPlaces
  <1> QED
    BY <1>2, <1>3

(* A step of System is the step of a process that is alive, or starts. *)
LEMMA SysActs ==
    ASSUME SystemInv, NEW p \in Proc, SysStep(p) \/ SysCrash(p)
    PROVE  Acts(p) \/ UNCHANGED vars
  <1>1. KernelInv /\ Does(p)
    BY SysKernel DEF SystemInv
  <1>2. CASE Step(p) \/ Crash(p)
    BY <1>1, <1>2, StepAlive DEF Acts
  <1> QED
    BY <1>1, <1>2, SysSplit, QuietActs

(* Whoever acts without overlap is the only one alive. *)
LEMMA ActsAlone ==
    ASSUME SystemInv, AloneInv, NEW p \in Proc, Acts(p), ~overlapped'
    PROVE  /\ ~overlapped
           /\ \A q \in Proc \ {p} : ~Alive(q) /\ ~Alive(q)'
  BY StepAlone DEF Acts, SystemInv, AloneInv

(* Nobody logs after a process that is still alive. *)
LEMMA StepLatest ==
    ASSUME SystemInv, AloneInv, Placed, Latest, NEW p \in Proc, SysStep(p) \/ SysCrash(p)
    PROVE  Latest'
  <1>1. CASE UNCHANGED vars
    <2>1. UNCHANGED <<log, overlapped, pc, status, phase>>
      BY <1>1 DEF vars, avars, pvars
    <2> QED
      BY <2>1 DEF Latest, Alive
  <1>2. CASE Acts(p)
    <2> SUFFICES ASSUME ~overlapped', NEW i \in 1..Len(log'), NEW j \in 1..Len(log'),
                        i < j, Alive(log[i].body.by)'
                 PROVE  log'[j].body.by = log'[i].body.by
      BY DEF Latest
    <2>1. /\ ~overlapped
          /\ \A q \in Proc \ {p} : ~Alive(q)'
      BY <1>2, ActsAlone
    <2>2. \A k \in 1..Len(log') \ 1..Len(log) : log'[k].body.by = p
      BY NewestEvent
    <2>3. CASE i \notin 1..Len(log)
      <3>1. j \notin 1..Len(log)
        BY <2>3 DEF LogGrows
      <3> QED
        BY <2>2, <2>3, <3>1
    <2>4. CASE i \in 1..Len(log)
      <3>1. log'[i] = log[i] /\ log[i].body.by \in Proc
        BY <2>4, OldEvents
      <3>2. PICK q \in Proc : q = log[i].body.by
        BY <3>1
      <3>3. Alive(q)'
        BY <3>1, <3>2 DEF Alive
      <3>4. log[i].body.by = p
        BY <2>1, <3>2, <3>3
      <3>5. Alive(p)
        <4>1. pc[p] # "start"
          BY <2>4, <3>4 DEF Placed
        <4> QED
          BY <1>2, <4>1 DEF Acts
      <3>6. CASE j \in 1..Len(log)
        <4>1. log'[j] = log[j]
          BY <3>6, OldEvents
        <4> QED
          BY <2>1, <2>4, <3>1, <3>4, <3>5, <3>6, <4>1 DEF Latest
      <3> QED
        BY <2>2, <3>1, <3>4, <3>6
    <2> QED
      BY <2>3, <2>4
  <1> QED
    BY <1>1, <1>2, SysActs

(* Only the handler of "fs" changes entries. *)
LEMMA HandlerChanges ==
    ASSUME NEW p \in Proc, SysStep(p) \/ SysCrash(p)
    PROVE  \/ UNCHANGED <<access, default>>
           \/ Handler(p) /\ pc[p] = "handler"
  <1>1. CASE UNCHANGED policyVars
    BY <1>1 DEF policyVars
  <1>2. CASE Handler(p)
    <2>1. F!Trigger(p, cmd[p].verb, cmd[p].path) \/ pc[p] = "handler"
      BY <1>2, Zenon DEF Handler
    <2> QED
      BY <1>2, <2>1 DEF F!Trigger
  <1>3. CASE Capture(p) \/ F!FGone(p) \/ RecordSnapshot(p)
    BY <1>3 DEF Capture, F!Capture, F!FGone, RecordSnapshot
  <1> QED
    BY <1>1, <1>2, <1>3, Zenon DEF SysStep, SysExit, SysCrash, StoreFails, LoadTarget

(* A handler that has come to its second call has made the access entries,  *)
(* and one that has succeeded both kinds, in its last run.                  *)
LEMMA OwnMade ==
    ASSUME SystemInv, NEW p \in Proc, Made(p), SysStep(p) \/ SysCrash(p),
           overlapped => overlapped'
    PROVE  Made(p)'
  <1>1. KernelInv /\ KernelTypes /\ FsControl(p) /\ FsTypes /\ cmd' = cmd
    BY SysKernel, Parts DEF SystemInv, Does
  <1> DEFINE x == cmd[p].path
  <1> SUFFICES ASSUME ~overlapped', cmd[p].kind = "fs"
               PROVE  /\ pc'[p] = "handler" /\ fphase'[p] = "second"
                            => access'[x] = Asked(p)
                      /\ pc'[p] = "outcome.ok" => /\ access'[x] = Asked(p)
                                                  /\ default'[x] = Asked(p)
    BY <1>1 DEF Made, Asked
  <1>2. x \in Path
    BY <1>1, SystemAssumption DEF KernelTypes
  <1>3. CASE Handler(p)
    <2>1. /\ fphase'[p] = "done" => Goto(p, "outcome.ok")
          /\ fphase'[p] = "error" => Goto(p, "outcome.error")
          /\ fphase'[p] \notin {"done", "error"} => Goto(p, "handler")
      BY <1>3, Zenon DEF Handler
    <2>2. pc'[p] = "outcome.ok" => fphase'[p] = "done"
      BY <1>1, <2>1 DEF Goto, KernelTypes
    <2>3. CASE F!Trigger(p, cmd[p].verb, cmd[p].path) \/ F!SetfaclFails(p)
      <3>1. fphase'[p] \notin {"second", "done"}
        BY <1>1, <2>3 DEF F!Trigger, F!SetfaclFails, FsTypes
      <3> QED
        BY <2>2, <3>1
    <2>4. CASE F!SetfaclOK(p) /\ pc[p] = "handler"
      <3>1. path[p] = x /\ F!Goal(p) = Asked(p)
        BY <1>1, <2>4 DEF F!SetfaclOK, FsControl, F!Goal, Asked
      <3>2. CASE fphase[p] = "first"
        <4>1. fphase'[p] = "second" /\ access'[x] = Asked(p)
          BY <1>1, <1>2, <2>4, <3>1, <3>2 DEF F!SetfaclOK, F!Applied, FsTypes
        <4> QED
          BY <2>2, <4>1
      <3>3. CASE fphase[p] = "second"
        <4>1. fphase'[p] = "done" /\ access' = access /\ default'[x] = Asked(p)
          BY <1>1, <1>2, <2>4, <3>1, <3>3 DEF F!SetfaclOK, F!Applied, FsTypes
        <4>2. access[x] = Asked(p)
          BY <2>4, <3>3 DEF Made
        <4> QED
          BY <4>1, <4>2
      <3> QED
        BY <2>4, <3>2, <3>3 DEF F!SetfaclOK
    <2> QED
      BY <1>3, <2>3, <2>4, Zenon DEF Handler
  <1>4. CASE ~Handler(p)
    <2>1. UNCHANGED <<access, default>>
      BY <1>4, HandlerChanges
    <2>2. pc'[p] # "handler" /\ (pc'[p] = "outcome.ok" => pc[p] = "outcome.ok")
      <3>1. CASE Work(p)
        BY <1>1, <3>1, WorkPlaces
      <3>2. CASE StoreFails(p) \/ LoadTarget(p) \/ Capture(p) \/ RecordSnapshot(p)
        BY <1>1, <3>2 DEF StoreFails, LoadTarget, Capture, RecordSnapshot, Goto, KernelTypes
      <3>3. CASE SysExit(p) \/ SysCrash(p)
        BY <1>1, <3>3 DEF SysExit, SysCrash, Exit, Crash, Goto, KernelTypes, vars, Ended
      <3> QED
        BY <1>4, <3>1, <3>2, <3>3 DEF SysStep
    <2> QED
      BY <2>1, <2>2 DEF Made
  <1> QED
    BY <1>3, <1>4

(* The log goes on to tell the entries: who changes them has announced it     *)
(* after the success, or logs before it and is no longer alive.               *)
LEMMA StepTells ==
    ASSUME SystemInv, AloneInv, EntriesInv, NEW p \in Proc, SysStep(p) \/ SysCrash(p),
           Acts(p)
    PROVE  LogTellsEntries'
  <1>1. KernelInv /\ KernelTypes /\ Control(p) /\ Recorded(p) /\ FsControl(p) /\ cmd' = cmd
    BY SysKernel, Parts DEF SystemInv, Does
  <1>2. LogGrows /\ FsEffect(p)
    BY SysEffect DEF Acts, Does
  <1> SUFFICES ASSUME ~overlapped', NEW i \in 1..Len(log'),
                      cmd[log'[i].body.by].kind = "fs", log'[i].body.result = "success",
                      \A j \in {k \in i..Len(log') :
                                   /\ cmd[log'[k].body.by].kind = "fs"
                                   /\ cmd[log'[k].body.by].path
                                          = cmd[log'[i].body.by].path} :
                          \/ log'[j].body.by = log'[i].body.by
                          \/ log'[j].body.decision = "deny"
               PROVE  /\ access'[cmd[log'[i].body.by].path] = Asked(log'[i].body.by)
                      /\ default'[cmd[log'[i].body.by].path] = Asked(log'[i].body.by)
    BY <1>1 DEF LogTellsEntries, Asked
  <1>3. ~overlapped
    BY ActsAlone
  <1>4. CASE i \notin 1..Len(log)
    <2>1. pc[p] \in LogPoint /\ log'[i].body.by = p /\ ResultAt(pc[p]) = "success"
      BY <1>4, NewestEvent
    <2>2. pc[p] = "outcome.ok"
      BY <1>1, <2>1 DEF ResultAt, LogPoint, Control
    <2>3. UNCHANGED <<access, default>>
      BY <2>2, HandlerChanges
    <2> QED
      BY <1>3, <2>1, <2>2, <2>3 DEF EntriesInv, Made
  <1>5. CASE i \in 1..Len(log)
    <2>1. log'[i] = log[i] /\ log[i].body.by \in Proc
      BY <1>5, OldEvents
    <2>2. PICK r \in Proc : r = log[i].body.by
      BY <2>1
    <2>3. \A j \in i..Len(log) : /\ cmd[log[j].body.by].kind = "fs"
                                 /\ cmd[log[j].body.by].path = cmd[r].path
                                 => log[j].body.by = r \/ log[j].body.decision = "deny"
      <3> SUFFICES ASSUME NEW j \in i..Len(log), cmd[log[j].body.by].kind = "fs",
                          cmd[log[j].body.by].path = cmd[r].path
                   PROVE  log[j].body.by = r \/ log[j].body.decision = "deny"
        OBVIOUS
      <3>1. j \in i..Len(log') /\ j \in 1..Len(log)
        BY <1>2, <1>5, Positions DEF LogGrows
      <3>2. log'[j] = log[j]
        BY <3>1, OldEvents
      <3> QED
        BY <2>1, <2>2, <3>1, <3>2
    <2>4. access[cmd[r].path] = Asked(r) /\ default[cmd[r].path] = Asked(r)
      BY <1>3, <1>5, <2>1, <2>2, <2>3 DEF EntriesInv, LogTellsEntries, Asked
    <2>5. CASE UNCHANGED <<access, default>>
      BY <2>1, <2>2, <2>4, <2>5
    <2>6. CASE pc[p] = "handler"
      <3>1. cmd[r].path \in Path
        BY <1>1, <2>1, <2>2, SystemAssumption DEF KernelTypes
      <3>2. CASE p \in ran /\ cmd[p].kind = "fs" /\ cmd[p].path = cmd[r].path
        <4>1. p # r
          BY <1>5, <2>1, <2>2, <2>6 DEF EntriesInv, Placed, AfterSuccess, Ended
        <4>2. PICK j \in 1..synced : log[j].body.by = p /\ log[j].body.decision = "allow"
          BY <1>1, <3>2 DEF Recorded, Logged
        <4>3. j \in 1..Len(log)
          BY <1>2, Positions DEF LogGrows
        <4>4. CASE j < i
          <5>1. Alive(p)
            BY <2>6 DEF Alive, Ended
          <5> QED
            BY <1>3, <1>5, <2>2, <4>1, <4>2, <4>3, <4>4, <5>1 DEF EntriesInv, Latest
        <4>5. CASE ~(j < i)
          <5>1. j \in i..Len(log)
            BY <1>2, <1>5, <4>3, <4>5, Positions DEF LogGrows
          <5> QED
            BY <2>3, <3>2, <4>1, <4>2, <5>1
        <4> QED
          BY <4>4, <4>5
      <3>3. CASE /\ access'[cmd[r].path] = access[cmd[r].path]
                 /\ default'[cmd[r].path] = default[cmd[r].path]
        BY <2>1, <2>2, <2>4, <3>3
      <3> QED
        BY <1>2, <3>1, <3>2, <3>3, EffectFacts
    <2> QED
      BY <2>5, <2>6, HandlerChanges
  <1> QED
    BY <1>4, <1>5

(* A step keeps the log and the entries in agreement. *)
LEMMA StepEntries ==
    ASSUME SystemInv, AloneInv, EntriesInv, NEW p \in Proc, SysStep(p) \/ SysCrash(p)
    PROVE  EntriesInv'
  <1>1. Placed' /\ Latest'
    BY StepPlaced, StepLatest DEF EntriesInv
  <1>2. CASE Acts(p)
    <2>1. ASSUME NEW q \in Proc PROVE Made(q)'
      <3>1. CASE q = p
        BY <1>2, <3>1, OwnMade DEF EntriesInv, Acts
      <3>2. CASE q # p
        <4>1. ~overlapped' => ~Alive(q)'
          BY <1>2, <3>2, ActsAlone
        <4> QED
          BY <4>1 DEF Made, Alive, Ended
      <3> QED
        BY <3>1, <3>2
    <2> QED
      BY <1>1, <1>2, <2>1, StepTells DEF EntriesInv
  <1>3. CASE UNCHANGED vars
    <2>1. UNCHANGED <<log, cmd, pc, overlapped>>
      BY <1>3 DEF vars, avars
    <2>2. CASE Handler(p)
      <3>1. overlapped => overlapped'
        BY <2>1
      <3>2. pc[p] # "handler" \/ Acts(p)
        <4>1. pc[p] = "handler" => Alive(p)
          BY DEF Alive, Ended
        <4> QED
          BY <3>1, <4>1, SysKernel DEF Acts
      <3>3. pc[p] = "execute" => ran' = ran \cup {p} /\ p \notin ran
        <4>1. Control(p)
          BY Parts DEF SystemInv
        <4>2. pc[p] = "execute" => p \notin ran
          BY <4>1 DEF Control
        <4>3. pc[p] = "execute" => ran' = ran \cup {p}
          BY <2>2, Zenon DEF Handler
        <4> QED
          BY <4>2, <4>3
      <3>4. pc[p] \in {"execute", "handler"}
        BY <2>2, Zenon DEF Handler
      <3>5. ran' = ran
        BY <1>3 DEF vars
      <3> QED
        BY <1>2, <3>2, <3>3, <3>4, <3>5
    <2>3. CASE ~Handler(p)
      <3>1. UNCHANGED <<access, default>>
        BY <2>3, HandlerChanges
      <3>2. LogTellsEntries'
        BY <2>1, <3>1 DEF EntriesInv, LogTellsEntries
      <3>3. \A q \in Proc \ {p} : fphase'[q] = fphase[q]
        BY SysEffect, EffectFacts
      <3>4. \A q \in Proc : Made(q)'
        <4>1. Made(p)'
          BY <2>1, OwnMade DEF EntriesInv
        <4>2. \A q \in Proc \ {p} : Made(q)'
          BY <2>1, <3>1, <3>3 DEF EntriesInv, Made, Asked
        <4> QED
          BY <4>1, <4>2
      <3> QED
        BY <1>1, <3>2, <3>4 DEF EntriesInv
    <2> QED
      BY <2>2, <2>3
  <1> QED
    BY <1>2, <1>3, SysActs

(* cmd/emilyos/main.go, runFs, and fsacl.go: without overlap, if the last     *)
(* command on a path that was not denied is on record as a success, the       *)
(* entries of the path are what it asked for, whatever the commands before    *)
(* it have left half done.                                                    *)
THEOREM TheLogTellsEntries == SysSpec => []LogTellsEntries
  <1>1. SysInit => EntriesInv
    <2> SUFFICES ASSUME SysInit PROVE EntriesInv
      OBVIOUS
    <2>1. 1..Len(log) = {}
      BY DEF SysInit, Init, AInit
    <2>2. \A p \in Proc : Made(p)
      BY DEF SysInit, Init, Made
    <2> QED
      BY <2>1, <2>2 DEF EntriesInv, Placed, Latest, LogTellsEntries
  <1>2. SystemInv /\ AloneInv /\ EntriesInv /\ [SysNext]_sysVars => EntriesInv'
    <2> SUFFICES ASSUME SystemInv, AloneInv, EntriesInv, [SysNext]_sysVars
                 PROVE  EntriesInv'
      OBVIOUS
    <2>1. CASE UNCHANGED sysVars
      <3>1. UNCHANGED <<log, cmd, pc, overlapped, status, phase, access, default, fphase>>
        BY <2>1 DEF sysVars, vars, avars, pvars, policyVars
      <3>2. Placed'
        BY <3>1 DEF EntriesInv, Placed
      <3>3. Latest'
        BY <3>1 DEF EntriesInv, Latest, Alive
      <3>4. LogTellsEntries'
        BY <3>1 DEF EntriesInv, LogTellsEntries
      <3>5. \A p \in Proc : Made(p)'
        BY <3>1 DEF EntriesInv, Made, Asked
      <3> QED
        BY <3>2, <3>3, <3>4, <3>5 DEF EntriesInv
    <2> QED
      BY <2>1, StepEntries DEF SysNext
  <1>3. EntriesInv => LogTellsEntries
    BY DEF EntriesInv
  <1> QED
    BY <1>1, <1>2, <1>3, SystemInit, SystemNext, SysSerialInit, SysSerialNext, PTL
       DEF SysSpec
=============================================================================
