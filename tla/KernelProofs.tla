---------------------------- MODULE KernelProofs ----------------------------
(***************************************************************************)
(* Proofs about Kernel, for every set of processes and of commands, every  *)
(* bound on the failures and every length of the log.  The log and the     *)
(* posture keep the invariants of AuditLogProofs and PostureProofs; what   *)
(* is added here ties the place of a process to its events.                *)
(***************************************************************************)
EXTENDS Kernel, AuditLogProofs, PostureProofs

(* The decision and the result of the event that is logged at a place. *)
DecisionAt(l) == IF l \in {"deny", "set.denied"} THEN "deny" ELSE "allow"
ResultAt(l) == CASE l \in {"deny", "set.denied"}        -> "failure"
                 [] l = "pending"                       -> "pending"
                 [] l \in {"outcome.ok", "set.allowed"} -> "success"
                 [] l = "outcome.error"                 -> "error"

(* Places before anything was done, places of a handler, and places at which *)
(* a denial can be on record.                                                *)
Untouched == {"start", "verified", "opened", "loaded", "deny", "pending", "setting"}
Running == {"execute", "handler", "outcome.ok", "outcome.error"}
Refused == {"deny", "set.denied"} \cup Ended

(* Places at which the process logs no more. *)
Afterwards == Ended \cup {"close", "snap", "read", "copy", "write"}

(* What is on record as denied: it neither ran nor changed the posture,      *)
(* unless the Close of a whole posture file failed.                          *)
Denied(p) == p \notin ran /\ ("close" \notin pmishaps => p \notin changed)

(* What holds of a process at its place. *)
Control(p) ==
    /\ pc[p] \in Running \cup {"deny", "pending"} => cmd[p].kind # "posture"
    /\ pc[p] \in {"set.denied", "set.allowed", "setting"} => cmd[p].kind = "posture"
    /\ p \in ran => cmd[p].kind # "posture" /\ pc[p] # "execute"
    /\ p \in changed => cmd[p].kind = "posture"
    /\ pc[p] \in Untouched => p \notin ran \cup changed
    /\ pc[p] = "set.denied" => Denied(p)
    /\ pc[p] \in {"outcome.ok", "outcome.error"} => p \in ran
    /\ pc[p] = "set.allowed" => p \in changed
    /\ pc[p] = "start" => status[p] = "closed" /\ phase[p] = "down"
    /\ pc[p] \in {"pending", "execute"}
          => phase[p] = "up" /\ Reason(cmd[p], current[p]) = ""

(* What holds of its Logger and of its events in the log. *)
Recorded(p) ==
    /\ status[p] = "written"
          => /\ pc[p] \in LogPoint
             /\ Logged(Len(log), p, DecisionAt(pc[p]), ResultAt(pc[p]))
    /\ failed[p] => pc[p] \in Afterwards
    /\ p \in ran \/ pc[p] \in Running => Logged(synced, p, "allow", "pending")

(* What an event says of its process. *)
TrueAt(i) ==
    LET e == log[i].body
    IN  /\ e \in EventBody
        /\ e.decision = "allow" /\ cmd[e.by].kind # "posture" /\ e.result # "pending"
              => e.by \in ran /\ Logged(i - 1, e.by, "allow", "pending")
        /\ e.decision = "allow" /\ cmd[e.by].kind = "posture" => e.by \in changed
        /\ e.decision = "deny" => Denied(e.by) /\ pc[e.by] \in Refused

LogTrue == \A i \in 1..Len(log) : TrueAt(i)

Bundle == [count : Nat, chainOK : BOOLEAN, copy : Seq(Event),
           torn : BOOLEAN, blind : BOOLEAN, written : BOOLEAN]

KernelTypes ==
    /\ cmd \in [Proc -> Command]
    /\ pc \in [Proc -> LogPoint \cup Ended \cup
                   {"start", "verified", "opened", "loaded", "execute", "handler",
                    "snap", "setting", "close", "read", "copy", "write"}]
    /\ bundle \in [Proc -> Bundle]
    /\ ran \subseteq Proc /\ changed \subseteq Proc
    /\ overlapped \in BOOLEAN
    /\ faults \in 0..MaxFaults

(* The part of the invariant that holds under any interleaving. *)
KernelInv ==
    /\ TreeInv /\ PostureInv /\ KernelTypes
    /\ \A p \in Proc : Control(p) /\ Recorded(p)
    /\ LogTrue

-----------------------------------------------------------------------------

(* A denial has one of the four reasons of Dispatch. *)
LEMMA ReasonFacts ==
    \A c, s : Reason(c, s) \in {"", "verb.unknown", "rbac", "posture"}
  BY DEF Reason

(* What Log is called with is an event body, and its decision and result are *)
(* those of the place.                                                       *)
LEMMA RecordFacts ==
    ASSUME NEW p \in Proc, pc[p] \in LogPoint
    PROVE  /\ Record(p) \in EventBody /\ Record(p) \in Body
           /\ Record(p).by = p
           /\ Record(p).decision = DecisionAt(pc[p])
           /\ Record(p).result = ResultAt(pc[p])
  <1>1. Record(p) \in EventBody
    BY ReasonFacts DEF Record, EventBody, LogPoint
  <1>2. /\ Record(p).by = p
        /\ Record(p).decision = DecisionAt(pc[p])
        /\ Record(p).result = ResultAt(pc[p])
    BY DEF Record, LogPoint, DecisionAt, ResultAt
  <1> QED
    BY <1>1, <1>2, KernelAssumption

-----------------------------------------------------------------------------
(* A step of one process, as the other ones and the log see it. *)

SameFor(q) == /\ pc'[q] = pc[q] /\ bundle'[q] = bundle[q]
              /\ status'[q] = status[q] /\ failed'[q] = failed[q]
              /\ phase'[q] = phase[q] /\ current'[q] = current[q]

LogGrows == /\ Len(log) \in Nat /\ Len(log') \in Nat /\ Len(log) <= Len(log')
            /\ \A i \in 1..Len(log) : log'[i] = log[i]
            /\ synced \in Nat /\ synced' \in Nat
            /\ synced <= synced' /\ synced <= Len(log)

Does(p) ==
    /\ cmd' = cmd
    /\ ran \subseteq ran' /\ ran' \subseteq ran \cup {p}
    /\ changed \subseteq changed' /\ changed' \subseteq changed \cup {p}
    /\ \A q \in Proc \ {p} : SameFor(q)
    /\ LogGrows /\ pmishaps \subseteq pmishaps'
    /\ pc[p] \in Refused => /\ pc'[p] \in Refused
                            /\ ran' = ran /\ changed' = changed

(* What was in the log, or on stable storage, still is. *)
LEMMA LoggedStays ==
    ASSUME LogGrows, NEW p, NEW d, NEW res, NEW m \in Nat, NEW n \in Nat,
           m <= n, m <= Len(log), Logged(m, p, d, res)
    PROVE  Logged(n, p, d, res)'
  BY DEF LogGrows, Logged

(* The other processes keep their part of the invariant. *)
LEMMA OthersKeep ==
    ASSUME NEW p \in Proc, Does(p), NEW q \in Proc \ {p}, Control(q), Recorded(q)
    PROVE  Control(q)' /\ Recorded(q)'
  <1>1. SameFor(q) /\ LogGrows /\ cmd' = cmd
    BY DEF Does
  <1>2. (q \in ran' <=> q \in ran) /\ (q \in changed' <=> q \in changed)
    BY DEF Does
  <1>3. Reason(cmd'[q], current'[q]) = Reason(cmd[q], current[q])
    BY <1>1 DEF SameFor
  <1>4. Control(q)'
    <2>1. Denied(q) => Denied(q)'
      BY <1>2 DEF Does, Denied
    <2> QED
      BY <1>1, <1>2, <1>3, <2>1 DEF SameFor, Control
  <1>5. Logged(synced, q, "allow", "pending") => Logged(synced, q, "allow", "pending")'
    BY <1>1, LoggedStays DEF LogGrows, Logged
  <1>6. \A d, res : Logged(Len(log), q, d, res) => Logged(Len(log), q, d, res)'
    BY <1>1, LoggedStays DEF LogGrows, Logged
  <1>7. Recorded(q)'
    BY <1>1, <1>2, <1>5, <1>6 DEF SameFor, Recorded, DecisionAt, ResultAt
  <1> QED
    BY <1>4, <1>7

(* The events that were in the log stay true. *)
LEMMA EventsStayTrue ==
    ASSUME NEW p \in Proc, Does(p), NEW i \in 1..Len(log), TrueAt(i)
    PROVE  TrueAt(i)'
  <1> DEFINE e == log[i].body
  <1>1. LogGrows /\ log'[i] = log[i] /\ cmd' = cmd /\ i \in Nat /\ i - 1 \in Nat
           /\ i - 1 <= Len(log)
    BY DEF Does, LogGrows
  <1>2. e \in EventBody /\ EventBody' = EventBody /\ e.by \in Proc
    BY DEF TrueAt, EventBody
  <1>3. Logged(i - 1, e.by, "allow", "pending")
           => Logged(i - 1, e.by, "allow", "pending")'
    BY <1>1, LoggedStays
  <1>4. Denied(e.by) /\ pc[e.by] \in Refused
           => /\ e.by \notin ran' /\ ("close" \notin pmishaps' => e.by \notin changed')
              /\ pc'[e.by] \in Refused
    BY <1>2 DEF Does, SameFor, Denied
  <1>5. (e.by \in ran => e.by \in ran') /\ (e.by \in changed => e.by \in changed')
    BY DEF Does
  <1> QED
    BY <1>1, <1>2, <1>3, <1>4, <1>5 DEF TrueAt, Refused, Ended, Denied

(* A step of p that keeps p's part, the two components and the truth of a new *)
(* event keeps the invariant.                                                 *)
LEMMA StepKeeps ==
    ASSUME KernelInv, NEW p \in Proc, Does(p), TreeInv', PostureInv', KernelTypes',
           Control(p)', Recorded(p)',
           \A i \in (Len(log) + 1)..Len(log') : TrueAt(i)'
    PROVE  KernelInv'
  <1>1. \A q \in Proc : Control(q)' /\ Recorded(q)'
    BY OthersKeep DEF KernelInv
  <1>2. LogTrue'
    <2> SUFFICES ASSUME NEW i \in 1..Len(log') PROVE TrueAt(i)'
      BY DEF LogTrue
    <2>1. i \in 1..Len(log) \/ i \in (Len(log) + 1)..Len(log')
      BY DEF Does, LogGrows
    <2> QED
      BY <2>1, EventsStayTrue DEF KernelInv, LogTrue
  <1> QED
    BY <1>1, <1>2 DEF KernelInv

(* A step of the log that writes no event. *)
LEMMA SameLogGrows ==
    ASSUME TreeInv, log' = log, synced' \in {synced, Len(log)}
    PROVE  LogGrows /\ \A i \in (Len(log) + 1)..Len(log') : TrueAt(i)'
  <1>1. Len(log) \in Nat /\ synced \in 0..Len(log)
    BY DEF TreeInv, ATypeOK
  <1> QED
    BY <1>1 DEF LogGrows

(* A component that a step leaves alone keeps its invariant. *)
LEMMA StutterKeeps ==
    /\ TreeInv /\ UNCHANGED avars => TreeInv'
    /\ PostureInv /\ UNCHANGED pvars => PostureInv'
  BY TreeNext, PostureNext

(* The parts of the invariant that most steps need. *)
LEMMA Parts ==
    ASSUME KernelInv, NEW p \in Proc
    PROVE  /\ TreeInv /\ PostureInv /\ KernelTypes /\ ATypeOK /\ PTypeOK
           /\ Control(p) /\ Recorded(p)
           /\ Record(p) \in Body \/ pc[p] \notin LogPoint
  BY RecordFacts DEF KernelInv, TreeInv, PostureInv

(* The count of failures stays within its bound. *)
LEMMA FaultTypes ==
    ASSUME KernelTypes, Fault \/ NoFault
    PROVE  faults' \in 0..MaxFaults
  BY KernelAssumption DEF KernelTypes, Fault, NoFault

-----------------------------------------------------------------------------
(* The steps. *)

(* Open gives a process a Logger that has not failed. *)
LEMMA OpenLogKeeps ==
    ASSUME KernelInv, NEW p \in Proc, OpenLog(p)
    PROVE  KernelInv' /\ Does(p)
  <1>1. /\ TreeInv /\ PostureInv /\ KernelTypes /\ ATypeOK /\ PTypeOK
        /\ Control(p) /\ Recorded(p)
    BY Parts
  <1>2. TreeInv' /\ PostureInv'
    BY <1>1, OpenTree, OpenFailsTree, StutterKeeps DEF OpenLog
  <1>3. pc[p] \in {"start", "verified", "loaded"}
    BY DEF OpenLog, OpensAt
  <1>4. PICK l \in {"opened", "died"} : Goto(p, l)
    BY DEF OpenLog
  <1>5. log' = log /\ synced' = synced /\ pmishaps' = pmishaps
    BY DEF OpenLog, Open, OpenFails, fileVars, pvars
  <1>6. KernelTypes'
    <2>1. overlapped' \in BOOLEAN
      BY <1>1, Zenon DEF OpenLog, NoteStart, KernelTypes
    <2>2. faults' \in 0..MaxFaults
      <3>1. Fault \/ NoFault
        BY Zenon DEF OpenLog
      <3> QED
        BY <1>1, <3>1, FaultTypes
    <2> QED
      BY <1>1, <1>4, <2>1, <2>2 DEF OpenLog, Goto, Keep, KernelTypes, LogPoint, Ended
  <1>7. /\ \A q \in Proc \ {p} : SameFor(q)
        /\ pc'[p] = l /\ cmd' = cmd /\ ran' = ran /\ changed' = changed
    BY <1>1, <1>4 DEF OpenLog, Open, OpenFails, Goto, Keep, pvars, SameFor, KernelTypes,
                      ATypeOK
  <1>8. Does(p)
    BY <1>1, <1>3, <1>5, <1>7, SameLogGrows DEF Does, Refused, Ended
  <1>9. Control(p)' /\ Recorded(p)'
    <2>1. p \notin ran \cup changed
      BY <1>1, <1>3 DEF Control, Untouched
    <2>2. Control(p)'
      BY <1>4, <1>7, <2>1 DEF Control, Untouched, Running
    <2>3. status'[p] # "written" /\ (failed'[p] => l = "died")
      <3>1. CASE Open(p) /\ l = "opened"
        <4>1. status'[p] = "open"
          BY <1>1, <3>1 DEF Open, ATypeOK
        <4>2. ~failed'[p]
          BY <1>1, <3>1, Zenon DEF Open, ATypeOK
        <4> QED
          BY <4>1, <4>2
      <3>2. CASE OpenFails(p) /\ l = "died"
        BY <3>2 DEF OpenFails
      <3> QED
        BY <1>1, <1>4, <1>7, <3>1, <3>2 DEF OpenLog, Goto, KernelTypes
    <2> QED
      BY <1>4, <1>7, <2>1, <2>2, <2>3 DEF Recorded, Running, Afterwards, Ended
  <1> QED
    BY <1>1, <1>2, <1>5, <1>6, <1>8, <1>9, StepKeeps, SameLogGrows

(* New leaves a process with the posture that Dispatch then decides by. *)
LEMMA LoadPostureKeeps ==
    ASSUME KernelInv, NEW p \in Proc, LoadPosture(p)
    PROVE  KernelInv' /\ Does(p)
  <1>1. /\ TreeInv /\ PostureInv /\ KernelTypes /\ ATypeOK /\ PTypeOK
        /\ Control(p) /\ Recorded(p)
    BY Parts
  <1>2. TreeInv' /\ PostureInv'
    BY <1>1, NewStep, RefusalStep, StutterKeeps DEF LoadPosture
  <1>3. pc[p] \in {"start", "opened"}
    BY DEF LoadPosture
  <1>4. PICK l \in {"loaded", "denied", "pending", "deny", "died"} :
           /\ Goto(p, l)
           /\ l \in {"pending", "deny"} => cmd[p].kind # "posture" /\ New(p)
           /\ l = "pending" => Reason(cmd[p], current'[p]) = ""
    BY DEF LoadPosture
  <1>5. /\ log' = log /\ synced' = synced /\ status' = status /\ failed' = failed
        /\ pmishaps \subseteq pmishaps'
    BY DEF LoadPosture, avars, New, NewFails, NotePOverlap
  <1>6. KernelTypes'
    <2>1. overlapped' \in BOOLEAN
      BY <1>1, Zenon DEF LoadPosture, NoteStart, KernelTypes
    <2>2. faults' \in 0..MaxFaults
      <3>1. Fault \/ NoFault
        BY Zenon DEF LoadPosture
      <3> QED
        BY <1>1, <3>1, FaultTypes
    <2> QED
      BY <1>1, <1>4, <2>1, <2>2 DEF LoadPosture, Goto, Keep, KernelTypes, LogPoint,
                                    Ended
  <1>7. /\ \A q \in Proc \ {p} : SameFor(q)
        /\ pc'[p] = l /\ cmd' = cmd /\ ran' = ran /\ changed' = changed
        /\ New(p) => phase'[p] = "up"
    BY <1>1, <1>4, <1>5 DEF LoadPosture, New, NewFails, Goto, Keep, SameFor,
                            KernelTypes, PTypeOK
  <1>8. Does(p)
    BY <1>1, <1>3, <1>5, <1>7, SameLogGrows DEF Does, Refused, Ended
  <1>9. Control(p)' /\ Recorded(p)'
    <2>1. p \notin ran \cup changed
      BY <1>1, <1>3 DEF Control, Untouched
    <2>2. Control(p)'
      BY <1>4, <1>7, <2>1 DEF Control, Untouched, Running
    <2>3. status[p] # "written" /\ ~failed[p]
      BY <1>1, <1>3 DEF Recorded, LogPoint, Afterwards, Ended
    <2> QED
      BY <1>4, <1>5, <1>7, <2>1, <2>2, <2>3 DEF Recorded, Running
  <1> QED
    BY <1>1, <1>2, <1>5, <1>6, <1>8, <1>9, StepKeeps, SameLogGrows

(* The event that is written at a place is true there. *)
LEMMA NewEventTrue ==
    ASSUME KernelInv, NEW p \in Proc, pc[p] \in LogPoint, Does(p),
           log' = Append(log, NewEvent(p, Record(p))),
           pc'[p] = pc[p] \/ (pc[p] \in {"deny", "set.denied"} <=> pc'[p] = "denied"),
           ran' = ran, changed' = changed
    PROVE  /\ \A i \in (Len(log) + 1)..Len(log') : TrueAt(i)'
           /\ Len(log') = Len(log) + 1
           /\ Logged(Len(log), p, DecisionAt(pc[p]), ResultAt(pc[p]))'
                \/ pc'[p] # pc[p]
  <1> DEFINE e == Record(p)
  <1>1. TreeInv /\ ATypeOK /\ Control(p) /\ Recorded(p)
    BY Parts
  <1>2. /\ e \in EventBody /\ e \in Body /\ e.by = p
        /\ e.decision = DecisionAt(pc[p]) /\ e.result = ResultAt(pc[p])
    BY RecordFacts
  <1>3. /\ Len(log') = Len(log) + 1 /\ Len(log) \in Nat
        /\ log'[Len(log) + 1] = NewEvent(p, e)
    BY <1>1, <1>2, Extend DEF TreeInv
  <1>4. log'[Len(log) + 1].body = e
    BY <1>1, <1>2, <1>3, NewEventFacts DEF TreeInv
  <1>5. pc'[p] = pc[p] => Logged(Len(log), p, DecisionAt(pc[p]), ResultAt(pc[p]))'
    <2> SUFFICES ASSUME pc'[p] = pc[p]
                 PROVE  Logged(Len(log), p, DecisionAt(pc[p]), ResultAt(pc[p]))'
      OBVIOUS
    <2>1. /\ DecisionAt(pc[p])' = e.decision /\ ResultAt(pc[p])' = e.result
      BY <1>2 DEF DecisionAt, ResultAt
    <2> QED
      BY <1>2, <1>3, <1>4, <2>1 DEF Logged
  <1>6. ASSUME NEW i \in (Len(log) + 1)..Len(log')
        PROVE  TrueAt(i)'
    <2>1. i = Len(log) + 1 /\ i \in Nat /\ i - 1 \in Nat /\ i - 1 = Len(log)
             /\ log'[i].body = e
      BY <1>3, <1>4
    <2>2. ASSUME e.decision = "allow", cmd[p].kind # "posture", e.result # "pending"
          PROVE  p \in ran /\ Logged(i - 1, p, "allow", "pending")'
      <3>1. pc[p] \in {"outcome.ok", "outcome.error"}
        BY <1>1, <1>2, <2>2 DEF Control, LogPoint, DecisionAt, ResultAt
      <3>2. p \in ran /\ Logged(synced, p, "allow", "pending")
        BY <1>1, <3>1 DEF Control, Recorded, Running
      <3> QED
        BY <2>1, <3>2, LoggedStays DEF Does, LogGrows
    <2>3. e.decision = "allow" /\ cmd[p].kind = "posture" => p \in changed
      BY <1>1, <1>2 DEF Control, LogPoint, DecisionAt, Running
    <2>4. e.decision = "deny" => Denied(p) /\ pc'[p] \in Refused
      BY <1>1, <1>2 DEF Control, DecisionAt, Untouched, Refused, Ended, Denied
    <2>5. Denied(p) => Denied(p)'
      BY DEF Does, Denied
    <2> QED
      BY <1>2, <2>1, <2>2, <2>3, <2>4, <2>5 DEF TrueAt, Does, EventBody, Denied
  <1> QED
    BY <1>3, <1>5, <1>6

(* Only a pending event that is durable lets the handler run; what is denied *)
(* is at its end.                                                            *)
LEMMA AfterLogFacts ==
    ASSUME NEW p \in Proc, pc[p] \in LogPoint, NEW ok \in BOOLEAN
    PROVE  /\ AfterLog(p, ok) \in {"denied", "execute", "done", "died", "close", "snap"}
           /\ AfterLog(p, ok) = "execute" => ok /\ pc[p] = "pending"
           /\ AfterLog(p, ok) = "denied" <=> pc[p] \in {"deny", "set.denied"}
           /\ ~ok => AfterLog(p, ok) # "execute"
  <1>1. \A l : AfterDispatch(p, l) \in {l, "close", "snap"}
    BY DEF AfterDispatch
  <1> QED
    BY <1>1 DEF AfterLog, LogPoint

(* Log's write puts the event of the place into the file. *)
LEMMA LogWritesKeeps ==
    ASSUME KernelInv, NEW p \in Proc, LogWrites(p)
    PROVE  KernelInv' /\ Does(p)
  <1>1. /\ TreeInv /\ PostureInv /\ KernelTypes /\ ATypeOK /\ PTypeOK
        /\ Control(p) /\ Recorded(p)
        /\ pc[p] \in LogPoint /\ Record(p) \in Body
    BY Parts DEF LogWrites
  <1>2. TreeInv' /\ PostureInv'
    BY <1>1, WriteTree, StutterKeeps DEF LogWrites
  <1>3. /\ log' = Append(log, NewEvent(p, Record(p))) /\ synced' = synced
        /\ status'[p] = "written" /\ pc' = pc /\ cmd' = cmd /\ bundle' = bundle
        /\ ran' = ran /\ changed' = changed /\ phase' = phase /\ current' = current
        /\ pmishaps' = pmishaps
    BY <1>1 DEF LogWrites, Write, Keep, pvars, ATypeOK
  <1>4. KernelTypes'
    BY <1>1 DEF LogWrites, Keep, NoFault, KernelTypes
  <1>5. LogGrows
    <2>1. synced \in 0..Len(log)
      BY <1>1 DEF ATypeOK
    <2> QED
      BY <1>1, <1>3, <2>1, Extend DEF TreeInv, LogGrows
  <1>6. Does(p)
    <2>1. \A q \in Proc \ {p} : SameFor(q)
      BY <1>1, <1>3 DEF LogWrites, Write, SameFor, ATypeOK
    <2> QED
      BY <1>3, <1>5, <2>1 DEF Does
  <1>7. /\ \A i \in (Len(log) + 1)..Len(log') : TrueAt(i)'
        /\ Logged(Len(log), p, DecisionAt(pc[p]), ResultAt(pc[p]))'
    BY <1>1, <1>3, <1>6, NewEventTrue
  <1>8. Control(p)'
    <2>1. pc[p] # "start"
      BY <1>1 DEF LogPoint
    <2> QED
      BY <1>1, <1>3, <2>1 DEF Control, Denied
  <1>9. Recorded(p)'
    <2>1. ~failed'[p]
      BY <1>1, Zenon DEF LogWrites, Write, ATypeOK
    <2>2. Logged(synced, p, "allow", "pending") => Logged(synced, p, "allow", "pending")'
      BY <1>3, <1>5, LoggedStays DEF LogGrows
    <2> QED
      BY <1>1, <1>3, <1>7, <2>1, <2>2 DEF Recorded
  <1> QED
    BY <1>2, <1>4, <1>6, <1>7, <1>8, <1>9, StepKeeps

(* Log returns: after a sync the event is durable. *)
LEMMA LogReturnsKeeps ==
    ASSUME KernelInv, NEW p \in Proc, LogReturns(p)
    PROVE  KernelInv' /\ Does(p)
  <1>1. /\ TreeInv /\ PostureInv /\ KernelTypes /\ ATypeOK /\ PTypeOK
        /\ Control(p) /\ Recorded(p)
        /\ pc[p] \in LogPoint /\ Record(p) \in Body
    BY Parts DEF LogReturns
  <1>2. TreeInv' /\ PostureInv'
    BY <1>1, SyncTree, SyncFailsTree, WriteFailsTree, StutterKeeps DEF LogReturns
  <1>3. PICK l : /\ Goto(p, l)
                 /\ \/ l = AfterLog(p, TRUE) /\ Sync(p)
                    \/ l = AfterLog(p, FALSE) /\ SyncFails(p)
                    \/ l = AfterLog(p, FALSE) /\ WriteFails(p, Record(p))
    BY DEF LogReturns
  <1>4. /\ l \in {"denied", "execute", "done", "died", "close", "snap"}
        /\ l = "execute" => pc[p] = "pending" /\ Sync(p)
        /\ l = "denied" <=> pc[p] \in {"deny", "set.denied"}
    <2>1. TRUE \in BOOLEAN /\ FALSE \in BOOLEAN
      OBVIOUS
    <2>2. AfterLog(p, FALSE) # "execute"
      BY <1>1, <2>1, AfterLogFacts
    <2> QED
      BY <1>1, <1>3, <2>1, <2>2, AfterLogFacts
  <1>5. /\ pc'[p] = l /\ cmd' = cmd /\ bundle' = bundle
        /\ ran' = ran /\ changed' = changed /\ phase' = phase /\ current' = current
        /\ status'[p] = "open" /\ pmishaps' = pmishaps
    BY <1>1, <1>3 DEF LogReturns, Goto, Keep, pvars, KernelTypes, ATypeOK, Sync,
                      SyncFails, WriteFails
  <1>6. KernelTypes'
    <2>1. faults' \in 0..MaxFaults
      <3>1. Fault \/ NoFault
        BY Zenon DEF LogReturns
      <3> QED
        BY <1>1, <3>1, FaultTypes
    <2>2. overlapped' = overlapped
      BY DEF LogReturns
    <2> QED
      BY <1>1, <1>3, <1>4, <1>5, <2>1, <2>2 DEF Goto, KernelTypes, LogPoint, Ended
  <1>7. LogGrows
    <2>1. synced \in 0..Len(log) /\ Len(log) \in Nat
      BY <1>1 DEF ATypeOK
    <2>2. CASE log' = log /\ synced' \in {synced, Len(log)}
      BY <1>1, <2>2, SameLogGrows
    <2>3. CASE log' = Append(log, NewEvent(p, Record(p))) /\ synced' = synced
      BY <1>1, <2>1, <2>3, Extend DEF TreeInv, LogGrows
    <2> QED
      BY <1>3, <2>2, <2>3 DEF Sync, SyncFails, WriteFails, fileVars
  <1>8. Does(p)
    <2>1. \A q \in Proc \ {p} : SameFor(q)
      BY <1>1, <1>3, <1>5 DEF Goto, KernelTypes, Sync, SyncFails, WriteFails, SameFor,
                              ATypeOK
    <2>2. pc[p] \in Refused => pc'[p] \in Refused
      BY <1>1, <1>4, <1>5 DEF Refused, LogPoint, Ended
    <2> QED
      BY <1>5, <1>7, <2>1, <2>2 DEF Does
  <1>9. \A i \in (Len(log) + 1)..Len(log') : TrueAt(i)'
    <2>1. CASE log' = log /\ synced' \in {synced, Len(log)}
      BY <1>1, <2>1, SameLogGrows
    <2>2. CASE log' = Append(log, NewEvent(p, Record(p)))
      BY <1>1, <1>4, <1>5, <1>8, <2>2, NewEventTrue
    <2> QED
      BY <1>3, <2>1, <2>2 DEF Sync, SyncFails, WriteFails, fileVars
  <1>10. Control(p)'
    <2>1. l = "execute" => /\ cmd[p].kind # "posture" /\ p \notin ran
                           /\ phase[p] = "up" /\ Reason(cmd[p], current[p]) = ""
      BY <1>1, <1>4 DEF Control, Untouched
    <2> QED
      BY <1>1, <1>4, <1>5, <2>1 DEF Control, Running, Untouched
  <1>11. Recorded(p)'
    <2>1. Logged(synced, p, "allow", "pending") => Logged(synced, p, "allow", "pending")'
      BY <1>7, LoggedStays DEF LogGrows
    <2>2. l = "execute" => Logged(synced, p, "allow", "pending")'
      <3> SUFFICES ASSUME l = "execute"
                   PROVE  Logged(synced, p, "allow", "pending")'
        OBVIOUS
      <3>1. Sync(p) /\ pc[p] = "pending" /\ status[p] = "written"
        BY <1>4 DEF Sync
      <3>2. Logged(Len(log), p, "allow", "pending")
        BY <1>1, <3>1 DEF Recorded, DecisionAt, ResultAt
      <3> QED
        BY <1>7, <3>1, <3>2, LoggedStays DEF Sync, LogGrows
    <2>3. failed'[p] => l \in Afterwards
      <3>1. CASE l # "execute"
        BY <1>4, <3>1 DEF Afterwards, Ended
      <3>2. CASE l = "execute"
        <4>1. failed' = failed
          BY <1>4, <3>2 DEF Sync
        <4>2. ~failed[p]
          BY <1>1 DEF Recorded, LogPoint, Afterwards, Ended
        <4> QED
          BY <4>1, <4>2
      <3> QED
        BY <3>1, <3>2
    <2> QED
      BY <1>1, <1>4, <1>5, <2>1, <2>2, <2>3 DEF Recorded, Running
  <1> QED
    BY <1>2, <1>6, <1>8, <1>9, <1>10, <1>11, StepKeeps

(* The handler runs once its event is durable. *)
LEMMA ExecuteKeeps ==
    ASSUME KernelInv, NEW p \in Proc, Execute(p)
    PROVE  KernelInv' /\ Does(p)
  <1>1. /\ TreeInv /\ PostureInv /\ KernelTypes /\ Control(p) /\ Recorded(p)
    BY Parts
  <1>2. TreeInv' /\ PostureInv'
    BY <1>1, StutterKeeps DEF Execute
  <1>3. PICK l \in {"outcome.ok", "outcome.error"} : Goto(p, l)
    BY DEF Execute
  <1>4. /\ pc[p] = "execute" /\ pc'[p] = l /\ cmd' = cmd /\ bundle' = bundle
        /\ ran' = ran \cup {p} /\ changed' = changed /\ phase' = phase
        /\ current' = current /\ log' = log /\ synced' = synced /\ status' = status
        /\ failed' = failed /\ pmishaps' = pmishaps
    BY <1>1, <1>3 DEF Execute, Goto, KernelTypes, avars, pvars
  <1>5. KernelTypes'
    BY <1>1, <1>3 DEF Execute, Goto, KernelTypes, LogPoint
  <1>6. Does(p)
    <2>1. \A q \in Proc \ {p} : SameFor(q)
      BY <1>1, <1>3, <1>4 DEF Goto, KernelTypes, SameFor
    <2> QED
      BY <1>1, <1>4, <2>1, SameLogGrows DEF Does, Refused, Ended
  <1>7. Control(p)' /\ Recorded(p)'
    <2>1. Logged(synced, p, "allow", "pending") /\ status[p] # "written" /\ ~failed[p]
      BY <1>1, <1>4 DEF Recorded, Running, LogPoint, Afterwards, Ended
    <2>2. Logged(synced, p, "allow", "pending")'
      BY <1>4, <2>1 DEF Logged
    <2>3. Control(p)'
      BY <1>1, <1>3, <1>4 DEF Control, Running, Untouched
    <2> QED
      BY <1>4, <2>1, <2>2, <2>3 DEF Recorded
  <1> QED
    BY <1>1, <1>2, <1>4, <1>5, <1>6, <1>7, StepKeeps, SameLogGrows

(* Steps of posture set, which leave the log alone. *)
LEMMA SettingKeeps ==
    ASSUME KernelInv, NEW p \in Proc, SetPosture(p) \/ PersistPosture(p)
    PROVE  KernelInv' /\ Does(p)
  <1>1. /\ TreeInv /\ PostureInv /\ KernelTypes /\ PTypeOK /\ Control(p) /\ Recorded(p)
    BY Parts
  <1>2. TreeInv' /\ PostureInv'
    BY <1>1, TransitionStep, RefusalStep, PersistStep, PersistFailsStep,
       CloseFailsStep, StutterKeeps
       DEF SetPosture, PersistPosture
  <1>3. PICK l \in {"setting", "set.denied", "set.allowed"} :
           /\ Goto(p, l)
           /\ \/ changed' = changed /\ l # "set.allowed"
              \/ changed' = changed \cup {p} /\ l = "set.allowed"
              \/ /\ changed' = changed \cup {p} /\ l = "set.denied"
                 /\ "close" \in pmishaps'
    BY DEF SetPosture, PersistPosture, Keep, CloseFails
  <1>4. /\ pc[p] \in {"opened", "setting"} /\ cmd[p].kind = "posture"
        /\ pc'[p] = l /\ cmd' = cmd /\ bundle' = bundle /\ ran' = ran
        /\ log' = log /\ synced' = synced /\ status' = status /\ failed' = failed
        /\ overlapped' = overlapped /\ pmishaps \subseteq pmishaps'
    BY <1>1, <1>3 DEF SetPosture, PersistPosture, Goto, Keep, KernelTypes, avars,
                      Control, Transition, TransitionFails, Persist, PersistFails,
                      CloseFails
  <1>5. KernelTypes'
    <2>1. Fault \/ NoFault
      BY Zenon DEF SetPosture, PersistPosture
    <2> QED
      BY <1>1, <1>3, <1>4, <2>1, FaultTypes DEF Goto, KernelTypes, LogPoint
  <1>6. Does(p)
    <2>1. \A q \in Proc \ {p} : phase'[q] = phase[q] /\ current'[q] = current[q]
      BY <1>1 DEF SetPosture, PersistPosture, Transition, TransitionFails, Persist,
                  PersistFails, CloseFails, Revert, PTypeOK
    <2>2. \A q \in Proc \ {p} : SameFor(q)
      BY <1>1, <1>3, <1>4, <2>1 DEF Goto, KernelTypes, SameFor
    <2> QED
      BY <1>1, <1>3, <1>4, <2>2, SameLogGrows DEF Does, Refused, Ended
  <1>7. Control(p)' /\ Recorded(p)'
    <2>1. p \notin ran \cup changed /\ status[p] # "written" /\ ~failed[p]
      BY <1>1, <1>4 DEF Control, Recorded, Untouched, LogPoint, Afterwards, Ended
    <2> QED
      BY <1>3, <1>4, <2>1 DEF Control, Recorded, Running, Untouched, Denied
  <1> QED
    BY <1>1, <1>2, <1>4, <1>5, <1>6, <1>7, StepKeeps, SameLogGrows

(* The ends of a Logger: a bundle closes it, Exit closes it or not, a crash   *)
(* does not.                                                                  *)
LEMMA EndingKeeps ==
    ASSUME KernelInv, NEW p \in Proc, CloseLog(p) \/ Exit(p) \/ Crash(p)
    PROVE  KernelInv' /\ Does(p)
  <1>1. /\ TreeInv /\ PostureInv /\ KernelTypes /\ ATypeOK /\ PTypeOK
        /\ Control(p) /\ Recorded(p)
    BY Parts
  <1>2. Close(p) \/ Ends(p)
    BY DEF CloseLog, Exit, Crash, Ends
  <1>3. TreeInv'
    BY <1>1, <1>2, EndTree
  <1>4. \/ UNCHANGED pvars
        \/ PGone({p}) /\ UNCHANGED <<pfile, pdisk, posture, pmishaps>>
    BY DEF CloseLog, Exit, Crash
  <1>5. PostureInv'
    BY <1>1, <1>4, ExitStep, StutterKeeps
  <1>6. PICK l : /\ pc' = [pc EXCEPT ![p] = l]
                 /\ l \in {"read", "crashed"} \/ (l = pc[p] /\ l \in Ended)
    <2>1. pc' = pc => pc' = [pc EXCEPT ![p] = pc[p]]
      BY <1>1 DEF KernelTypes
    <2> QED
      BY <2>1 DEF CloseLog, Exit, Crash, Goto
  <1>7. /\ pc'[p] = l /\ cmd' = cmd /\ bundle' = bundle /\ ran' = ran
        /\ changed' = changed /\ overlapped' = overlapped
        /\ log' = log /\ synced' \in {synced, Len(log)} /\ pmishaps' = pmishaps
    BY <1>1, <1>2, <1>4, <1>6 DEF CloseLog, Exit, Crash, Keep, KernelTypes, Close,
                                  Ends, fileVars, pvars
  <1>8. Gone({p})
    BY <1>2 DEF Close, Ends
  <1>9. /\ status'[p] = "closed"
        /\ \A q \in Proc \ {p} : status'[q] = status[q]
    BY <1>8 DEF Gone
  <1>10. failed' = failed
    BY <1>8 DEF Gone
  <1>11. KernelTypes'
    <2>1. Fault \/ NoFault
      BY Zenon DEF CloseLog, Exit, Crash
    <2> QED
      BY <1>1, <1>6, <1>7, <2>1, FaultTypes DEF KernelTypes, Ended
  <1>12. Does(p)
    <2>1. \A q \in Proc \ {p} : phase'[q] = phase[q] /\ current'[q] = current[q]
      BY <1>4 DEF PGone, pvars
    <2>2. \A q \in Proc \ {p} : SameFor(q)
      BY <1>1, <1>6, <1>7, <1>9, <1>10, <2>1 DEF KernelTypes, SameFor
    <2>3. pc[p] \in Refused => pc'[p] \in Refused
      <3>1. l = "read" => pc[p] \notin Refused
        BY <1>1, <1>6 DEF CloseLog, Exit, Crash, Goto, KernelTypes, Refused, Ended
      <3> QED
        BY <1>6, <1>7, <3>1 DEF Refused, Ended
    <2> QED
      BY <1>1, <1>7, <2>2, <2>3, SameLogGrows DEF Does
  <1>13. Control(p)' /\ Recorded(p)'
    <2>1. Control(p)'
      BY <1>1, <1>6, <1>7 DEF Control, Running, Untouched, Ended, Denied
    <2>2. Logged(synced, p, "allow", "pending") => Logged(synced, p, "allow", "pending")'
      BY <1>12, LoggedStays DEF Does, LogGrows
    <2> QED
      BY <1>1, <1>6, <1>7, <1>9, <1>10, <2>1, <2>2
         DEF Recorded, Running, Afterwards, Ended
  <1> QED
    BY <1>1, <1>3, <1>5, <1>7, <1>11, <1>12, <1>13, StepKeeps, SameLogGrows

CollectsEvidence(p) ==
    \/ ReadEvidence(p) \/ CopyEvidence(p)
    \/ WriteBundle(p) \/ WriteExport(p) \/ PrintVerified(p)

(* What the steps that collect evidence leave alone. *)
LEMMA CollectingFacts ==
    ASSUME KernelTypes, ATypeOK, NEW p \in Proc, CollectsEvidence(p)
    PROVE  /\ UNCHANGED <<avars, pvars, cmd, ran, changed>>
           /\ pc[p] \in {"start", "read", "copy", "write"}
           /\ \E l \in {"copy", "write", "done", "died"} : Goto(p, l)
           /\ \A q \in Proc \ {p} : bundle'[q] = bundle[q]
           /\ KernelTypes'
  <1>1. UNCHANGED <<avars, pvars, cmd, ran, changed>>
    BY DEF CollectsEvidence, ReadEvidence, CopyEvidence, WriteBundle, WriteExport,
           PrintVerified
  <1>2. pc[p] \in {"start", "read", "copy", "write"}
    BY DEF CollectsEvidence, ReadEvidence, CopyEvidence, WriteBundle, WriteExport,
           PrintVerified
  <1>3. PICK l \in {"copy", "write", "done", "died"} : Goto(p, l)
    BY DEF CollectsEvidence, ReadEvidence, CopyEvidence, WriteBundle, WriteExport,
           PrintVerified, Out, ExitCode, Unread, Copied
  <1>4. \E k \in Nat, c, t, b, w \in BOOLEAN, s \in Seq(Event) :
           bundle' \in {bundle, [bundle EXCEPT ![p].count = k, ![p].chainOK = c],
                        [bundle EXCEPT ![p].chainOK = c, ![p].blind = b],
                        [bundle EXCEPT ![p].copy = s, ![p].torn = t, ![p].blind = b],
                        [bundle EXCEPT ![p].written = w]}
    <2>1. /\ Len(log) \in Nat /\ log \in Seq(Event) /\ <<>> \in Seq(Event)
          /\ EventsRead \in Seq(Event)
          /\ \A n \in 0..Len(log) : SubSeq(log, 1, n) \in Seq(Event)
      BY PrefixFacts DEF ATypeOK, EventsRead
    <2>2. /\ VerifyEvents(log) \in BOOLEAN /\ VerifyEvents(<<>>) \in BOOLEAN
          /\ torn \in BOOLEAN /\ (~Readable) \in BOOLEAN
      BY Zenon DEF VerifyEvents, ATypeOK, Readable
    <2>3. \A b \in BOOLEAN : (bundle[p].blind \/ b) \in BOOLEAN
      BY Zenon
    <2>4. CASE ReadEvidence(p)
      BY <2>1, <2>2, <2>4 DEF ReadEvidence, Unread
    <2>5. CASE CopyEvidence(p)
      BY <2>1, <2>2, <2>3, <2>5 DEF CopyEvidence, Copied
    <2>6. CASE WriteBundle(p) \/ WriteExport(p) \/ PrintVerified(p)
      BY <2>1, <2>6 DEF WriteBundle, WriteExport, PrintVerified, Out
    <2> QED
      BY <2>4, <2>5, <2>6 DEF CollectsEvidence
  <1>5. \A q \in Proc \ {p} : bundle'[q] = bundle[q]
    BY <1>4 DEF KernelTypes
  <1>6. bundle' \in [Proc -> Bundle]
    <2>1. PICK k \in Nat, c \in BOOLEAN, t \in BOOLEAN, b \in BOOLEAN, w \in BOOLEAN,
               s \in Seq(Event) :
             bundle' \in {bundle, [bundle EXCEPT ![p].count = k, ![p].chainOK = c],
                          [bundle EXCEPT ![p].chainOK = c, ![p].blind = b],
                          [bundle EXCEPT ![p].copy = s, ![p].torn = t, ![p].blind = b],
                          [bundle EXCEPT ![p].written = w]}
      BY <1>4
    <2>2. bundle \in [Proc -> Bundle]
      BY DEF KernelTypes
    <2>3. CASE bundle' = bundle
      BY <2>2, <2>3
    <2>4. CASE bundle' = [bundle EXCEPT ![p].count = k, ![p].chainOK = c]
      BY <2>2, <2>4 DEF Bundle
    <2>5. CASE bundle' = [bundle EXCEPT ![p].chainOK = c, ![p].blind = b]
      BY <2>2, <2>5 DEF Bundle
    <2>6. CASE bundle' = [bundle EXCEPT ![p].copy = s, ![p].torn = t, ![p].blind = b]
      <3>1. [bundle[p] EXCEPT !.copy = s, !.torn = t, !.blind = b] \in Bundle
        BY <2>2 DEF Bundle
      <3>2. bundle' = [bundle EXCEPT ![p] =
                          [bundle[p] EXCEPT !.copy = s, !.torn = t, !.blind = b]]
        BY <2>2, <2>6
      <3> QED
        BY <2>2, <3>1, <3>2
    <2>7. CASE bundle' = [bundle EXCEPT ![p].written = w]
      BY <2>2, <2>7 DEF Bundle
    <2> QED
      BY <2>1, <2>3, <2>4, <2>5, <2>6, <2>7
  <1>7. overlapped' \in BOOLEAN
    BY Zenon DEF CollectsEvidence, ReadEvidence, CopyEvidence, WriteBundle,
                 WriteExport, PrintVerified, NoteStart, KernelTypes
  <1>8. faults' \in 0..MaxFaults
    <2>1. Fault \/ NoFault
      BY Zenon DEF CollectsEvidence, ReadEvidence, CopyEvidence, WriteBundle,
                   WriteExport, PrintVerified, Out, NoFault
    <2> QED
      BY <2>1, FaultTypes
  <1>9. KernelTypes'
    BY <1>1, <1>3, <1>6, <1>7, <1>8 DEF KernelTypes, Goto, Ended
  <1> QED
    BY <1>1, <1>2, <1>3, <1>5, <1>9

(* Collecting evidence changes neither the log nor the posture. *)
LEMMA CollectingKeeps ==
    ASSUME KernelInv, NEW p \in Proc, CollectsEvidence(p)
    PROVE  KernelInv' /\ Does(p)
  <1>1. /\ TreeInv /\ PostureInv /\ KernelTypes /\ ATypeOK /\ Control(p) /\ Recorded(p)
    BY Parts
  <1>2. /\ UNCHANGED <<avars, pvars, cmd, ran, changed>>
        /\ pc[p] \in {"start", "read", "copy", "write"}
        /\ \A q \in Proc \ {p} : bundle'[q] = bundle[q]
        /\ KernelTypes'
    BY <1>1, CollectingFacts
  <1>3. PICK l \in {"copy", "write", "done", "died"} : Goto(p, l)
    BY <1>1, CollectingFacts
  <1>4. TreeInv' /\ PostureInv'
    BY <1>1, <1>2, StutterKeeps
  <1>5. /\ pc'[p] = l /\ phase' = phase /\ current' = current
        /\ log' = log /\ synced' = synced /\ status' = status /\ failed' = failed
        /\ pmishaps' = pmishaps
    BY <1>1, <1>2, <1>3 DEF Goto, KernelTypes, avars, pvars
  <1>6. Does(p)
    <2>1. \A q \in Proc \ {p} : SameFor(q)
      BY <1>1, <1>2, <1>3, <1>5 DEF Goto, KernelTypes, SameFor
    <2> QED
      BY <1>1, <1>2, <1>5, <2>1, SameLogGrows DEF Does, Refused, Ended
  <1>7. Control(p)' /\ Recorded(p)'
    <2>1. status[p] # "written"
      BY <1>1, <1>2 DEF Recorded, LogPoint
    <2>2. Logged(synced, p, "allow", "pending") => Logged(synced, p, "allow", "pending")'
      BY <1>5 DEF Logged
    <2>3. Control(p)'
      BY <1>1, <1>2, <1>3, <1>5 DEF Control, Running, Untouched
    <2> QED
      BY <1>1, <1>2, <1>3, <1>5, <2>1, <2>2, <2>3 DEF Recorded, Running, Afterwards, Ended
  <1> QED
    BY <1>1, <1>2, <1>4, <1>5, <1>6, <1>7, StepKeeps, SameLogGrows

(* A power loss keeps what was synced and ends every process that runs. *)
LEMMA PowerLossKeeps ==
    ASSUME KernelInv, PowerLoss
    PROVE  KernelInv'
  <1>1. TreeInv /\ PostureInv /\ KernelTypes /\ ATypeOK
    BY DEF KernelInv, TreeInv
  <1>2. TreeInv' /\ PostureInv'
    BY <1>1, PowerLossTree, PowerStep DEF PowerLoss
  <1>3. PICK n \in synced..Len(log) : log' = SubSeq(log, 1, n) /\ synced' = n
    BY DEF PowerLoss, APowerLoss
  <1>4. /\ Len(log) \in Nat /\ synced \in 0..Len(log) /\ n \in 0..Len(log)
        /\ Len(log') = n /\ \A i \in 1..n : log'[i] = log[i]
    <2>1. log \in Seq(Event) /\ Len(log) \in Nat /\ synced \in 0..Len(log)
      BY <1>1 DEF ATypeOK
    <2>2. n \in 0..Len(log)
      BY <1>3, <2>1
    <2> QED
      BY <1>3, <2>1, <2>2, PrefixFacts
  <1>5. /\ cmd' = cmd /\ bundle' = bundle /\ ran' = ran /\ changed' = changed
        /\ overlapped' = overlapped
        /\ pc' = [p \in Proc |-> IF Alive(p) THEN "crashed" ELSE pc[p]]
    BY DEF PowerLoss, Keep
  <1>6. KernelTypes'
    <2>1. Fault \/ NoFault
      BY DEF PowerLoss
    <2> QED
      BY <1>1, <1>5, <2>1, FaultTypes DEF KernelTypes, Ended
  <1>7. \A p \in Proc : pc'[p] \in Ended \/ (pc'[p] = "start" /\ pc[p] = "start")
    BY <1>5 DEF Alive, Ended
  <1>8. ASSUME NEW p \in Proc, NEW d, NEW res, NEW m \in 0..n, Logged(m, p, d, res)
        PROVE  Logged(m, p, d, res)'
    BY <1>4, <1>8 DEF Logged
  <1>9. ASSUME NEW p \in Proc PROVE Control(p)' /\ Recorded(p)'
    <2>1. Control(p) /\ Recorded(p)
      BY DEF KernelInv
    <2>2. status'[p] = "closed"
      BY DEF PowerLoss, APowerLoss, Gone
    <2>3. failed' = failed
      BY DEF PowerLoss, APowerLoss, Gone
    <2>4. phase'[p] = "down"
      BY DEF PowerLoss, PPowerLoss, PGone
    <2>5. Control(p)'
      BY <1>5, <1>7, <2>1, <2>2, <2>4 DEF Control, Running, Untouched, Ended
    <2>6. Logged(synced, p, "allow", "pending") => Logged(synced, p, "allow", "pending")'
      BY <1>3, <1>4 DEF Logged
    <2> QED
      BY <1>5, <1>7, <2>1, <2>2, <2>3, <2>5, <2>6
         DEF Recorded, Running, Afterwards, Ended
  <1>10. pmishaps \subseteq pmishaps'
    BY DEF PowerLoss, PPowerLoss
  <1>11. LogTrue'
    <2> SUFFICES ASSUME NEW i \in 1..n PROVE TrueAt(i)'
      BY <1>4 DEF LogTrue
    <2>1. i \in 1..Len(log) /\ log'[i] = log[i] /\ i - 1 \in 0..n
      BY <1>4
    <2>2. TrueAt(i) /\ log[i].body.by \in Proc
      BY <2>1 DEF KernelInv, LogTrue, TrueAt, EventBody
    <2>3. pc[log[i].body.by] \in Refused => pc'[log[i].body.by] \in Refused
      BY <1>7, <2>2 DEF Refused, Ended
    <2>4. Logged(i - 1, log[i].body.by, "allow", "pending")
             => Logged(i - 1, log[i].body.by, "allow", "pending")'
      <3>1. \A j \in 1..(i - 1) : log'[j] = log[j]
        BY <1>4, <2>1
      <3> QED
        BY <2>1, <3>1 DEF Logged
    <2> QED
      BY <1>5, <1>10, <2>1, <2>2, <2>3, <2>4 DEF TrueAt, Denied
  <1> QED
    BY <1>2, <1>6, <1>9, <1>11 DEF KernelInv

-----------------------------------------------------------------------------

(* Nothing has happened at first, whatever posture.json holds. *)
LEMMA KernelInit == Init => KernelInv
  <1> SUFFICES ASSUME Init PROVE KernelInv
    OBVIOUS
  <1>1. TreeInv
    BY TreeInit DEF Init
  <1>2. PostureInv
    <2>1. perr \in [Proc -> BOOLEAN]
      BY Zenon DEF Init
    <2>2. PTypeOK
      BY <2>1, KernelAssumption, LoadedFacts DEF Init, PTypeOK, State
    <2>3. LastWriterWins /\ Serial
      BY DEF Init, LastWriterWins, Serial
    <2> QED
      BY <2>2, <2>3 DEF PostureInv
  <1>3. KernelTypes
    <2>1. bundle \in [Proc -> Bundle]
      BY DEF Init, NoBundle, Bundle
    <2>2. overlapped \in BOOLEAN
      BY Zenon DEF Init
    <2> QED
      BY <2>1, <2>2, KernelAssumption DEF Init, KernelTypes
  <1>4. ASSUME NEW p \in Proc PROVE Control(p) /\ Recorded(p)
    <2>1. ~failed[p]
      BY Zenon DEF Init, AInit
    <2> QED
      BY <2>1 DEF Init, AInit, Control, Recorded, Running
  <1>5. LogTrue
    BY DEF Init, AInit, LogTrue
  <1> QED
    BY <1>1, <1>2, <1>3, <1>4, <1>5 DEF KernelInv

(* The steps of the processes, all in one. *)
LEMMA StepKernel ==
    ASSUME KernelInv, NEW p \in Proc, Step(p) \/ Crash(p)
    PROVE  KernelInv' /\ Does(p)
  BY OpenLogKeeps, LoadPostureKeeps, LogWritesKeeps, LogReturnsKeeps,
     ExecuteKeeps, SettingKeeps, EndingKeeps, CollectingKeeps
     DEF Step, Work, CollectsEvidence

(* No step breaks the invariant. *)
LEMMA KernelNext == KernelInv /\ [Next]_vars => KernelInv'
  <1> SUFFICES ASSUME KernelInv, [Next]_vars PROVE KernelInv'
    OBVIOUS
  <1>1. CASE PowerLoss
    BY <1>1, PowerLossKeeps
  <1>2. ASSUME NEW p \in Proc, Step(p) \/ Crash(p) PROVE KernelInv'
    BY <1>2, StepKernel
  <1>3. CASE UNCHANGED vars
    <2>1. TreeInv' /\ PostureInv'
      BY <1>3, StutterKeeps DEF KernelInv, vars
    <2>2. KernelTypes' /\ LogTrue' /\ \A p \in Proc : Control(p)' /\ Recorded(p)'
      <3>1. KernelTypes'
        BY <1>3 DEF KernelInv, vars, KernelTypes, Bundle
      <3>2. ASSUME NEW p \in Proc PROVE Control(p)' /\ Recorded(p)'
        <4>1. Control(p) /\ Recorded(p)
          BY DEF KernelInv
        <4>2. Control(p)'
          BY <1>3, <4>1 DEF vars, avars, pvars, Control, Reason, Denied
        <4>3. Recorded(p)'
          BY <1>3, <4>1 DEF vars, avars, Recorded, Logged, DecisionAt, ResultAt
        <4> QED
          BY <4>2, <4>3
      <3>3. LogTrue'
        <4>1. \A i \in 1..Len(log) : TrueAt(i)' <=> TrueAt(i)
          BY <1>3 DEF vars, avars, pvars, TrueAt, Logged, Denied
        <4>2. LogTrue /\ log' = log
          BY <1>3 DEF KernelInv, vars, avars
        <4> QED
          BY <4>1, <4>2 DEF LogTrue
      <3> QED
        BY <3>1, <3>2, <3>3
    <2> QED
      BY <2>1, <2>2 DEF KernelInv
  <1> QED
    BY <1>1, <1>2, <1>3 DEF Next

(* The command is type-correct: its log, its posture and its own state.       *)
THEOREM KernelTypeCorrect == Spec => []TypeOK
  <1>1. KernelInv => TypeOK
    BY DEF KernelInv, TreeInv, PostureInv, KernelTypes, Bundle, TypeOK
  <1> QED
    BY <1>1, KernelInit, KernelNext, PTL DEF Spec

(* dispatch.go: no handler has run whose pending event is not on stable       *)
(* storage, for any number of commands, failures, crashes and power losses.   *)
THEOREM NoAuditNoAction == Spec => []AuditedBeforeRun
  <1>1. KernelInv => AuditedBeforeRun
    BY DEF KernelInv, KernelTypes, Recorded, AuditedBeforeRun
  <1> QED
    BY <1>1, KernelInit, KernelNext, PTL DEF Spec

(* dispatch.go and runPosture: the log records no outcome that did not happen *)
(* and no denial of what did, except where the Close of a whole posture file  *)
(* failed.                                                                    *)
THEOREM TheLogDoesNotLie == Spec => []RecordsAreTrue
  <1>1. KernelInv => RecordsAreTrue
    BY DEF KernelInv, LogTrue, TrueAt, Denied, RecordsAreTrue
  <1> QED
    BY <1>1, KernelInit, KernelNext, PTL DEF Spec

-----------------------------------------------------------------------------
(* What holds as long as invocations do not overlap. *)

(* There is at most one process, and no mishap that AuditLog knows of; no     *)
(* command uses its Logger again after an error, and a fragment takes one.    *)
Alone == /\ "retry" \notin mishaps
         /\ torn => faults > 0
         /\ ~overlapped => /\ "overlap" \notin mishaps
                           /\ \A p, q \in Proc : Alive(p) /\ Alive(q) => p = q

(* A manifest that counts some of these events tells whether they verify. *)
Faithful(b, events) ==
    b.count \in 1..Len(events) => b.chainOK = VerifyEvents(SubSeq(events, 1, b.count))

(* The manifest is about events that are still in the log when it is copied,  *)
(* and without overlap about all of them.                                     *)
Evidence(p) ==
    LET b == bundle[p]
    IN  /\ b.written => pc[p] \in Ended
        /\ pc[p] \notin {"copy", "write"} \cup Ended => b.count = 0
        /\ pc[p] = "copy" =>
              /\ b.count <= Len(log) /\ Faithful(b, log)
              /\ ~b.blind /\ ~overlapped => b.count = Len(log) /\ ~torn
        /\ pc[p] = "write" \/ b.written =>
              /\ Faithful(b, b.copy)
              /\ ~b.blind => b.count <= Len(b.copy)
              /\ ~b.blind /\ ~overlapped => b.count = Len(b.copy) /\ ~b.torn

AloneInv == Alone /\ SerialInv /\ \A p \in Proc : Evidence(p)

(* A process that takes a step is alive, or starts and looks for others. *)
LEMMA StepAlive ==
    ASSUME KernelInv, NEW p \in Proc, Step(p) \/ Crash(p)
    PROVE  /\ Alive(p) \/ (pc[p] = "start" /\ NoteStart(p))
           /\ overlapped => overlapped'
  <1>1. Control(p)
    BY Parts
  <1>2. CASE OpenLog(p) \/ LoadPosture(p) \/ ReadEvidence(p)
    <2>1. NoteStart(p)
      BY <1>2, Zenon DEF OpenLog, LoadPosture, ReadEvidence
    <2>2. pc[p] \in {"start", "verified", "loaded", "opened", "read"}
      BY <1>2 DEF OpenLog, OpensAt, LoadPosture, ReadEvidence
    <2>3. overlapped => overlapped'
      BY <2>1, Zenon DEF NoteStart
    <2> QED
      BY <2>1, <2>2, <2>3 DEF Alive, Ended
  <1>3. CASE \/ LogWrites(p) \/ LogReturns(p) \/ Execute(p) \/ SetPosture(p)
             \/ PersistPosture(p) \/ CloseLog(p) \/ CopyEvidence(p)
             \/ WriteBundle(p) \/ WriteExport(p) \/ PrintVerified(p)
             \/ Exit(p) \/ Crash(p)
    <2>1. overlapped' = overlapped
      BY <1>3 DEF LogWrites, LogReturns, Execute, SetPosture, PersistPosture, CloseLog,
                  CopyEvidence, WriteBundle, WriteExport, PrintVerified, Exit, Crash
    <2>2. Alive(p)
      BY <1>3 DEF LogWrites, LogReturns, Execute, SetPosture, PersistPosture, CloseLog,
                  CopyEvidence, WriteBundle, WriteExport, PrintVerified, Exit, Crash,
                  Alive, LogPoint, Ended
    <2> QED
      BY <2>1, <2>2
  <1> QED
    BY <1>2, <1>3 DEF Step, Work

(* Without overlap nobody else is there, before the step and after it. *)
LEMMA StepAlone ==
    ASSUME KernelInv, Alone, NEW p \in Proc, Does(p), ~overlapped',
           Alive(p) \/ (pc[p] = "start" /\ NoteStart(p)), overlapped => overlapped'
    PROVE  /\ ~overlapped
           /\ \A q \in Proc \ {p} : ~Alive(q) /\ ~Alive(q)'
  <1>1. \A q \in Proc \ {p} : ~Alive(q)
    <2>1. CASE Alive(p)
      BY <2>1 DEF Alone
    <2>2. CASE pc[p] = "start" /\ NoteStart(p)
      BY <2>2, Zenon DEF NoteStart
    <2> QED
      BY <2>1, <2>2
  <1>2. \A q \in Proc \ {p} : ~Alive(q)'
    BY <1>1 DEF Does, SameFor, Alive
  <1> QED
    BY <1>1, <1>2

(* What a step notes in the log's history of mishaps. *)
LEMMA StepMishaps ==
    ASSUME KernelInv, NEW p \in Proc, Step(p) \/ Crash(p)
    PROVE  /\ mishaps' \subseteq mishaps \cup {"overlap"}
           /\ (\A q \in Proc \ {p} : ~Alive(q)) => mishaps' = mishaps
  <1>1. ATypeOK /\ Recorded(p)
    BY Parts
  <1>2. CASE OpenLog(p)
    BY <1>2 DEF OpenLog, Open, OpenFails, NoteOverlap, Alive
  <1>3. CASE LogWrites(p) \/ LogReturns(p)
    <2>1. ~failed[p]
      BY <1>1, <1>3 DEF LogWrites, LogReturns, Recorded, LogPoint, Afterwards, Ended
    <2> QED
      BY <1>3, <2>1 DEF LogWrites, LogReturns, Write, WriteFails, Sync, SyncFails,
                        NoteRetry
  <1>4. CASE mishaps' = mishaps
    BY <1>4
  <1>5. \/ OpenLog(p) \/ LogWrites(p) \/ LogReturns(p) \/ UNCHANGED avars
        \/ Close(p) \/ Ends(p)
    BY DEF Step, Work, LoadPosture, Execute, SetPosture, PersistPosture, CloseLog,
           ReadEvidence, CopyEvidence, WriteBundle, WriteExport, PrintVerified, Exit,
           Crash, Ends
  <1> QED
    BY <1>2, <1>3, <1>4, <1>5 DEF avars, Close, Ends

(* The chain of a log that is used serially, in the steps of the commands. *)
LEMMA StepSerial ==
    ASSUME KernelInv, SerialInv, NEW p \in Proc, Step(p) \/ Crash(p)
    PROVE  SerialInv'
  <1>1. TreeInv /\ (Record(p) \in Body \/ pc[p] \notin LogPoint)
    BY Parts
  <1>2. \/ pc[p] \in LogPoint /\ (Write(p, Record(p)) \/ WriteFails(p, Record(p)))
        \/ Open(p) \/ OpenFails(p)
        \/ Sync(p) \/ SyncFails(p) \/ Close(p) \/ Ends(p) \/ UNCHANGED avars
    BY DEF Step, Work, OpenLog, LogWrites, LogReturns, LoadPosture, Execute, SetPosture,
           PersistPosture, CloseLog, ReadEvidence, CopyEvidence, WriteBundle,
           WriteExport, PrintVerified, Exit, Crash, Ends
  <1> QED
    BY <1>1, <1>2, OpenSerial, WriteSerial, SyncSerial, EndSerial, SerialNext

(* A failure is counted, and none is forgotten. *)
LEMMA FaultsGrow ==
    ASSUME KernelTypes, NEW p \in Proc, Step(p) \/ Crash(p)
    PROVE  faults \in Nat /\ faults' \in Nat /\ faults <= faults'
  <1>1. Fault \/ NoFault
    BY Zenon DEF Step, Work, OpenLog, LoadPosture, LogWrites, LogReturns, Execute,
       SetPosture, PersistPosture, CloseLog, ReadEvidence, CopyEvidence, WriteBundle,
       WriteExport, PrintVerified, Out, Exit, Crash, NoFault
  <1>2. faults \in Nat
    BY KernelAssumption DEF KernelTypes
  <1> QED
    BY <1>1, <1>2 DEF Fault, NoFault

(* Only a write that fails leaves a fragment. *)
LEMMA StepFragment ==
    ASSUME KernelTypes, torn => faults > 0, NEW p \in Proc, Step(p) \/ Crash(p)
    PROVE  torn' => faults' > 0
  <1>1. faults \in Nat /\ faults' \in Nat /\ faults <= faults'
    BY FaultsGrow
  <1>2. torn' = torn \/ Fault
    BY DEF Step, Work, OpenLog, LogWrites, LogReturns, LoadPosture, Execute, SetPosture,
           PersistPosture, CloseLog, ReadEvidence, CopyEvidence, WriteBundle,
           WriteExport, PrintVerified, Exit, Crash, Open, OpenFails, Write, Sync,
           Close, avars, fileVars
  <1>3. CASE Fault
    BY <1>1, <1>3 DEF Fault
  <1>4. CASE torn' = torn
    BY <1>1, <1>4
  <1> QED
    BY <1>2, <1>3, <1>4

(* The first events of a log that grows, or of what was read of it, are the   *)
(* same.                                                                      *)
LEMMA SamePrefix ==
    ASSUME NEW S, NEW s \in Seq(S), NEW t \in Seq(S), NEW n \in 0..Len(s),
           Len(s) <= Len(t), \A i \in 1..Len(s) : t[i] = s[i]
    PROVE  SubSeq(t, 1, n) = SubSeq(s, 1, n)
  <1>1. n \in 0..Len(t) /\ \A i \in 1..n : t[i] = s[i]
    OBVIOUS
  <1>2. /\ SubSeq(s, 1, n) \in Seq(S) /\ Len(SubSeq(s, 1, n)) = n
        /\ \A i \in 1..n : SubSeq(s, 1, n)[i] = s[i]
    BY PrefixFacts
  <1>3. /\ SubSeq(t, 1, n) \in Seq(S) /\ Len(SubSeq(t, 1, n)) = n
        /\ \A i \in 1..n : SubSeq(t, 1, n)[i] = t[i]
    BY <1>1, PrefixFacts
  <1> QED
    BY <1>1, <1>2, <1>3, SameElements

(* What a manifest says of a log it goes on to say of a longer one, and, if   *)
(* it says anything of a shorter one, that is the same.                       *)
LEMMA FaithfulPrefix ==
    ASSUME NEW b, b.count \in Nat, NEW s \in Seq(Event), NEW t \in Seq(Event),
           Len(s) <= Len(t), \A i \in 1..Len(s) : t[i] = s[i]
    PROVE  /\ b.count <= Len(s) /\ Faithful(b, s) => Faithful(b, t)
           /\ Faithful(b, t) => Faithful(b, s)
  <1>1. Len(s) \in Nat /\ Len(t) \in Nat
    OBVIOUS
  <1>2. b.count <= Len(s) => SubSeq(t, 1, b.count) = SubSeq(s, 1, b.count)
    BY <1>1, SamePrefix
  <1>3. b.count \in 1..Len(s) => b.count \in 1..Len(t) /\ b.count <= Len(s)
    BY <1>1
  <1>4. b.count \in 1..Len(t) /\ b.count <= Len(s) => b.count \in 1..Len(s)
    BY <1>1
  <1> QED
    BY <1>2, <1>3, <1>4 DEF Faithful

(* A step of another process does not touch evidence that is being collected. *)
LEMMA OthersEvidence ==
    ASSUME KernelInv, KernelInv', Alone, NEW p \in Proc, Does(p), NEW q \in Proc \ {p},
           Evidence(q),
           Alive(p) \/ (pc[p] = "start" /\ NoteStart(p)), overlapped => overlapped'
    PROVE  Evidence(q)'
  <1>1. SameFor(q) /\ LogGrows
    BY DEF Does
  <1>2. ASSUME ~overlapped' PROVE ~overlapped /\ pc[q] \notin {"copy", "write"}
    BY <1>2, StepAlone DEF Alive, Ended
  <1>3. /\ log \in Seq(Event) /\ log' \in Seq(Event)
        /\ bundle[q] \in Bundle /\ bundle[q].count \in Nat
    BY DEF KernelInv, TreeInv, ATypeOK, KernelTypes, Bundle
  <1>4. /\ bundle[q].count <= Len(log) => bundle[q].count <= Len(log')
        /\ bundle[q].count <= Len(log) /\ Faithful(bundle[q], log)
              => Faithful(bundle[q], log')
    <2>1. /\ Len(log) \in Nat /\ Len(log') \in Nat /\ Len(log) <= Len(log')
          /\ \A i \in 1..Len(log) : log'[i] = log[i]
      BY <1>1 DEF LogGrows
    <2>2. bundle[q].count <= Len(log) => bundle[q].count <= Len(log')
      BY <1>3, <2>1
    <2>3. bundle[q].count <= Len(log) /\ Faithful(bundle[q], log)
             => Faithful(bundle[q], log')
      BY <1>3, <2>1, FaithfulPrefix
    <2> QED
      BY <2>2, <2>3
  <1> QED
    BY <1>1, <1>2, <1>4 DEF SameFor, Evidence, Faithful

(* A manifest counts and verifies all the events that were read. *)
LEMMA ReadEvidenceKeeps ==
    ASSUME KernelInv, NEW p \in Proc, Evidence(p), ReadEvidence(p)
    PROVE  Evidence(p)'
  <1>1. KernelTypes /\ ATypeOK /\ bundle[p] \in Bundle /\ log \in Seq(Event)
    BY Parts DEF KernelTypes, ATypeOK
  <1>2. ~bundle[p].written /\ bundle[p].count = 0 /\ Len(log) \in Nat
    BY <1>1 DEF ReadEvidence, Evidence, Ended
  <1>3. UNCHANGED <<log, torn>>
    BY DEF ReadEvidence, avars
  <1>4. CASE Goto(p, "died") /\ bundle'[p].written = bundle[p].written
    <2>1. pc'[p] = "died"
      BY <1>1, <1>4 DEF Goto, KernelTypes
    <2> QED
      BY <1>2, <1>4, <2>1 DEF Evidence, Ended
  <1>5. CASE /\ Goto(p, "copy") /\ Readable
             /\ bundle' = [bundle EXCEPT ![p].count = Len(log),
                                          ![p].chainOK = VerifyEvents(log)]
    <2>1. /\ pc'[p] = "copy" /\ bundle'[p].count = Len(log)
          /\ bundle'[p].written = bundle[p].written
      BY <1>1, <1>5 DEF Goto, KernelTypes, Bundle
    <2>2. bundle'[p].chainOK = VerifyEvents(log)
      BY <1>1, <1>5 DEF KernelTypes, Bundle
    <2>3. SubSeq(log, 1, Len(log)) = log
      BY <1>1, <1>2, PrefixFacts, SameElements
    <2>4. Faithful(bundle'[p], log)
      BY <2>1, <2>2, <2>3 DEF Faithful
    <2> QED
      BY <1>2, <1>3, <1>5, <2>1, <2>4 DEF Evidence, Faithful, Readable
  <1>6. CASE /\ Goto(p, "copy")
             /\ bundle' = [bundle EXCEPT ![p].chainOK = VerifyEvents(<<>>),
                                          ![p].blind = TRUE]
    <2>1. /\ pc'[p] = "copy" /\ bundle'[p].count = 0
          /\ bundle'[p].written = bundle[p].written
      BY <1>1, <1>2, <1>6 DEF Goto, KernelTypes, Bundle
    <2>2. bundle'[p].blind
      BY <1>1, <1>6 DEF KernelTypes, Bundle
    <2>3. Faithful(bundle'[p], log)
      BY <1>2, <2>1 DEF Faithful
    <2>4. bundle'[p].count <= Len(log)
      BY <1>2, <2>1
    <2> QED
      BY <1>2, <1>3, <2>1, <2>2, <2>3, <2>4 DEF Evidence, Faithful
  <1>7. \/ /\ Goto(p, "copy") \/ Goto(p, "died")
           /\ bundle' = [bundle EXCEPT ![p].count = Len(log),
                                        ![p].chainOK = VerifyEvents(log)]
           /\ Readable
        \/ /\ Goto(p, "copy")
           /\ bundle' = [bundle EXCEPT ![p].chainOK = VerifyEvents(<<>>),
                                        ![p].blind = TRUE]
        \/ UNCHANGED bundle /\ Goto(p, "died")
    BY DEF ReadEvidence, Unread
  <1>8. bundle' = [bundle EXCEPT ![p].count = Len(log), ![p].chainOK = VerifyEvents(log)]
           => bundle'[p].written = bundle[p].written
    BY <1>1 DEF KernelTypes, Bundle
  <1> QED
    BY <1>4, <1>5, <1>6, <1>7, <1>8

(* The copy has the events that the manifest counts, or was made blindly. *)
LEMMA CopyEvidenceKeeps ==
    ASSUME KernelInv, NEW p \in Proc, Evidence(p), CopyEvidence(p)
    PROVE  Evidence(p)'
  <1>1. /\ KernelTypes /\ ATypeOK /\ bundle[p] \in Bundle /\ log \in Seq(Event)
        /\ Len(log) \in Nat /\ bundle[p].count \in Nat
    <2>1. KernelTypes /\ ATypeOK
      BY Parts
    <2>2. bundle[p] \in Bundle /\ log \in Seq(Event)
      BY <2>1 DEF KernelTypes, ATypeOK
    <2> QED
      BY <2>1, <2>2 DEF Bundle
  <1>2. /\ pc[p] = "copy" /\ ~bundle[p].written /\ overlapped' = overlapped
        /\ bundle[p].count <= Len(log) /\ Faithful(bundle[p], log)
        /\ ~bundle[p].blind /\ ~overlapped => bundle[p].count = Len(log) /\ ~torn
    BY DEF CopyEvidence, Evidence, Ended
  <1>3. CASE Goto(p, "died") /\ UNCHANGED bundle
    <2>1. pc'[p] = "died"
      BY <1>1, <1>3 DEF Goto, KernelTypes
    <2> QED
      BY <1>2, <1>3, <2>1 DEF Evidence, Ended
  <1>4. ASSUME NEW events \in Seq(Event), NEW fragment \in BOOLEAN, NEW blind \in BOOLEAN,
               Copied(p, events, fragment, blind),
               Len(events) <= Len(log), \A i \in 1..Len(events) : events[i] = log[i],
               ~blind => events = log /\ (fragment => torn)
        PROVE  Evidence(p)'
    <2>1. /\ pc'[p] = "write" /\ bundle'[p].copy = events
          /\ bundle'[p].count = bundle[p].count
          /\ bundle'[p].written = bundle[p].written
      BY <1>1, <1>4 DEF Copied, Goto, KernelTypes, Bundle
    <2>2. bundle'[p].chainOK = bundle[p].chainOK /\ bundle'[p].torn = fragment
      BY <1>1, <1>4 DEF Copied, KernelTypes, Bundle
    <2>3. ~bundle'[p].blind => ~bundle[p].blind /\ ~blind
      <3>1. bundle'[p].blind = (bundle[p].blind \/ blind)
        BY <1>1, <1>4 DEF Copied, KernelTypes, Bundle
      <3> QED
        BY <3>1
    <2>4. Faithful(bundle[p], events)
      BY <1>1, <1>2, <1>4, FaithfulPrefix
    <2>5. Faithful(bundle'[p], events)
      BY <2>1, <2>2, <2>4 DEF Faithful
    <2>6. /\ ~bundle'[p].blind => bundle'[p].count <= Len(events)
          /\ ~bundle'[p].blind /\ ~overlapped
                => bundle'[p].count = Len(events) /\ ~bundle'[p].torn
      BY <1>2, <1>4, <2>1, <2>2, <2>3
    <2> QED
      BY <1>2, <2>1, <2>5, <2>6 DEF Evidence, Faithful
  <1>5. /\ torn \in BOOLEAN /\ TRUE \in BOOLEAN /\ FALSE \in BOOLEAN
        /\ <<>> \in Seq(Event)
    <2>1. torn \in BOOLEAN
      BY <1>1, Zenon DEF ATypeOK
    <2> QED
      BY <2>1
  <1>6. Copied(p, log, torn, FALSE) => Evidence(p)'
    <2>1. Len(log) <= Len(log) /\ \A i \in 1..Len(log) : log[i] = log[i]
      BY <1>1
    <2> QED
      BY <1>1, <1>4, <1>5, <2>1, Zenon
  <1>7. Copied(p, <<>>, FALSE, TRUE) => Evidence(p)'
    <2>1. Len(<<>>) <= Len(log) /\ \A i \in 1..Len(<<>>) : <<>>[i] = log[i]
      BY <1>1
    <2> QED
      BY <1>4, <1>5, <2>1, Zenon
  <1>8. Copied(p, EventsRead, FALSE, ~Readable) => Evidence(p)'
    <2>1. CASE Readable
      <3>1. EventsRead = log /\ (~Readable) = FALSE
        BY <2>1 DEF EventsRead
      <3>2. Len(log) <= Len(log) /\ \A i \in 1..Len(log) : log[i] = log[i]
        BY <1>1
      <3>3. Copied(p, log, FALSE, FALSE) => Evidence(p)'
        BY <1>1, <1>4, <1>5, <3>2, Zenon
      <3> QED
        BY <3>1, <3>3, Zenon
    <2>2. CASE ~Readable
      <3>1. EventsRead = <<>> /\ (~Readable) = TRUE
        BY <2>2 DEF EventsRead
      <3> QED
        BY <1>7, <3>1, Zenon
    <2> QED
      BY <2>1, <2>2
  <1>9. ASSUME NEW n \in 0..Len(log), NEW fragment \in BOOLEAN,
               Copied(p, SubSeq(log, 1, n), fragment, TRUE)
        PROVE  Evidence(p)'
    <2> DEFINE events == SubSeq(log, 1, n)
    <2>1. /\ events \in Seq(Event) /\ Len(events) <= Len(log)
          /\ \A i \in 1..Len(events) : events[i] = log[i]
      BY <1>1, PrefixFacts
    <2> HIDE DEF events
    <2>2. Copied(p, events, fragment, TRUE)
      BY <1>9 DEF events
    <2> QED
      BY <1>4, <1>5, <2>1, <2>2, Zenon
  <1> QED
    BY <1>3, <1>6, <1>7, <1>8, <1>9 DEF CopyEvidence

(* A process collects what is in the log. *)
LEMMA OwnEvidence ==
    ASSUME KernelInv, AloneInv, NEW p \in Proc, Step(p) \/ Crash(p)
    PROVE  Evidence(p)'
  <1>1. KernelTypes /\ ATypeOK /\ Control(p) /\ Evidence(p)
    BY Parts DEF AloneInv
  <1>2. overlapped => overlapped'
    BY StepAlive
  <1>3. CASE ReadEvidence(p)
    BY <1>1, <1>3, ReadEvidenceKeeps
  <1>4. CASE CopyEvidence(p)
    BY <1>1, <1>4, CopyEvidenceKeeps
  <1>5. CASE WriteBundle(p) \/ WriteExport(p) \/ PrintVerified(p)
    <2>1. pc[p] = "write" /\ overlapped' = overlapped
      BY <1>5 DEF WriteBundle, WriteExport, PrintVerified
    <2>2. \E l \in {"done", "died"} : Goto(p, l)
      BY <1>5 DEF WriteBundle, WriteExport, PrintVerified, Out, ExitCode
    <2>3. pc'[p] \in Ended /\ pc'[p] \notin {"copy", "write"}
      BY <1>1, <2>2 DEF Goto, KernelTypes, Ended
    <2>4. bundle' = bundle \/ bundle' = [bundle EXCEPT ![p].written = TRUE]
      BY <1>5 DEF WriteBundle, WriteExport, PrintVerified, Out
    <2>5. /\ bundle'[p].copy = bundle[p].copy /\ bundle'[p].count = bundle[p].count
          /\ bundle'[p].torn = bundle[p].torn /\ bundle'[p].blind = bundle[p].blind
          /\ bundle'[p].chainOK = bundle[p].chainOK
      BY <1>1, <2>4 DEF KernelTypes, Bundle
    <2>6. Faithful(bundle[p], bundle[p].copy) => Faithful(bundle[p], bundle[p].copy)'
      BY <2>5 DEF Faithful
    <2> QED
      BY <1>1, <2>1, <2>3, <2>5, <2>6 DEF Evidence
  <1>6. CASE /\ bundle' = bundle
             /\ pc'[p] \notin {"copy", "write"}
             /\ pc[p] \in Ended => pc'[p] \in Ended
             /\ pc[p] \notin {"copy", "write"} \/ pc'[p] \in Ended
    BY <1>1, <1>2, <1>6 DEF Evidence, Faithful
  <1>7. \/ CollectsEvidence(p)
        \/ /\ bundle' = bundle
           /\ pc'[p] \notin {"copy", "write"}
           /\ pc[p] \in Ended => pc'[p] \in Ended
           /\ pc[p] \notin {"copy", "write"} \/ pc'[p] \in Ended
    <2>1. CASE OpenLog(p)
      BY <1>1, <2>1 DEF OpenLog, Goto, Keep, KernelTypes, OpensAt, Ended
    <2>2. CASE LoadPosture(p)
      <3>1. \E l \in {"loaded", "denied", "pending", "deny", "died"} : Goto(p, l)
        BY <2>2, Zenon DEF LoadPosture
      <3>2. bundle' = bundle /\ pc[p] \in {"start", "opened"}
        BY <2>2 DEF LoadPosture, Keep
      <3> QED
        BY <1>1, <3>1, <3>2 DEF Goto, KernelTypes, Ended
    <2>3. CASE LogWrites(p)
      BY <2>3 DEF LogWrites, Keep, LogPoint, Ended
    <2>4. CASE LogReturns(p)
      <3>1. PICK ok \in BOOLEAN : Goto(p, AfterLog(p, ok))
        BY <2>4 DEF LogReturns
      <3>2. pc[p] \in LogPoint /\ bundle' = bundle
        BY <2>4 DEF LogReturns, Keep
      <3>3. AfterLog(p, ok) \notin {"copy", "write"}
        BY <3>1, <3>2, AfterLogFacts
      <3> QED
        BY <1>1, <3>1, <3>2, <3>3 DEF Goto, KernelTypes, LogPoint, Ended
    <2>5. CASE Execute(p) \/ SetPosture(p) \/ PersistPosture(p) \/ CloseLog(p)
      BY <1>1, <2>5 DEF Execute, SetPosture, PersistPosture, CloseLog, Goto, Keep,
                        KernelTypes, Ended
    <2>6. CASE Exit(p) \/ Crash(p)
      BY <1>1, <2>6 DEF Exit, Crash, Goto, Keep, KernelTypes, Ended
    <2> QED
      BY <2>1, <2>2, <2>3, <2>4, <2>5, <2>6 DEF Step, Work, CollectsEvidence
  <1> QED
    BY <1>3, <1>4, <1>5, <1>6, <1>7 DEF CollectsEvidence

(* A step keeps what holds without overlap. *)
LEMMA StepAloneInv ==
    ASSUME KernelInv, AloneInv, NEW p \in Proc, Step(p) \/ Crash(p)
    PROVE  AloneInv'
  <1>1. Does(p) /\ Alone /\ SerialInv /\ KernelInv'
    BY StepKernel DEF AloneInv
  <1>2. /\ Alive(p) \/ (pc[p] = "start" /\ NoteStart(p))
        /\ overlapped => overlapped'
    BY StepAlive
  <1>3. SerialInv'
    BY <1>1, StepSerial
  <1>4. Alone'
    <2>1. "retry" \notin mishaps'
      BY <1>1, StepMishaps DEF Alone
    <2>2. ASSUME ~overlapped'
          PROVE  /\ "overlap" \notin mishaps'
                 /\ \A q, r \in Proc : Alive(q)' /\ Alive(r)' => q = r
      <3>1. /\ ~overlapped
            /\ \A q \in Proc \ {p} : ~Alive(q) /\ ~Alive(q)'
        BY <1>1, <1>2, <2>2, StepAlone
      <3> QED
        BY <1>1, <3>1, StepMishaps DEF Alone
    <2>3. torn' => faults' > 0
      BY <1>1, StepFragment DEF Alone, KernelInv
    <2> QED
      BY <2>1, <2>2, <2>3 DEF Alone
  <1>5. \A q \in Proc : Evidence(q)'
    BY <1>1, <1>2, OwnEvidence, OthersEvidence DEF AloneInv
  <1> QED
    BY <1>3, <1>4, <1>5 DEF AloneInv

(* After a power loss nobody is alive. *)
LEMMA PowerLossAloneInv ==
    ASSUME KernelInv, AloneInv, PowerLoss
    PROVE  AloneInv'
  <1>1. TreeInv /\ SerialInv /\ Alone /\ KernelTypes
    BY DEF KernelInv, AloneInv
  <1>2. SerialInv'
    BY <1>1, PowerLossSerial DEF PowerLoss
  <1>3. mishaps' = mishaps /\ overlapped' = overlapped /\ bundle' = bundle
    BY DEF PowerLoss, APowerLoss, Keep
  <1>4. \A p \in Proc : /\ pc'[p] \in Ended \/ (pc'[p] = "start" /\ pc[p] = "start")
                        /\ pc[p] \in Ended => pc'[p] \in Ended
    BY DEF PowerLoss, Alive, Ended
  <1>5. \A p \in Proc : status'[p] = "closed" /\ phase'[p] = "down"
    BY DEF PowerLoss, APowerLoss, PPowerLoss, Gone, PGone
  <1>6. Alone'
    <2>1. faults' > 0
      BY <1>1, KernelAssumption DEF PowerLoss, Fault, KernelTypes
    <2> QED
      BY <1>1, <1>3, <1>4, <1>5, <2>1 DEF Alone, Alive
  <1>7. ASSUME NEW p \in Proc PROVE Evidence(p)'
    <2>1. Evidence(p)
      BY DEF AloneInv
    <2>2. pc'[p] \notin {"copy", "write"} /\ (pc'[p] \in Ended \/ pc[p] = "start")
      BY <1>4 DEF Ended
    <2> QED
      BY <1>3, <1>4, <2>1, <2>2 DEF Evidence, Faithful, Ended
  <1> QED
    BY <1>2, <1>6, <1>7 DEF AloneInv

(* At first nobody is alive and nothing is collected. *)
LEMMA AloneInit == Init => AloneInv
  <1> SUFFICES ASSUME Init PROVE AloneInv
    OBVIOUS
  <1>1. SerialInv
    BY SerialInit DEF Init
  <1>2. Alone
    BY DEF Init, AInit, Alone, Alive
  <1>3. ASSUME NEW p \in Proc PROVE Evidence(p)
    <2>1. pc[p] = "start" /\ bundle[p] = NoBundle
      BY DEF Init
    <2>2. ~bundle[p].written /\ bundle[p].count = 0
      BY <2>1 DEF NoBundle
    <2> QED
      BY <2>1, <2>2 DEF Evidence
  <1> QED
    BY <1>1, <1>2, <1>3 DEF AloneInv

(* No step breaks what holds without overlap. *)
LEMMA AloneNext == KernelInv /\ AloneInv /\ [Next]_vars => AloneInv'
  <1> SUFFICES ASSUME KernelInv, AloneInv, [Next]_vars PROVE AloneInv'
    OBVIOUS
  <1>1. CASE PowerLoss
    BY <1>1, PowerLossAloneInv
  <1>2. ASSUME NEW p \in Proc, Step(p) \/ Crash(p) PROVE AloneInv'
    BY <1>2, StepAloneInv
  <1>3. CASE UNCHANGED vars
    <2>1. SerialInv'
      BY <1>3, SerialNext DEF AloneInv, KernelInv, vars
    <2>2. Alone'
      BY <1>3 DEF AloneInv, Alone, Alive, vars, avars, pvars
    <2>3. \A p \in Proc : Evidence(p)'
      BY <1>3 DEF AloneInv, Evidence, Faithful, vars, avars
    <2> QED
      BY <2>1, <2>2, <2>3 DEF AloneInv
  <1> QED
    BY <1>1, <1>2, <1>3 DEF Next

(* Without overlap the chain holds. *)
LEMMA AloneChain == KernelInv /\ AloneInv => ChainIntact
  <1> SUFFICES ASSUME KernelInv, AloneInv PROVE ChainIntact
    OBVIOUS
  <1>1. ~overlapped => mishaps = {}
    BY DEF KernelInv, TreeInv, ATypeOK, AloneInv, Alone
  <1> QED
    BY <1>1 DEF AloneInv, Alone, SerialInv, Chain, ChainIntact, VerifyChain, Readable

(* main.go: commands that do not overlap leave one chain of whole events,     *)
(* which "audit verify" accepts unless a failed write left a fragment, and no *)
(* command logs again through a Logger that failed.                           *)
THEOREM SerialCommandsKeepChain == Spec => []ChainIntact
  BY AloneChain, KernelInit, KernelNext, AloneInit, AloneNext, PTL DEF Spec

(* What is out was collected. *)
LEMMA EvidenceOut == AloneInv => EvidenceConsistent
  BY DEF AloneInv, Evidence, Faithful, EvidenceConsistent

(* main.go, audit bundle, export and verify: whatever other commands write    *)
(* between the two reads of the log, and whichever of them fails, a manifest  *)
(* is right about the events it counts, or shows itself to be blind.          *)
THEOREM EvidenceHolds == Spec => []EvidenceConsistent
  BY EvidenceOut, KernelInit, KernelNext, AloneInit, AloneNext, PTL DEF Spec

-----------------------------------------------------------------------------
(* The posture that a handler runs under. *)

(* Dispatch finds no reason to deny only if the posture allows the command. *)
LEMMA NoReasonAllowed ==
    ASSUME NEW c, NEW s, Reason(c, s) = ""
    PROVE  ~Forbids(s, c)
  BY DEF Reason, Forbids

(* Only a process that is about to execute runs a handler. *)
LEMMA StepRuns ==
    ASSUME NEW p \in Proc, Step(p) \/ Crash(p), NEW q \in ran' \ ran
    PROVE  q = p /\ pc[p] = "execute"
  <1>1. Execute(p)
    BY DEF Step, Work, OpenLog, LoadPosture, LogWrites, LogReturns, SetPosture,
           PersistPosture, CloseLog, ReadEvidence, CopyEvidence, WriteBundle,
           WriteExport, PrintVerified, Exit, Crash, Keep
  <1> QED
    BY <1>1 DEF Execute

(* The posture it was allowed under is still the posture of the system. *)
LEMMA RunsObey ==
    ASSUME KernelInv, NEW p \in Proc, pc[p] = "execute", pmishaps = {}
    PROVE  ~Forbids(posture, cmd[p])
  <1>1. phase[p] = "up" /\ Reason(cmd[p], current[p]) = ""
    BY Parts DEF Control
  <1>2. current[p] = posture
    BY <1>1 DEF KernelInv, PostureInv, Serial
  <1> QED
    BY <1>1, <1>2, NoReasonAllowed

(* dispatch.go: without overlap and without a power loss that destroys the    *)
(* posture file, no handler runs that the posture of the system forbids.      *)
THEOREM HandlersObeyPosture == Spec => SerialRunsObeyPosture
  <1>1. KernelInv /\ [Next]_vars
           => [\A p \in ran' \ ran : ~overlapped /\ pmishaps = {}
                   => ~Forbids(posture, cmd[p])]_vars
    <2> SUFFICES ASSUME KernelInv, [Next]_vars, NEW p \in ran' \ ran, pmishaps = {}
                 PROVE  ~Forbids(posture, cmd[p])
      OBVIOUS
    <2>1. p \in Proc /\ pc[p] = "execute"
      BY StepRuns DEF Next, PowerLoss, Keep, vars
    <2> QED
      BY <2>1, RunsObey
  <1> QED
    BY <1>1, KernelInit, KernelNext, PTL DEF Spec, SerialRunsObeyPosture

-----------------------------------------------------------------------------
(* The record of a command is complete unless its own Log failed. *)

Complete(p) ==
    ~failed[p] /\ pc[p] # "crashed" =>
        /\ pc[p] = "denied" /\ (Dispatches(cmd[p]) \/ callerRole(cmd[p].role) = "admin")
              => Logged(synced, p, "deny", "failure")
        /\ pc[p] \in Afterwards =>
              /\ p \in ran => \E res \in {"success", "error"} :
                                  Logged(synced, p, "allow", res)
              /\ p \in changed => \/ Logged(synced, p, "allow", "success")
                                  \/ /\ "close" \in pmishaps
                                     /\ Logged(synced, p, "deny", "failure")

(* What was on record stays on record. *)
LEMMA SyncedStays ==
    ASSUME LogGrows, NEW p, NEW d, NEW res, Logged(synced, p, d, res)
    PROVE  Logged(synced, p, d, res)'
  <1>1. PICK i \in 1..synced : /\ log[i].body.by = p /\ log[i].body.decision = d
                               /\ log[i].body.result = res
    BY DEF Logged
  <1>2. i \in 1..synced' /\ i \in 1..Len(log)
    BY <1>1 DEF LogGrows
  <1>3. log'[i] = log[i]
    BY <1>2 DEF LogGrows
  <1> QED
    BY <1>1, <1>2, <1>3 DEF Logged

(* The other processes' records stay complete. *)
LEMMA OthersComplete ==
    ASSUME NEW p \in Proc, Does(p), NEW q \in Proc \ {p}, Complete(q)
    PROVE  Complete(q)'
  <1>1. SameFor(q) /\ LogGrows /\ cmd' = cmd
    BY DEF Does
  <1>2. (q \in ran' <=> q \in ran) /\ (q \in changed' <=> q \in changed)
    BY DEF Does
  <1>3. \A d, res : Logged(synced, q, d, res) => Logged(synced, q, d, res)'
    BY <1>1, SyncedStays
  <1>4. "close" \in pmishaps => "close" \in pmishaps'
    BY DEF Does
  <1> QED
    BY <1>1, <1>2, <1>3, <1>4 DEF SameFor, Complete, Dispatches, callerRole

(* A process has its outcome on record when Log returns. *)
LEMMA OwnComplete ==
    ASSUME KernelInv, NEW p \in Proc, Complete(p), Step(p) \/ Crash(p)
    PROVE  Complete(p)'
  <1> SUFFICES ASSUME ~failed'[p], pc'[p] # "crashed"
               PROVE  /\ /\ pc'[p] = "denied"
                         /\ Dispatches(cmd'[p]) \/ callerRole(cmd'[p].role) = "admin"
                         => Logged(synced, p, "deny", "failure")'
                      /\ pc'[p] \in Afterwards =>
                            /\ p \in ran' => \E res \in {"success", "error"} :
                                                 Logged(synced, p, "allow", res)'
                            /\ p \in changed'
                                 => \/ Logged(synced, p, "allow", "success")'
                                    \/ /\ "close" \in pmishaps'
                                       /\ Logged(synced, p, "deny", "failure")'
    BY DEF Complete, Dispatches, callerRole, Afterwards, Ended
  <1>1. KernelTypes /\ ATypeOK /\ Control(p) /\ Recorded(p)
    BY Parts
  <1>2. LogGrows /\ cmd' = cmd /\ pmishaps \subseteq pmishaps'
    BY StepKernel DEF Does
  <1>3. CASE OpenLog(p)
    <2>1. /\ pc[p] \in Untouched /\ pc'[p] \in {"opened", "died"}
          /\ ran' = ran /\ changed' = changed
      BY <1>1, <1>3 DEF OpenLog, OpensAt, Goto, Keep, KernelTypes, Untouched
    <2> QED
      BY <1>1, <2>1 DEF Control
  <1>4. CASE LoadPosture(p)
    <2>1. PICK l \in {"loaded", "denied", "pending", "deny", "died"} :
             /\ Goto(p, l)
             /\ l = "denied" => cmd[p].kind = "posture" /\ callerRole(cmd[p].role) # "admin"
      BY <1>4, Zenon DEF LoadPosture
    <2>2. pc[p] \in Untouched /\ ran' = ran /\ changed' = changed /\ pc'[p] = l
      BY <1>1, <1>4, <2>1 DEF LoadPosture, Goto, Keep, KernelTypes, Untouched
    <2> QED
      BY <1>1, <1>2, <2>1, <2>2 DEF Control, Dispatches
  <1>5. CASE LogWrites(p)
    BY <1>5 DEF LogWrites, Keep, LogPoint, Afterwards, Ended
  <1>6. CASE LogReturns(p)
    <2>1. /\ Sync(p) /\ Goto(p, AfterLog(p, TRUE)) /\ pc[p] \in LogPoint
          /\ ran' = ran /\ changed' = changed
      <3>1. ~SyncFails(p) /\ ~WriteFails(p, Record(p))
        BY <1>1, Zenon DEF SyncFails, WriteFails, ATypeOK
      <3> QED
        BY <1>6, <3>1 DEF LogReturns, Keep
    <2>2. Logged(Len(log), p, DecisionAt(pc[p]), ResultAt(pc[p]))
      BY <1>1, <2>1 DEF Sync, Recorded
    <2>3. ASSUME NEW d, NEW res, Logged(Len(log), p, d, res)
          PROVE  Logged(synced, p, d, res)'
      BY <1>2, <2>1, <2>3, LoggedStays DEF Sync, LogGrows
    <2>4. pc'[p] = AfterLog(p, TRUE)
      BY <1>1, <2>1 DEF Goto, KernelTypes
    <2>5. CASE pc[p] \in {"deny", "set.denied"}
      <3>1. Logged(Len(log), p, "deny", "failure") /\ Denied(p)
        BY <1>1, <2>2, <2>5 DEF DecisionAt, ResultAt, Control, Untouched, Denied
      <3> QED
        BY <1>2, <2>1, <2>3, <3>1 DEF Denied
    <2>6. CASE pc[p] = "pending"
      <3>1. AfterLog(p, TRUE) = "execute"
        BY <2>6 DEF AfterLog
      <3> QED
        BY <2>4, <3>1 DEF Afterwards, Ended
    <2>7. CASE pc[p] \in {"outcome.ok", "outcome.error"}
      <3>1. \E res \in {"success", "error"} : Logged(Len(log), p, "allow", res)
        BY <2>2, <2>7 DEF DecisionAt, ResultAt
      <3>2. p \notin changed
        BY <1>1, <2>7 DEF Control, Running
      <3>3. pc'[p] # "denied"
        BY <2>1, <2>4, <2>7, AfterLogFacts
      <3> QED
        BY <2>1, <2>3, <3>1, <3>2, <3>3
    <2>8. CASE pc[p] = "set.allowed"
      <3>1. Logged(Len(log), p, "allow", "success") /\ p \notin ran
        BY <1>1, <2>2, <2>8 DEF DecisionAt, ResultAt, Control
      <3>2. pc'[p] # "denied"
        BY <2>1, <2>4, <2>8, AfterLogFacts
      <3> QED
        BY <2>1, <2>3, <3>1, <3>2
    <2> QED
      BY <2>1, <2>5, <2>6, <2>7, <2>8 DEF LogPoint
  <1>7. CASE Execute(p) \/ SetPosture(p) \/ PersistPosture(p)
    BY <1>1, <1>7 DEF Execute, SetPosture, PersistPosture, Goto, KernelTypes,
                      Afterwards, Ended
  <1>8. CASE CloseLog(p) \/ CollectsEvidence(p) \/ Exit(p)
    <2>1. pc[p] \in Untouched \cup Afterwards /\ ran' = ran /\ changed' = changed
             /\ (pc'[p] = "denied" => pc[p] = "denied")
      <3>1. CASE CloseLog(p) \/ Exit(p)
        BY <1>1, <3>1 DEF CloseLog, Exit, Goto, Keep, KernelTypes, Afterwards, Ended
      <3>2. CASE CollectsEvidence(p)
        <4>1. PICK l \in {"copy", "write", "done", "died"} : Goto(p, l)
          BY <1>1, <3>2, CollectingFacts
        <4> QED
          BY <1>1, <3>2, <4>1, CollectingFacts DEF Goto, KernelTypes, Untouched,
                                                   Afterwards
      <3> QED
        BY <1>8, <3>1, <3>2
    <2>2. \A d, res : Logged(synced, p, d, res) => Logged(synced, p, d, res)'
      BY <1>2, SyncedStays
    <2>3. failed' = failed /\ (pc[p] = "crashed" => pc'[p] = "crashed")
      <3>1. CASE CloseLog(p) \/ Exit(p)
        BY <3>1 DEF CloseLog, Exit, Close, Gone
      <3>2. CASE CollectsEvidence(p)
        BY <1>1, <3>2, CollectingFacts DEF avars
      <3> QED
        BY <1>8, <3>1, <3>2
    <2> QED
      BY <1>1, <1>2, <2>1, <2>2, <2>3 DEF Complete, Control
  <1>9. ~Crash(p)
    BY <1>1 DEF Crash, Goto, KernelTypes
  <1> QED
    BY <1>3, <1>4, <1>5, <1>6, <1>7, <1>8, <1>9 DEF Step, Work, CollectsEvidence

(* Nothing happens. *)
LEMMA CompleteStays ==
    ASSUME NEW q \in Proc, Complete(q), UNCHANGED vars
    PROVE  Complete(q)'
  <1>1. \A d, res : Logged(synced, q, d, res)' <=> Logged(synced, q, d, res)
    BY DEF vars, avars, Logged
  <1>2. UNCHANGED <<cmd, pc, ran, changed, failed, pmishaps>>
    BY DEF vars, avars, pvars
  <1> QED
    BY <1>1, <1>2 DEF Complete, Dispatches

(* A power loss keeps what is on record, and what it interrupts has crashed. *)
LEMMA PowerLossComplete ==
    ASSUME KernelInv, PowerLoss, NEW q \in Proc, Complete(q)
    PROVE  Complete(q)'
  <1>1. /\ UNCHANGED <<cmd, ran, changed, failed>> /\ pmishaps \subseteq pmishaps'
        /\ pc'[q] \in {"crashed", pc[q]}
    BY DEF PowerLoss, Keep, APowerLoss, PPowerLoss, Gone
  <1>2. PICK n \in synced..Len(log) : log' = SubSeq(log, 1, n) /\ synced' = n
    BY DEF PowerLoss, APowerLoss
  <1>3. log \in Seq(Event) /\ Len(log) \in Nat /\ synced \in 0..Len(log)
    BY DEF KernelInv, TreeInv, ATypeOK
  <1>4. n \in 0..Len(log) /\ \A i \in 1..n : log'[i] = log[i]
    BY <1>2, <1>3, PrefixFacts
  <1>5. ASSUME NEW d, NEW res, Logged(synced, q, d, res)
        PROVE  Logged(synced, q, d, res)'
    <2>1. PICK i \in 1..synced : /\ log[i].body.by = q /\ log[i].body.decision = d
                                 /\ log[i].body.result = res
      BY <1>5 DEF Logged
    <2>2. i \in 1..synced' /\ log'[i] = log[i]
      BY <1>2, <1>3, <1>4
    <2> QED
      BY <2>1, <2>2 DEF Logged
  <1> QED
    BY <1>1, <1>5 DEF Complete, Dispatches, callerRole

(* dispatch.go and runPosture: unless one of the command's own Log calls      *)
(* returned an error, a refusal and an outcome are on stable storage when the *)
(* command ends and ever after, for any number of commands at once and        *)
(* whatever else fails.                                                       *)
THEOREM OutcomesAreRecorded == Spec => []OutcomesRecorded
  <1> DEFINE C == \A p \in Proc : Complete(p)
  <1>1. Init => C
    BY DEF Init, Complete, Afterwards, Ended
  <1>2. KernelInv /\ C /\ [Next]_vars => C'
    <2> SUFFICES ASSUME KernelInv, C, [Next]_vars, NEW q \in Proc PROVE Complete(q)'
      OBVIOUS
    <2>1. CASE PowerLoss
      BY <2>1, PowerLossComplete
    <2>2. ASSUME NEW p \in Proc, Step(p) \/ Crash(p) PROVE Complete(q)'
      <3>1. Does(p)
        BY <2>2, StepKernel
      <3> QED
        BY <2>2, <3>1, OwnComplete, OthersComplete
    <2>3. CASE UNCHANGED vars
      BY <2>3, CompleteStays
    <2> QED
      BY <2>1, <2>2, <2>3 DEF Next
  <1>3. C => OutcomesRecorded
    BY DEF Complete, OutcomesRecorded, Afterwards
  <1> QED
    BY <1>1, <1>2, <1>3, KernelInit, KernelNext, PTL DEF Spec
=============================================================================
