--------------------------- MODULE HistoryProofs ---------------------------
(***************************************************************************)
(* Proofs about Kernel: the posture changes that the log lists tell the    *)
(* posture of the system, and the commands use the log as a ledger and the *)
(* posture as the machine of the Ada port.                                 *)
(***************************************************************************)
EXTENDS KernelProofs

(* The postures that a change to the command's target can end in. *)
Shown(c) == {c.target} \cup (IF c.target = "GAME" THEN {"NORMAL"} ELSE {})

(* A process that is changing the posture is on its way to its target, and    *)
(* between the change and its event nobody else changes the posture.          *)
Story(p) ==
    /\ pc[p] = "setting" => phase[p] = "truncated" /\ current[p] \in Shown(cmd[p])
    /\ pc[p] = "set.allowed" /\ ~overlapped => posture \in Shown(cmd[p])

(* A posture change has one event, after which its command does nothing. *)
Once ==
    \A i \in Transitions :
        /\ \/ pc[log[i].body.by] \in Ended
           \/ pc[log[i].body.by] = "set.allowed" /\ status[log[i].body.by] = "written"
        /\ \A j \in Transitions : log[j].body.by = log[i].body.by => j = i

(* Every change has its event. *)
Told == \A p \in changed : \E i \in Transitions : log[i].body.by = p

LastShows ==
    ~overlapped /\ Told =>
        \A i \in Transitions : (\A j \in Transitions : j <= i)
            => posture \in Shown(cmd[log[i].body.by])

HistoryInv == Once /\ LastShows /\ \A p \in Proc : Story(p)

(* A step of p that has nothing to do with posture changes. *)
Apart(p) ==
    /\ log' = log /\ posture' = posture /\ changed' = changed
    /\ pc'[p] \notin {"setting", "set.allowed"}
    /\ pc[p] \in Ended \cup {"set.allowed"} => pc'[p] \in Ended

(* A step of p that writes the event of its place. *)
Adds(p) ==
    /\ pc[p] \in LogPoint /\ log' = Append(log, NewEvent(p, Record(p)))
    /\ posture' = posture /\ changed' = changed /\ pc'[p] # "setting"
    /\ \/ pc'[p] = pc[p] /\ status[p] = "open" /\ status'[p] = "written"
       \/ /\ status[p] = "open" /\ pc'[p] # "set.allowed"
          /\ pc[p] = "set.allowed" => pc'[p] \in Ended

(* An acting process is alive, or starts and looks for others. *)
Acts(p) ==
    /\ Does(p)
    /\ overlapped => overlapped'
    /\ Alive(p) \/ (pc[p] = "start" /\ NoteStart(p))

-----------------------------------------------------------------------------

(* The posture changes of a log to which nothing was added. *)
LEMMA SameTransitions ==
    ASSUME log' = log, cmd' = cmd
    PROVE  Transitions' = Transitions
  BY DEF Transitions

(* An event is a posture change if it is written at "set.allowed". *)
LEMMA MoreTransitions ==
    ASSUME KernelInv, NEW p \in Proc, Does(p), pc[p] \in LogPoint,
           log' = Append(log, NewEvent(p, Record(p)))
    PROVE  /\ Transitions' = Transitions \cup
                  (IF pc[p] = "set.allowed" THEN {Len(log) + 1} ELSE {})
           /\ \A i \in Transitions : i \in 1..Len(log) /\ log'[i] = log[i]
           /\ log'[Len(log) + 1].body.by = p
  <1> DEFINE n == Len(log)
  <1>1. /\ log \in Seq(Event) /\ n \in Nat /\ Len(log') = n + 1
        /\ \A i \in 1..n : log'[i] = log[i]
        /\ log'[n + 1] = NewEvent(p, Record(p))
    BY Parts, Extend DEF ATypeOK
  <1>2. log'[n + 1].body = Record(p)
    BY <1>1 DEF NewEvent
  <1>3. /\ log'[n + 1].body.by = p
        /\ log'[n + 1].body.decision = DecisionAt(pc[p])
    BY <1>2, RecordFacts
  <1>4. cmd' = cmd /\ Control(p)
    BY Parts DEF Does
  <1>5. DecisionAt(pc[p]) = "allow" /\ cmd[p].kind = "posture" <=> pc[p] = "set.allowed"
    BY <1>4 DEF DecisionAt, LogPoint, Control, Running
  <1>6. \A i \in 1..n : i \in Transitions' <=> i \in Transitions
    BY <1>1, <1>4 DEF Transitions
  <1>7. n + 1 \in Transitions' <=> pc[p] = "set.allowed"
    BY <1>1, <1>3, <1>4, <1>5 DEF Transitions
  <1>8. /\ \A i \in Transitions' : i \in 1..n \/ i = n + 1
        /\ \A i \in Transitions : i \in 1..n
    BY <1>1 DEF Transitions
  <1>9. Transitions' = Transitions \cup
            (IF pc[p] = "set.allowed" THEN {n + 1} ELSE {})
    BY <1>6, <1>7, <1>8
  <1> QED
    BY <1>1, <1>3, <1>8, <1>9

(* A posture change in the log was made by its process. *)
LEMMA TransitionFacts ==
    ASSUME KernelInv, NEW i \in Transitions
    PROVE  /\ i \in 1..Len(log) /\ log[i].body.by \in Proc
           /\ log[i].body.by \in changed
  BY DEF Transitions, KernelInv, LogTrue, TrueAt, EventBody

(* The other processes keep their part. *)
LEMMA OthersStory ==
    ASSUME KernelInv, Alone, NEW p \in Proc, Acts(p), NEW q \in Proc \ {p}, Story(q)
    PROVE  Story(q)'
  <1>1. SameFor(q) /\ cmd' = cmd
    BY DEF Acts, Does
  <1>2. ASSUME ~overlapped' PROVE pc[q] # "set.allowed"
    <2>1. ~Alive(q)
      BY <1>2, StepAlone DEF Acts
    <2> QED
      BY <2>1 DEF Alive, Ended
  <1> QED
    BY <1>1, <1>2 DEF SameFor, Story, Shown

(* A step that has nothing to do with posture changes. *)
LEMMA ApartHistory ==
    ASSUME KernelInv, Alone, HistoryInv, NEW p \in Proc, Acts(p), Apart(p)
    PROVE  HistoryInv'
  <1>1. Does(p) /\ cmd' = cmd /\ log' = log /\ Transitions' = Transitions
    BY SameTransitions DEF Acts, Does, Apart
  <1>2. \A q \in Proc : Story(q)'
    BY OthersStory DEF HistoryInv, Apart, Story
  <1>3. Once'
    <2> SUFFICES ASSUME NEW i \in Transitions
                 PROVE  \/ pc'[log[i].body.by] \in Ended
                        \/ /\ pc'[log[i].body.by] = "set.allowed"
                           /\ status'[log[i].body.by] = "written"
      BY <1>1 DEF HistoryInv, Once, Ended
    <2>1. PICK q \in Proc : q = log[i].body.by
      BY TransitionFacts
    <2>2. pc[q] \in Ended \/ (pc[q] = "set.allowed" /\ status[q] = "written")
      BY <2>1 DEF HistoryInv, Once
    <2>3. CASE q = p
      BY <2>1, <2>2, <2>3 DEF Apart
    <2>4. CASE q # p
      BY <1>1, <2>1, <2>2, <2>4 DEF Does, SameFor
    <2> QED
      BY <2>3, <2>4
  <1>4. LastShows'
    <2>1. Told' <=> Told
      BY <1>1 DEF Told, Apart
    <2> QED
      BY <1>1, <2>1 DEF HistoryInv, LastShows, Apart, Acts, Shown
  <1> QED
    BY <1>2, <1>3, <1>4 DEF HistoryInv

(* The event of a posture change is the last one and names the posture. *)
LEMMA AddsHistory ==
    ASSUME KernelInv, Alone, HistoryInv, NEW p \in Proc, Acts(p), Adds(p)
    PROVE  HistoryInv'
  <1> DEFINE n == Len(log) + 1
  <1>1. Does(p) /\ cmd' = cmd /\ n - 1 \in Nat
    BY DEF Acts, Does, LogGrows
  <1>2. /\ Transitions' = Transitions \cup
              (IF pc[p] = "set.allowed" THEN {n} ELSE {})
        /\ \A i \in Transitions : i \in 1..Len(log) /\ log'[i] = log[i]
        /\ log'[n].body.by = p
    BY <1>1, MoreTransitions DEF Adds
  <1>3. \A q \in Proc : Story(q)'
    <2>1. Story(p)'
      BY <1>1 DEF HistoryInv, Adds, Story, Acts, Shown
    <2> QED
      BY <2>1, OthersStory DEF HistoryInv
  <1>4. ASSUME NEW i \in Transitions PROVE log[i].body.by # p \/ pc[p] # "set.allowed"
    BY <1>4 DEF HistoryInv, Once, Adds, Ended
  <1>5. Once'
    <2>1. ASSUME NEW i \in Transitions'
          PROVE  \/ pc'[log'[i].body.by] \in Ended
                 \/ /\ pc'[log'[i].body.by] = "set.allowed"
                    /\ status'[log'[i].body.by] = "written"
      <3>1. CASE i \in Transitions /\ log[i].body.by # p
        <4>1. PICK q \in Proc : q = log[i].body.by /\ q # p
          BY <3>1, TransitionFacts
        <4>2. pc'[q] = pc[q] /\ status'[q] = status[q]
          BY <1>1, <4>1 DEF Does, SameFor
        <4> QED
          BY <1>2, <3>1, <4>1, <4>2 DEF HistoryInv, Once
      <3>2. CASE i \in Transitions /\ log[i].body.by = p
        BY <3>2 DEF HistoryInv, Once, Adds, LogPoint, Ended
      <3>3. CASE i = n /\ pc[p] = "set.allowed"
        BY <1>2, <3>3 DEF Adds
      <3> QED
        BY <1>2, <2>1, <3>1, <3>2, <3>3
    <2>2. ASSUME NEW i \in Transitions', NEW j \in Transitions',
                 log'[j].body.by = log'[i].body.by
          PROVE  j = i
      <3>1. CASE i \in Transitions /\ j \in Transitions
        BY <1>2, <2>2, <3>1 DEF HistoryInv, Once
      <3>2. CASE i = n /\ j = n
        BY <3>2
      <3>3. CASE pc[p] = "set.allowed" /\ (i \notin Transitions \/ j \notin Transitions)
        BY <1>2, <1>4, <2>2, <3>2, <3>3
      <3> QED
        BY <1>2, <3>1, <3>3
    <2> QED
      BY <2>1, <2>2 DEF Once, Ended
  <1>6. LastShows'
    <2> SUFFICES ASSUME ~overlapped', Told', NEW i \in Transitions',
                        \A j \in Transitions' : j <= i
                 PROVE  posture' \in Shown(cmd[log'[i].body.by])
      BY <1>1 DEF LastShows, Shown
    <2>1. ~overlapped /\ posture' = posture /\ changed' = changed
      BY DEF Acts, Adds
    <2>2. CASE pc[p] = "set.allowed"
      <3>1. i = n
        BY <1>1, <1>2, <2>2
      <3> QED
        BY <1>2, <2>1, <2>2, <3>1 DEF HistoryInv, Story
    <2>3. CASE pc[p] # "set.allowed"
      <3>1. Transitions' = Transitions
        BY <1>2, <2>3
      <3>2. Told
        BY <1>2, <2>1, <3>1 DEF Told
      <3> QED
        BY <1>2, <2>1, <3>1, <3>2 DEF HistoryInv, LastShows
    <2> QED
      BY <2>2, <2>3
  <1> QED
    BY <1>3, <1>5, <1>6 DEF HistoryInv

(* A permitted change leads to its target, except that GAME leads out of GAME. *)
LEMMA TargetShown == \A c, from : Target(from, c.target) \in Shown(c)
  BY DEF Target, Shown

(* A process sets out to change the posture. *)
LEMMA SetHistory ==
    ASSUME KernelInv, Alone, HistoryInv, NEW p \in Proc, Acts(p), SetPosture(p)
    PROVE  HistoryInv'
  <1>1. /\ Does(p) /\ cmd' = cmd /\ KernelTypes /\ PTypeOK
        /\ pc[p] = "opened" /\ log' = log
        /\ posture' = posture /\ changed' = changed
    BY Parts DEF Acts, Does, SetPosture, avars, Keep, Transition, TransitionFails
  <1>2. CASE Goto(p, "set.denied")
    <2>1. Apart(p)
      BY <1>1, <1>2 DEF Apart, Goto, KernelTypes, Ended
    <2> QED
      BY <2>1, ApartHistory
  <1>3. CASE Transition(p, cmd[p].target) /\ Goto(p, "setting")
    <2>1. /\ pc'[p] = "setting" /\ phase'[p] = "truncated"
          /\ current'[p] \in Shown(cmd[p])
      BY <1>1, <1>3, TargetShown DEF Transition, Goto, KernelTypes, PTypeOK
    <2>2. \A q \in Proc : Story(q)'
      <3>1. Story(p)'
        BY <1>1, <2>1 DEF Story, Shown
      <3> QED
        BY <3>1, OthersStory DEF HistoryInv
    <2>3. Transitions' = Transitions
      BY <1>1, SameTransitions
    <2>4. Once'
      <3> SUFFICES ASSUME NEW i \in Transitions
                   PROVE  /\ pc'[log[i].body.by] = pc[log[i].body.by]
                          /\ status'[log[i].body.by] = status[log[i].body.by]
        BY <1>1, <2>3 DEF HistoryInv, Once, Ended
      <3>1. PICK q \in Proc : q = log[i].body.by
        BY TransitionFacts
      <3>2. q # p
        BY <1>1, <3>1 DEF HistoryInv, Once, Ended
      <3> QED
        BY <1>1, <3>1, <3>2 DEF Does, SameFor
    <2>5. LastShows'
      <3>1. Told' <=> Told
        BY <1>1, <2>3 DEF Told
      <3> QED
        BY <1>1, <2>3, <3>1 DEF HistoryInv, LastShows, Acts, Shown
    <2> QED
      BY <2>2, <2>4, <2>5 DEF HistoryInv
  <1> QED
    BY <1>2, <1>3 DEF SetPosture

(* A change that has reached the file is not in the log yet, and never will   *)
(* be if the Close of the file failed.                                        *)
LEMMA PersistHistory ==
    ASSUME KernelInv, Alone, HistoryInv, NEW p \in Proc, Acts(p), PersistPosture(p)
    PROVE  HistoryInv'
  <1>1. /\ Does(p) /\ cmd' = cmd /\ KernelTypes /\ Control(p)
        /\ pc[p] = "setting" /\ log' = log
    BY Parts DEF Acts, Does, PersistPosture, avars
  <1>2. CASE Goto(p, "set.denied") /\ PersistFails(p) /\ changed' = changed
    <2>1. Apart(p)
      BY <1>1, <1>2 DEF Apart, Goto, KernelTypes, PersistFails, Revert, Ended
    <2> QED
      BY <2>1, ApartHistory
  <1>3. CASE /\ changed' = changed \cup {p}
             /\ \/ Persist(p) /\ Goto(p, "set.allowed")
                \/ CloseFails(p) /\ Goto(p, "set.denied")
    <2>1. /\ pc'[p] = "set.denied" \/ (pc'[p] = "set.allowed" /\ posture' = current[p])
          /\ p \notin changed
      BY <1>1, <1>3 DEF Persist, Goto, KernelTypes, Control, Untouched
    <2>2. \A q \in Proc : Story(q)'
      <3>1. Story(p)'
        BY <1>1, <2>1 DEF HistoryInv, Story, Shown
      <3> QED
        BY <3>1, OthersStory DEF HistoryInv
    <2>3. Transitions' = Transitions
      BY <1>1, SameTransitions
    <2>4. Once'
      <3> SUFFICES ASSUME NEW i \in Transitions
                   PROVE  /\ pc'[log[i].body.by] = pc[log[i].body.by]
                          /\ status'[log[i].body.by] = status[log[i].body.by]
        BY <1>1, <2>3 DEF HistoryInv, Once, Ended
      <3>1. PICK q \in Proc : q = log[i].body.by /\ q \in changed
        BY TransitionFacts
      <3> QED
        BY <1>1, <2>1, <3>1 DEF Does, SameFor
    <2>5. ~Told'
      <3>1. \A i \in Transitions : log[i].body.by # p
        BY <2>1, TransitionFacts
      <3> QED
        BY <1>1, <1>3, <2>3, <3>1 DEF Told
    <2> QED
      BY <2>2, <2>4, <2>5 DEF HistoryInv, LastShows
  <1> QED
    BY <1>2, <1>3 DEF PersistPosture

(* Every other step writes an event or has nothing to do with changes. *)
LEMMA StepApart ==
    ASSUME KernelInv, NEW p \in Proc, Step(p) \/ Crash(p),
           ~SetPosture(p), ~PersistPosture(p)
    PROVE  Apart(p) \/ Adds(p)
  <1>1. KernelTypes /\ ATypeOK /\ Control(p)
    BY Parts
  <1>2. CASE OpenLog(p)
    <2>1. pc[p] \in {"start", "verified", "loaded"} /\ pc'[p] \in {"opened", "died"}
      BY <1>1, <1>2 DEF OpenLog, OpensAt, Goto, KernelTypes
    <2>2. log' = log /\ posture' = posture /\ changed' = changed
      BY <1>2 DEF OpenLog, Open, OpenFails, fileVars, pvars, Keep
    <2> QED
      BY <2>1, <2>2 DEF Apart, Ended
  <1>3. CASE LoadPosture(p)
    <2>1. PICK l \in {"loaded", "denied", "pending", "deny", "died"} : Goto(p, l)
      BY <1>3, Zenon DEF LoadPosture
    <2>2. pc[p] \in {"start", "opened"}
      BY <1>3 DEF LoadPosture
    <2>3. log' = log /\ posture' = posture /\ changed' = changed
      BY <1>3 DEF LoadPosture, New, NewFails, avars, Keep
    <2> QED
      BY <1>1, <2>1, <2>2, <2>3 DEF Apart, Goto, KernelTypes, Ended
  <1>4. CASE LogWrites(p)
    <2>1. /\ pc[p] \in LogPoint /\ pc' = pc /\ posture' = posture /\ changed' = changed
          /\ log' = Append(log, NewEvent(p, Record(p)))
          /\ status[p] = "open" /\ status'[p] = "written"
      BY <1>1, <1>4 DEF LogWrites, Write, pvars, Keep, ATypeOK
    <2> QED
      BY <2>1 DEF Adds, LogPoint
  <1>5. CASE LogReturns(p)
    <2>1. PICK ok \in BOOLEAN : Goto(p, AfterLog(p, ok))
      BY <1>5 DEF LogReturns
    <2>2. /\ pc[p] \in LogPoint /\ pc'[p] = AfterLog(p, ok)
          /\ posture' = posture /\ changed' = changed
      BY <1>1, <1>5, <2>1 DEF LogReturns, Goto, KernelTypes, pvars, Keep
    <2>3. pc'[p] \in {"denied", "execute", "done", "died", "close", "snap"}
      BY <2>1, <2>2, AfterLogFacts
    <2>4. pc[p] = "set.allowed" => pc'[p] = "done"
      BY <2>2 DEF AfterLog
    <2>5. \/ log' = log
          \/ status[p] = "open" /\ log' = Append(log, NewEvent(p, Record(p)))
      BY <1>5 DEF LogReturns, Sync, SyncFails, WriteFails, fileVars
    <2> QED
      BY <2>2, <2>3, <2>4, <2>5 DEF Apart, Adds, LogPoint, Ended
  <1>6. CASE Execute(p) \/ CloseLog(p)
    BY <1>1, <1>6 DEF Execute, CloseLog, Close, Goto, Keep, KernelTypes, avars, pvars,
                      Apart, Ended
  <1>7. CASE CollectsEvidence(p)
    <2>1. PICK l \in {"copy", "write", "done", "died"} : Goto(p, l)
      BY <1>1, <1>7, CollectingFacts
    <2> QED
      BY <1>1, <1>7, <2>1, CollectingFacts DEF Goto, KernelTypes, avars, pvars, Apart,
                                               Ended
  <1>8. CASE Exit(p) \/ Crash(p)
    BY <1>1, <1>8 DEF Exit, Crash, Close, fileVars, Goto, Keep, KernelTypes, Apart, Ended
  <1> QED
    BY <1>2, <1>3, <1>4, <1>5, <1>6, <1>7, <1>8 DEF Step, Work, CollectsEvidence

(* A step keeps the history. *)
LEMMA StepHistory ==
    ASSUME KernelInv, Alone, HistoryInv, NEW p \in Proc, Step(p) \/ Crash(p)
    PROVE  HistoryInv'
  <1>1. Acts(p)
    BY StepKernel, StepAlive DEF Acts
  <1> QED
    BY <1>1, StepApart, ApartHistory, AddsHistory, SetHistory, PersistHistory

(* A power loss that takes an event away leaves a change without its event. *)
LEMMA PowerLossHistory ==
    ASSUME KernelInv, HistoryInv, PowerLoss
    PROVE  HistoryInv'
  <1>1. /\ log \in Seq(Event) /\ Len(log) \in Nat /\ KernelTypes
    BY DEF KernelInv, TreeInv, ATypeOK
  <1>2. PICK n \in 0..Len(log) : log' = SubSeq(log, 1, n)
    <2>1. PICK n \in synced..Len(log) : log' = SubSeq(log, 1, n)
      BY DEF PowerLoss, APowerLoss
    <2>2. n \in 0..Len(log)
      BY DEF KernelInv, TreeInv, ATypeOK
    <2> QED
      BY <2>1, <2>2
  <1>3. Len(log') = n /\ \A i \in 1..n : log'[i] = log[i]
    BY <1>1, <1>2, PrefixFacts
  <1>4. /\ cmd' = cmd /\ changed' = changed /\ posture' = posture
        /\ overlapped' = overlapped
    BY DEF PowerLoss, Keep, PPowerLoss
  <1>5. \A i : i \in Transitions' <=> i \in Transitions /\ i \in 1..n
    BY <1>1, <1>2, <1>3, <1>4 DEF Transitions
  <1>6. \A i \in Transitions' : i \in Transitions /\ log'[i] = log[i]
    BY <1>3, <1>5
  <1>7. \A p \in Proc : /\ pc'[p] \in Ended \cup {"start"}
                        /\ pc[p] \in Ended \cup {"set.allowed"} => pc'[p] \in Ended
    BY <1>1 DEF PowerLoss, Alive, KernelTypes, Ended
  <1>8. \A p \in Proc : Story(p)'
    BY <1>7 DEF Story, Ended
  <1>9. Once'
    <2>1. ASSUME NEW i \in Transitions' PROVE pc'[log'[i].body.by] \in Ended
      <3>1. i \in Transitions /\ log'[i] = log[i]
        BY <1>6
      <3>2. PICK q \in Proc : q = log[i].body.by
        BY <3>1, TransitionFacts
      <3>3. pc[q] \in Ended \cup {"set.allowed"}
        BY <3>1, <3>2 DEF HistoryInv, Once
      <3> QED
        BY <1>7, <3>1, <3>2, <3>3
    <2>2. ASSUME NEW i \in Transitions', NEW j \in Transitions',
                 log'[j].body.by = log'[i].body.by
          PROVE  j = i
      BY <1>6, <2>2 DEF HistoryInv, Once
    <2> QED
      BY <2>1, <2>2 DEF Once, Ended
  <1>10. LastShows'
    <2> SUFFICES ASSUME ~overlapped', Told', NEW i \in Transitions',
                        \A j \in Transitions' : j <= i
                 PROVE  posture' \in Shown(cmd'[log'[i].body.by])
      BY DEF LastShows, Shown
    <2>1. Told
      BY <1>4, <1>6 DEF Told
    <2>2. ASSUME NEW j \in Transitions PROVE j \in Transitions'
      <3>1. log[j].body.by \in changed'
        BY <1>4, TransitionFacts
      <3>2. PICK k \in Transitions' : log'[k].body.by = log[j].body.by
        BY <3>1 DEF Told
      <3>3. k \in Transitions /\ log[k].body.by = log[j].body.by
        BY <1>6, <3>2
      <3>4. k = j
        BY <3>3 DEF HistoryInv, Once
      <3> QED
        BY <3>2, <3>4
    <2>3. i \in Transitions /\ log'[i] = log[i] /\ \A j \in Transitions : j <= i
      BY <1>6, <2>2
    <2> QED
      BY <1>4, <2>1, <2>3 DEF HistoryInv, LastShows, Shown
  <1> QED
    BY <1>8, <1>9, <1>10 DEF HistoryInv

(* At first there is no change. *)
LEMMA HistoryInit == Init => HistoryInv
  <1> SUFFICES ASSUME Init PROVE HistoryInv
    OBVIOUS
  <1>1. Transitions = {}
    BY DEF Init, AInit, Transitions
  <1>2. \A p \in Proc : pc[p] = "start"
    BY DEF Init
  <1> QED
    BY <1>1, <1>2 DEF HistoryInv, Once, LastShows, Story

(* Nothing happens. *)
LEMMA StutterHistory ==
    ASSUME HistoryInv, UNCHANGED vars
    PROVE  HistoryInv'
  <1>1. /\ log' = log /\ cmd' = cmd /\ pc' = pc /\ status' = status /\ phase' = phase
        /\ current' = current /\ posture' = posture /\ changed' = changed
        /\ overlapped' = overlapped
    BY DEF vars, avars, pvars
  <1>2. Transitions' = Transitions
    BY <1>1, SameTransitions
  <1>3. Once'
    BY <1>1, <1>2 DEF HistoryInv, Once
  <1>4. Told' <=> Told
    BY <1>1, <1>2 DEF Told
  <1>5. LastShows'
    BY <1>1, <1>2, <1>4 DEF HistoryInv, LastShows, Shown
  <1>6. \A p \in Proc : Story(p)'
    BY <1>1 DEF HistoryInv, Story, Shown
  <1> QED
    BY <1>3, <1>5, <1>6 DEF HistoryInv

(* No step breaks the history. *)
LEMMA HistoryNext == KernelInv /\ AloneInv /\ HistoryInv /\ [Next]_vars => HistoryInv'
  BY PowerLossHistory, StepHistory, StutterHistory DEF Next, AloneInv

(* What the invariant says of the last change in the log. *)
LEMMA HistoryShows == HistoryInv => HistoryTellsPosture
  BY DEF HistoryInv, LastShows, Told, Shown, HistoryTellsPosture

(* main.go, posture set and audit history: without overlap, and if every      *)
(* change got its event, the last change in the log names the posture of the  *)
(* system, through failed writes, crashes and power losses.                   *)
THEOREM HistoryIsTrue == Spec => []HistoryTellsPosture
  BY KernelInit, KernelNext, AloneInit, AloneNext, HistoryInit, HistoryNext,
     HistoryShows, PTL DEF Spec

-----------------------------------------------------------------------------
(* A log with a fragment. *)

(* Places at which a process does nothing that has to be in the log. *)
Calm == Afterwards \cup {"start", "verified", "loaded"}

(* Open refuses a log with a fragment, and whoever left it logs no more. *)
Blocked == ~overlapped /\ torn => \A p \in Proc : pc[p] \in Calm

(* In a log with a fragment a calm process stays calm. *)
LEMMA CalmStays ==
    ASSUME KernelInv, NEW p \in Proc, Step(p) \/ Crash(p), torn, pc[p] \in Calm
    PROVE  pc'[p] \in Calm /\ ran' = ran /\ changed' = changed /\ log' = log
  <1>1. KernelTypes /\ ATypeOK
    BY Parts
  <1>2. CASE OpenLog(p)
    BY <1>1, <1>2 DEF OpenLog, Open, OpenFails, Readable, fileVars, Goto, Keep,
                      KernelTypes, Calm, Afterwards, Ended
  <1>3. CASE LoadPosture(p)
    <2>1. pc[p] = "start" /\ cmd[p].kind = "posture"
      BY <1>3 DEF LoadPosture, Calm, Afterwards, Ended
    <2>2. PICK l \in {"loaded", "denied", "died"} : Goto(p, l)
      BY <1>3, <2>1 DEF LoadPosture
    <2> QED
      BY <1>1, <1>3, <2>2 DEF LoadPosture, Goto, Keep, avars, KernelTypes, Calm,
                              Afterwards, Ended
  <1>4. CASE \/ LogWrites(p) \/ LogReturns(p) \/ Execute(p) \/ SetPosture(p)
             \/ PersistPosture(p)
    BY <1>4 DEF LogWrites, LogReturns, Execute, SetPosture, PersistPosture, LogPoint,
                Calm, Afterwards, Ended
  <1>5. CASE CollectsEvidence(p)
    <2>1. PICK l \in {"copy", "write", "done", "died"} : Goto(p, l)
      BY <1>1, <1>5, CollectingFacts
    <2> QED
      BY <1>1, <1>5, <2>1, CollectingFacts DEF Goto, KernelTypes, avars, Calm,
                                               Afterwards, Ended
  <1>6. CASE CloseLog(p) \/ Exit(p) \/ Crash(p)
    BY <1>1, <1>6 DEF CloseLog, Exit, Crash, Close, fileVars, Goto, Keep, KernelTypes,
                      Calm, Afterwards, Ended
  <1> QED
    BY <1>2, <1>3, <1>4, <1>5, <1>6 DEF Step, Work, CollectsEvidence

(* Whoever leaves a fragment has seen its Log call fail. *)
LEMMA FragmentCalms ==
    ASSUME KernelInv, NEW p \in Proc, Step(p) \/ Crash(p), ~torn, torn'
    PROVE  pc'[p] \in Calm
  <1>1. WriteFails(p, Record(p)) /\ LogReturns(p)
    BY DEF Step, Work, OpenLog, LogWrites, LogReturns, LoadPosture, Execute, SetPosture,
           PersistPosture, CloseLog, ReadEvidence, CopyEvidence, WriteBundle,
           WriteExport, PrintVerified, Exit, Crash, Open, OpenFails, Write, Sync,
           SyncFails, Close, avars, fileVars
  <1>2. KernelInv' /\ ATypeOK
    BY StepKernel, Parts
  <1>3. failed'[p]
    BY <1>1, <1>2 DEF WriteFails, ATypeOK
  <1> QED
    BY <1>2, <1>3 DEF KernelInv, Recorded, Calm

(* No step of a process wakes up a blocked system. *)
LEMMA StepBlocked ==
    ASSUME KernelInv, Alone, Blocked, NEW p \in Proc, Step(p) \/ Crash(p)
    PROVE  Blocked'
  <1> SUFFICES ASSUME ~overlapped', torn', NEW q \in Proc PROVE pc'[q] \in Calm
    BY DEF Blocked, Calm, Afterwards, Ended
  <1>1. Does(p) /\ ~overlapped /\ \A r \in Proc \ {p} : ~Alive(r)
    BY StepKernel, StepAlive, StepAlone
  <1>2. CASE q = p
    BY <1>1, <1>2, CalmStays, FragmentCalms DEF Blocked
  <1>3. CASE q # p
    <2>1. pc'[q] = pc[q] /\ ~Alive(q)
      BY <1>1, <1>3 DEF Does, SameFor
    <2> QED
      BY <2>1 DEF Alive, Calm, Afterwards
  <1> QED
    BY <1>2, <1>3

(* After a power loss nobody is at work. *)
LEMMA PowerLossBlocked ==
    ASSUME KernelInv, PowerLoss
    PROVE  Blocked'
  <1>1. \A p \in Proc : pc'[p] \in Ended \cup {"start"}
    BY DEF PowerLoss, Alive, Ended
  <1> QED
    BY <1>1 DEF Blocked, Calm, Afterwards, Ended

(* audit/log.go: Open returns the decode error of a log that a failed write   *)
(* left with a fragment, and whoever left it logs nothing more.  So without   *)
(* overlap nothing is executed, changed or appended as long as it is there.   *)
THEOREM FragmentStopsCommands == Spec => FragmentStops
  <1>1. Init => Blocked
    BY DEF Init, AInit, Blocked
  <1>2. KernelInv /\ AloneInv /\ Blocked /\ [Next]_vars => Blocked'
    <2> SUFFICES ASSUME KernelInv, Alone, Blocked, [Next]_vars PROVE Blocked'
      BY DEF AloneInv
    <2>1. CASE UNCHANGED vars
      BY <2>1 DEF vars, avars, Blocked, Calm, Afterwards, Ended
    <2> QED
      BY <2>1, StepBlocked, PowerLossBlocked DEF Next
  <1>3. KernelInv /\ Blocked /\ [Next]_vars
           => [~overlapped /\ torn /\ torn'
                  => /\ ran' = ran /\ changed' = changed
                     /\ Len(log') <= Len(log)]_vars
    <2> SUFFICES ASSUME KernelInv, Blocked, Next, ~overlapped, torn
                 PROVE  ran' = ran /\ changed' = changed /\ Len(log') <= Len(log)
      OBVIOUS
    <2>1. log \in Seq(Event) /\ Len(log) \in Nat
      BY DEF KernelInv, TreeInv, ATypeOK
    <2>2. ASSUME NEW p \in Proc, Step(p) \/ Crash(p)
          PROVE  ran' = ran /\ changed' = changed /\ log' = log
      BY <2>2, CalmStays DEF Blocked
    <2>3. CASE PowerLoss
      <3>1. PICK n \in synced..Len(log) : log' = SubSeq(log, 1, n)
        BY <2>3 DEF PowerLoss, APowerLoss
      <3>2. n \in 0..Len(log)
        BY DEF KernelInv, TreeInv, ATypeOK
      <3>3. Len(log') = n
        BY <2>1, <3>1, <3>2, PrefixFacts
      <3> QED
        BY <2>1, <2>3, <3>2, <3>3 DEF PowerLoss, Keep
    <2> QED
      BY <2>1, <2>2, <2>3 DEF Next
  <1> QED
    BY <1>1, <1>2, <1>3, KernelInit, KernelNext, AloneInit, AloneNext, PTL
       DEF Spec, FragmentStops

-----------------------------------------------------------------------------
(* The commands use the components as their specifications say. *)

(* A step writes the event of its place, or makes more of the log durable, or *)
(* leaves it alone.                                                           *)
LEMMA StepLog ==
    ASSUME KernelInv, NEW p \in Proc, Step(p) \/ Crash(p)
    PROVE  \/ log' = log /\ synced' \in {Len(log), synced}
           \/ /\ pc[p] \in LogPoint /\ log' = Append(log, NewEvent(p, Record(p)))
              /\ synced' = synced
  <1>1. KernelTypes /\ ATypeOK
    BY Parts
  <1>2. CASE LogWrites(p) \/ LogReturns(p)
    BY <1>2 DEF LogWrites, LogReturns, Write, Sync, SyncFails, WriteFails, fileVars
  <1>3. CASE OpenLog(p)
    BY <1>3 DEF OpenLog, Open, OpenFails, fileVars
  <1>4. CASE LoadPosture(p) \/ Execute(p) \/ SetPosture(p) \/ PersistPosture(p)
    BY <1>4 DEF LoadPosture, Execute, SetPosture, PersistPosture, avars
  <1>5. CASE CollectsEvidence(p)
    BY <1>1, <1>5, CollectingFacts DEF avars
  <1>6. CASE CloseLog(p) \/ Exit(p) \/ Crash(p)
    BY <1>6 DEF CloseLog, Exit, Crash, Close, fileVars
  <1> QED
    BY <1>2, <1>3, <1>4, <1>5, <1>6 DEF Step, Work, CollectsEvidence

(* Every such step is a step of the ledger or leaves it alone. *)
LEMMA StepLedger ==
    ASSUME KernelInv, NEW p \in Proc, Step(p) \/ Crash(p)
    PROVE  [Abstract!Next]_<<Bodies, synced>>
  <1>1. TreeInv /\ (Record(p) \in Body \/ pc[p] \notin LogPoint)
    BY Parts
  <1> QED
    BY <1>1, StepLog, LedgerStays, LedgerAdd DEF Abstract!Next

(* audit/log.go:64: the log is append-only also in the hands of the commands. *)
(* Every behaviour of any number of invocations is a behaviour of Ledger.     *)
THEOREM CommandsKeepLedger == Spec => ImplementsLedger
  <1>1. Init => Abstract!Init
    BY LedgerInit DEF Init
  <1>2. KernelInv /\ [Next]_vars => [Abstract!Next]_<<Bodies, synced>>
    <2> SUFFICES ASSUME KernelInv, [Next]_vars PROVE [Abstract!Next]_<<Bodies, synced>>
      OBVIOUS
    <2>1. CASE PowerLoss
      BY <2>1, LedgerLose DEF PowerLoss, KernelInv, Abstract!Next
    <2>2. CASE UNCHANGED vars
      BY <2>2, LedgerStays DEF vars, avars, KernelInv
    <2> QED
      BY <2>1, <2>2, StepLedger DEF Next
  <1> QED
    BY <1>1, <1>2, KernelInit, KernelNext, PTL DEF Spec, ImplementsLedger, Abstract!Spec

(* Only the end of Transition changes the acknowledged posture. *)
LEMMA StepPosture ==
    ASSUME KernelInv, NEW p \in Proc, Step(p) \/ Crash(p)
    PROVE  posture' = posture \/ Persist(p)
  <1>1. CASE SetPosture(p) \/ PersistPosture(p)
    BY <1>1 DEF SetPosture, Transition, TransitionFails, PersistPosture, PersistFails,
                CloseFails, Revert
  <1> QED
    BY <1>1, StepApart DEF Apart, Adds

(* cmd/emilyos and ada/posture agree: while invocations run one at a time and *)
(* no power loss destroys data, the commands move the posture of the system   *)
(* only as the protected object of the Ada port does.                         *)
THEOREM CommandsImplementPort == Spec => ImplementsPort
  <1>1. KernelInv /\ [Next]_vars => [pmishaps' = {} => [Port!Next]_posture]_pvars
    <2> SUFFICES ASSUME KernelInv, [Next]_vars, pmishaps' = {}, posture' # posture
                 PROVE  Port!Next
      OBVIOUS
    <2>1. PICK p \in Proc : Persist(p)
      BY StepPosture DEF Next, PowerLoss, PPowerLoss, vars, pvars
    <2> QED
      BY <2>1, PortPersist DEF KernelInv
  <1> QED
    BY <1>1, KernelInit, KernelNext, PTL DEF Spec, ImplementsPort

(* audit/log.go: as the commands use it, and through power losses, the log    *)
(* keeps the events whose Log call returned nil, and is a tree rooted at      *)
(* genesis.                                                                   *)
THEOREM CommandsKeepEvents == Spec => [](AckedDurable /\ LogIsTree)
  <1>1. KernelInv => AckedDurable /\ LogIsTree
    BY DEF KernelInv, TreeInv
  <1> QED
    BY <1>1, KernelInit, KernelNext, PTL DEF Spec

(* posture/machine.go: as the commands use it, crashes and failed writes lose *)
(* no acknowledged posture, and a process that asks its own copy about a      *)
(* capability gets the verdict of the Ada port, with the provisos of          *)
(* PostureKept and PortVerdicts.                                              *)
THEOREM CommandsKeepPosture == Spec => [](NoPostureLost /\ SameVerdicts)
  <1>1. KernelInv => NoPostureLost /\ SameVerdicts
    BY InvVerdicts DEF KernelInv, PostureInv, NoPostureLost, LastWriterWins, Serial
  <1> QED
    BY <1>1, KernelInit, KernelNext, PTL DEF Spec
=============================================================================
