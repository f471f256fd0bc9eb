--------------------------- MODULE AuditLogProofs ---------------------------
(***************************************************************************)
(* Proofs about AuditLog, for every set of processes, every set of bodies  *)
(* and every length of the log.                                            *)
(***************************************************************************)
EXTENDS AuditLog, TLAPS

(* h is the hash of an event of the list. *)
InLog(events, h) == \E j \in 1..Len(events) : events[j].hash = h

(* What a Logger knows is in the file, however many Loggers there are: its   *)
(* lastHash is the genesis hash or the hash of some event, its seq is the    *)
(* distance of that event from genesis, and the event being logged is there. *)
LoggersInTree ==
    \A p \in Proc :
        /\ seq[p] = Len(lastHash[p])
        /\ lastHash[p] = genesisHash \/ InLog(log, lastHash[p])
        /\ status[p] = "written" => InLog(log, hash[p]) /\ Len(hash[p]) = seq[p] + 1

(* The process is gone without having closed the log, if it had it open. *)
Ends(p) == Gone({p}) /\ UNCHANGED <<fileVars, acked, mishaps>>

TreeInv == ATypeOK /\ LogIsTree /\ LoggersInTree /\ AckedDurable

-----------------------------------------------------------------------------

(* What Append does to a sequence. *)
LEMMA AppendFacts ==
    ASSUME NEW S, NEW s \in Seq(S), NEW e \in S
    PROVE  /\ Append(s, e) \in Seq(S)
           /\ Len(Append(s, e)) = Len(s) + 1
           /\ \A i \in 1..Len(s) : Append(s, e)[i] = s[i]
           /\ Append(s, e)[Len(s) + 1] = e
  OBVIOUS

(* What cutting a sequence after its first n elements does. *)
LEMMA PrefixFacts ==
    ASSUME NEW S, NEW s \in Seq(S), NEW n \in 0..Len(s)
    PROVE  /\ SubSeq(s, 1, n) \in Seq(S)
           /\ Len(SubSeq(s, 1, n)) = n
           /\ \A i \in 1..n : SubSeq(s, 1, n)[i] = s[i]
  OBVIOUS

(* The event of a Log call has the type of an event, its hash is one longer  *)
(* than the hash it is chained to, and its seq is the Logger's.              *)
LEMMA NewEventFacts ==
    ASSUME ATypeOK, LoggersInTree, NEW p \in Proc, NEW b \in Body
    PROVE  /\ NewEvent(p, b) \in Event
           /\ NewEvent(p, b).hash = computeHash(seq[p], b, lastHash[p])
           /\ NewEvent(p, b).hash \in Digest
           /\ Len(NewEvent(p, b).hash) = seq[p] + 1
           /\ NewEvent(p, b).body = b
           /\ NewEvent(p, b).seq = seq[p]
           /\ NewEvent(p, b).prev = lastHash[p]
  <1> DEFINE d == <<seq[p], b>>
  <1>1. seq[p] \in Nat /\ lastHash[p] \in Digest /\ seq[p] = Len(lastHash[p])
    BY DEF ATypeOK, LoggersInTree
  <1>2. d \in Nat \X Body
    BY <1>1
  <1>3. /\ Append(lastHash[p], d) \in Digest
        /\ Len(Append(lastHash[p], d)) = seq[p] + 1
    BY <1>1, <1>2, AppendFacts DEF Digest
  <1> QED
    BY <1>1, <1>3 DEF NewEvent, Event, computeHash, genesisHash

(* A step that appends the event of a Log call keeps the tree, and every     *)
(* hash that was in the file.                                                *)
LEMMA Extend ==
    ASSUME ATypeOK, LogIsTree, LoggersInTree, NEW p \in Proc, NEW b \in Body,
           log' = Append(log, NewEvent(p, b))
    PROVE  /\ log' \in Seq(Event)
           /\ Len(log') = Len(log) + 1
           /\ Len(log) \in Nat
           /\ \A i \in 1..Len(log) : log'[i] = log[i]
           /\ log'[Len(log) + 1] = NewEvent(p, b)
           /\ LogIsTree'
           /\ \A h : InLog(log, h) => InLog(log', h)
           /\ InLog(log', NewEvent(p, b).hash)
  <1> DEFINE e == NewEvent(p, b)
  <1>1. log \in Seq(Event) /\ e \in Event /\ Len(log) \in Nat
    BY NewEventFacts DEF ATypeOK
  <1>2. /\ log' \in Seq(Event)
        /\ Len(log') = Len(log) + 1
        /\ \A i \in 1..Len(log) : log'[i] = log[i]
        /\ log'[Len(log) + 1] = e
    BY <1>1, AppendFacts
  <1>3. LogIsTree'
    <2> SUFFICES ASSUME NEW i \in 1..Len(log')
                 PROVE  /\ log'[i].hash = computeHash(log'[i].seq, log'[i].body,
                                                      log'[i].prev)
                        /\ \/ log'[i].prev = genesisHash
                           \/ \E j \in 1..(i - 1) : log'[j].hash = log'[i].prev
                        /\ log'[i].seq = Len(log'[i].prev)
      BY DEF LogIsTree, computeHash, genesisHash
    <2>1. CASE i \in 1..Len(log)
      <3>1. \A j \in 1..(i - 1) : log'[j] = log[j]
        BY <1>1, <1>2, <2>1
      <3> QED
        BY <1>2, <2>1, <3>1 DEF LogIsTree
    <2>2. CASE i = Len(log) + 1
      <3>1. log'[i] = e /\ i - 1 = Len(log)
        BY <1>1, <1>2, <2>2
      <3>2. e.prev = genesisHash \/ \E j \in 1..Len(log) : log[j].hash = e.prev
        BY NewEventFacts DEF LoggersInTree, InLog
      <3>3. e.prev = genesisHash \/ \E j \in 1..(i - 1) : log'[j].hash = e.prev
        BY <1>2, <3>1, <3>2
      <3>4. e.hash = computeHash(e.seq, e.body, e.prev) /\ e.seq = Len(e.prev)
        BY NewEventFacts DEF LoggersInTree
      <3> QED
        BY <3>1, <3>3, <3>4
    <2> QED
      BY <1>1, <1>2, <2>1, <2>2
  <1>4. \A h : InLog(log, h) => InLog(log', h)
    BY <1>1, <1>2 DEF InLog
  <1>5. InLog(log', e.hash)
    BY <1>1, <1>2 DEF InLog
  <1> QED
    BY <1>1, <1>2, <1>3, <1>4, <1>5

-----------------------------------------------------------------------------

(* The empty log is a tree. *)
LEMMA TreeInit == AInit => TreeInv
  <1> SUFFICES ASSUME AInit PROVE TreeInv
    OBVIOUS
  <1>1. genesisHash \in Digest /\ Len(genesisHash) = 0
    BY DEF genesisHash, Digest
  <1>2. log \in Seq(Event) /\ Len(log) = 0
    BY DEF AInit
  <1>3. failed \in [Proc -> BOOLEAN]
    BY Zenon DEF AInit
  <1>4. ATypeOK
    <2>1. torn \in BOOLEAN /\ tornSynced \in BOOLEAN
      BY Zenon DEF AInit
    <2>2. synced \in 0..Len(log) /\ acked \subseteq Digest
             /\ mishaps \subseteq {"overlap", "retry"}
      BY <1>2 DEF AInit
    <2>3. /\ status \in [Proc -> {"closed", "open", "written"}]
          /\ seq \in [Proc -> Nat]
          /\ lastHash \in [Proc -> Digest]
          /\ hash \in [Proc -> Digest]
      BY <1>1 DEF AInit
    <2> QED
      BY <1>2, <1>3, <2>1, <2>2, <2>3 DEF ATypeOK
  <1>5. LogIsTree
    BY <1>2 DEF LogIsTree
  <1>6. LoggersInTree
    BY <1>1 DEF AInit, LoggersInTree
  <1>7. AckedDurable
    BY DEF AInit, AckedDurable
  <1> QED
    BY <1>4, <1>5, <1>6, <1>7 DEF TreeInv

(* What Open takes from the file's last event. *)
LEMMA OpenFacts ==
    ASSUME ATypeOK, LogIsTree
    PROVE  /\ NextSeq \in Nat
           /\ TipHash \in Digest
           /\ NextSeq = Len(TipHash)
           /\ TipHash = genesisHash \/ InLog(log, TipHash)
  <1> DEFINE n == Len(log)
  <1>1. log \in Seq(Event) /\ n \in Nat
    BY DEF ATypeOK
  <1>2. CASE n = 0
    BY <1>2 DEF NextSeq, TipHash, genesisHash, Digest
  <1>3. CASE n > 0
    <2>1. n \in 1..n /\ log[n] \in Event
      BY <1>1, <1>3
    <2>2. /\ log[n].hash = Append(log[n].prev, <<log[n].seq, log[n].body>>)
          /\ log[n].seq = Len(log[n].prev)
      BY <2>1 DEF LogIsTree, computeHash
    <2>3. /\ log[n].seq \in Nat /\ log[n].hash \in Digest
          /\ log[n].prev \in Seq(Nat \X Body)
          /\ <<log[n].seq, log[n].body>> \in Nat \X Body
      BY <2>1 DEF Event, Digest
    <2>4. Len(log[n].hash) = log[n].seq + 1
      BY <2>2, <2>3, AppendFacts
    <2>5. InLog(log, log[n].hash)
      BY <2>1 DEF InLog
    <2> QED
      BY <1>3, <2>3, <2>4, <2>5 DEF NextSeq, TipHash
  <1> QED
    BY <1>1, <1>2, <1>3

(* The end of processes leaves well-formed Loggers, provided that the hashes *)
(* known to the others stay in the file.                                     *)
LEMMA GoneFacts ==
    ASSUME ATypeOK, LoggersInTree, NEW P \in SUBSET Proc, Gone(P),
           P = Proc \/ log' = log
    PROVE  /\ status' \in [Proc -> {"closed", "open", "written"}]
           /\ seq' \in [Proc -> Nat]
           /\ lastHash' \in [Proc -> Digest]
           /\ hash' \in [Proc -> Digest]
           /\ failed' \in [Proc -> BOOLEAN]
           /\ LoggersInTree'
  <1>1. genesisHash \in Digest /\ Len(genesisHash) = 0
    BY DEF genesisHash, Digest
  <1>2. /\ status' \in [Proc -> {"closed", "open", "written"}]
        /\ seq' \in [Proc -> Nat]
        /\ lastHash' \in [Proc -> Digest]
        /\ hash' \in [Proc -> Digest]
    BY <1>1 DEF Gone, ATypeOK
  <1>3. failed' \in [Proc -> BOOLEAN]
    BY Zenon DEF Gone, ATypeOK
  <1>4. LoggersInTree'
    <2> SUFFICES ASSUME NEW q \in Proc
                 PROVE  /\ seq'[q] = Len(lastHash'[q])
                        /\ lastHash'[q] = genesisHash \/ InLog(log', lastHash'[q])
                        /\ status'[q] = "written"
                              => InLog(log', hash'[q]) /\ Len(hash'[q]) = seq'[q] + 1
      BY DEF LoggersInTree, InLog, genesisHash
    <2>1. CASE q \in P
      BY <1>1, <2>1 DEF Gone
    <2>2. CASE q \notin P
      BY <2>2 DEF Gone, LoggersInTree
    <2> QED
      BY <2>1, <2>2
  <1> QED
    BY <1>2, <1>3, <1>4

-----------------------------------------------------------------------------
(* Each action keeps the tree. *)

(* Open takes the end of some branch: the new Logger knows an event of the tree. *)
LEMMA OpenTree ==
    ASSUME TreeInv, NEW p \in Proc, Open(p)
    PROVE  TreeInv'
  <1>1. ATypeOK /\ LogIsTree /\ LoggersInTree /\ AckedDurable
    BY DEF TreeInv
  <1>2. log' = log /\ synced' = synced /\ acked' = acked
    BY DEF Open, fileVars
  <1>3. failed' \in [Proc -> BOOLEAN]
    BY <1>1, Zenon DEF Open, ATypeOK
  <1>4. ATypeOK'
    BY <1>1, <1>3, OpenFacts DEF Open, ATypeOK, fileVars, NoteOverlap
  <1>5. LoggersInTree'
    BY <1>1, <1>2, OpenFacts DEF Open, ATypeOK, LoggersInTree
  <1>6. LogIsTree' /\ AckedDurable'
    BY <1>1, <1>2 DEF LogIsTree, AckedDurable, computeHash, genesisHash
  <1> QED
    BY <1>4, <1>5, <1>6 DEF TreeInv

(* An Open that fails leaves the file and every Logger alone. *)
LEMMA OpenFailsTree ==
    ASSUME TreeInv, NEW p \in Proc, OpenFails(p)
    PROVE  TreeInv'
  <1>1. ATypeOK /\ LogIsTree /\ LoggersInTree /\ AckedDurable
    BY DEF TreeInv
  <1>2. UNCHANGED <<log, torn, synced, tornSynced, status, seq, lastHash, hash,
                    acked, mishaps>>
    BY DEF OpenFails, fileVars
  <1>3. failed' \in [Proc -> BOOLEAN]
    BY <1>1, Zenon DEF OpenFails, ATypeOK
  <1>4. ATypeOK'
    BY <1>1, <1>2, <1>3 DEF ATypeOK
  <1> QED
    BY <1>1, <1>2, <1>4 DEF TreeInv, LogIsTree, LoggersInTree, AckedDurable, InLog,
                            computeHash, genesisHash

(* Log's write, whole. *)
LEMMA WriteTree ==
    ASSUME TreeInv, NEW p \in Proc, NEW b \in Body, Write(p, b)
    PROVE  TreeInv'
  <1>1. ATypeOK /\ LogIsTree /\ LoggersInTree /\ AckedDurable
    BY DEF TreeInv
  <1>2. log' = Append(log, NewEvent(p, b))
    BY DEF Write
  <1>3. failed' \in [Proc -> BOOLEAN]
    BY <1>1, Zenon DEF Write, ATypeOK
  <1>4. synced' \in 0..Len(log')
    BY <1>1, <1>2, Extend DEF Write, ATypeOK
  <1>5. /\ status' \in [Proc -> {"closed", "open", "written"}]
        /\ hash' \in [Proc -> Digest]
        /\ mishaps' \subseteq {"overlap", "retry"}
    BY <1>1, NewEventFacts DEF Write, ATypeOK, NoteRetry
  <1>6. ATypeOK'
    BY <1>1, <1>2, <1>3, <1>4, <1>5, Extend DEF Write, ATypeOK
  <1>7. LoggersInTree'
    <2> SUFFICES ASSUME NEW q \in Proc
                 PROVE  /\ seq'[q] = Len(lastHash'[q])
                        /\ lastHash'[q] = genesisHash \/ InLog(log', lastHash'[q])
                        /\ status'[q] = "written"
                              => InLog(log', hash'[q]) /\ Len(hash'[q]) = seq'[q] + 1
      BY DEF LoggersInTree, InLog, genesisHash
    <2>1. seq' = seq /\ lastHash' = lastHash
      BY DEF Write
    <2>2. \A h : InLog(log, h) => InLog(log', h)
      BY <1>1, <1>2, Extend
    <2>3. InLog(log', NewEvent(p, b).hash) /\ Len(NewEvent(p, b).hash) = seq[p] + 1
      BY <1>1, <1>2, Extend, NewEventFacts
    <2>4. CASE q = p
      BY <1>1, <2>1, <2>2, <2>3, <2>4 DEF LoggersInTree, Write, ATypeOK
    <2>5. CASE q # p
      BY <1>1, <2>1, <2>2, <2>5 DEF LoggersInTree, Write, ATypeOK
    <2> QED
      BY <2>4, <2>5
  <1>8. AckedDurable'
    <2>1. /\ acked' = acked /\ synced' = synced /\ synced \in 0..Len(log)
          /\ Len(log) \in Nat
          /\ \A i \in 1..Len(log) : log'[i] = log[i]
      BY <1>1, <1>2, Extend DEF Write, ATypeOK
    <2> QED
      BY <1>1, <2>1 DEF AckedDurable
  <1> QED
    BY <1>1, <1>2, <1>6, <1>7, <1>8, Extend DEF TreeInv

(* Log's write, failed: nothing, a fragment or a whole event is added. *)
LEMMA WriteFailsTree ==
    ASSUME TreeInv, NEW p \in Proc, NEW b \in Body, WriteFails(p, b)
    PROVE  TreeInv'
  <1>1. ATypeOK /\ LogIsTree /\ LoggersInTree /\ AckedDurable
    BY DEF TreeInv
  <1>2. UNCHANGED <<synced, tornSynced, status, seq, lastHash, hash, acked>>
    BY DEF WriteFails
  <1>3. failed' \in [Proc -> BOOLEAN] /\ torn' \in BOOLEAN
    BY <1>1, Zenon DEF WriteFails, ATypeOK
  <1>4. mishaps' \subseteq {"overlap", "retry"}
    BY <1>1 DEF WriteFails, ATypeOK, NoteRetry
  <1>5. /\ log' \in Seq(Event) /\ LogIsTree'
        /\ Len(log) \in Nat /\ Len(log') \in Nat /\ Len(log') >= Len(log)
        /\ \A i \in 1..Len(log) : log'[i] = log[i]
        /\ \A h : InLog(log, h) => InLog(log', h)
    <2>1. CASE log' = log
      BY <1>1, <2>1 DEF ATypeOK, LogIsTree, computeHash, genesisHash
    <2>2. CASE log' = Append(log, NewEvent(p, b))
      BY <1>1, <2>2, Extend
    <2> QED
      BY <2>1, <2>2 DEF WriteFails
  <1>6. ATypeOK'
    <2>1. synced' \in 0..Len(log')
      BY <1>1, <1>2, <1>5 DEF ATypeOK
    <2> QED
      BY <1>1, <1>2, <1>3, <1>4, <1>5, <2>1 DEF ATypeOK
  <1>7. LoggersInTree'
    BY <1>1, <1>2, <1>5 DEF LoggersInTree, genesisHash
  <1>8. AckedDurable'
    <2>1. synced \in 0..Len(log)
      BY <1>1 DEF ATypeOK
    <2> QED
      BY <1>1, <1>2, <1>5, <2>1 DEF AckedDurable
  <1> QED
    BY <1>5, <1>6, <1>7, <1>8 DEF TreeInv

(* Log returns nil: what it acknowledges is in the part just synced. *)
LEMMA SyncTree ==
    ASSUME TreeInv, NEW p \in Proc, Sync(p)
    PROVE  TreeInv'
  <1>1. ATypeOK /\ LogIsTree /\ LoggersInTree /\ AckedDurable
    BY DEF TreeInv
  <1>2. /\ log' = log /\ synced' = Len(log) /\ acked' = acked \cup {hash[p]}
        /\ UNCHANGED <<torn, failed, mishaps>>
    BY DEF Sync
  <1>3. tornSynced' \in BOOLEAN
    BY <1>1, Zenon DEF Sync, ATypeOK
  <1>4. genesisHash \in Digest
    BY DEF genesisHash, Digest
  <1>5. InLog(log, hash[p]) /\ Len(hash[p]) = seq[p] + 1
    BY <1>1 DEF Sync, LoggersInTree
  <1>6. ATypeOK'
    <2>1. synced' \in 0..Len(log') /\ acked' \subseteq Digest
      BY <1>1, <1>2 DEF ATypeOK
    <2>2. /\ status' \in [Proc -> {"closed", "open", "written"}]
          /\ seq' \in [Proc -> Nat]
          /\ lastHash' \in [Proc -> Digest]
          /\ hash' \in [Proc -> Digest]
      BY <1>1, <1>4 DEF ATypeOK, Sync
    <2> QED
      BY <1>1, <1>2, <1>3, <2>1, <2>2 DEF ATypeOK
  <1>7. LoggersInTree'
    BY <1>1, <1>2, <1>5 DEF LoggersInTree, Sync, ATypeOK
  <1>8. AckedDurable'
    <2> SUFFICES ASSUME NEW h \in acked'
                 PROVE  \E i \in 1..Len(log) : log[i].hash = h
      BY <1>2 DEF AckedDurable
    <2>1. CASE h = hash[p]
      BY <1>5, <2>1 DEF InLog
    <2>2. CASE h \in acked
      <3>1. synced \in 0..Len(log) /\ Len(log) \in Nat
        BY <1>1 DEF ATypeOK
      <3> QED
        BY <1>1, <2>2, <3>1 DEF AckedDurable
    <2> QED
      BY <1>2, <2>1, <2>2
  <1>9. LogIsTree'
    BY <1>1, <1>2 DEF LogIsTree, computeHash, genesisHash
  <1> QED
    BY <1>6, <1>7, <1>8, <1>9 DEF TreeInv

(* A Log whose sync fails leaves its event in the tree and its Logger behind it. *)
LEMMA SyncFailsTree ==
    ASSUME TreeInv, NEW p \in Proc, SyncFails(p)
    PROVE  TreeInv'
  <1>1. ATypeOK /\ LogIsTree /\ LoggersInTree /\ AckedDurable
    BY DEF TreeInv
  <1>2. UNCHANGED <<log, torn, synced, tornSynced, seq, lastHash, acked, mishaps>>
    BY DEF SyncFails, fileVars
  <1>3. failed' \in [Proc -> BOOLEAN]
    BY <1>1, Zenon DEF SyncFails, ATypeOK
  <1>4. genesisHash \in Digest
    BY DEF genesisHash, Digest
  <1>5. ATypeOK'
    BY <1>1, <1>2, <1>3, <1>4 DEF ATypeOK, SyncFails
  <1>6. LoggersInTree'
    BY <1>1, <1>2 DEF LoggersInTree, SyncFails, ATypeOK
  <1> QED
    BY <1>1, <1>2, <1>5, <1>6 DEF TreeInv, LogIsTree, AckedDurable, computeHash,
                                  genesisHash

(* The end of a process, with or without the sync of Close. *)
LEMMA EndTree ==
    ASSUME TreeInv, NEW p \in Proc, Close(p) \/ Ends(p)
    PROVE  TreeInv'
  <1>1. ATypeOK /\ LogIsTree /\ LoggersInTree /\ AckedDurable
    BY DEF TreeInv
  <1>2. Gone({p}) /\ UNCHANGED <<log, torn, acked, mishaps>>
    BY DEF Close, Ends, fileVars
  <1>3. synced' = Len(log) \/ synced' = synced
    BY DEF Close, Ends, fileVars
  <1>4. tornSynced' \in BOOLEAN
    <2>1. tornSynced' = torn \/ tornSynced' = tornSynced
      BY DEF Close, Ends, fileVars
    <2> QED
      BY <1>1, <2>1, Zenon DEF ATypeOK
  <1>5. synced \in 0..Len(log) /\ Len(log) \in Nat
    BY <1>1 DEF ATypeOK
  <1>6. ATypeOK'
    <2>1. synced' \in 0..Len(log')
      BY <1>2, <1>3, <1>5
    <2> QED
      BY <1>1, <1>2, <1>4, <2>1, GoneFacts DEF ATypeOK
  <1>7. AckedDurable'
    BY <1>1, <1>2, <1>3, <1>5 DEF AckedDurable
  <1>8. LoggersInTree'
    BY <1>1, <1>2, GoneFacts
  <1> QED
    BY <1>1, <1>2, <1>6, <1>7, <1>8 DEF TreeInv, LogIsTree, computeHash, genesisHash

(* A prefix of a tree that contains the synced part is a tree, and has all *)
(* that was acknowledged.                                                  *)
LEMMA PowerLossTree ==
    ASSUME TreeInv, APowerLoss
    PROVE  TreeInv'
  <1>1. ATypeOK /\ LogIsTree /\ LoggersInTree /\ AckedDurable
    BY DEF TreeInv
  <1>2. PICK n \in synced..Len(log) : log' = SubSeq(log, 1, n) /\ synced' = n
    BY DEF APowerLoss
  <1>3. /\ log \in Seq(Event) /\ Len(log) \in Nat
        /\ synced \in 0..Len(log) /\ n \in 0..Len(log)
    BY <1>1, <1>2 DEF ATypeOK
  <1>4. /\ log' \in Seq(Event) /\ Len(log') = n
        /\ \A i \in 1..n : log'[i] = log[i]
    BY <1>2, <1>3, PrefixFacts
  <1>5. Gone(Proc) /\ acked' = acked /\ mishaps' = mishaps
    BY DEF APowerLoss
  <1>6. torn' \in BOOLEAN /\ tornSynced' \in BOOLEAN
    BY Zenon DEF APowerLoss
  <1>7. ATypeOK'
    <2>1. synced' \in 0..Len(log')
      BY <1>2, <1>3, <1>4
    <2> QED
      BY <1>1, <1>4, <1>5, <1>6, <2>1, GoneFacts DEF ATypeOK
  <1>8. LogIsTree'
    <2> SUFFICES ASSUME NEW i \in 1..n
                 PROVE  /\ log'[i].hash = computeHash(log'[i].seq, log'[i].body,
                                                      log'[i].prev)
                        /\ \/ log'[i].prev = genesisHash
                           \/ \E j \in 1..(i - 1) : log'[j].hash = log'[i].prev
                        /\ log'[i].seq = Len(log'[i].prev)
      BY <1>4 DEF LogIsTree, computeHash, genesisHash
    <2>1. i \in 1..Len(log) /\ log'[i] = log[i]
      BY <1>3, <1>4
    <2>2. \A j \in 1..(i - 1) : log'[j] = log[j]
      BY <1>3, <1>4
    <2> QED
      BY <1>1, <2>1, <2>2 DEF LogIsTree
  <1>9. AckedDurable'
    BY <1>1, <1>2, <1>3, <1>4, <1>5 DEF AckedDurable
  <1>10. LoggersInTree'
    BY <1>1, <1>5, GoneFacts
  <1> QED
    BY <1>7, <1>8, <1>9, <1>10 DEF TreeInv

(* No step of any process, and no power loss, breaks the tree. *)
LEMMA TreeNext == TreeInv /\ [ANext]_avars => TreeInv'
  <1> SUFFICES ASSUME TreeInv, [ANext]_avars PROVE TreeInv'
    OBVIOUS
  <1>1. CASE APowerLoss
    BY <1>1, PowerLossTree
  <1>2. ASSUME NEW p \in Proc, AStep(p) PROVE TreeInv'
    BY <1>2, OpenTree, OpenFailsTree, WriteTree, WriteFailsTree, SyncTree,
       SyncFailsTree, EndTree DEF AStep, ACrash, Ends
  <1>3. CASE UNCHANGED avars
    BY <1>3 DEF avars, TreeInv, ATypeOK, LogIsTree, LoggersInTree, AckedDurable,
                InLog, computeHash, genesisHash, Digest, Event
  <1> QED
    BY <1>1, <1>2, <1>3 DEF ANext

(* The log is type-correct whatever the processes and the operating system do. *)
THEOREM TypeCorrect == ASpec => []ATypeOK
  <1>1. TreeInv => ATypeOK
    BY DEF TreeInv
  <1> QED
    BY <1>1, TreeInit, TreeNext, PTL DEF ASpec

(* audit/log.go: the log stays a tree of hashes rooted at genesis under any   *)
(* number of concurrent Loggers, failures, crashes and power losses.          *)
THEOREM TreeForEver == ASpec => []LogIsTree
  <1>1. TreeInv => LogIsTree
    BY DEF TreeInv
  <1> QED
    BY <1>1, TreeInit, TreeNext, PTL DEF ASpec

(* audit/log.go: an event whose Log call returned nil is never lost.          *)
THEOREM Durability == ASpec => []AckedDurable
  <1>1. TreeInv => AckedDurable
    BY DEF TreeInv
  <1> QED
    BY <1>1, TreeInit, TreeNext, PTL DEF ASpec

-----------------------------------------------------------------------------
(* The chain under serial use. *)

(* The events form one chain, numbered from zero. *)
Chain(events) == /\ VerifyEvents(events)
                 /\ \A i \in 1..Len(events) : events[i].seq = i - 1

(* Until a first mishap there is at most one Logger; unless it has failed it *)
(* stands at the end of the chain, or one event before it inside Log.        *)
AtTip ==
    /\ \A p, q \in Proc : status[p] # "closed" /\ status[q] # "closed" => p = q
    /\ \A p \in Proc :
          /\ status[p] = "open" /\ ~failed[p]
                => lastHash[p] = TipHash /\ seq[p] = Len(log)
          /\ status[p] = "written"
                => hash[p] = TipHash /\ seq[p] + 1 = Len(log)

SerialInv == mishaps = {} => Chain(log) /\ AtTip

(* The empty log is a chain, and nobody has it open. *)
LEMMA SerialInit == AInit => SerialInv
  <1> SUFFICES ASSUME AInit PROVE SerialInv
    OBVIOUS
  <1>1. Len(log) = 0
    BY DEF AInit
  <1> QED
    BY <1>1 DEF AInit, SerialInv, Chain, VerifyEvents, AtTip

(* A Logger at the end of the chain extends it. *)
LEMMA ExtendChain ==
    ASSUME TreeInv, Chain(log), NEW p \in Proc, NEW b \in Body,
           lastHash[p] = TipHash, seq[p] = Len(log),
           log' = Append(log, NewEvent(p, b))
    PROVE  Chain(log') /\ TipHash' = NewEvent(p, b).hash
  <1> DEFINE e == NewEvent(p, b)
             n == Len(log)
  <1>1. /\ n \in Nat /\ Len(log') = n + 1
        /\ \A i \in 1..n : log'[i] = log[i]
        /\ log'[n + 1] = e
    BY Extend DEF TreeInv
  <1>2. e.prev = TipHash /\ e.seq = n /\ e.hash = computeHash(e.seq, e.body, e.prev)
    BY NewEventFacts DEF TreeInv
  <1>3. \A i \in 1..Len(log') : i \in 1..n \/ i = n + 1
    BY <1>1
  <1>4. n = 0 => e.prev = genesisHash
    BY <1>2 DEF TipHash
  <1>5. n > 0 => e.prev = log[n].hash
    BY <1>2 DEF TipHash
  <1>6. log'[1].prev = genesisHash
    <2>1. CASE n = 0
      BY <1>1, <1>4, <2>1
    <2>2. CASE n > 0
      BY <1>1, <2>2 DEF Chain, VerifyEvents
    <2> QED
      BY <1>1, <2>1, <2>2
  <1>7. ASSUME NEW i \in 1..Len(log')
        PROVE  /\ log'[i].hash = computeHash(log'[i].seq, log'[i].body, log'[i].prev)
               /\ i > 1 => log'[i].prev = log'[i - 1].hash
               /\ log'[i].seq = i - 1
    <2>1. CASE i \in 1..n
      <3>1. log'[i] = log[i] /\ (i > 1 => i - 1 \in 1..n /\ log'[i - 1] = log[i - 1])
        BY <1>1, <2>1
      <3> QED
        BY <2>1, <3>1 DEF Chain, VerifyEvents
    <2>2. CASE i = n + 1
      <3>1. i > 1 => n \in 1..n /\ i - 1 = n /\ n > 0
        BY <1>1, <2>2
      <3> QED
        BY <1>1, <1>2, <1>5, <2>2, <3>1
    <2> QED
      BY <1>3, <2>1, <2>2
  <1>8. Chain(log')
    BY <1>6, <1>7 DEF Chain, VerifyEvents
  <1>9. TipHash' = e.hash
    BY <1>1 DEF TipHash
  <1> QED
    BY <1>8, <1>9

(* Open finds the end of the chain. *)
LEMMA OpenSerial ==
    ASSUME TreeInv, SerialInv, NEW p \in Proc, Open(p)
    PROVE  SerialInv'
  <1> SUFFICES ASSUME mishaps' = {} PROVE Chain(log)' /\ AtTip'
    BY DEF SerialInv
  <1>1. ATypeOK /\ log' = log
    BY DEF TreeInv, Open, fileVars
  <1>2. mishaps = {} /\ \A q \in Proc \ {p} : status[q] = "closed"
    BY DEF Open, NoteOverlap
  <1>3. Chain(log) /\ AtTip
    BY <1>2 DEF SerialInv
  <1>4. NextSeq = Len(log)
    <2>1. log \in Seq(Event) /\ Len(log) \in Nat
      BY <1>1 DEF ATypeOK
    <2> QED
      BY <1>3, <2>1 DEF NextSeq, Chain
  <1>5. AtTip'
    <2>1. \A q \in Proc : status'[q] # "closed" => q = p
      BY <1>1, <1>2 DEF Open, ATypeOK
    <2>2. status'[p] = "open" /\ seq'[p] = Len(log) /\ lastHash'[p] = TipHash
      BY <1>1, <1>4 DEF Open, ATypeOK
    <2>3. TipHash' = TipHash
      BY <1>1 DEF TipHash, genesisHash
    <2> QED
      BY <1>1, <2>1, <2>2, <2>3 DEF AtTip
  <1> QED
    BY <1>1, <1>3, <1>5 DEF Chain, VerifyEvents, computeHash, genesisHash

(* A Logger that has not failed extends the chain, and one that has is noted. *)
LEMMA WriteSerial ==
    ASSUME TreeInv, SerialInv, NEW p \in Proc, NEW b \in Body,
           Write(p, b) \/ WriteFails(p, b)
    PROVE  SerialInv'
  <1> SUFFICES ASSUME mishaps' = {} PROVE Chain(log)' /\ AtTip'
    BY DEF SerialInv
  <1>1. ATypeOK /\ LoggersInTree /\ LogIsTree
    BY DEF TreeInv
  <1>2. mishaps = {} /\ ~failed[p]
    BY DEF Write, WriteFails, NoteRetry
  <1>3. Chain(log) /\ AtTip
    BY <1>2 DEF SerialInv
  <1>4. status[p] = "open" /\ lastHash[p] = TipHash /\ seq[p] = Len(log)
    BY <1>2, <1>3 DEF Write, WriteFails, AtTip
  <1>5. \A q \in Proc \ {p} : status[q] = "closed"
    BY <1>3, <1>4 DEF AtTip
  <1>6. CASE Write(p, b)
    <2>1. log' = Append(log, NewEvent(p, b))
      BY <1>6 DEF Write
    <2>2. Chain(log') /\ TipHash' = NewEvent(p, b).hash /\ Len(log') = Len(log) + 1
      BY <1>1, <1>3, <1>4, <2>1, ExtendChain, Extend
    <2>3. /\ status'[p] = "written" /\ hash'[p] = NewEvent(p, b).hash
          /\ seq'[p] = seq[p]
          /\ \A q \in Proc \ {p} : status'[q] = "closed"
      BY <1>1, <1>5, <1>6 DEF Write, ATypeOK
    <2>4. AtTip'
      BY <1>4, <2>2, <2>3 DEF AtTip
    <2> QED
      BY <2>2, <2>4 DEF Chain, VerifyEvents, computeHash, genesisHash
  <1>7. CASE WriteFails(p, b)
    <2>1. Chain(log')
      <3>1. CASE log' = log
        BY <1>3, <3>1
      <3>2. CASE log' = Append(log, NewEvent(p, b))
        BY <1>3, <1>4, <3>2, ExtendChain
      <3> QED
        BY <1>7, <3>1, <3>2 DEF WriteFails
    <2>2. status' = status /\ failed'[p] = TRUE
      BY <1>1, <1>7 DEF WriteFails, ATypeOK
    <2>3. AtTip'
      BY <1>4, <1>5, <2>2 DEF AtTip
    <2> QED
      BY <2>1, <2>3 DEF Chain, VerifyEvents, computeHash, genesisHash
  <1> QED
    BY <1>6, <1>7

(* After a sync the Logger stands at the end again; after a failed one it is *)
(* marked as failed.                                                         *)
LEMMA SyncSerial ==
    ASSUME TreeInv, SerialInv, NEW p \in Proc, Sync(p) \/ SyncFails(p)
    PROVE  SerialInv'
  <1> SUFFICES ASSUME mishaps' = {} PROVE Chain(log)' /\ AtTip'
    BY DEF SerialInv
  <1>1. ATypeOK /\ log' = log /\ mishaps = {} /\ status[p] = "written"
    BY DEF TreeInv, Sync, SyncFails, fileVars
  <1>2. Chain(log) /\ AtTip
    BY <1>1 DEF SerialInv
  <1>3. hash[p] = TipHash /\ seq[p] + 1 = Len(log)
    BY <1>1, <1>2 DEF AtTip
  <1>4. \A q \in Proc \ {p} : status'[q] = "closed"
    BY <1>1, <1>2 DEF AtTip, Sync, SyncFails, ATypeOK
  <1>5. TipHash' = TipHash
    BY <1>1 DEF TipHash, genesisHash
  <1>6. status'[p] = "open"
    BY <1>1 DEF Sync, SyncFails, ATypeOK
  <1>7. failed'[p] \/ (lastHash'[p] = TipHash /\ seq'[p] = Len(log))
    <2>1. CASE Sync(p)
      BY <1>1, <1>3, <2>1 DEF Sync, ATypeOK
    <2>2. CASE SyncFails(p)
      BY <1>1, <2>2, Zenon DEF SyncFails, ATypeOK
    <2> QED
      BY <2>1, <2>2
  <1>8. AtTip'
    BY <1>1, <1>4, <1>5, <1>6, <1>7 DEF AtTip
  <1> QED
    BY <1>1, <1>2, <1>8 DEF Chain, VerifyEvents, computeHash, genesisHash

(* Open's failures and the end of a process leave the file alone. *)
LEMMA EndSerial ==
    ASSUME TreeInv, SerialInv, NEW p \in Proc,
           OpenFails(p) \/ Close(p) \/ Ends(p)
    PROVE  SerialInv'
  <1> SUFFICES ASSUME mishaps' = {} PROVE Chain(log)' /\ AtTip'
    BY DEF SerialInv
  <1>1. ATypeOK /\ log' = log /\ mishaps = {}
    BY DEF TreeInv, OpenFails, Close, Ends, fileVars
  <1>2. Chain(log) /\ AtTip
    BY <1>1 DEF SerialInv
  <1>3. status'[p] = "closed"
    BY <1>1 DEF OpenFails, Close, Ends, Gone, ATypeOK
  <1>4. \A q \in Proc \ {p} :
           /\ status'[q] = status[q] /\ lastHash'[q] = lastHash[q]
           /\ hash'[q] = hash[q] /\ seq'[q] = seq[q]
    <2>1. CASE OpenFails(p)
      BY <2>1 DEF OpenFails
    <2>2. CASE Gone({p})
      BY <2>2 DEF Gone
    <2> QED
      BY <2>1, <2>2 DEF Close, Ends
  <1>5. \A q \in Proc \ {p} : failed'[q] = failed[q]
    BY <1>1 DEF OpenFails, Close, Ends, Gone, ATypeOK
  <1>6. TipHash' = TipHash
    BY <1>1 DEF TipHash, genesisHash
  <1>7. AtTip'
    BY <1>1, <1>2, <1>3, <1>4, <1>5, <1>6 DEF AtTip
  <1> QED
    BY <1>1, <1>2, <1>7 DEF Chain, VerifyEvents, computeHash, genesisHash

(* A prefix of a chain is a chain. *)
LEMMA PowerLossSerial ==
    ASSUME TreeInv, SerialInv, APowerLoss
    PROVE  SerialInv'
  <1> SUFFICES ASSUME mishaps' = {} PROVE Chain(log)' /\ AtTip'
    BY DEF SerialInv
  <1>1. ATypeOK /\ mishaps = {}
    BY DEF TreeInv, APowerLoss
  <1>2. Chain(log)
    BY <1>1 DEF SerialInv
  <1>3. PICK n \in synced..Len(log) : log' = SubSeq(log, 1, n)
    BY DEF APowerLoss
  <1>4. log \in Seq(Event) /\ Len(log) \in Nat /\ n \in 0..Len(log)
    BY <1>1, <1>3 DEF ATypeOK
  <1>5. Len(log') = n /\ \A i \in 1..n : log'[i] = log[i]
    BY <1>3, <1>4, PrefixFacts
  <1>6. Chain(log')
    <2>1. n > 0 => log'[1].prev = genesisHash
      <3>1. n > 0 => 1 \in 1..n /\ Len(log) > 0
        BY <1>4
      <3> QED
        BY <1>2, <1>5, <3>1 DEF Chain, VerifyEvents
    <2>2. ASSUME NEW i \in 1..n
          PROVE  /\ log'[i].hash = computeHash(log'[i].seq, log'[i].body,
                                               log'[i].prev)
                 /\ i > 1 => log'[i].prev = log'[i - 1].hash
                 /\ log'[i].seq = i - 1
      <3>1. /\ i \in 1..Len(log) /\ log'[i] = log[i]
            /\ i > 1 => log'[i - 1] = log[i - 1]
        BY <1>4, <1>5
      <3> QED
        BY <1>2, <3>1 DEF Chain, VerifyEvents
    <2> QED
      BY <1>5, <2>1, <2>2 DEF Chain, VerifyEvents
  <1>7. \A q \in Proc : status'[q] = "closed"
    BY DEF APowerLoss, Gone
  <1>8. AtTip'
    BY <1>7 DEF AtTip
  <1> QED
    BY <1>6, <1>8 DEF Chain, VerifyEvents, computeHash, genesisHash

(* No step breaks the chain unless it is, or follows, a mishap. *)
LEMMA SerialNext == TreeInv /\ SerialInv /\ [ANext]_avars => SerialInv'
  <1> SUFFICES ASSUME TreeInv, SerialInv, [ANext]_avars PROVE SerialInv'
    OBVIOUS
  <1>1. CASE APowerLoss
    BY <1>1, PowerLossSerial
  <1>2. ASSUME NEW p \in Proc, AStep(p) PROVE SerialInv'
    BY <1>2, OpenSerial, WriteSerial, SyncSerial, EndSerial DEF AStep, ACrash,
       Ends
  <1>3. CASE UNCHANGED avars
    BY <1>3 DEF avars, SerialInv, Chain, VerifyEvents, AtTip, TipHash, computeHash,
                genesisHash
  <1> QED
    BY <1>1, <1>2, <1>3 DEF ANext

(* audit/log.go: as long as Loggers do not overlap and none is used after an  *)
(* error, VerifyEvents accepts the log, for every length of it, through       *)
(* failed writes and syncs, crashes and power losses, and VerifyChain does    *)
(* except while a failed write's fragment ends the file.                      *)
THEOREM ChainUnderSerialUse == ASpec => []SerialChainIntact
  <1>1. SerialInv => SerialChainIntact
    BY DEF SerialInv, Chain, SerialChainIntact, VerifyChain, Readable
  <1> QED
    BY <1>1, TreeInit, TreeNext, SerialInit, SerialNext, PTL DEF ASpec

-----------------------------------------------------------------------------
(* The log implements the append-only ledger. *)

(* Sequences with the same elements are the same. *)
LEMMA SameElements ==
    ASSUME NEW S, NEW s \in Seq(S), NEW t \in Seq(S), Len(s) = Len(t),
           \A i \in 1..Len(s) : s[i] = t[i]
    PROVE  s = t
  OBVIOUS

(* The bodies of a list of events, element by element. *)
LEMMA BodiesFacts ==
    ASSUME NEW events \in Seq(Event)
    PROVE  LET bodies == [i \in 1..Len(events) |-> events[i].body]
           IN  /\ bodies \in Seq(Body) /\ Len(bodies) = Len(events)
               /\ Len(events) \in Nat
               /\ \A i \in 1..Len(events) : bodies[i] = events[i].body
  <1>1. Len(events) \in Nat
    OBVIOUS
  <1>2. ASSUME NEW i \in 1..Len(events) PROVE events[i].body \in Body
    <2>1. events[i] \in Event
      OBVIOUS
    <2> QED
      BY <2>1 DEF Event
  <1> QED
    BY <1>1, <1>2

(* The empty log is the empty ledger. *)
LEMMA LedgerInit == AInit => Abstract!Init
  <1> SUFFICES ASSUME AInit PROVE Bodies = <<>> /\ synced = 0
    BY DEF Abstract!Init
  <1>1. Len(log) = 0 /\ synced = 0
    BY DEF AInit
  <1> QED
    BY <1>1 DEF Bodies

(* The bodies of a longer log are those of the log and the new one. *)
LEMMA LedgerAdd ==
    ASSUME TreeInv, NEW p \in Proc, NEW b \in Body,
           log' = Append(log, NewEvent(p, b)), synced' = synced
    PROVE  Abstract!Add
  <1> DEFINE n == Len(log)
  <1>1. /\ log \in Seq(Event) /\ n \in Nat /\ Len(log') = n + 1
        /\ \A i \in 1..n : log'[i] = log[i]
        /\ log'[n + 1] = NewEvent(p, b)
    BY Extend DEF TreeInv, ATypeOK
  <1>2. NewEvent(p, b).body = b
    BY NewEventFacts DEF TreeInv
  <1>3. /\ Bodies \in Seq(Body) /\ Len(Bodies) = n
        /\ \A i \in 1..n : Bodies[i] = log[i].body
    BY <1>1, BodiesFacts DEF Bodies
  <1>4. Bodies' = Append(Bodies, b)
    <2>1. /\ Bodies' \in Seq(Body) /\ Len(Bodies') = n + 1
          /\ \A i \in 1..(n + 1) : Bodies'[i] = log'[i].body
      BY <1>1, BodiesFacts, Extend DEF Bodies, TreeInv
    <2>2. /\ Append(Bodies, b) \in Seq(Body) /\ Len(Append(Bodies, b)) = n + 1
          /\ \A i \in 1..n : Append(Bodies, b)[i] = Bodies[i]
          /\ Append(Bodies, b)[n + 1] = b
      BY <1>3, AppendFacts
    <2>3. \A i \in 1..(n + 1) : Bodies'[i] = Append(Bodies, b)[i]
      BY <1>1, <1>2, <1>3, <2>1, <2>2
    <2> QED
      BY <2>1, <2>2, <2>3, SameElements
  <1> QED
    BY <1>4 DEF Abstract!Add

(* The bodies of a log cut short are those of its events that are left. *)
LEMMA LedgerLose ==
    ASSUME TreeInv, APowerLoss
    PROVE  Abstract!Lose
  <1>1. PICK n \in synced..Len(log) : log' = SubSeq(log, 1, n) /\ synced' = n
    BY DEF APowerLoss
  <1>2. log \in Seq(Event) /\ Len(log) \in Nat /\ n \in 0..Len(log)
    BY <1>1 DEF TreeInv, ATypeOK
  <1>3. Len(log') = n /\ \A i \in 1..n : log'[i] = log[i]
    BY <1>1, <1>2, PrefixFacts
  <1>4. Bodies \in Seq(Body) /\ Len(Bodies) = Len(log)
    BY <1>2, BodiesFacts DEF Bodies
  <1>5. Bodies' = SubSeq(Bodies, 1, n)
    <2>1. Bodies' = [i \in 1..n |-> log'[i].body]
      BY <1>3 DEF Bodies
    <2>2. SubSeq(Bodies, 1, n) = [i \in 1..n |-> Bodies[i]]
      BY <1>2, <1>4
    <2>3. \A i \in 1..n : log'[i].body = Bodies[i]
      BY <1>2, <1>3 DEF Bodies
    <2> QED
      BY <2>1, <2>2, <2>3
  <1> QED
    BY <1>1, <1>4, <1>5 DEF Abstract!Lose

(* A step that writes no event keeps more of the ledger, or leaves it alone. *)
LEMMA LedgerStays ==
    ASSUME TreeInv, log' = log, synced' \in {Len(log), synced}
    PROVE  Abstract!Next \/ UNCHANGED <<Bodies, synced>>
  <1>1. Len(Bodies) = Len(log)
    BY BodiesFacts DEF Bodies, TreeInv, ATypeOK
  <1>2. Bodies' = Bodies
    BY DEF Bodies
  <1> QED
    BY <1>1, <1>2 DEF Abstract!Next, Abstract!Keep

(* Every step of the log is a step of the ledger or leaves it alone. *)
LEMMA LedgerNext ==
    TreeInv /\ [ANext]_avars => [Abstract!Next]_<<Bodies, synced>>
  <1> SUFFICES ASSUME TreeInv, [ANext]_avars
               PROVE  Abstract!Next \/ UNCHANGED <<Bodies, synced>>
    OBVIOUS
  <1>1. CASE APowerLoss
    BY <1>1, LedgerLose DEF Abstract!Next
  <1>2. ASSUME NEW p \in Proc, AStep(p)
        PROVE  Abstract!Next \/ UNCHANGED <<Bodies, synced>>
    <2>1. ASSUME NEW b \in Body, Write(p, b) \/ WriteFails(p, b)
          PROVE  Abstract!Next \/ UNCHANGED <<Bodies, synced>>
      <3>1. synced' = synced /\ (log' = log \/ log' = Append(log, NewEvent(p, b)))
        BY <2>1 DEF Write, WriteFails
      <3> QED
        BY <3>1, LedgerStays, LedgerAdd DEF Abstract!Next
    <2>2. CASE \/ Open(p) \/ OpenFails(p) \/ Sync(p) \/ SyncFails(p)
               \/ Close(p) \/ ACrash(p)
      <3>1. log' = log /\ synced' \in {Len(log), synced}
        BY <2>2 DEF Open, OpenFails, Sync, SyncFails, Close, ACrash, fileVars
      <3> QED
        BY <3>1, LedgerStays
    <2> QED
      BY <1>2, <2>1, <2>2 DEF AStep
  <1>3. CASE UNCHANGED avars
    BY <1>3, LedgerStays DEF avars
  <1> QED
    BY <1>1, <1>2, <1>3 DEF ANext

(* audit/log.go:64: a Logger is append-only.  Every behaviour of the log,     *)
(* with any number of processes, failures and power losses, is a behaviour    *)
(* of Ledger.                                                                 *)
THEOREM Refinement == ASpec => ImplementsLedger
  BY TreeInit, TreeNext, LedgerInit, LedgerNext, PTL
     DEF ASpec, ImplementsLedger, Abstract!Spec
=============================================================================
