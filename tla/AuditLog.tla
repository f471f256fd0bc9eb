------------------------------ MODULE AuditLog ------------------------------
(***************************************************************************)
(* The hash-chained audit log of internal/audit/log.go.                    *)
(*                                                                         *)
(* One file, audit.jsonl, is shared by every emilyos process; a process    *)
(* that opens it holds a Logger (the next sequence number and the hash of  *)
(* the last event it knows of).  A Log call appends one line and syncs it. *)
(* The operating system may fail a write or a sync, cut a write short,     *)
(* kill a process between two system calls, or lose what was not synced.   *)
(*                                                                         *)
(* SHA-256 is modelled as injective: the digest of an event is the list of *)
(* the (seq, body) pairs from the first event of its chain up to it, so    *)
(* the genesis hash is the empty list.  A body stands for the fields that  *)
(* computeHash reads besides Seq and PrevHash; TS and Meta are not hashed  *)
(* and not modelled.                                                       *)
(***************************************************************************)
EXTENDS Processes, Naturals, Sequences

CONSTANTS Body,       \* the hashed caller-supplied fields of an event
          MaxEvents   \* bound: events in the file

ASSUME MaxEventsAssumption == MaxEvents \in Nat

VARIABLES
    log,          \* the whole events in the file, in file order
    torn,         \* the file also holds a fragment of an event
    synced,       \* how many leading events are on stable storage
    tornSynced,   \* the fragment is on stable storage
    status,       \* per process: "closed", "open", or "written" (inside Log)
    seq,          \* Logger.seq
    lastHash,     \* Logger.lastHash
    hash,         \* hash of the event of the Log call in progress
    failed,       \* the last Open or Log of the process returned an error;
                  \* remembered when the process is gone
    acked,        \* history: events whose Log returned nil
    mishaps       \* history: departures from one-process-at-a-time use

avars == <<log, torn, synced, tornSynced, status, seq, lastHash, hash, failed,
          acked, mishaps>>
fileVars == <<log, torn, synced, tornSynced>>

Digest == Seq(Nat \X Body)
genesisHash == <<>>

Event == [seq : Nat, body : Body, prev : Digest, hash : Digest]

computeHash(s, b, prev) == Append(prev, <<s, b>>)

(* The event that a Log call by p with body b writes. *)
NewEvent(p, b) == [seq |-> seq[p], body |-> b, prev |-> lastHash[p],
                   hash |-> computeHash(seq[p], b, lastHash[p])]

(* Mutant: what comes before the fragment is returned without an error. *)
Readable_UpToFragment == TRUE

(* ReadFile: a fragment anywhere in the file is a decode error. *)
Readable == ~torn

(* VerifyEvents returns nil. *)
VerifyEvents(events) ==
    /\ Len(events) > 0 => events[1].prev = genesisHash
    /\ \A i \in 1..Len(events) :
          /\ events[i].hash =
                computeHash(events[i].seq, events[i].body, events[i].prev)
          /\ i > 1 => events[i].prev = events[i - 1].hash

(* VerifyChain returns nil: this is what "audit verify" asks. *)
VerifyChain == Readable /\ VerifyEvents(log)

(* Mutant: the sequence runs backwards. *)
NextSeq_Decremented == IF Len(log) > 0 THEN log[Len(log)].seq - 1 ELSE 0

(* What Open takes from the last event of the file. *)
NextSeq == IF Len(log) > 0 THEN log[Len(log)].seq + 1 ELSE 0

(* Mutant: Open starts a new chain. *)
TipHash_Forgotten == genesisHash

TipHash == IF Len(log) > 0 THEN log[Len(log)].hash ELSE genesisHash

-----------------------------------------------------------------------------

AInit ==
    /\ log = <<>>
    /\ torn = FALSE
    /\ synced = 0
    /\ tornSynced = FALSE
    /\ status = [p \in Proc |-> "closed"]
    /\ seq = [p \in Proc |-> 0]
    /\ lastHash = [p \in Proc |-> genesisHash]
    /\ hash = [p \in Proc |-> genesisHash]
    /\ failed = [p \in Proc |-> FALSE]
    /\ acked = {}
    /\ mishaps = {}

NoteOverlap(p) ==
    mishaps' = IF \E q \in Proc \ {p} : status[q] # "closed"
               THEN mishaps \cup {"overlap"} ELSE mishaps

Open(p) ==
    /\ status[p] = "closed"
    /\ Readable
    /\ status' = [status EXCEPT ![p] = "open"]
    /\ seq' = [seq EXCEPT ![p] = NextSeq]
    /\ lastHash' = [lastHash EXCEPT ![p] = TipHash]
    /\ failed' = [failed EXCEPT ![p] = FALSE]
    /\ NoteOverlap(p)
    /\ UNCHANGED <<fileVars, hash, acked>>

(* Open fails on a file it cannot decode, and for any reason the directory *)
(* or the file cannot be opened.                                           *)
OpenFails(p) ==
    /\ status[p] = "closed"
    /\ failed' = [failed EXCEPT ![p] = TRUE]
    /\ UNCHANGED <<fileVars, status, seq, lastHash, hash, acked, mishaps>>

(* A Logger used again after a Log of it returned an error. *)
NoteRetry(p) ==
    mishaps' = IF failed[p] THEN mishaps \cup {"retry"} ELSE mishaps

(* Mutant: without O_APPEND a Logger writes where it believes the end to be. *)
Write_AtOffset(p, b) ==
    /\ status[p] = "open"
    /\ Len(log) < MaxEvents
    /\ log' = IF seq[p] < Len(log) THEN [log EXCEPT ![seq[p] + 1] = NewEvent(p, b)]
                                   ELSE Append(log, NewEvent(p, b))
    /\ status' = [status EXCEPT ![p] = "written"]
    /\ hash' = [hash EXCEPT ![p] = NewEvent(p, b).hash]
    /\ failed' = [failed EXCEPT ![p] = FALSE]
    /\ NoteRetry(p)
    /\ UNCHANGED <<torn, synced, tornSynced, seq, lastHash, acked>>

(* Log up to its Write call, which appends the whole line (O_APPEND). *)
Write(p, b) ==
    /\ status[p] = "open"
    /\ Len(log) < MaxEvents
    /\ log' = Append(log, NewEvent(p, b))
    /\ status' = [status EXCEPT ![p] = "written"]
    /\ hash' = [hash EXCEPT ![p] = NewEvent(p, b).hash]
    /\ failed' = [failed EXCEPT ![p] = FALSE]
    /\ NoteRetry(p)
    /\ UNCHANGED <<torn, synced, tornSynced, seq, lastHash, acked>>

(* Mutant: the Logger advances although the event did not reach the file. *)
WriteFails_Advances(p, b) ==
    /\ status[p] = "open"
    /\ UNCHANGED <<log, torn>>
    /\ seq' = [seq EXCEPT ![p] = @ + 1]
    /\ lastHash' = [lastHash EXCEPT ![p] = NewEvent(p, b).hash]
    /\ failed' = [failed EXCEPT ![p] = TRUE]
    /\ NoteRetry(p)
    /\ UNCHANGED <<synced, tornSynced, status, hash, acked>>

(* Write returns an error and Log returns it, leaving seq and lastHash. The *)
(* file has gained nothing, a fragment, or the line without its newline,    *)
(* which still decodes as an event.                                         *)
WriteFails(p, b) ==
    /\ status[p] = "open"
    /\ \/ UNCHANGED <<log, torn>>
       \/ torn' = TRUE /\ UNCHANGED log
       \/ /\ Len(log) < MaxEvents
          /\ log' = Append(log, NewEvent(p, b))
          /\ UNCHANGED torn
    /\ failed' = [failed EXCEPT ![p] = TRUE]
    /\ NoteRetry(p)
    /\ UNCHANGED <<synced, tornSynced, status, seq, lastHash, hash, acked>>

(* Mutant: Log returns without having synced. *)
Sync_Skipped(p) ==
    /\ status[p] = "written"
    /\ seq' = [seq EXCEPT ![p] = @ + 1]
    /\ lastHash' = [lastHash EXCEPT ![p] = hash[p]]
    /\ hash' = [hash EXCEPT ![p] = genesisHash]
    /\ acked' = acked \cup {hash[p]}
    /\ status' = [status EXCEPT ![p] = "open"]
    /\ UNCHANGED <<fileVars, failed, mishaps>>

(* Sync succeeds: everything in the file is durable, the Logger advances and *)
(* Log returns nil.                                                          *)
Sync(p) ==
    /\ status[p] = "written"
    /\ synced' = Len(log)
    /\ tornSynced' = torn
    /\ seq' = [seq EXCEPT ![p] = @ + 1]
    /\ lastHash' = [lastHash EXCEPT ![p] = hash[p]]
    /\ hash' = [hash EXCEPT ![p] = genesisHash]
    /\ acked' = acked \cup {hash[p]}
    /\ status' = [status EXCEPT ![p] = "open"]
    /\ UNCHANGED <<log, torn, failed, mishaps>>

(* Sync returns an error: Log returns it although the event is in the file. *)
SyncFails(p) ==
    /\ status[p] = "written"
    /\ status' = [status EXCEPT ![p] = "open"]
    /\ hash' = [hash EXCEPT ![p] = genesisHash]
    /\ failed' = [failed EXCEPT ![p] = TRUE]
    /\ UNCHANGED <<fileVars, seq, lastHash, acked, mishaps>>

(* The process and its Logger are gone. *)
Gone(P) ==
    /\ status' = [p \in Proc |-> IF p \in P THEN "closed" ELSE status[p]]
    /\ seq' = [p \in Proc |-> IF p \in P THEN 0 ELSE seq[p]]
    /\ lastHash' = [p \in Proc |-> IF p \in P THEN genesisHash ELSE lastHash[p]]
    /\ hash' = [p \in Proc |-> IF p \in P THEN genesisHash ELSE hash[p]]
    /\ UNCHANGED failed

(* Close syncs before it closes; the sync may fail. *)
Close(p) ==
    /\ status[p] = "open"
    /\ Gone({p})
    /\ \/ synced' = Len(log) /\ tornSynced' = torn
       \/ UNCHANGED <<synced, tornSynced>>
    /\ UNCHANGED <<log, torn, acked, mishaps>>

(* The process dies; what it wrote stays in the page cache. *)
ACrash(p) ==
    /\ status[p] # "closed"
    /\ Gone({p})
    /\ UNCHANGED <<fileVars, acked, mishaps>>

(* Power is cut: every process dies, and of what was not synced any number of *)
(* whole events survives, possibly with a fragment behind them.               *)
APowerLoss ==
    /\ \E n \in synced..Len(log) :
          /\ log' = SubSeq(log, 1, n)
          /\ synced' = n
          /\ torn' \in {t \in BOOLEAN : /\ tornSynced => t
                                        /\ t => torn \/ n < Len(log)}
    /\ tornSynced' = torn'
    /\ Gone(Proc)
    /\ UNCHANGED <<acked, mishaps>>

AStep(p) ==
    \/ Open(p) \/ OpenFails(p)
    \/ \E b \in Body : Write(p, b) \/ WriteFails(p, b)
    \/ Sync(p) \/ SyncFails(p)
    \/ Close(p) \/ ACrash(p)

ANext == APowerLoss \/ \E p \in Proc : AStep(p)

ASpec == AInit /\ [][ANext]_avars

-----------------------------------------------------------------------------

ATypeOK ==
    /\ log \in Seq(Event)
    /\ torn \in BOOLEAN
    /\ synced \in 0..Len(log)
    /\ tornSynced \in BOOLEAN
    /\ status \in [Proc -> {"closed", "open", "written"}]
    /\ seq \in [Proc -> Nat]
    /\ lastHash \in [Proc -> Digest]
    /\ hash \in [Proc -> Digest]
    /\ failed \in [Proc -> BOOLEAN]
    /\ acked \subseteq Digest
    /\ mishaps \subseteq {"overlap", "retry"}

(* The log is a tree rooted at genesis, whatever the interleaving of the     *)
(* processes and whatever failed: every stored hash is the one computeHash   *)
(* gives, an event's prev_hash is the genesis hash or the hash of an event   *)
(* earlier in the file, and seq is the event's distance from genesis.        *)
LogIsTree ==
    \A i \in 1..Len(log) :
        /\ log[i].hash = computeHash(log[i].seq, log[i].body, log[i].prev)
        /\ \/ log[i].prev = genesisHash
           \/ \E j \in 1..(i - 1) : log[j].hash = log[i].prev
        /\ log[i].seq = Len(log[i].prev)

(* As long as processes ran one after another and none used a Logger again   *)
(* after an error, the whole events form one chain whose seq counts from     *)
(* zero: neither failed writes and syncs, nor crashes, nor power losses      *)
(* break it by themselves.  "audit verify" then accepts the log unless the   *)
(* file holds a fragment, which it reports as TAMPERED.                      *)
SerialChainIntact ==
    mishaps = {} => /\ VerifyEvents(log)
                    /\ VerifyChain \/ torn
                    /\ \A i \in 1..Len(log) : log[i].seq = i - 1

(* An event whose Log returned nil is in the file on stable storage for ever, *)
(* whoever else was writing and whatever crashed since.  (In a file that also *)
(* holds a fragment its bytes are there, but ReadFile stops at the fragment.) *)
AckedDurable == \A h \in acked : \E i \in 1..synced : log[i].hash = h

(* The file is an append-only ledger of the events' bodies, whose synced part *)
(* never shrinks: every step of every process, with O_APPEND writes of any    *)
(* interleaving, is a step of Ledger or leaves the ledger alone.              *)
Bodies == [i \in 1..Len(log) |-> log[i].body]
Abstract == INSTANCE Ledger WITH records <- Bodies, kept <- synced
ImplementsLedger == Abstract!Spec

(* docs/AUDIT.md:46, of seq: "Monotonically increasing sequence number", for  *)
(* callers that, like all those in the repository, log nothing after an error.*)
SeqIncreasing == "retry" \notin mishaps =>
    \A i, j \in 1..Len(log) : i < j => log[i].seq < log[j].seq
=============================================================================
