----------------------------- MODULE Snapshots -----------------------------
(***************************************************************************)
(* The policy snapshot store of internal/policy/snapshot.go and the way    *)
(* cmd/emilyos/main.go adds to it ("snapshot capture" and the end of "fs   *)
(* grant|revoke"): read the latest snapshot for its ID, take an ID from    *)
(* the clock, write <ID>.json.                                             *)
(*                                                                         *)
(* An ID is the second in which it was made, so a time stands for it; 0 is *)
(* the empty ID.  A file is written by os.WriteFile: truncated, then       *)
(* written.  A whole file carries the hash of its own content, so that     *)
(* only files that do not parse fail the check of "snapshot rollback".     *)
(***************************************************************************)
EXTENDS Naturals, FiniteSetsExt, Functions

CONSTANTS Proc,      \* processes that add snapshots
          What,      \* what a snapshot declares (Roles or Capabilities)
          MaxTime    \* bound: seconds

ASSUME MaxTimeAssumption == MaxTime \in Nat \ {0}

VARIABLES
    dir,        \* the snapshots that parse, by ID
    empty,      \* the IDs of files truncated and not written since
    partial,    \* the IDs of files with something in them that does not parse
    sphase,     \* per process: "idle", "linked", "truncated", "saved", "failed"
    prevID,     \* PrevSnapshotID of the snapshot being made
    snapID,     \* its SnapshotID
    smishaps    \* history: overlapping writers, IDs that do not increase, a
                \* latest snapshot that could not be read

svars == <<dir, empty, partial, sphase, prevID, snapID, smishaps>>
sfiles == <<dir, empty, partial>>

ID == 1..MaxTime
Snapshot == [prev : 0..MaxTime, what : What]
Torn == empty \cup partial
Names == DOMAIN dir \cup Torn

(* Mutant: the file is opened without being truncated. *)
Without_NoTruncation(id) == dir

(* What is left of the directory's snapshots when a file has been truncated. *)
Without(id) == Restrict(dir, DOMAIN dir \ {id})

(* Mutant: the names are sorted the other way round. *)
LatestID_Smallest ==
    IF Names = {} \/ Min(Names) \in Torn THEN 0 ELSE Min(Names)

(* The ID that Latest returns; 0 if there is no file, or if the last one does *)
(* not parse: the callers ignore the error.                                   *)
LatestID ==
    IF Names = {} \/ Max(Names) \in Torn THEN 0 ELSE Max(Names)

(* No process is at work, and every file is whole. *)
SIdle ==
    /\ empty = {}
    /\ partial = {}
    /\ sphase = [p \in Proc |-> "idle"]
    /\ prevID = [p \in Proc |-> 0]
    /\ snapID = [p \in Proc |-> 0]
    /\ smishaps = {}

SInit == dir = [i \in {} |-> {}] /\ SIdle

(* Latest and the choice of PrevSnapshotID.  The directory or the file may be *)
(* unreadable (~ok), and the callers ignore that error too.                   *)
Link(p, ok) ==
    /\ sphase[p] = "idle"
    /\ sphase' = [sphase EXCEPT ![p] = "linked"]
    /\ prevID' = [prevID EXCEPT ![p] = IF ok THEN LatestID ELSE 0]
    /\ smishaps' = smishaps \cup (IF ok THEN {} ELSE {"unread"})
                   \cup (IF \E q \in Proc \ {p} : sphase[q] \in {"linked", "truncated"}
                         THEN {"overlap"} ELSE {})
    /\ UNCHANGED <<sfiles, snapID>>

(* Mutant: the new snapshot takes its predecessor's ID for its own. *)
Truncate_InPlace(p, now) ==
    /\ sphase[p] = "linked"
    /\ sphase' = [sphase EXCEPT ![p] = "truncated"]
    /\ LET id == IF prevID[p] = 0 THEN now ELSE prevID[p]
       IN  /\ snapID' = [snapID EXCEPT ![p] = id]
           /\ dir' = Without(id)
           /\ empty' = empty \cup {id}
           /\ partial' = partial \ {id}
    /\ smishaps' = IF \E i \in Names : i >= now
                   THEN smishaps \cup {"clock"} ELSE smishaps
    /\ UNCHANGED prevID

(* NewSnapshotID reads the clock, which may stand still or be set back between *)
(* two commands; then Write, up to the truncation of the file.                 *)
Truncate(p, now) ==
    /\ sphase[p] = "linked"
    /\ sphase' = [sphase EXCEPT ![p] = "truncated"]
    /\ snapID' = [snapID EXCEPT ![p] = now]
    /\ dir' = Without(now)
    /\ empty' = empty \cup {now}
    /\ partial' = partial \ {now}
    /\ smishaps' = IF \E i \in Names : i >= now
                   THEN smishaps \cup {"clock"} ELSE smishaps
    /\ UNCHANGED prevID

(* The write.  Over a file that another process has written to meanwhile it  *)
(* may leave a tail of the other content, so that the file does not parse.   *)
WriteFile(p, w) ==
    LET id == snapID[p]
        snap == [prev |-> prevID[p], what |-> w]
    IN  /\ empty' = empty \ {id}
        /\ \/ /\ dir' = [i \in DOMAIN dir \cup {id} |->
                             IF i = id THEN snap ELSE dir[i]]
              /\ partial' = partial \ {id}
           \/ /\ id \notin empty
              /\ dir' = Without(id)
              /\ partial' = partial \cup {id}

Save(p, w) ==
    /\ sphase[p] = "truncated"
    /\ WriteFile(p, w)
    /\ sphase' = [sphase EXCEPT ![p] = "saved"]
    /\ UNCHANGED <<prevID, snapID, smishaps>>

(* The file cannot be opened, the write fails before or after its first byte, *)
(* or the file is written and its Close fails.                                *)
SaveFails(p, w) ==
    /\ sphase[p] \in {"linked", "truncated"}
    /\ \/ UNCHANGED sfiles
       \/ /\ sphase[p] = "truncated"
          /\ dir' = Without(snapID[p])
          /\ empty' = empty \ {snapID[p]}
          /\ partial' = partial \cup {snapID[p]}
       \/ sphase[p] = "truncated" /\ WriteFile(p, w)
    /\ sphase' = [sphase EXCEPT ![p] = "failed"]
    /\ UNCHANGED <<prevID, snapID, smishaps>>

SGone(P) ==
    /\ sphase' = [p \in Proc |-> IF p \in P THEN "idle" ELSE sphase[p]]
    /\ prevID' = [p \in Proc |-> IF p \in P THEN 0 ELSE prevID[p]]
    /\ snapID' = [p \in Proc |-> IF p \in P THEN 0 ELSE snapID[p]]

-----------------------------------------------------------------------------

STypeOK ==
    /\ DOMAIN dir \subseteq ID /\ dir \in [DOMAIN dir -> Snapshot]
    /\ empty \subseteq ID \ DOMAIN dir
    /\ partial \subseteq ID \ (DOMAIN dir \cup empty)
    /\ sphase \in [Proc -> {"idle", "linked", "truncated", "saved", "failed"}]
    /\ prevID \in [Proc -> 0..MaxTime] /\ snapID \in [Proc -> 0..MaxTime]
    /\ smishaps \subseteq {"overlap", "clock", "unread"}

(* As long as IDs increase, the snapshots are linked, however many processes  *)
(* write them and whatever fails: the predecessor a snapshot names is an      *)
(* older one that is there and whole.  Without overlapping writers it is the  *)
(* one directly before, and a snapshot names none only if there is none, if a *)
(* crash or a failed write left the file before it torn, or if Latest could   *)
(* not read the store.                                                        *)
SnapshotChain ==
    "clock" \notin smishaps =>
        \A i \in DOMAIN dir :
            LET prev == dir[i].prev
                before == {j \in Names : j < i}
            IN  /\ prev # 0 => prev \in DOMAIN dir /\ prev < i
                /\ "overlap" \notin smishaps =>
                       \/ before # {} /\ prev = Max(before)
                       \/ /\ prev = 0
                          /\ \/ before = {} \/ Max(before) \in Torn
                             \/ "unread" \in smishaps

(* snapshot.go:3: "Every policy change produces an immutable, hash-addressed  *)
(* JSON snapshot."  No whole snapshot is changed by a later one, for writers  *)
(* that do not overlap.                                                       *)
SnapshotsImmutable ==
    [][\A i \in DOMAIN dir : "overlap" \notin smishaps'
           => i \in DOMAIN dir' /\ dir'[i] = dir[i]]_svars

(* It holds as long as IDs increase, also for writers that overlap: a file    *)
(* that is whole is never truncated, and nobody still writes to it.           *)
OrderedSnapshotsImmutable ==
    [][\A i \in DOMAIN dir : "clock" \notin smishaps'
           => i \in DOMAIN dir' /\ dir'[i] = dir[i]]_svars
=============================================================================
