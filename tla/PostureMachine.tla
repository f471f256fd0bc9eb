--------------------------- MODULE PostureMachine ---------------------------
(***************************************************************************)
(* The posture machine of internal/posture/machine.go.                     *)
(*                                                                         *)
(* posture.json is shared by every emilyos process; a process loads it     *)
(* once (New) and keeps its own copy (Machine.current).  Transition checks *)
(* the copy, changes it and rewrites the file with os.WriteFile, which     *)
(* truncates it and then writes: two system calls, no sync, no rename.     *)
(***************************************************************************)
EXTENDS Policy, Processes

VARIABLES
    pfile,      \* what posture.json holds
    pdisk,      \* what stable storage holds of it
    phase,      \* per process: "down", "up", or "truncated" (inside persist)
    current,    \* Machine.current
    old,        \* Transition's old
    perr,       \* the last New or Transition of the process returned an error
    posture,    \* history: target of the last Transition that returned nil
    pmishaps    \* history: overlapping processes, a power loss that lost data,
                \* a write that was whole and yet reported as failed

pvars == <<pfile, pdisk, phase, current, old, perr, posture, pmishaps>>

(* "empty" and "garbled" do not parse; "foreign" parses and names no state. *)
Broken == {"empty", "garbled"}
Content == State \cup Broken \cup {"absent", "foreign"}

(* Mutant: isValidState is not asked. *)
Loaded_Unvalidated(content) == content

(* The posture New gives a file that parses. *)
Loaded(content) == IF content \in State THEN content ELSE "NORMAL"

PInit ==
    /\ pfile \in {"absent", "foreign"}
    /\ pdisk = pfile
    /\ phase = [p \in Proc |-> "down"]
    /\ current = [p \in Proc |-> "NORMAL"]
    /\ old = [p \in Proc |-> "NORMAL"]
    /\ perr = [p \in Proc |-> FALSE]
    /\ posture = "NORMAL"
    /\ pmishaps = {}

NotePOverlap(p) ==
    pmishaps' = IF \E q \in Proc \ {p} : phase[q] # "down"
                THEN pmishaps \cup {"overlap"} ELSE pmishaps

(* Nothing syncs the file: the kernel writes a new content back when it likes, *)
(* or not before the next one.                                                 *)
MayWriteBack == pdisk' \in {pdisk, pfile'}

(* Mutant: a file that does not parse is treated as a missing one. *)
New_IgnoresParseError(p) ==
    /\ phase[p] = "down"
    /\ phase' = [phase EXCEPT ![p] = "up"]
    /\ current' = [current EXCEPT ![p] = Loaded(pfile)]
    /\ perr' = [perr EXCEPT ![p] = FALSE]
    /\ NotePOverlap(p)
    /\ UNCHANGED <<pfile, pdisk, old, posture>>

New(p) ==
    /\ phase[p] = "down"
    /\ pfile \notin Broken
    /\ phase' = [phase EXCEPT ![p] = "up"]
    /\ current' = [current EXCEPT ![p] = Loaded(pfile)]
    /\ perr' = [perr EXCEPT ![p] = FALSE]
    /\ NotePOverlap(p)
    /\ UNCHANGED <<pfile, pdisk, old, posture>>

(* Mutant: New waits until another process has written the file. *)
NewFails_Waits(p) ==
    /\ phase[p] = "down"
    /\ pfile \notin Broken
    /\ perr' = [perr EXCEPT ![p] = TRUE]
    /\ UNCHANGED <<pfile, pdisk, phase, current, old, posture, pmishaps>>

(* New fails on a file that does not parse, or that cannot be read. *)
NewFails(p) ==
    /\ phase[p] = "down"
    /\ perr' = [perr EXCEPT ![p] = TRUE]
    /\ UNCHANGED <<pfile, pdisk, phase, current, old, posture, pmishaps>>

(* Mutant: the transition table is not consulted. *)
Permitted_Unchecked(from, to) == to \in State

Permitted(from, to) ==
    /\ from # "EXITED"
    /\ Target(from, to) \in transitions(from)

(* Transition returns an error and changes nothing: the move is not permitted, *)
(* or, if it is, the file could not be opened for writing.                     *)
TransitionFails(p) ==
    /\ phase[p] = "up"
    /\ perr' = [perr EXCEPT ![p] = TRUE]
    /\ UNCHANGED <<pfile, pdisk, phase, current, old, posture, pmishaps>>

(* Transition up to the truncation of the file. *)
Transition(p, to) ==
    /\ phase[p] = "up"
    /\ Permitted(current[p], to)
    /\ phase' = [phase EXCEPT ![p] = "truncated"]
    /\ old' = [old EXCEPT ![p] = current[p]]
    /\ current' = [current EXCEPT ![p] = Target(current[p], to)]
    /\ pfile' = "empty"
    /\ MayWriteBack
    /\ UNCHANGED <<perr, posture, pmishaps>>

(* The write of persist.  Over a file another process has written since the *)
(* truncation it replaces a prefix: if the other content was longer, what   *)
(* is left of it makes the file unreadable.                                 *)
Persist(p) ==
    /\ phase[p] = "truncated"
    /\ \/ pfile' = current[p]
       \/ pfile # "empty" /\ pfile' = "garbled"
    /\ MayWriteBack
    /\ posture' = current[p]
    /\ phase' = [phase EXCEPT ![p] = "up"]
    /\ old' = [old EXCEPT ![p] = "NORMAL"]
    /\ perr' = [perr EXCEPT ![p] = FALSE]
    /\ UNCHANGED <<current, pmishaps>>

(* Mutant: a failed write is reported as a success. *)
PersistFails_Unnoticed(p) ==
    /\ phase[p] = "truncated"
    /\ pfile' \in {pfile, "garbled"}
    /\ MayWriteBack
    /\ posture' = current[p]
    /\ phase' = [phase EXCEPT ![p] = "up"]
    /\ old' = [old EXCEPT ![p] = "NORMAL"]
    /\ UNCHANGED <<current, perr, pmishaps>>

(* persist returns an error: Transition reverts its copy, not the file. *)
Revert(p) ==
    /\ phase[p] = "truncated"
    /\ MayWriteBack
    /\ current' = [current EXCEPT ![p] = old[p]]
    /\ phase' = [phase EXCEPT ![p] = "up"]
    /\ old' = [old EXCEPT ![p] = "NORMAL"]
    /\ perr' = [perr EXCEPT ![p] = TRUE]
    /\ UNCHANGED posture

(* The write fails, or is cut short. *)
PersistFails(p) ==
    /\ pfile' \in {pfile, "garbled"}
    /\ Revert(p)
    /\ UNCHANGED pmishaps

(* The file is written, and the Close at the end of os.WriteFile fails. *)
CloseFails(p) ==
    /\ pfile' = current[p]
    /\ Revert(p)
    /\ pmishaps' = pmishaps \cup {"close"}

PGone(P) ==
    /\ phase' = [p \in Proc |-> IF p \in P THEN "down" ELSE phase[p]]
    /\ current' = [p \in Proc |-> IF p \in P THEN "NORMAL" ELSE current[p]]
    /\ old' = [p \in Proc |-> IF p \in P THEN "NORMAL" ELSE old[p]]
    /\ perr' = [p \in Proc |-> IF p \in P THEN FALSE ELSE perr[p]]

(* The process ends, by itself or killed between two system calls. *)
PExit(p) ==
    /\ phase[p] # "down"
    /\ PGone({p})
    /\ UNCHANGED <<pfile, pdisk, posture, pmishaps>>

(* Power is cut: the file is found as it was when last written back. *)
PPowerLoss ==
    /\ pfile' \in {pfile, pdisk}
    /\ pdisk' = pfile'
    /\ pmishaps' = IF pfile' = pfile THEN pmishaps ELSE pmishaps \cup {"power"}
    /\ PGone(Proc)
    /\ UNCHANGED posture

PStep(p) ==
    \/ New(p) \/ NewFails(p)
    \/ TransitionFails(p) \/ \E to \in State : Transition(p, to)
    \/ Persist(p) \/ PersistFails(p) \/ CloseFails(p)
    \/ PExit(p)

PNext == PPowerLoss \/ \E p \in Proc : PStep(p)

PSpec == PInit /\ [][PNext]_pvars

-----------------------------------------------------------------------------

PTypeOK ==
    /\ pfile \in Content /\ pdisk \in Content
    /\ phase \in [Proc -> {"down", "up", "truncated"}]
    /\ current \in [Proc -> State] /\ old \in [Proc -> State]
    /\ perr \in [Proc -> BOOLEAN]
    /\ posture \in State
    /\ pmishaps \subseteq {"overlap", "power", "close"}

(* While processes run one at a time, no power loss destroys data and no      *)
(* Close fails after a whole write, crashes and failed writes never change    *)
(* the posture silently: a running process outside persist has exactly the    *)
(* posture last acknowledged, and the file either gives the next process that *)
(* posture or does not parse, so that New refuses to start.                   *)
NoPostureLost ==
    pmishaps = {} =>
        /\ pfile \in Broken \/ Loaded(pfile) = posture
        /\ \A p \in Proc : phase[p] = "up" => current[p] = posture

(* Under the same proviso the acknowledged posture moves exactly as the Ada   *)
(* port's protected object does: the file and the per-process copies of the   *)
(* Go machine together implement one in-memory machine.                       *)
Port == INSTANCE PosturePort WITH Posture_State <- State, Current_State <- posture
ImplementsPort == [][pmishaps' = {} => [Port!Next]_posture]_pvars

(* Under the same proviso a process asks its own copy, loaded at any time in  *)
(* the past, how a capability is treated, and gets the verdict that the port  *)
(* gives for the one posture of the system.                                   *)
SameVerdicts ==
    pmishaps = {} =>
        \A p \in Proc : phase[p] = "up" =>
            \A cap \in Port!Capability :
                Port!Verdict(cap, CapabilityVerdict(current[p], cap))

(* Whatever the interleaving of loads, truncations, writes and failures of    *)
(* writes, a file that parses holds the posture of the last Transition that   *)
(* reported success.  The exceptions are a file that a power loss brought     *)
(* back and a whole write whose Close failed.                                 *)
LastWriterWins ==
    pmishaps \cap {"power", "close"} = {} =>
        pfile \in Broken \/ Loaded(pfile) = posture

(* docs/POSTURE.md:93: "If the system crashes during INCIDENT, it comes back  *)
(* in INCIDENT - not NORMAL."                                                 *)
IncidentComesBack ==
    pmishaps \cap {"overlap", "close"} = {} =>
        \A p \in Proc : phase[p] = "up" /\ posture = "INCIDENT"
                           => current[p] = "INCIDENT"
=============================================================================
