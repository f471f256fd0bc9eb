----------------------------- MODULE FsCommand -----------------------------
(***************************************************************************)
(* "emilyos fs grant|revoke" after its pending event is logged             *)
(* (cmd/emilyos/main.go, internal/fsaclmod, internal/fsacl), with          *)
(* "emilyos snapshot capture" beside it.  The handler runs setfacl twice,  *)
(* for the entries of the files that exist and for the default entries; on *)
(* an error the whole is run once more to recover the error.  A command    *)
(* whose handler succeeded records a snapshot.                             *)
(*                                                                         *)
(* setfacl is external: it succeeds and changes the whole tree below the   *)
(* path, or it fails and has changed some of it.                           *)
(***************************************************************************)
EXTENDS Snapshots

CONSTANTS Path, Denylisted,  \* the paths, and those that match the denylist
          MaxCommands        \* bound: commands begun

ASSUME DenylistAssumption == Denylisted \subseteq Path /\ MaxCommands \in Nat

Verb == {"GRANT_FS", "REVOKE_FS"}
NoPath == "none"

(* A snapshot declares the entries of one path, or the roles. *)
ASSUME WhatAssumption ==
    /\ NoPath \notin Path
    /\ What = [verb : Verb \cup {"roles"}, path : Path \cup {NoPath}]

VARIABLES
    access,     \* per path: "none", "some" or "all" of the tree has the entry
    default,    \* the same for the default entries
    fphase,     \* per process: "idle", "first", "second", "done", "error",
                \* "capture"
    verb, path, \* the command
    attempt,    \* 1, or 2 when the error is being recovered
    fmishaps,   \* history: fs commands that overlapped
    commands,   \* how many commands have begun
    undeclared  \* history: the paths on which a command has begun its change
                \* and none has recorded a snapshot since

fvars == <<access, default, fphase, verb, path, attempt, fmishaps>>
vars == <<svars, fvars, commands, undeclared>>

Busy(p) == fphase[p] \notin {"idle", "capture"}

Goal(p) == IF verb[p] = "GRANT_FS" THEN "all" ELSE "none"

FInit ==
    /\ access = [x \in Path |-> "none"]
    /\ default = [x \in Path |-> "none"]
    /\ fphase = [p \in Proc |-> "idle"]
    /\ verb = [p \in Proc |-> "GRANT_FS"]
    /\ path = [p \in Proc |-> NoPath]
    /\ attempt = [p \in Proc |-> 1]
    /\ fmishaps = {}

Init == SInit /\ FInit /\ commands = 0 /\ undeclared = {}

(* TriggerGrant or TriggerRevoke, up to the denylist check.  The second run  *)
(* of a denylisted command fails like the first one.                         *)
Trigger(p, v, x) ==
    /\ fphase[p] = "idle"
    /\ fphase' = [fphase EXCEPT ![p] = IF x \in Denylisted THEN "error" ELSE "first"]
    /\ verb' = [verb EXCEPT ![p] = v]
    /\ path' = [path EXCEPT ![p] = x]
    /\ fmishaps' = IF \E q \in Proc \ {p} : Busy(q)
                   THEN fmishaps \cup {"overlap"} ELSE fmishaps
    /\ UNCHANGED <<svars, access, default, attempt>>

(* What setfacl makes of an entry: external. *)
Applied(p, entry) == [entry EXCEPT ![path[p]] = Goal(p)]
Mangled(p, entry) == {entry, [entry EXCEPT ![path[p]] = "some"]}

SetfaclOK(p) ==
    /\ \/ /\ fphase[p] = "first"
          /\ access' = Applied(p, access) /\ UNCHANGED default
          /\ fphase' = [fphase EXCEPT ![p] = "second"]
       \/ /\ fphase[p] = "second"
          /\ default' = Applied(p, default) /\ UNCHANGED access
          /\ fphase' = [fphase EXCEPT ![p] = "done"]
    /\ UNCHANGED <<svars, verb, path, attempt, fmishaps>>

(* The calls of one run that failed, the first or the second, and what it may *)
(* have changed.                                                              *)
RunFails(p) ==
    \/ fphase[p] = "first" /\ access' \in Mangled(p, access) /\ UNCHANGED default
    \/ fphase[p] = "second" /\ default' \in Mangled(p, default) /\ UNCHANGED access

(* Mutant: a failure of the first run is taken for a success. *)
SetfaclFails_NotRerun(p) ==
    /\ RunFails(p)
    /\ fphase' = [fphase EXCEPT ![p] = IF attempt[p] = 1 THEN "done" ELSE "error"]
    /\ attempt' = [attempt EXCEPT ![p] = 2]
    /\ UNCHANGED <<svars, verb, path, fmishaps>>

(* The first failure is answered by a second run of both calls, whose failure *)
(* is returned.                                                               *)
SetfaclFails(p) ==
    /\ RunFails(p)
    /\ \/ /\ attempt[p] = 1
          /\ fphase' = [fphase EXCEPT ![p] = "first"]
          /\ attempt' = [attempt EXCEPT ![p] = 2]
       \/ /\ attempt[p] = 2
          /\ fphase' = [fphase EXCEPT ![p] = "error"]
          /\ UNCHANGED attempt
    /\ UNCHANGED <<svars, verb, path, fmishaps>>

(* "snapshot capture" has no handler: it begins with the snapshot. *)
Capture(p, ok) ==
    /\ fphase[p] = "idle"
    /\ Link(p, ok)
    /\ fphase' = [fphase EXCEPT ![p] = "capture"]
    /\ UNCHANGED <<access, default, verb, path, attempt, fmishaps>>

Declares(p) ==
    IF fphase[p] = "capture" THEN [verb |-> "roles", path |-> NoPath]
    ELSE [verb |-> verb[p], path |-> path[p]]

(* Mutant: the error of Dispatch is not looked at. *)
Succeeded_Unchecked(p) == fphase[p] \in {"done", "error"}

(* runFs goes on to the snapshot only if Dispatch returned nil. *)
Succeeded(p) == fphase[p] = "done"

(* The end of runFs, and of capture. *)
Snap(p) ==
    /\ \/ Save(p, Declares(p)) /\ undeclared' = undeclared \ {path[p]}
       \/ /\ \/ Succeeded(p) /\ \E ok \in BOOLEAN : Link(p, ok)
             \/ \E now \in ID : Truncate(p, now)
             \/ SaveFails(p, Declares(p))
          /\ UNCHANGED undeclared
    /\ UNCHANGED fvars

FGone(p) ==
    /\ SGone({p})
    /\ fphase' = [fphase EXCEPT ![p] = "idle"]
    /\ verb' = [verb EXCEPT ![p] = "GRANT_FS"]
    /\ path' = [path EXCEPT ![p] = NoPath]
    /\ attempt' = [attempt EXCEPT ![p] = 1]
    /\ UNCHANGED <<sfiles, smishaps, access, default>>

Exit(p) ==
    /\ fphase[p] = "error" \/ sphase[p] \in {"saved", "failed"}
    /\ FGone(p)
    /\ UNCHANGED <<fmishaps, undeclared>>

(* The process is killed. *)
Crash(p) ==
    /\ fphase[p] # "idle"
    /\ FGone(p)
    /\ UNCHANGED <<fmishaps, undeclared>>

(* A command begins. *)
Begin(p) ==
    /\ commands < MaxCommands
    /\ commands' = commands + 1
    /\ \/ \E v \in Verb, x \in Path :
             Trigger(p, v, x) /\ undeclared' = undeclared \cup ({x} \ Denylisted)
       \/ \E ok \in BOOLEAN : Capture(p, ok) /\ UNCHANGED undeclared

Step(p) ==
    \/ Begin(p)
    \/ /\ \/ (SetfaclOK(p) \/ SetfaclFails(p)) /\ UNCHANGED undeclared
          \/ Snap(p) \/ Exit(p) \/ Crash(p)
       /\ UNCHANGED commands

Next == \E p \in Proc : Step(p)

Spec == Init /\ [][Next]_vars

-----------------------------------------------------------------------------

TypeOK ==
    /\ STypeOK
    /\ access \in [Path -> {"none", "some", "all"}]
    /\ default \in [Path -> {"none", "some", "all"}]
    /\ fphase \in [Proc -> {"idle", "first", "second", "done", "error", "capture"}]
    /\ verb \in [Proc -> Verb] /\ path \in [Proc -> Path \cup {NoPath}]
    /\ attempt \in [Proc -> 1..2]
    /\ commands \in 0..MaxCommands
    /\ fmishaps \subseteq {"overlap"}
    /\ undeclared \subseteq Path

(* fsacl.go:72: "both an existing-file grant and a default-ACL grant are       *)
(* required".  A command that reports success has made its change to both, on  *)
(* the whole tree, also when only the second run succeeded and whatever        *)
(* earlier commands have left half done, unless two commands overlapped.       *)
SuccessIsComplete ==
    "overlap" \notin fmishaps =>
        \A p \in Proc : fphase[p] = "done"
            => access[path[p]] = Goal(p) /\ default[path[p]] = Goal(p)

(* main.go:664: "the snapshot is the current declared state a future 'what     *)
(* should be true' query can read".  As long as fs commands do not overlap and *)
(* IDs increase, the last snapshot about a path says what its entries are.  A  *)
(* command that fails or dies between its first change and its snapshot spoils *)
(* this for its own path only, and only until the next command on it succeeds. *)
DeclaredStateIsActual ==
    "clock" \notin smishaps /\ fmishaps = {} =>
        \A x \in Path \ undeclared :
            LET about == {i \in DOMAIN dir : dir[i].what.path = x}
            IN  about # {} =>
                    LET goal == IF dir[Max(about)].what.verb = "GRANT_FS"
                                THEN "all" ELSE "none"
                    IN  access[x] = goal /\ default[x] = goal
=============================================================================
