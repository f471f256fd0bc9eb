------------------------------ MODULE FsProofs ------------------------------
(***************************************************************************)
(* Proofs about FsCommand, for every set of processes and of paths and for *)
(* every number of commands.                                               *)
(***************************************************************************)
EXTENDS FsCommand, WellFoundedInduction, TLAPS

(* A set of IDs that is not empty has a last one. *)
LEMMA LastExists ==
    ASSUME NEW S \in SUBSET (0..MaxTime), S # {}
    PROVE  /\ Max(S) \in S
           /\ \A i \in S : i <= Max(S)
  <1> DEFINE R == {ss \in Nat \X Nat : ss[1] < ss[2]}
             T == {n \in Nat : MaxTime - n \in S}
  <1>1. MaxTime \in Nat
    BY MaxTimeAssumption
  <1>2. IsWellFoundedOn(R, Nat)
    BY NatLessThanWellFounded DEF OpToRel
  <1>3. T \subseteq Nat /\ T # {}
    <2>1. PICK i \in S : i \in 0..MaxTime
      OBVIOUS
    <2>2. MaxTime - i \in Nat /\ MaxTime - (MaxTime - i) = i
      BY <1>1, <2>1
    <2> QED
      BY <2>2
  <1>4. PICK t \in T : \A u \in T : ~(<<u, t>> \in R)
    <2> HIDE DEF R, T
    <2> QED
      BY <1>2, <1>3, WFMin
  <1>5. PICK i \in S : i = MaxTime - t
    OBVIOUS
  <1>6. \A j \in S : i >= j
    <2> SUFFICES ASSUME NEW j \in S PROVE i >= j
      OBVIOUS
    <2>1. MaxTime - j \in Nat /\ MaxTime - (MaxTime - j) = j /\ t \in Nat
      BY <1>1
    <2>2. ~(MaxTime - j < t)
      BY <1>4, <2>1
    <2> QED
      BY <1>1, <1>5, <2>1, <2>2
  <1>7. Max(S) \in S /\ \A j \in S : Max(S) >= j
    BY <1>6 DEF Max
  <1> QED
    BY <1>1, <1>7

-----------------------------------------------------------------------------
(* Types, and the places at which a process writes a snapshot. *)

Places(p) ==
    /\ sphase[p] = "truncated" => snapID[p] \in ID
    /\ sphase[p] # "idle" => fphase[p] \in {"done", "capture"}
    /\ Busy(p) => path[p] \in Path
    /\ ~Busy(p) => path[p] = NoPath

FsInv == TypeOK /\ \A p \in Proc : Places(p)

(* What a process declares is something that a snapshot can hold. *)
LEMMA DeclaresWhat ==
    ASSUME TypeOK, NEW p \in Proc
    PROVE  Declares(p) \in What
  BY WhatAssumption DEF TypeOK, Declares

(* The latest ID is an ID, or 0. *)
LEMMA LatestType ==
    ASSUME STypeOK
    PROVE  LatestID \in 0..MaxTime
  <1>1. Names \in SUBSET (0..MaxTime)
    BY MaxTimeAssumption DEF STypeOK, Names, Torn, ID
  <1>2. Names # {} => Max(Names) \in Names
    BY <1>1, LastExists
  <1>3. 0 \in 0..MaxTime
    BY MaxTimeAssumption
  <1> QED
    BY <1>1, <1>2, <1>3 DEF LatestID

(* The steps of the store. *)
StoreStep(p) ==
    \/ \E ok \in BOOLEAN : Link(p, ok)
    \/ \E now \in ID : Truncate(p, now)
    \/ Save(p, Declares(p)) \/ SaveFails(p, Declares(p))

(* Taking a file out of the directory leaves the other snapshots. *)
LEMMA WithoutFacts ==
    ASSUME STypeOK, NEW id
    PROVE  /\ DOMAIN Without(id) = DOMAIN dir \ {id}
           /\ \A i \in DOMAIN dir \ {id} : Without(id)[i] = dir[i]
           /\ Without(id) \in [DOMAIN Without(id) -> Snapshot]
  BY DEF STypeOK, Without, Restrict

(* A write makes the file whole, or one that does not parse. *)
LEMMA WriteTypes ==
    ASSUME TypeOK, NEW p \in Proc, snapID[p] \in ID, WriteFile(p, Declares(p)),
           UNCHANGED <<prevID, snapID, smishaps>>,
           NEW f \in {"saved", "failed"}, sphase' = [sphase EXCEPT ![p] = f]
    PROVE  STypeOK'
  <1> DEFINE id == snapID[p]
             snap == [prev |-> prevID[p], what |-> Declares(p)]
  <1>1. STypeOK /\ snap \in Snapshot
    BY DeclaresWhat DEF TypeOK, Snapshot, STypeOK
  <1>2. /\ dir' \in [DOMAIN dir' -> Snapshot] /\ empty' = empty \ {id}
        /\ \/ DOMAIN dir' = DOMAIN dir \cup {id} /\ partial' = partial \ {id}
           \/ DOMAIN dir' = DOMAIN dir \ {id} /\ partial' = partial \cup {id}
    <2>1. CASE dir' = [i \in DOMAIN dir \cup {id} |-> IF i = id THEN snap ELSE dir[i]]
                  /\ partial' = partial \ {id}
      BY <1>1, <2>1 DEF WriteFile, STypeOK
    <2>2. CASE dir' = Without(id) /\ partial' = partial \cup {id}
      BY <1>1, <2>2, WithoutFacts DEF WriteFile
    <2> QED
      BY <2>1, <2>2 DEF WriteFile
  <1> HIDE DEF snap
  <1> QED
    BY <1>1, <1>2 DEF STypeOK

(* They keep its types. *)
LEMMA StoreTypes ==
    ASSUME TypeOK, NEW p \in Proc, Places(p), StoreStep(p)
    PROVE  /\ STypeOK'
           /\ sphase'[p] = "truncated" => snapID'[p] \in ID
           /\ sphase'[p] # "idle"
           /\ \A q \in Proc \ {p} : sphase'[q] = sphase[q] /\ snapID'[q] = snapID[q]
  <1>1. STypeOK /\ ID \subseteq 0..MaxTime
    BY MaxTimeAssumption DEF TypeOK, ID
  <1>2. ASSUME NEW ok \in BOOLEAN, Link(p, ok)
        PROVE  /\ STypeOK' /\ sphase'[p] = "linked"
               /\ \A q \in Proc \ {p} : sphase'[q] = sphase[q] /\ snapID'[q] = snapID[q]
    <2>1. PICK n \in 0..MaxTime : prevID' = [prevID EXCEPT ![p] = n]
      <3>1. LatestID \in 0..MaxTime /\ 0 \in 0..MaxTime
        BY <1>1, LatestType, MaxTimeAssumption
      <3> QED
        BY <1>2, <3>1 DEF Link
    <2>2. /\ UNCHANGED <<dir, empty, partial, snapID>>
          /\ sphase' = [sphase EXCEPT ![p] = "linked"]
          /\ smishaps' \subseteq smishaps \cup {"overlap", "unread"}
      BY <1>2 DEF Link, sfiles
    <2> QED
      BY <1>1, <2>1, <2>2 DEF STypeOK
  <1>3. ASSUME NEW now \in ID, Truncate(p, now)
        PROVE  /\ STypeOK'
               /\ sphase'[p] = "truncated" /\ snapID'[p] \in ID
               /\ \A q \in Proc \ {p} : sphase'[q] = sphase[q] /\ snapID'[q] = snapID[q]
    <2>1. /\ DOMAIN dir' = DOMAIN dir \ {now} /\ dir' \in [DOMAIN dir' -> Snapshot]
      BY <1>1, <1>3, WithoutFacts DEF Truncate
    <2> QED
      BY <1>1, <1>3, <2>1 DEF Truncate, STypeOK
  <1>4. ASSUME NEW f \in {"saved", "failed"}, sphase' = [sphase EXCEPT ![p] = f],
               UNCHANGED <<prevID, snapID, smishaps>>,
               \/ UNCHANGED sfiles
               \/ /\ snapID[p] \in ID /\ dir' = Without(snapID[p])
                  /\ empty' = empty \ {snapID[p]}
                  /\ partial' = partial \cup {snapID[p]}
               \/ snapID[p] \in ID /\ WriteFile(p, Declares(p))
        PROVE  /\ STypeOK' /\ sphase'[p] = f
               /\ \A q \in Proc \ {p} : sphase'[q] = sphase[q] /\ snapID'[q] = snapID[q]
    <2>1. /\ sphase'[p] = f
          /\ \A q \in Proc \ {p} : sphase'[q] = sphase[q] /\ snapID'[q] = snapID[q]
      BY <1>1, <1>4 DEF STypeOK
    <2>2. CASE UNCHANGED sfiles
      BY <1>1, <1>4, <2>1, <2>2 DEF sfiles, STypeOK
    <2>3. CASE /\ snapID[p] \in ID /\ dir' = Without(snapID[p])
               /\ empty' = empty \ {snapID[p]}
               /\ partial' = partial \cup {snapID[p]}
      <3>1. /\ DOMAIN dir' = DOMAIN dir \ {snapID[p]}
            /\ dir' \in [DOMAIN dir' -> Snapshot]
        BY <1>1, <2>3, WithoutFacts
      <3> QED
        BY <1>1, <1>4, <2>1, <2>3, <3>1 DEF STypeOK
    <2>4. CASE snapID[p] \in ID /\ WriteFile(p, Declares(p))
      BY <1>4, <2>1, <2>4, WriteTypes
    <2> QED
      BY <1>4, <2>2, <2>3, <2>4
  <1>5. CASE Save(p, Declares(p)) \/ SaveFails(p, Declares(p))
    BY <1>4, <1>5 DEF Save, SaveFails, Places
  <1> QED
    BY <1>2, <1>3, <1>4, <1>5 DEF StoreStep

(* What a step leaves of the other processes. *)
Frame(p) == \A q \in Proc \ {p} : /\ sphase'[q] = sphase[q] /\ snapID'[q] = snapID[q]
                                  /\ prevID'[q] = prevID[q]
                                  /\ fphase'[q] = fphase[q] /\ path'[q] = path[q]
                                  /\ verb'[q] = verb[q]

(* The type invariant, for a step that is given by what it does to the store. *)
FsFrame(p) ==
    /\ access' \in [Path -> {"none", "some", "all"}]
    /\ default' \in [Path -> {"none", "some", "all"}]
    /\ fphase' \in [Proc -> {"idle", "first", "second", "done", "error", "capture"}]
    /\ verb' \in [Proc -> Verb] /\ path' \in [Proc -> Path \cup {NoPath}]
    /\ attempt' \in [Proc -> 1..2]
    /\ fmishaps' \subseteq {"overlap"}

(* The beginning of a command. *)
LEMMA BeginTypes ==
    ASSUME FsInv, NEW p \in Proc,
           \/ \E v \in Verb, x \in Path : Trigger(p, v, x)
           \/ \E ok \in BOOLEAN : Capture(p, ok)
    PROVE  STypeOK' /\ FsFrame(p) /\ Places(p)' /\ Frame(p)
  <1>1. TypeOK /\ STypeOK /\ Places(p)
    BY DEF FsInv, TypeOK
  <1>2. ASSUME NEW v \in Verb, NEW x \in Path, Trigger(p, v, x)
        PROVE  STypeOK' /\ FsFrame(p) /\ Places(p)' /\ Frame(p)
    <2>1. UNCHANGED svars /\ fphase[p] = "idle"
      BY <1>2 DEF Trigger
    <2>2. STypeOK'
      BY <1>1, <2>1 DEF STypeOK, svars
    <2>3. FsFrame(p)
      BY <1>1, <1>2 DEF Trigger, TypeOK, FsFrame
    <2>4. Places(p)' /\ Frame(p)
      BY <1>1, <1>2, <2>1 DEF Trigger, TypeOK, svars, Places, Frame, Busy
    <2> QED
      BY <2>2, <2>3, <2>4
  <1>3. ASSUME NEW ok \in BOOLEAN, Capture(p, ok)
        PROVE  STypeOK' /\ FsFrame(p) /\ Places(p)' /\ Frame(p)
    <2>1. StoreStep(p) /\ Link(p, ok) /\ fphase[p] = "idle"
      BY <1>3 DEF Capture, StoreStep
    <2>2. /\ STypeOK' /\ (sphase'[p] = "truncated" => snapID'[p] \in ID)
      BY <1>1, <2>1, StoreTypes
    <2>3. FsFrame(p)
      BY <1>1, <1>3 DEF Capture, TypeOK, FsFrame
    <2>4. fphase'[p] = "capture" /\ path'[p] = path[p] /\ Frame(p)
      BY <1>1, <1>3, <2>1 DEF Capture, TypeOK, STypeOK, Link, Frame
    <2> QED
      BY <1>1, <2>1, <2>2, <2>3, <2>4 DEF Places, Busy
  <1> QED
    BY <1>2, <1>3

(* The calls of setfacl. *)
LEMMA SetfaclTypes ==
    ASSUME FsInv, NEW p \in Proc, SetfaclOK(p) \/ SetfaclFails(p)
    PROVE  /\ STypeOK' /\ FsFrame(p) /\ Places(p)' /\ Frame(p)
           /\ UNCHANGED <<svars, verb, path>> /\ path[p] \in Path
           /\ fphase[p] \in {"first", "second"} /\ fphase'[p] \notin {"idle", "capture"}
  <1>1. TypeOK /\ STypeOK /\ Places(p)
    BY DEF FsInv, TypeOK
  <1>2. /\ UNCHANGED <<svars, verb, path>> /\ fphase[p] \in {"first", "second"}
    BY DEF SetfaclOK, SetfaclFails, RunFails
  <1>3. STypeOK'
    BY <1>1, <1>2 DEF STypeOK, svars
  <1>4. PICK f \in {"first", "second", "done", "error"} :
           fphase' = [fphase EXCEPT ![p] = f]
    BY DEF SetfaclOK, SetfaclFails
  <1>5. FsFrame(p)
    <2>1. \E v, w \in {"none", "some", "all"} :
             /\ access' \in {access, [access EXCEPT ![path[p]] = v]}
             /\ default' \in {default, [default EXCEPT ![path[p]] = w]}
      BY DEF SetfaclOK, SetfaclFails, RunFails, Applied, Mangled, Goal
    <2>2. attempt' \in {attempt, [attempt EXCEPT ![p] = 2]} /\ fmishaps' = fmishaps
      BY DEF SetfaclOK, SetfaclFails
    <2> QED
      BY <1>1, <1>2, <1>4, <2>1, <2>2 DEF TypeOK, FsFrame
  <1>6. path[p] \in Path /\ sphase[p] = "idle"
    BY <1>1, <1>2 DEF Places, Busy
  <1>7. fphase'[p] = f /\ Frame(p)
    BY <1>1, <1>2, <1>4 DEF TypeOK, svars, Frame
  <1> QED
    BY <1>2, <1>3, <1>5, <1>6, <1>7 DEF Places, Busy, svars

(* The snapshot. *)
LEMMA SnapTypes ==
    ASSUME FsInv, NEW p \in Proc, Snap(p)
    PROVE  /\ STypeOK' /\ FsFrame(p) /\ Places(p)' /\ Frame(p)
           /\ UNCHANGED <<access, default, fphase, verb, path>>
           /\ StoreStep(p) /\ fphase[p] \in {"done", "capture"}
  <1>1. TypeOK /\ STypeOK /\ Places(p)
    BY DEF FsInv, TypeOK
  <1>2. StoreStep(p) /\ UNCHANGED fvars
    BY DEF Snap, StoreStep
  <1>3. fphase[p] \in {"done", "capture"}
    BY <1>1 DEF Snap, Succeeded, Truncate, Save, SaveFails, Places
  <1>4. /\ STypeOK' /\ (sphase'[p] = "truncated" => snapID'[p] \in ID)
        /\ \A q \in Proc \ {p} : sphase'[q] = sphase[q] /\ snapID'[q] = snapID[q]
    BY <1>1, <1>2, StoreTypes
  <1>5. FsFrame(p)
    BY <1>1, <1>2 DEF TypeOK, FsFrame, fvars
  <1>6. \A q \in Proc \ {p} : prevID'[q] = prevID[q]
    BY <1>1, <1>2 DEF StoreStep, Link, Truncate, Save, SaveFails, STypeOK
  <1> QED
    BY <1>1, <1>2, <1>3, <1>4, <1>5, <1>6 DEF Places, Frame, Busy, fvars

(* The end of a process. *)
LEMMA EndTypes ==
    ASSUME FsInv, NEW p \in Proc, Exit(p) \/ Crash(p)
    PROVE  /\ STypeOK' /\ FsFrame(p) /\ Places(p)' /\ Frame(p)
           /\ UNCHANGED <<dir, empty, partial, smishaps, access, default>>
           /\ fphase'[p] = "idle" /\ sphase'[p] = "idle" /\ path'[p] = NoPath
  <1>1. TypeOK /\ STypeOK
    BY DEF FsInv, TypeOK
  <1>2. FGone(p) /\ fmishaps' = fmishaps
    BY DEF Exit, Crash
  <1>3. /\ UNCHANGED <<dir, empty, partial, smishaps, access, default>>
        /\ fphase'[p] = "idle" /\ sphase'[p] = "idle" /\ path'[p] = NoPath /\ Frame(p)
    BY <1>1, <1>2 DEF FGone, SGone, sfiles, TypeOK, STypeOK, Frame
  <1>4. STypeOK'
    <2>1. /\ sphase' \in [Proc -> {"idle", "linked", "truncated", "saved", "failed"}]
          /\ prevID' \in [Proc -> 0..MaxTime] /\ snapID' \in [Proc -> 0..MaxTime]
      BY <1>1, <1>2, MaxTimeAssumption DEF FGone, SGone, STypeOK
    <2> QED
      BY <1>1, <1>3, <2>1 DEF STypeOK
  <1>5. FsFrame(p)
    BY <1>1, <1>2 DEF FGone, TypeOK, FsFrame, Verb
  <1> QED
    BY <1>3, <1>4, <1>5 DEF Places, Busy

(* No step breaks the types. *)
LEMMA FsNext ==
    /\ Init => FsInv
    /\ FsInv /\ [Next]_vars => FsInv'
    /\ \A p \in Proc : FsInv /\ Step(p) => Frame(p)
  <1>1. Init => FsInv
    BY MaxTimeAssumption, DenylistAssumption
       DEF Init, SInit, SIdle, FInit, FsInv, TypeOK, STypeOK, Places, Busy, Verb
  <1>2. ASSUME FsInv, NEW p \in Proc, Step(p) PROVE FsInv' /\ Frame(p)
    <2>1. STypeOK' /\ FsFrame(p) /\ Places(p)' /\ Frame(p)
      <3>1. \/ \E v \in Verb, x \in Path : Trigger(p, v, x)
            \/ \E ok \in BOOLEAN : Capture(p, ok)
            \/ SetfaclOK(p) \/ SetfaclFails(p) \/ Snap(p) \/ Exit(p) \/ Crash(p)
        BY <1>2, Zenon DEF Step, Begin
      <3> QED
        BY <1>2, <3>1, BeginTypes, SetfaclTypes, SnapTypes, EndTypes
    <2>2. (commands \in 0..MaxCommands)' /\ (undeclared \subseteq Path)'
      <3>1. commands' = commands \/ (commands < MaxCommands /\ commands' = commands + 1)
        BY <1>2 DEF Step, Begin
      <3>2. undeclared' \subseteq undeclared \cup Path
        BY <1>2 DEF Step, Begin, Snap, Exit, Crash
      <3> QED
        BY <1>2, <3>1, <3>2, DenylistAssumption DEF FsInv, TypeOK
    <2>3. \A q \in Proc \ {p} : Places(q)'
      BY <1>2, <2>1 DEF FsInv, Places, Frame, Busy
    <2> QED
      BY <2>1, <2>2, <2>3 DEF FsInv, TypeOK, FsFrame
  <1>3. FsInv /\ UNCHANGED vars => FsInv'
    BY DEF vars, svars, fvars, FsInv, TypeOK, STypeOK, Places, Busy
  <1> QED
    BY <1>1, <1>2, <1>3 DEF Next

(* The state of the fs commands and of the store keeps its types. *)
THEOREM FsTypeCorrect == Spec => []TypeOK
  <1>1. FsInv => TypeOK
    BY DEF FsInv
  <1> QED
    BY <1>1, FsNext, PTL DEF Spec

-----------------------------------------------------------------------------
(* Success. *)

Reached(p) ==
    /\ fphase[p] \in {"second", "done"} => access[path[p]] = Goal(p)
    /\ fphase[p] = "done" => default[path[p]] = Goal(p)

(* Without overlap one process at most has entries to make, and those it has *)
(* made are still there.                                                     *)
SuccessInv ==
    "overlap" \notin fmishaps =>
        /\ \A p, q \in Proc : Busy(p) /\ Busy(q) => p = q
        /\ \A p \in Proc : Reached(p)

(* A command has its entries to itself. *)
LEMMA StepSuccess ==
    ASSUME FsInv, SuccessInv, NEW p \in Proc, Step(p)
    PROVE  SuccessInv'
  <1>1. TypeOK /\ Frame(p)
    BY FsNext DEF FsInv
  <1> SUFFICES ASSUME "overlap" \notin fmishaps'
               PROVE  /\ \A q, r \in Proc : Busy(q)' /\ Busy(r)' => q = r
                      /\ \A q \in Proc : Reached(q)'
    BY DEF SuccessInv
  <1>2. fmishaps \subseteq fmishaps'
    BY DEF Step, Begin, Trigger, Capture, SetfaclOK, SetfaclFails, Snap, Exit, Crash, fvars
  <1>3. /\ \A q, r \in Proc : Busy(q) /\ Busy(r) => q = r
        /\ \A q \in Proc : Reached(q)
    BY <1>2 DEF SuccessInv
  <1>4. ASSUME NEW v \in Verb, NEW x \in Path, Trigger(p, v, x)
        PROVE  /\ \A q, r \in Proc : Busy(q)' /\ Busy(r)' => q = r
               /\ \A q \in Proc : Reached(q)'
    <2>1. \A q \in Proc \ {p} : ~Busy(q)
      BY <1>4 DEF Trigger
    <2>2. \A q \in Proc \ {p} : fphase'[q] = fphase[q] /\ ~Busy(q)'
      BY <1>1, <2>1 DEF Frame, Busy
    <2>3. fphase'[p] \in {"first", "error"}
      BY <1>1, <1>4 DEF Trigger, TypeOK
    <2> QED
      BY <2>1, <2>2, <2>3 DEF Reached, Busy
  <1>5. CASE SetfaclOK(p) \/ SetfaclFails(p)
    <2>1. /\ path[p] \in Path /\ Busy(p) /\ verb' = verb /\ path' = path
      BY <1>5, SetfaclTypes DEF Busy
    <2>2. \A q \in Proc \ {p} : ~Busy(q) /\ ~Busy(q)'
      BY <1>1, <1>3, <2>1 DEF Frame, Busy
    <2>3. Reached(p)'
      BY <1>1, <1>3, <1>5, <2>1 DEF SetfaclOK, SetfaclFails, Applied, Goal, Reached,
                                    TypeOK
    <2>4. \A q \in Proc \ {p} : Reached(q)'
      BY <2>2 DEF Reached, Busy
    <2> QED
      BY <2>2, <2>3, <2>4
  <1>6. CASE (\E ok \in BOOLEAN : Capture(p, ok)) \/ Snap(p)
    <2>1. /\ UNCHANGED <<access, default, verb, path>>
          /\ fphase' \in {fphase, [fphase EXCEPT ![p] = "capture"]}
      BY <1>6 DEF Capture, Snap, fvars
    <2> QED
      BY <1>1, <1>3, <2>1 DEF Reached, Goal, Busy, TypeOK
  <1>7. CASE Exit(p) \/ Crash(p)
    <2>1. UNCHANGED <<access, default>> /\ fphase'[p] = "idle"
      BY <1>7, EndTypes
    <2> QED
      <3>1. ~Busy(p)' /\ Reached(p)'
        BY <2>1 DEF Busy, Reached
      <3>2. ASSUME NEW q \in Proc \ {p}
            PROVE  (Busy(q)' <=> Busy(q)) /\ Reached(q)'
        <4>1. fphase'[q] = fphase[q] /\ verb'[q] = verb[q] /\ path'[q] = path[q]
          BY <1>1 DEF Frame
        <4>2. Reached(q)
          BY <1>3
        <4> QED
          BY <2>1, <4>1, <4>2 DEF Reached, Goal, Busy
      <3> QED
        BY <1>3, <3>1, <3>2
  <1> QED
    BY <1>4, <1>5, <1>6, <1>7 DEF Step, Begin

(* fsacl.go: "both an existing-file grant and a default-ACL grant are         *)
(* required", and both are made when a command reports success.               *)
THEOREM SuccessMeansBoth == Spec => []SuccessIsComplete
  <1>1. Init => SuccessInv
    BY DEF Init, FInit, SuccessInv, Reached, Busy
  <1>2. FsInv /\ SuccessInv /\ [Next]_vars => SuccessInv'
    <2>1. ASSUME SuccessInv, UNCHANGED vars PROVE SuccessInv'
      BY <2>1 DEF vars, fvars, SuccessInv, Reached, Goal, Busy
    <2> QED
      BY <2>1, StepSuccess DEF Next
  <1>3. SuccessInv => SuccessIsComplete
    BY DEF SuccessInv, SuccessIsComplete, Reached
  <1> QED
    BY <1>1, <1>2, <1>3, FsNext, PTL DEF Spec

-----------------------------------------------------------------------------
(* The store while IDs increase, for writers that may overlap. *)

Writing(p) == sphase[p] \in {"linked", "truncated"}

(* A predecessor is an older snapshot that is whole, or there is none. *)
Older(prev, i) == prev # 0 => prev \in DOMAIN dir /\ prev < i

(* The file of a process is empty until it is written, and nobody else's; and *)
(* predecessors are older than the snapshots that name them.                  *)
OrderInv ==
    "clock" \notin smishaps =>
        /\ \A p, q \in Proc :
              sphase[p] = "truncated" /\ sphase[q] = "truncated" /\ snapID[p] = snapID[q]
                  => p = q
        /\ \A p \in Proc :
              /\ sphase[p] = "linked" => (prevID[p] # 0 => prevID[p] \in DOMAIN dir)
              /\ sphase[p] = "truncated" => /\ snapID[p] \in empty
                                            /\ Older(prevID[p], snapID[p])
        /\ \A i \in DOMAIN dir : Older(dir[i].prev, i)

(* No snapshot that was whole has changed. *)
Stays == \A i \in DOMAIN dir : i \in DOMAIN dir' /\ dir'[i] = dir[i]

(* The file of p has become a whole snapshot. *)
Adds(p) ==
    /\ sphase[p] = "truncated" /\ snapID[p] \in ID \ DOMAIN dir
    /\ DOMAIN dir' = DOMAIN dir \cup {snapID[p]}
    /\ dir'[snapID[p]] = [prev |-> prevID[p], what |-> Declares(p)]
    /\ Torn' = Torn \ {snapID[p]}

(* A write, or its failure, touches only the process's own file, which was   *)
(* empty.                                                                    *)
LEMMA WriteEffect ==
    ASSUME FsInv, OrderInv, "clock" \notin smishaps, NEW p \in Proc,
           Save(p, Declares(p)) \/ SaveFails(p, Declares(p))
    PROVE  /\ Stays /\ Names' = Names
           /\ Adds(p) \/ (DOMAIN dir' = DOMAIN dir /\ Torn' = Torn)
           /\ Save(p, Declares(p)) => Adds(p)
           /\ empty \subseteq empty' \cup {snapID[p]}
           /\ sphase[p] = "linked" => empty' = empty
           /\ UNCHANGED <<prevID, snapID, smishaps>>
           /\ Writing(p) /\ sphase'[p] \in {"saved", "failed"}
  <1> DEFINE id == snapID[p]
             snap == [prev |-> prevID[p], what |-> Declares(p)]
  <1>1. STypeOK
    BY DEF FsInv, TypeOK
  <1>2. /\ UNCHANGED <<prevID, snapID, smishaps>>
        /\ Writing(p) /\ sphase'[p] \in {"saved", "failed"}
    BY <1>1 DEF Save, SaveFails, Writing, STypeOK
  <1>3. CASE UNCHANGED sfiles
    <2>1. Stays /\ DOMAIN dir' = DOMAIN dir /\ Torn' = Torn /\ Names' = Names
          /\ empty' = empty
      BY <1>3 DEF sfiles, Stays, Torn, Names
    <2>2. ~Save(p, Declares(p))
      <3> SUFFICES ASSUME Save(p, Declares(p)) PROVE FALSE
        OBVIOUS
      <3>1. id \in empty /\ empty' = empty \ {id}
        BY DEF Save, WriteFile, OrderInv
      <3> QED
        BY <2>1, <3>1
    <2> QED
      BY <1>2, <2>1, <2>2
  <1>4. CASE sphase[p] = "truncated"
    <2>1. id \in empty /\ id \in ID \ DOMAIN dir /\ id \notin partial
      BY <1>1, <1>4 DEF OrderInv, STypeOK
    <2>2. CASE WriteFile(p, Declares(p))
      <3>1. /\ dir' = [i \in DOMAIN dir \cup {id} |-> IF i = id THEN snap ELSE dir[i]]
            /\ empty' = empty \ {id} /\ partial' = partial \ {id}
        BY <2>1, <2>2 DEF WriteFile
      <3>2. Adds(p) /\ Stays
        <4> HIDE DEF snap
        <4>1. DOMAIN dir' = DOMAIN dir \cup {id} /\ dir'[id] = snap /\ Stays
          BY <2>1, <3>1 DEF Stays
        <4>2. Torn' = Torn \ {id}
          BY <3>1 DEF Torn
        <4> QED
          BY <1>4, <2>1, <4>1, <4>2 DEF Adds, snap
      <3>3. Names' = Names
        BY <2>1, <3>2 DEF Adds, Names, Torn
      <3> QED
        BY <1>2, <1>4, <3>1, <3>2, <3>3
    <2>3. CASE /\ dir' = Without(id) /\ empty' = empty \ {id}
               /\ partial' = partial \cup {id} /\ ~Save(p, Declares(p))
      <3>1. DOMAIN dir' = DOMAIN dir /\ Stays
        BY <1>1, <2>1, <2>3, WithoutFacts DEF Stays
      <3>2. Torn' = Torn /\ Names' = Names
        BY <2>1, <2>3, <3>1 DEF Torn, Names
      <3> QED
        BY <1>2, <1>4, <2>3, <3>1, <3>2
    <2>4. \/ UNCHANGED sfiles \/ WriteFile(p, Declares(p))
          \/ /\ dir' = Without(id) /\ empty' = empty \ {id}
             /\ partial' = partial \cup {id} /\ ~Save(p, Declares(p))
      BY DEF Save, SaveFails
    <2> QED
      BY <1>3, <2>2, <2>3, <2>4
  <1>5. sphase[p] = "truncated" \/ UNCHANGED sfiles
    BY DEF Save, SaveFails
  <1> QED
    BY <1>3, <1>4, <1>5

(* The ID that a process takes is a new one, and the last. *)
LEMMA TruncateEffect ==
    ASSUME FsInv, NEW p \in Proc, NEW now \in ID, Truncate(p, now),
           "clock" \notin smishaps'
    PROVE  /\ Stays /\ DOMAIN dir' = DOMAIN dir
           /\ now \notin Names /\ \A i \in Names : i < now
           /\ Torn' = Torn \cup {now} /\ Names' = Names \cup {now}
           /\ empty' = empty \cup {now}
           /\ smishaps' = smishaps /\ prevID' = prevID
           /\ sphase[p] = "linked" /\ sphase'[p] = "truncated" /\ snapID'[p] = now
  <1>1. STypeOK /\ now \in Nat
    BY DEF FsInv, TypeOK, ID
  <1>2. \A i \in Names : ~(i >= now) /\ i \in Nat
    BY <1>1 DEF Truncate, STypeOK, Names, Torn, ID
  <1>3. \A i \in Names : i < now
    BY <1>1, <1>2
  <1>4. now \notin Names /\ now \notin DOMAIN dir /\ now \notin Torn
    BY <1>1, <1>3 DEF Names
  <1>5. DOMAIN dir' = DOMAIN dir /\ Stays
    BY <1>1, <1>4, WithoutFacts DEF Truncate, Stays
  <1>6. Torn' = Torn \cup {now} /\ Names' = Names \cup {now} /\ empty' = empty \cup {now}
    BY <1>4, <1>5 DEF Truncate, Torn, Names
  <1>7. /\ smishaps' = smishaps /\ prevID' = prevID
        /\ sphase[p] = "linked" /\ sphase'[p] = "truncated" /\ snapID'[p] = now
    BY <1>1, <1>2 DEF Truncate, STypeOK
  <1> QED
    BY <1>3, <1>4, <1>5, <1>6, <1>7

(* A step does not touch the store, except that the process may be gone. *)
Idles(p) ==
    /\ UNCHANGED <<dir, empty, partial, smishaps>>
    /\ sphase'[p] = "idle" \/ UNCHANGED <<sphase, prevID, snapID>>

(* The steps of FsCommand, as the store sees them. *)
LEMMA StoreSplit ==
    ASSUME FsInv, NEW p \in Proc, Step(p)
    PROVE  StoreStep(p) \/ Idles(p)
  <1>1. CASE SetfaclOK(p) \/ SetfaclFails(p) \/ \E v \in Verb, x \in Path : Trigger(p, v, x)
    BY <1>1 DEF SetfaclOK, SetfaclFails, Trigger, svars, Idles
  <1>2. CASE Exit(p) \/ Crash(p)
    BY <1>2, EndTypes DEF Idles
  <1>3. CASE (\E ok \in BOOLEAN : Capture(p, ok)) \/ Snap(p)
    BY <1>3, Zenon DEF Capture, Snap, StoreStep
  <1> QED
    BY <1>1, <1>2, <1>3 DEF Step, Begin

(* No step changes a whole snapshot, nor the order, as long as IDs increase. *)
LEMMA StepOrder ==
    ASSUME FsInv, OrderInv, NEW p \in Proc, Step(p), "clock" \notin smishaps'
    PROVE  "clock" \notin smishaps /\ Stays /\ OrderInv'
  <1>1. Frame(p) /\ STypeOK /\ STypeOK'
    BY FsNext DEF FsInv, TypeOK, Next
  <1>2. ASSUME NEW ok \in BOOLEAN, Link(p, ok)
        PROVE  "clock" \notin smishaps /\ Stays /\ OrderInv'
    <2>1. /\ UNCHANGED <<dir, empty, partial, snapID>> /\ sphase'[p] = "linked"
          /\ "clock" \notin smishaps
          /\ prevID'[p] = LatestID \/ prevID'[p] = 0
      BY <1>1, <1>2 DEF Link, sfiles, STypeOK
    <2>2. prevID'[p] # 0 => prevID'[p] \in DOMAIN dir
      <3>1. Names \in SUBSET (0..MaxTime)
        BY <1>1, MaxTimeAssumption DEF STypeOK, Names, Torn, ID
      <3>2. LatestID # 0 => LatestID \in DOMAIN dir
        BY <3>1, LastExists DEF LatestID, Names
      <3> QED
        BY <2>1, <3>2
    <2> QED
      BY <1>1, <2>1, <2>2 DEF OrderInv, Older, Frame, Stays
  <1>3. ASSUME NEW now \in ID, Truncate(p, now)
        PROVE  "clock" \notin smishaps /\ Stays /\ OrderInv'
    <2>1. /\ Stays /\ DOMAIN dir' = DOMAIN dir /\ now \notin Names
          /\ (\A i \in Names : i < now) /\ empty' = empty \cup {now}
          /\ smishaps' = smishaps /\ prevID' = prevID
          /\ sphase[p] = "linked" /\ sphase'[p] = "truncated" /\ snapID'[p] = now
      BY <1>3, TruncateEffect
    <2>2. \A q \in Proc \ {p} : sphase[q] = "truncated" => snapID[q] \in empty /\ snapID[q] # now
      BY <2>1 DEF OrderInv, Names, Torn
    <2>3. Older(prevID[p], now)
      BY <2>1 DEF OrderInv, Older, Names
    <2>4. \A q, r \in Proc :
             sphase'[q] = "truncated" /\ sphase'[r] = "truncated" /\ snapID'[q] = snapID'[r]
                 => q = r
      BY <1>1, <2>1, <2>2 DEF OrderInv, Frame
    <2>5. ASSUME NEW q \in Proc
          PROVE  /\ sphase'[q] = "linked" => (prevID'[q] # 0 => prevID'[q] \in DOMAIN dir')
                 /\ sphase'[q] = "truncated" => /\ snapID'[q] \in empty'
                                                /\ Older(prevID[q], snapID[q])'
      <3>1. CASE q = p
        BY <2>1, <2>3, <3>1 DEF Older
      <3>2. CASE q # p
        BY <1>1, <2>1, <2>2, <3>2 DEF OrderInv, Older, Frame
      <3> QED
        BY <3>1, <3>2
    <2>6. \A i \in DOMAIN dir' : Older(dir[i].prev, i)'
      BY <2>1 DEF OrderInv, Older, Stays
    <2> QED
      BY <2>1, <2>4, <2>5, <2>6 DEF OrderInv
  <1>4. CASE Save(p, Declares(p)) \/ SaveFails(p, Declares(p))
    <2>1. "clock" \notin smishaps
      BY <1>4 DEF Save, SaveFails
    <2>2. /\ Stays /\ (Adds(p) \/ DOMAIN dir' = DOMAIN dir)
          /\ empty \subseteq empty' \cup {snapID[p]}
          /\ sphase[p] = "linked" => empty' = empty
          /\ UNCHANGED <<prevID, snapID, smishaps>>
          /\ Writing(p) /\ sphase'[p] \in {"saved", "failed"}
      BY <1>4, <2>1, WriteEffect
    <2>3. ASSUME NEW q \in Proc
          PROVE  /\ sphase'[q] = "linked" => (prevID'[q] # 0 => prevID'[q] \in DOMAIN dir')
                 /\ sphase'[q] = "truncated" => /\ snapID'[q] \in empty'
                                                /\ Older(prevID[q], snapID[q])'
      <3>1. CASE q # p
        <4>1. sphase'[q] = sphase[q] /\ prevID'[q] = prevID[q] /\ snapID'[q] = snapID[q]
          BY <1>1, <3>1 DEF Frame
        <4>2. sphase[q] = "truncated" => snapID[q] \in empty'
          BY <2>1, <2>2, <3>1 DEF OrderInv, Writing
        <4> QED
          BY <2>1, <2>2, <4>1, <4>2 DEF OrderInv, Older, Stays
      <3> QED
        BY <2>2, <3>1
    <2>4. \A i \in DOMAIN dir' : Older(dir[i].prev, i)'
      <3>1. \A i \in DOMAIN dir : Older(dir[i].prev, i)'
        BY <2>1, <2>2 DEF OrderInv, Older, Stays
      <3>2. Adds(p) => Older(dir[snapID[p]].prev, snapID[p])'
        <4> SUFFICES ASSUME Adds(p) PROVE Older(dir[snapID[p]].prev, snapID[p])'
          OBVIOUS
        <4>1. dir'[snapID[p]].prev = prevID[p] /\ snapID' = snapID
          BY <2>2 DEF Adds
        <4>2. Older(prevID[p], snapID[p])
          BY <2>1 DEF OrderInv, Adds
        <4> QED
          BY <2>2, <4>1, <4>2 DEF Older, Stays
      <3> QED
        BY <2>2, <3>1, <3>2 DEF Adds
    <2>5. \A q, r \in Proc :
             sphase'[q] = "truncated" /\ sphase'[r] = "truncated" /\ snapID'[q] = snapID'[r]
                 => q = r
      BY <1>1, <2>1, <2>2 DEF OrderInv, Frame
    <2> QED
      BY <2>1, <2>2, <2>3, <2>4, <2>5 DEF OrderInv
  <1>5. CASE Idles(p)
    <2>1. /\ UNCHANGED <<dir, empty, smishaps>>
          /\ \A q \in Proc : Writing(q)' => /\ sphase'[q] = sphase[q]
                                            /\ snapID'[q] = snapID[q]
                                            /\ prevID'[q] = prevID[q]
      BY <1>1, <1>5 DEF Idles, Frame, Writing
    <2> QED
      BY <2>1 DEF OrderInv, Older, Stays, Writing
  <1> QED
    BY <1>2, <1>3, <1>4, <1>5, StoreSplit DEF StoreStep

(* The order holds, under every interleaving of the writers. *)
LEMMA OrderNext ==
    /\ Init => OrderInv
    /\ FsInv /\ OrderInv /\ [Next]_vars => OrderInv'
  <1>1. Init => OrderInv
    BY DEF Init, SInit, SIdle, OrderInv
  <1>2. ASSUME OrderInv, UNCHANGED vars PROVE OrderInv'
    BY <1>2 DEF vars, svars, OrderInv, Older
  <1>3. ASSUME FsInv, OrderInv, NEW p \in Proc, Step(p) PROVE OrderInv'
    <2>1. CASE "clock" \notin smishaps'
      BY <1>3, <2>1, StepOrder
    <2>2. CASE "clock" \in smishaps'
      BY <2>2 DEF OrderInv
    <2> QED
      BY <2>1, <2>2
  <1> QED
    BY <1>1, <1>2, <1>3 DEF Next

(* snapshot.go: as long as IDs increase, a whole snapshot is "immutable",     *)
(* also when writers overlap, fail or die.                                    *)
THEOREM WholeSnapshotsStay == Spec => OrderedSnapshotsImmutable
  <1>1. FsInv /\ OrderInv /\ [Next]_vars
           => [\A i \in DOMAIN dir : "clock" \notin smishaps'
                   => i \in DOMAIN dir' /\ dir'[i] = dir[i]]_svars
    <2> SUFFICES ASSUME FsInv, OrderInv, [Next]_vars, "clock" \notin smishaps'
                 PROVE  Stays \/ UNCHANGED svars
      BY DEF vars, Stays
    <2>1. CASE UNCHANGED vars
      BY <2>1 DEF vars
    <2> QED
      BY <2>1, StepOrder DEF Next
  <1> QED
    BY <1>1, FsNext, OrderNext, PTL DEF Spec, OrderedSnapshotsImmutable

-----------------------------------------------------------------------------
(* The chain of snapshots. *)

Before(i) == {j \in Names : j < i}
Predecessor(i) == IF Before(i) = {} \/ Max(Before(i)) \in Torn THEN 0 ELSE Max(Before(i))

Serial == "clock" \notin smishaps /\ "overlap" \notin smishaps

(* The predecessor is the right one, or Latest could not read the store. *)
Right(prev, expected) == prev = expected \/ (prev = 0 /\ "unread" \in smishaps)

(* Without overlap and with IDs that increase there is one writer at most, its  *)
(* predecessor is the latest snapshot until it takes its ID, and its file is    *)
(* the last one from then on.                                                   *)
ChainInv ==
    Serial =>
        /\ \A p, q \in Proc : Writing(p) /\ Writing(q) => p = q
        /\ \A p \in Proc :
              /\ sphase[p] = "linked" => Right(prevID[p], LatestID)
              /\ sphase[p] = "truncated" =>
                    /\ \A j \in Names : j <= snapID[p]
                    /\ Right(prevID[p], Predecessor(snapID[p]))
        /\ \A i \in DOMAIN dir : Right(dir[i].prev, Predecessor(i))

(* The predecessor depends only on the files before. *)
LEMMA PredecessorStays ==
    ASSUME STypeOK, NEW i \in ID, Before(i)' = Before(i),
           \A j \in Before(i) : j \in Torn' <=> j \in Torn
    PROVE  Predecessor(i)' = Predecessor(i)
  <1>1. Before(i) \in SUBSET (0..MaxTime)
    BY MaxTimeAssumption DEF STypeOK, Before, Names, Torn, ID
  <1>2. Before(i) # {} => Max(Before(i)) \in Before(i)
    BY <1>1, LastExists
  <1>3. Max(Before(i))' = Max(Before(i))
    BY DEF Max
  <1> QED
    BY <1>2, <1>3 DEF Predecessor

(* The predecessors stay where the files before do not change. *)
LEMMA LinksStay ==
    ASSUME STypeOK, NEW top \in ID, \A i \in DOMAIN dir : i <= top,
           \A j \in ID : j < top => /\ j \in Names' <=> j \in Names
                                    /\ j \in Torn' <=> j \in Torn,
           Names' \subseteq ID
    PROVE  /\ \A i \in DOMAIN dir : Predecessor(i)' = Predecessor(i)
           /\ Predecessor(top)' = Predecessor(top)
  <1>1. Names \subseteq ID /\ ID \subseteq Nat /\ DOMAIN dir \subseteq ID
    BY DEF STypeOK, Names, Torn, ID
  <1>2. ASSUME NEW i \in ID, i <= top PROVE Predecessor(i)' = Predecessor(i)
    <2>1. \A j \in ID : j < i => j < top
      BY <1>1, <1>2
    <2>2. Before(i)' = Before(i)
      <3>1. \A j : j \in Before(i)' <=> j \in Before(i)
        BY <1>1, <2>1 DEF Before
      <3> QED
        BY <3>1
    <2>3. \A j \in Before(i) : j \in Torn' <=> j \in Torn
      BY <1>1, <2>1 DEF Before
    <2> QED
      BY <2>2, <2>3, PredecessorStays
  <1>3. top <= top
    BY <1>1
  <1> QED
    BY <1>1, <1>2, <1>3

(* The step that takes an ID. *)
LEMMA TruncateChain ==
    ASSUME FsInv, ChainInv, FsInv', NEW p \in Proc, NEW now \in ID, Truncate(p, now),
           Frame(p), Serial'
    PROVE  ChainInv'
  <1>1. STypeOK /\ STypeOK' /\ ID \subseteq Nat /\ now \in Nat
    BY DEF FsInv, TypeOK, ID
  <1>2. /\ Stays /\ DOMAIN dir' = DOMAIN dir
        /\ now \notin Names /\ \A i \in Names : i < now
    BY TruncateEffect DEF Serial
  <1>3. /\ Torn' = Torn \cup {now} /\ Names' = Names \cup {now}
        /\ smishaps' = smishaps /\ prevID' = prevID
        /\ sphase[p] = "linked" /\ sphase'[p] = "truncated" /\ snapID'[p] = now
    BY TruncateEffect DEF Serial
  <1>4. Serial
    BY <1>3 DEF Serial
  <1>5. Names \subseteq ID /\ Names' \subseteq ID
    BY <1>1 DEF STypeOK, Names, Torn
  <1>6. \A i \in Names \cup {now} : i <= now
    <2> SUFFICES ASSUME NEW i \in Names PROVE i <= now
      BY <1>1
    <2>1. i \in Nat /\ i < now
      BY <1>1, <1>2, <1>5
    <2> QED
      BY <1>1, <2>1
  <1>7. /\ \A i \in DOMAIN dir : Predecessor(i)' = Predecessor(i)
        /\ Predecessor(now)' = Predecessor(now)
    <2>1. \A i \in DOMAIN dir : i <= now
      BY <1>6 DEF Names
    <2>2. \A j \in ID : j < now => (j \in Names' <=> j \in Names)
                                      /\ (j \in Torn' <=> j \in Torn)
      BY <1>1, <1>3
    <2> QED
      BY <1>1, <1>5, <2>1, <2>2, LinksStay
  <1>8. Predecessor(now) = LatestID
    <2>1. Before(now) = Names
      BY <1>2 DEF Before
    <2> QED
      BY <2>1 DEF Predecessor, LatestID
  <1>9. \A q \in Proc \ {p} : ~Writing(q) /\ ~Writing(q)'
    BY <1>3, <1>4 DEF ChainInv, Writing, Frame
  <1>10. Right(prevID[p], Predecessor(snapID[p]))'
    <2>1. Right(prevID[p], LatestID)
      BY <1>3, <1>4 DEF ChainInv
    <2>2. Predecessor(snapID[p])' = Predecessor(now)'
      BY <1>3 DEF Predecessor, Before
    <2> QED
      BY <1>3, <1>7, <1>8, <2>1, <2>2 DEF Right
  <1>11. \A j \in Names' : j <= snapID'[p]
    BY <1>3, <1>6
  <1>12. \A i \in DOMAIN dir' : Right(dir[i].prev, Predecessor(i))'
    BY <1>2, <1>3, <1>4, <1>7 DEF ChainInv, Right, Stays
  <1> QED
    BY <1>3, <1>9, <1>10, <1>11, <1>12 DEF ChainInv, Writing

(* The write, or its failure. *)
LEMMA SaveChain ==
    ASSUME FsInv, OrderInv, ChainInv, FsInv', NEW p \in Proc, Frame(p), Serial',
           Save(p, Declares(p)) \/ SaveFails(p, Declares(p))
    PROVE  ChainInv'
  <1>1. STypeOK /\ STypeOK' /\ ID \subseteq Nat
    BY DEF FsInv, TypeOK, ID
  <1>2. smishaps' = smishaps /\ Serial
    BY DEF Save, SaveFails, Serial
  <1>3. /\ Stays /\ Names' = Names
        /\ Adds(p) \/ (DOMAIN dir' = DOMAIN dir /\ Torn' = Torn)
        /\ Writing(p) /\ sphase'[p] \in {"saved", "failed"}
    BY <1>2, WriteEffect DEF Serial
  <1>4. \A q \in Proc : ~Writing(q)'
    BY <1>2, <1>3 DEF ChainInv, Writing, Frame
  <1>5. CASE DOMAIN dir' = DOMAIN dir /\ Torn' = Torn
    <2>1. \A i : Predecessor(i)' = Predecessor(i)
      BY <1>3, <1>5 DEF Predecessor, Before, Max
    <2>2. \A i \in DOMAIN dir' : Right(dir[i].prev, Predecessor(i))'
      BY <1>2, <1>3, <1>5, <2>1 DEF ChainInv, Right, Stays
    <2> QED
      BY <1>4, <2>2 DEF ChainInv, Writing
  <1>6. CASE Adds(p)
    <2>1. PICK id \in ID : id = snapID[p]
      BY <1>6 DEF Adds
    <2>2. /\ \A j \in Names : j <= id
          /\ Right(prevID[p], Predecessor(id))
          /\ \A i \in DOMAIN dir : Right(dir[i].prev, Predecessor(i))
      BY <1>2, <1>6, <2>1 DEF ChainInv, Adds
    <2>3. /\ DOMAIN dir' = DOMAIN dir \cup {id} /\ Torn' = Torn \ {id}
          /\ dir'[id].prev = prevID[p]
      BY <1>6, <2>1 DEF Adds
    <2>4. /\ \A i \in DOMAIN dir : Predecessor(i)' = Predecessor(i)
          /\ Predecessor(id)' = Predecessor(id)
      <3>1. \A j \in ID : j < id => (j \in Names' <=> j \in Names)
                                      /\ (j \in Torn' <=> j \in Torn)
        BY <1>1, <1>3, <2>3
      <3>2. Names' \subseteq ID
        BY <1>1 DEF STypeOK, Names, Torn
      <3>3. \A i \in DOMAIN dir : i <= id
        BY <2>2 DEF Names
      <3> QED
        BY <1>1, <3>1, <3>2, <3>3, LinksStay
    <2>5. \A i \in DOMAIN dir' : Right(dir[i].prev, Predecessor(i))'
      BY <1>2, <1>3, <2>2, <2>3, <2>4 DEF Right, Stays
    <2> QED
      BY <1>4, <2>5 DEF ChainInv, Writing
  <1> QED
    BY <1>3, <1>5, <1>6

(* No step of a single writer breaks the chain. *)
LEMMA StepChain ==
    ASSUME FsInv, OrderInv, ChainInv, NEW p \in Proc, Step(p), Serial'
    PROVE  ChainInv'
  <1>1. FsInv' /\ Frame(p) /\ TypeOK /\ STypeOK
    BY FsNext DEF FsInv, TypeOK, Next
  <1>2. ASSUME NEW ok \in BOOLEAN, Link(p, ok) PROVE ChainInv'
    <2>1. Serial /\ smishaps \subseteq smishaps' /\ \A q \in Proc \ {p} : ~Writing(q)
      BY <1>2 DEF Link, Writing, Serial
    <2>2. /\ UNCHANGED <<sfiles, snapID>> /\ sphase'[p] = "linked"
          /\ prevID'[p] = LatestID \/ (prevID'[p] = 0 /\ "unread" \in smishaps')
      BY <1>1, <1>2 DEF Link, STypeOK
    <2>3. /\ LatestID' = LatestID
          /\ \A i : Predecessor(i)' = Predecessor(i)
      BY <2>2 DEF sfiles, LatestID, Predecessor, Before, Names, Torn
    <2>4. \A q \in Proc \ {p} : ~Writing(q)'
      BY <1>1, <2>1 DEF Writing, Frame
    <2>5. \A i \in DOMAIN dir' : Right(dir[i].prev, Predecessor(i))'
      BY <2>1, <2>2, <2>3 DEF ChainInv, Right, sfiles
    <2>6. Right(prevID[p], LatestID)'
      BY <2>2, <2>3 DEF Right
    <2> QED
      BY <2>2, <2>4, <2>5, <2>6 DEF ChainInv, Writing
  <1>3. CASE \E now \in ID : Truncate(p, now)
    BY <1>1, <1>3, TruncateChain
  <1>4. CASE Save(p, Declares(p)) \/ SaveFails(p, Declares(p))
    BY <1>1, <1>4, SaveChain
  <1>5. CASE Idles(p)
    <2>1. UNCHANGED <<dir, empty, partial, smishaps>> /\ Serial
      BY <1>5 DEF Idles, Serial
    <2>2. /\ LatestID' = LatestID /\ Names' = Names
          /\ \A i : Predecessor(i)' = Predecessor(i)
      BY <2>1 DEF LatestID, Predecessor, Before, Names, Torn
    <2>3. \A q \in Proc : Writing(q)' => /\ sphase'[q] = sphase[q] /\ snapID'[q] = snapID[q]
                                         /\ prevID'[q] = prevID[q] /\ Writing(q)
      BY <1>1, <1>5 DEF Idles, Frame, Writing
    <2>4. \A i \in DOMAIN dir' : Right(dir[i].prev, Predecessor(i))'
      BY <2>1, <2>2 DEF ChainInv, Right
    <2>5. ASSUME NEW q \in Proc
          PROVE  /\ sphase'[q] = "linked" => Right(prevID[q], LatestID)'
                 /\ sphase'[q] = "truncated" =>
                       /\ \A j \in Names' : j <= snapID'[q]
                       /\ Right(prevID[q], Predecessor(snapID[q]))'
      <3>1. CASE sphase'[q] = "linked"
        BY <2>1, <2>2, <2>3, <3>1 DEF ChainInv, Writing, Right
      <3>2. CASE sphase'[q] = "truncated"
        <4>1. /\ sphase[q] = "truncated" /\ snapID'[q] = snapID[q]
              /\ prevID'[q] = prevID[q]
          BY <2>3, <3>2 DEF Writing
        <4>2. /\ Right(prevID[q], Predecessor(snapID[q]))
              /\ \A j \in Names : j <= snapID[q]
          BY <2>1, <4>1 DEF ChainInv
        <4>3. Predecessor(snapID[q])' = Predecessor(snapID[q])
          BY <2>1, <4>1 DEF Predecessor, Before, Names, Torn
        <4> QED
          BY <2>1, <2>2, <3>2, <4>1, <4>2, <4>3 DEF Right
      <3> QED
        BY <3>1, <3>2
    <2>6. \A q, r \in Proc : Writing(q)' /\ Writing(r)' => q = r
      BY <2>1, <2>3 DEF ChainInv
    <2> QED
      BY <2>4, <2>5, <2>6 DEF ChainInv
  <1> QED
    BY <1>2, <1>3, <1>4, <1>5, StoreSplit DEF StoreStep

(* The invariant of the chain holds, under every interleaving. *)
LEMMA ChainNext ==
    /\ Init => ChainInv
    /\ FsInv /\ OrderInv /\ ChainInv /\ [Next]_vars => ChainInv'
  <1>1. Init => ChainInv
    BY DEF Init, SInit, SIdle, ChainInv, Writing
  <1>2. ASSUME ChainInv, UNCHANGED vars PROVE ChainInv'
    BY <1>2 DEF vars, svars, ChainInv, Serial, Writing, Right, LatestID, Predecessor,
                Before, Names, Torn
  <1>3. ASSUME FsInv, OrderInv, ChainInv, NEW p \in Proc, Step(p) PROVE ChainInv'
    <2>1. CASE Serial'
      BY <1>3, <2>1, StepChain
    <2>2. CASE ~Serial'
      BY <2>2 DEF ChainInv
    <2> QED
      BY <2>1, <2>2
  <1> QED
    BY <1>1, <1>2, <1>3 DEF Next

(* main.go, capture and fs: as long as IDs increase, every link leads to an   *)
(* older snapshot that is whole, and without overlap to the one before; it is *)
(* missing only at the beginning, after a torn file, or when Latest failed.   *)
THEOREM SnapshotsFormChain == Spec => []SnapshotChain
  <1>1. OrderInv /\ ChainInv => SnapshotChain
    <2> SUFFICES ASSUME OrderInv, ChainInv, "clock" \notin smishaps, NEW i \in DOMAIN dir
                 PROVE  /\ Older(dir[i].prev, i)
                        /\ "overlap" \notin smishaps =>
                              \/ Before(i) # {} /\ dir[i].prev = Max(Before(i))
                              \/ /\ dir[i].prev = 0
                                 /\ \/ Before(i) = {} \/ Max(Before(i)) \in Torn
                                    \/ "unread" \in smishaps
      BY DEF SnapshotChain, Older, Before
    <2>1. Older(dir[i].prev, i)
      BY DEF OrderInv
    <2>2. "overlap" \notin smishaps => Right(dir[i].prev, Predecessor(i))
      BY DEF ChainInv, Serial
    <2> QED
      BY <2>1, <2>2 DEF Right, Predecessor
  <1> QED
    BY <1>1, FsNext, OrderNext, ChainNext, PTL DEF Spec

-----------------------------------------------------------------------------
(* What is declared and what is there. *)

About(x) == {i \in DOMAIN dir : dir[i].what.path = x}

(* The entries that the last snapshot about a path declares. *)
Declared(x) == IF About(x) # {} /\ dir[Max(About(x))].what.verb = "GRANT_FS"
               THEN "all" ELSE "none"

Matches(x) == access[x] = Declared(x) /\ default[x] = Declared(x)

(* While fs commands do not overlap and IDs increase, the entries match what   *)
(* is declared of them except where a change is undeclared, as that of a       *)
(* command is until it has saved its snapshot; and the ID that it takes for    *)
(* the snapshot is later than all about its path.                              *)
DeclaredInv ==
    "clock" \notin smishaps /\ fmishaps = {} =>
        /\ \A x \in Path \ undeclared : Matches(x)
        /\ \A p \in Proc :
              /\ fphase[p] \in {"first", "second", "done"} /\ sphase[p] # "saved"
                    => path[p] \in undeclared
              /\ fphase[p] = "done" /\ sphase[p] = "truncated"
                    => \A i \in About(path[p]) : i < snapID[p]

(* The declared entries stay where the snapshots do. *)
LEMMA DeclaredStays ==
    ASSUME DOMAIN dir' = DOMAIN dir, Stays, STypeOK
    PROVE  \A x : Declared(x)' = Declared(x) /\ About(x)' = About(x)
  <1> SUFFICES ASSUME NEW x PROVE Declared(x)' = Declared(x) /\ About(x)' = About(x)
    OBVIOUS
  <1>1. About(x)' = About(x)
    BY DEF About, Stays
  <1>2. Max(About(x))' = Max(About(x))
    BY <1>1 DEF Max
  <1>3. About(x) # {} => Max(About(x)) \in DOMAIN dir
    <2>1. About(x) \in SUBSET (0..MaxTime) /\ About(x) \subseteq DOMAIN dir
      BY MaxTimeAssumption DEF STypeOK, About, ID
    <2> QED
      BY <2>1, LastExists
  <1> QED
    BY <1>1, <1>2, <1>3 DEF Declared, Stays

(* A new snapshot, which is the last one about its path. *)
LEMMA DeclaredChanges ==
    ASSUME STypeOK, STypeOK', Stays, NEW id \in ID \ DOMAIN dir, NEW w \in What,
           DOMAIN dir' = DOMAIN dir \cup {id}, dir'[id].what = w
    PROVE  /\ \A x : x # w.path => Declared(x)' = Declared(x) /\ About(x)' = About(x)
           /\ (\A i \in About(w.path) : i < id)
                 => Declared(w.path)' = IF w.verb = "GRANT_FS" THEN "all" ELSE "none"
  <1>1. ASSUME NEW x
        PROVE  /\ About(x) \in SUBSET (0..MaxTime) /\ About(x)' \in SUBSET (0..MaxTime)
               /\ About(x) \subseteq DOMAIN dir
    BY MaxTimeAssumption DEF STypeOK, About, ID
  <1>2. ASSUME NEW x, x = w.path, \A i \in About(x) : i < id
        PROVE  Declared(x)' = IF w.verb = "GRANT_FS" THEN "all" ELSE "none"
    <2>1. About(x)' = About(x) \cup {id}
      BY <1>2 DEF About, Stays
    <2>2. Max(About(x)') \in About(x)' /\ \A i \in About(x)' : i <= Max(About(x)')
      BY <1>1, <2>1, LastExists
    <2>3. \A i \in About(x) : i < id /\ i \in Nat
      BY <1>1, <1>2
    <2>4. Max(About(x)') = id
      <3>1. PICK m \in Nat : m = Max(About(x)')
        BY <1>1, <2>2
      <3>2. id \in Nat /\ id <= m
        BY <2>1, <2>2, <3>1 DEF ID
      <3>3. m \in About(x) \/ m = id
        BY <2>1, <2>2, <3>1
      <3> QED
        BY <2>3, <3>1, <3>2, <3>3
    <2>5. Max(About(x))' = Max(About(x)')
      BY DEF Max
    <2> QED
      BY <2>1, <2>4, <2>5 DEF Declared
  <1>3. ASSUME NEW x, x # w.path
        PROVE  Declared(x)' = Declared(x) /\ About(x)' = About(x)
    <2>1. About(x)' = About(x)
      BY <1>3 DEF About, Stays
    <2>2. Max(About(x))' = Max(About(x))
      BY <2>1 DEF Max
    <2>3. About(x) # {} => Max(About(x)) \in DOMAIN dir
      BY <1>1, LastExists
    <2> QED
      BY <2>1, <2>2, <2>3 DEF Declared, Stays
  <1> QED
    BY <1>2, <1>3

(* What a step that does not touch the entries, nor what is declared, has to  *)
(* keep for the agreement.                                                    *)
LEMMA QuietMatches ==
    ASSUME FsInv, FsInv', DeclaredInv, NEW p \in Proc, Frame(p),
           "clock" \notin smishaps, fmishaps = {},
           undeclared \subseteq undeclared',
           \A x \in Path \ undeclared : access'[x] = access[x] /\ default'[x] = default[x],
           \A x \in Path \ undeclared : Declared(x)' = Declared(x),
           \A q \in Proc \ {p} : Busy(q) => About(path[q])' \subseteq About(path[q]),
           fphase'[p] \in {"first", "second", "done"} /\ sphase'[p] # "saved"
               => path'[p] \in undeclared',
           fphase'[p] = "done" /\ sphase'[p] = "truncated"
               => \A i \in About(path[p])' : i < snapID'[p]
    PROVE  DeclaredInv'
  <1>1. \A x \in Path \ undeclared' : Matches(x)'
    <2> SUFFICES ASSUME NEW x \in Path \ undeclared' PROVE Matches(x)'
      OBVIOUS
    <2>1. x \in Path \ undeclared /\ Matches(x)
      BY DEF DeclaredInv
    <2> QED
      BY <2>1 DEF Matches
  <1>2. ASSUME NEW q \in Proc \ {p}
        PROVE  /\ fphase'[q] \in {"first", "second", "done"} /\ sphase'[q] # "saved"
                     => path'[q] \in undeclared'
               /\ fphase'[q] = "done" /\ sphase'[q] = "truncated"
                     => \A i \in About(path[q])' : i < snapID'[q]
    <2>1. /\ fphase'[q] = fphase[q] /\ sphase'[q] = sphase[q]
          /\ path'[q] = path[q] /\ snapID'[q] = snapID[q]
      BY DEF Frame
    <2>2. fphase[q] = "done" => Busy(q)
      BY DEF Busy
    <2> QED
      BY <2>1, <2>2 DEF DeclaredInv
  <1> QED
    BY <1>1, <1>2 DEF DeclaredInv

(* The write of a snapshot, or its failure.  A command whose write fails has   *)
(* left its path undeclared, even if the file is there.                        *)
LEMMA WriteMatches ==
    ASSUME FsInv, FsInv', OrderInv, SuccessInv, DeclaredInv, NEW p \in Proc, Frame(p),
           "clock" \notin smishaps, fmishaps = {}, UNCHANGED fvars,
           \/ Save(p, Declares(p)) /\ undeclared' = undeclared \ {path[p]}
           \/ SaveFails(p, Declares(p)) /\ undeclared' = undeclared
    PROVE  DeclaredInv'
  <1>1. STypeOK /\ STypeOK' /\ TypeOK /\ Places(p) /\ UNCHANGED <<access, default, fphase, path>>
    BY DEF FsInv, TypeOK, fvars
  <1>2. /\ Stays /\ (Adds(p) \/ DOMAIN dir' = DOMAIN dir)
        /\ Save(p, Declares(p)) => Adds(p)
        /\ Writing(p) /\ sphase'[p] \in {"saved", "failed"}
    BY WriteEffect
  <1>3. fphase[p] \in {"done", "capture"}
    BY <1>1, <1>2 DEF Places, Writing
  <1>4. fphase[p] = "done" => path[p] \in undeclared /\ path[p] \in Path
    BY <1>1, <1>2 DEF DeclaredInv, Writing, Places, Busy
  <1>5. PICK w \in What : w = Declares(p)
    BY <1>1, DeclaresWhat
  <1>6. /\ fphase[p] = "done" => w.path = path[p] /\ w.verb = verb[p]
        /\ fphase[p] = "capture" => w.path = NoPath /\ path[p] = NoPath
    BY <1>1, <1>5 DEF Declares, Places, Busy
  <1>7. fphase[p] = "done" => \A q \in Proc \ {p} : ~Busy(q)
    BY DEF SuccessInv, Busy
  <1>8. ASSUME NEW q \in Proc \ {p}, Busy(q)
        PROVE  path[q] # w.path /\ path'[q] = path[q]
    <2>1. path[q] \in Path
      BY <1>8 DEF FsInv, Places
    <2> QED
      BY <1>1, <1>3, <1>6, <1>7, <1>8, <2>1, WhatAssumption
  <1>9. Adds(p) => /\ \A x : x # w.path => Declared(x)' = Declared(x) /\ About(x)' = About(x)
                   /\ (\A i \in About(w.path) : i < snapID[p])
                         => Declared(w.path)' = IF w.verb = "GRANT_FS" THEN "all" ELSE "none"
    <2> SUFFICES ASSUME Adds(p)
                 PROVE  /\ \A x : x # w.path => Declared(x)' = Declared(x)
                                                  /\ About(x)' = About(x)
                        /\ (\A i \in About(w.path) : i < snapID[p])
                              => Declared(w.path)' = IF w.verb = "GRANT_FS" THEN "all"
                                                     ELSE "none"
      OBVIOUS
    <2>1. PICK id \in ID \ DOMAIN dir : id = snapID[p]
      BY DEF Adds
    <2>2. DOMAIN dir' = DOMAIN dir \cup {id} /\ dir'[id].what = w
      BY <1>5, <2>1 DEF Adds
    <2> QED
      BY <1>1, <1>2, <2>1, <2>2, DeclaredChanges
  <1>10. CASE \/ fphase[p] = "capture"
              \/ SaveFails(p, Declares(p)) /\ undeclared' = undeclared
    <2>1. undeclared' = undeclared
      <3>1. CASE fphase[p] = "capture" /\ undeclared' = undeclared \ {path[p]}
        <4>1. path[p] = NoPath /\ NoPath \notin undeclared
          BY <1>1, <1>6, <3>1, WhatAssumption DEF TypeOK
        <4> QED
          BY <3>1, <4>1
      <3> QED
        BY <1>10, <3>1
    <2>2. w.path \notin Path \ undeclared
      BY <1>3, <1>4, <1>6, WhatAssumption
    <2>3. \A x \in Path \ undeclared : Declared(x)' = Declared(x)
      BY <1>1, <1>2, <1>9, <2>2, DeclaredStays
    <2>4. \A q \in Proc \ {p} : Busy(q) => About(path[q])' \subseteq About(path[q])
      <3> SUFFICES ASSUME NEW q \in Proc \ {p}, Busy(q), NEW x, x = path[q]
                   PROVE  About(path[q])' \subseteq About(x)
        OBVIOUS
      <3>1. About(path[q])' = About(x)'
        BY <1>8 DEF About
      <3>2. About(x)' = About(x)
        BY <1>1, <1>2, <1>8, <1>9, DeclaredStays
      <3> QED
        BY <3>1, <3>2
    <2>5. fphase'[p] \in {"first", "second", "done"} => path'[p] \in undeclared'
      BY <1>1, <1>3, <1>4, <2>1
    <2> QED
      BY <1>1, <1>2, <2>1, <2>3, <2>4, <2>5, QuietMatches
  <1>11. CASE /\ fphase[p] = "done" /\ Save(p, Declares(p))
              /\ undeclared' = undeclared \ {path[p]}
    <2>1. PICK y \in Path : y = path[p] /\ y = w.path
      BY <1>4, <1>6, <1>11
    <2>2. sphase[p] = "truncated" /\ sphase'[p] = "saved"
      BY <1>1, <1>11 DEF Save, STypeOK
    <2>3. \A i \in About(y) : i < snapID[p]
      BY <1>11, <2>1, <2>2 DEF DeclaredInv
    <2>4. /\ Declared(y)' = Goal(p)
          /\ \A x : x # y => Declared(x)' = Declared(x)
      BY <1>2, <1>6, <1>9, <1>11, <2>1, <2>3 DEF Goal
    <2>5. access[y] = Goal(p) /\ default[y] = Goal(p)
      BY <1>11, <2>1 DEF SuccessInv, Reached
    <2>6. ASSUME NEW x \in Path \ undeclared' PROVE Matches(x)'
      <3>1. CASE x = y
        BY <1>1, <2>4, <2>5, <3>1 DEF Matches
      <3>2. CASE x # y
        <4>1. Matches(x)
          BY <1>11, <2>1, <2>6, <3>2 DEF DeclaredInv
        <4> QED
          BY <1>1, <2>4, <3>2, <4>1 DEF Matches
      <3> QED
        BY <3>1, <3>2
    <2>7. \A q \in Proc \ {p} : fphase'[q] \notin {"first", "second", "done"}
      BY <1>1, <1>7, <1>11 DEF Busy
    <2> QED
      BY <2>2, <2>6, <2>7 DEF DeclaredInv
  <1> QED
    BY <1>3, <1>10, <1>11

(* While fs commands do not overlap and IDs increase, no step breaks the      *)
(* agreement.                                                                 *)
LEMMA StepMatches ==
    ASSUME FsInv, OrderInv, SuccessInv, DeclaredInv, NEW p \in Proc, Step(p)
    PROVE  DeclaredInv'
  <1> SUFFICES ASSUME "clock" \notin smishaps', fmishaps' = {} PROVE DeclaredInv'
    BY DEF DeclaredInv
  <1>1. FsInv' /\ Frame(p) /\ TypeOK /\ STypeOK
    BY FsNext DEF FsInv, TypeOK, Next
  <1>2. "clock" \notin smishaps /\ Stays
    BY StepOrder
  <1>3. fmishaps = {}
    BY DEF Step, Begin, Trigger, Capture, SetfaclOK, SetfaclFails, Snap, Exit, Crash, fvars
  <1>4. ASSUME DOMAIN dir' = DOMAIN dir
        PROVE  /\ \A x \in Path \ undeclared : Declared(x)' = Declared(x)
               /\ \A q \in Proc : Busy(q) /\ path'[q] = path[q]
                     => About(path[q])' = About(path[q])
               /\ \A q \in Proc \ {p} : Busy(q) => About(path[q])' \subseteq About(path[q])
    <2>1. \A x : Declared(x)' = Declared(x) /\ About(x)' = About(x)
      BY <1>1, <1>2, <1>4, DeclaredStays
    <2>2. ASSUME NEW q \in Proc, path'[q] = path[q]
          PROVE  About(path[q])' = About(path[q])
      <3>1. PICK x : x = path[q]
        OBVIOUS
      <3>2. About(path[q])' = About(x)'
        BY <2>2, <3>1 DEF About
      <3> QED
        BY <2>1, <3>1, <3>2
    <2> QED
      BY <1>1, <2>1, <2>2 DEF Frame
  <1>5. ASSUME NEW v \in Verb, NEW x \in Path, Trigger(p, v, x),
               undeclared' = undeclared \cup ({x} \ Denylisted)
        PROVE  DeclaredInv'
    <2>1. UNCHANGED <<dir, access, default>>
      BY <1>5 DEF Trigger, svars
    <2>2. /\ fphase'[p] = (IF x \in Denylisted THEN "error" ELSE "first")
          /\ path'[p] = x
      BY <1>1, <1>5 DEF Trigger, TypeOK
    <2>3. /\ fphase'[p] \in {"first", "second", "done"} => path'[p] \in undeclared'
          /\ fphase'[p] # "done" /\ undeclared \subseteq undeclared'
      BY <1>5, <2>2
    <2> QED
      BY <1>1, <1>2, <1>3, <1>4, <2>1, <2>3, QuietMatches
  <1>6. CASE (SetfaclOK(p) \/ SetfaclFails(p)) /\ undeclared' = undeclared
    <2>1. /\ path[p] \in Path /\ path' = path /\ UNCHANGED svars /\ sphase[p] = "idle"
          /\ fphase[p] \in {"first", "second"}
      BY <1>6, SetfaclTypes DEF FsInv, Places
    <2>2. path[p] \in undeclared
      BY <1>2, <1>3, <2>1 DEF DeclaredInv
    <2>3. \A y \in Path : y # path[p] => access'[y] = access[y] /\ default'[y] = default[y]
      BY <1>1, <1>6 DEF SetfaclOK, SetfaclFails, RunFails, Applied, Mangled, TypeOK
    <2>4. /\ \A y \in Path \ undeclared : access'[y] = access[y] /\ default'[y] = default[y]
          /\ path'[p] \in undeclared' /\ sphase'[p] = "idle" /\ dir' = dir
      BY <1>6, <2>1, <2>2, <2>3 DEF svars
    <2> QED
      BY <1>1, <1>2, <1>3, <1>4, <1>6, <2>4, QuietMatches
  <1>7. ASSUME NEW ok \in BOOLEAN, Link(p, ok), UNCHANGED <<access, default, path>>,
               fphase' = fphase \/ fphase'[p] = "capture", undeclared' = undeclared
        PROVE  DeclaredInv'
    <2>1. dir' = dir /\ sphase[p] = "idle" /\ sphase'[p] = "linked"
      BY <1>1, <1>7 DEF Link, sfiles, STypeOK
    <2>2. fphase'[p] \in {"first", "second", "done"} => path'[p] \in undeclared'
      BY <1>2, <1>3, <1>7, <2>1 DEF DeclaredInv
    <2> QED
      BY <1>1, <1>2, <1>3, <1>4, <1>7, <2>1, <2>2, QuietMatches
  <1>8. ASSUME NEW now \in ID, Truncate(p, now), UNCHANGED fvars, undeclared' = undeclared
        PROVE  DeclaredInv'
    <2>1. /\ DOMAIN dir' = DOMAIN dir /\ (\A i \in Names : i < now)
          /\ sphase[p] = "linked" /\ sphase'[p] = "truncated" /\ snapID'[p] = now
      BY <1>8, TruncateEffect
    <2>2. UNCHANGED <<access, default, fphase, path>>
      BY <1>8 DEF fvars
    <2>3. fphase'[p] \in {"first", "second", "done"} => path'[p] \in undeclared'
      BY <1>2, <1>3, <1>8, <2>1, <2>2 DEF DeclaredInv
    <2>4. \A i \in About(path[p])' : i < snapID'[p]
      BY <2>1 DEF About, Names
    <2> QED
      BY <1>1, <1>2, <1>3, <1>4, <1>8, <2>1, <2>2, <2>3, <2>4, QuietMatches
  <1>9. ASSUME NEW ok \in BOOLEAN, Capture(p, ok), undeclared' = undeclared
        PROVE  DeclaredInv'
    <2>1. /\ Link(p, ok) /\ UNCHANGED <<access, default, path>>
          /\ fphase'[p] = "capture"
      BY <1>1, <1>9 DEF Capture, TypeOK
    <2> QED
      BY <1>7, <1>9, <2>1
  <1>10. CASE Snap(p)
    <2>1. UNCHANGED fvars /\ UNCHANGED <<access, default, path, fphase>>
      BY <1>10 DEF Snap, fvars
    <2>2. CASE \/ Save(p, Declares(p)) /\ undeclared' = undeclared \ {path[p]}
               \/ SaveFails(p, Declares(p)) /\ undeclared' = undeclared
      BY <1>1, <1>2, <1>3, <2>1, <2>2, WriteMatches
    <2>3. CASE (\E ok \in BOOLEAN : Link(p, ok)) /\ undeclared' = undeclared
      BY <1>7, <2>1, <2>3
    <2>4. CASE (\E now \in ID : Truncate(p, now)) /\ undeclared' = undeclared
      BY <1>8, <2>1, <2>4
    <2> QED
      BY <1>10, <2>2, <2>3, <2>4, Zenon DEF Snap
  <1>11. CASE Exit(p) \/ Crash(p)
    <2>1. /\ UNCHANGED <<dir, access, default>> /\ fphase'[p] = "idle"
          /\ undeclared' = undeclared
      BY <1>11, EndTypes DEF Exit, Crash
    <2> QED
      BY <1>1, <1>2, <1>3, <1>4, <2>1, QuietMatches
  <1> QED
    BY <1>5, <1>6, <1>9, <1>10, <1>11, Zenon DEF Step, Begin

(* main.go:664: "the snapshot is the current declared state a future 'what    *)
(* should be true' query can read": while fs commands do not overlap and IDs  *)
(* increase it is, but for the paths on which a command has failed or died    *)
(* since.                                                                     *)
THEOREM DeclarationsAreActual == Spec => []DeclaredStateIsActual
  <1>1. Init => SuccessInv /\ DeclaredInv
    <2>1. Init => SuccessInv
      BY DEF Init, FInit, SuccessInv, Reached, Busy
    <2>2. Init => DeclaredInv
      <3> SUFFICES ASSUME Init PROVE DeclaredInv
        OBVIOUS
      <3>1. \A x : Declared(x) = "none"
        <4>1. \A x : About(x) = {}
          BY DEF Init, SInit, About
        <4> QED
          BY <4>1 DEF Declared
      <3>2. \A x \in Path : Matches(x)
        BY <3>1 DEF Init, FInit, Matches
      <3>3. \A p \in Proc : fphase[p] = "idle"
        BY DEF Init, FInit
      <3> QED
        BY <3>2, <3>3 DEF DeclaredInv
    <2> QED
      BY <2>1, <2>2
  <1>2. FsInv /\ OrderInv /\ SuccessInv /\ DeclaredInv /\ [Next]_vars
           => SuccessInv' /\ DeclaredInv'
    <2>1. ASSUME SuccessInv, DeclaredInv, UNCHANGED vars
          PROVE  SuccessInv' /\ DeclaredInv'
      <3>1. SuccessInv'
        BY <2>1 DEF vars, fvars, SuccessInv, Reached, Goal, Busy
      <3>2. DeclaredInv'
        <4>1. \A x : Declared(x)' = Declared(x)
          BY <2>1 DEF vars, svars, Declared, About, Max
        <4>2. \A x : Matches(x)' <=> Matches(x)
          BY <2>1, <4>1 DEF vars, fvars, Matches
        <4>3. \A p \in Proc : About(path[p])' = About(path[p])
          BY <2>1 DEF vars, svars, fvars, About
        <4> QED
          BY <2>1, <4>2, <4>3 DEF vars, svars, fvars, DeclaredInv
      <3> QED
        BY <3>1, <3>2
    <2> QED
      BY <2>1, StepSuccess, StepMatches DEF Next
  <1>3. DeclaredInv => DeclaredStateIsActual
    BY DEF DeclaredInv, DeclaredStateIsActual, Matches, Declared, About
  <1> QED
    BY <1>1, <1>2, <1>3, FsNext, OrderNext, PTL DEF Spec
=============================================================================
