---------------------------- MODULE PostureProofs ----------------------------
(***************************************************************************)
(* Proofs about PostureMachine, for every set of processes.                *)
(***************************************************************************)
EXTENDS PostureMachine, TLAPS

(* Until processes overlap or a power loss destroys data there is at most   *)
(* one process; outside persist it has the acknowledged posture, and inside *)
(* persist it can return to it and is on a permitted move away from it.     *)
Serial ==
    /\ \A p, q \in Proc : phase[p] # "down" /\ phase[q] # "down" => p = q
    /\ \A p \in Proc :
          /\ phase[p] = "up" => current[p] = posture
          /\ phase[p] = "truncated" => /\ old[p] = posture
                                       /\ current[p] \in transitions(posture)

PostureInv ==
    /\ PTypeOK
    /\ LastWriterWins
    /\ pmishaps = {} => Serial

-----------------------------------------------------------------------------

(* What the tables give is a posture. *)
LEMMA TableFacts ==
    ASSUME NEW from \in State
    PROVE  /\ transitions(from) \subseteq State
           /\ \A to \in State : Target(from, to) \in State
  BY DEF State, transitions, Target

(* New gives a process a posture whatever the file holds. *)
LEMMA LoadedFacts == \A c : Loaded(c) \in State
  BY DEF Loaded, State

(* An empty or garbled file names no posture, and a posture loads as itself. *)
LEMMA ContentFacts ==
    /\ "empty" \in Broken /\ "garbled" \in Broken
    /\ Broken \subseteq Content /\ State \subseteq Content
    /\ \A s \in State : Loaded(s) = s
  BY DEF Broken, Content, Loaded

(* Nothing runs at first, and a file without a posture stands for NORMAL. *)
LEMMA PostureInit == PInit => PostureInv
  <1> SUFFICES ASSUME PInit PROVE PostureInv
    OBVIOUS
  <1>1. perr \in [Proc -> BOOLEAN]
    BY Zenon DEF PInit
  <1>2. PTypeOK
    BY <1>1 DEF PInit, PTypeOK, Content, State
  <1>3. LastWriterWins
    BY DEF PInit, LastWriterWins, Loaded, State
  <1>4. Serial
    BY DEF PInit, Serial
  <1> QED
    BY <1>2, <1>3, <1>4 DEF PostureInv

(* New loads the acknowledged posture, or there is a mishap. *)
LEMMA NewStep ==
    ASSUME PostureInv, NEW p \in Proc, New(p)
    PROVE  PostureInv'
  <1>1. PTypeOK /\ LastWriterWins /\ (pmishaps = {} => Serial)
    BY DEF PostureInv
  <1>2. UNCHANGED <<pfile, pdisk, old, posture>>
    BY DEF New
  <1>3. perr' \in [Proc -> BOOLEAN]
    BY <1>1, Zenon DEF New, PTypeOK
  <1>4. pmishaps \subseteq pmishaps' /\ pmishaps' \subseteq pmishaps \cup {"overlap"}
    BY DEF New, NotePOverlap
  <1>5. PTypeOK'
    <2>1. /\ phase' \in [Proc -> {"down", "up", "truncated"}]
          /\ current' \in [Proc -> State]
      BY <1>1, LoadedFacts DEF New, PTypeOK
    <2> QED
      BY <1>1, <1>2, <1>3, <1>4, <2>1 DEF PTypeOK
  <1>6. LastWriterWins'
    BY <1>1, <1>2, <1>4 DEF LastWriterWins, Loaded, Broken, State
  <1>7. ASSUME pmishaps' = {} PROVE Serial'
    <2>1. pmishaps = {} /\ \A q \in Proc \ {p} : phase[q] = "down"
      BY <1>7 DEF New, NotePOverlap
    <2>2. Loaded(pfile) = posture
      BY <1>1, <2>1 DEF New, LastWriterWins
    <2>3. /\ phase'[p] = "up" /\ current'[p] = posture
          /\ \A q \in Proc \ {p} : phase'[q] = "down"
      BY <1>1, <2>1, <2>2 DEF New, PTypeOK
    <2> QED
      BY <1>2, <2>3 DEF Serial
  <1> QED
    BY <1>5, <1>6, <1>7 DEF PostureInv

(* New and Transition that return an error at once change nothing. *)
LEMMA RefusalStep ==
    ASSUME PostureInv, NEW p \in Proc, NewFails(p) \/ TransitionFails(p)
    PROVE  PostureInv'
  <1>1. PTypeOK /\ LastWriterWins /\ (pmishaps = {} => Serial)
    BY DEF PostureInv
  <1>2. UNCHANGED <<pfile, pdisk, phase, current, old, posture, pmishaps>>
    BY DEF NewFails, TransitionFails
  <1>3. perr' \in [Proc -> BOOLEAN]
    BY <1>1, Zenon DEF NewFails, TransitionFails, PTypeOK
  <1>4. PTypeOK'
    BY <1>1, <1>2, <1>3 DEF PTypeOK
  <1>5. LastWriterWins'
    BY <1>1, <1>2 DEF LastWriterWins, Loaded, Broken, State
  <1>6. pmishaps' = {} => Serial'
    BY <1>1, <1>2 DEF Serial, transitions
  <1> QED
    BY <1>4, <1>5, <1>6 DEF PostureInv

(* Transition leaves an empty file and remembers what to return to. *)
LEMMA TransitionStep ==
    ASSUME PostureInv, NEW p \in Proc, NEW to, Transition(p, to)
    PROVE  PostureInv'
  <1>1. PTypeOK /\ LastWriterWins /\ (pmishaps = {} => Serial)
    BY DEF PostureInv
  <1>2. /\ UNCHANGED <<perr, posture, pmishaps>>
        /\ pfile' = "empty" /\ pdisk' \in {pdisk, pfile'}
    BY DEF Transition, MayWriteBack
  <1>3. Target(current[p], to) \in transitions(current[p]) /\ phase[p] = "up"
    BY DEF Transition, Permitted
  <1>4. Target(current[p], to) \in State
    BY <1>1, <1>3, TableFacts DEF PTypeOK
  <1>5. PTypeOK'
    <2>1. /\ phase' \in [Proc -> {"down", "up", "truncated"}]
          /\ current' \in [Proc -> State] /\ old' \in [Proc -> State]
      BY <1>1, <1>4 DEF Transition, PTypeOK
    <2> QED
      BY <1>1, <1>2, <2>1, ContentFacts DEF PTypeOK
  <1>6. LastWriterWins'
    BY <1>2 DEF LastWriterWins, Broken
  <1>7. ASSUME pmishaps' = {} PROVE Serial'
    <2>1. Serial
      BY <1>1, <1>2, <1>7
    <2>2. current[p] = posture /\ \A q \in Proc \ {p} : phase[q] = "down"
      BY <1>3, <2>1 DEF Serial
    <2>3. /\ phase'[p] = "truncated" /\ old'[p] = posture
          /\ current'[p] \in transitions(posture)
          /\ \A q \in Proc \ {p} : phase'[q] = "down"
      BY <1>1, <1>3, <2>2 DEF Transition, PTypeOK
    <2>4. transitions(posture') = transitions(posture)
      BY <1>2
    <2> QED
      BY <1>2, <2>3, <2>4 DEF Serial
  <1> QED
    BY <1>5, <1>6, <1>7 DEF PostureInv

(* persist writes what it acknowledges. *)
LEMMA PersistStep ==
    ASSUME PostureInv, NEW p \in Proc, Persist(p)
    PROVE  PostureInv'
  <1>1. PTypeOK /\ LastWriterWins /\ (pmishaps = {} => Serial)
    BY DEF PostureInv
  <1>2. /\ UNCHANGED <<current, pmishaps>> /\ posture' = current[p]
        /\ pfile' \in {current[p], "garbled"} /\ pdisk' \in {pdisk, pfile'}
        /\ phase[p] = "truncated"
    BY DEF Persist, MayWriteBack
  <1>3. current[p] \in State
    BY <1>1 DEF PTypeOK
  <1>4. perr' \in [Proc -> BOOLEAN]
    BY <1>1, Zenon DEF Persist, PTypeOK
  <1>5. PTypeOK'
    <2>1. /\ phase' \in [Proc -> {"down", "up", "truncated"}]
          /\ old' \in [Proc -> State]
      BY <1>1 DEF Persist, PTypeOK, State
    <2> QED
      BY <1>1, <1>2, <1>3, <1>4, <2>1, ContentFacts DEF PTypeOK
  <1>6. LastWriterWins'
    BY <1>2, <1>3, ContentFacts DEF LastWriterWins
  <1>7. ASSUME pmishaps' = {} PROVE Serial'
    <2>1. \A q \in Proc \ {p} : phase[q] = "down"
      BY <1>1, <1>2, <1>7 DEF Serial
    <2>2. phase'[p] = "up" /\ \A q \in Proc \ {p} : phase'[q] = "down"
      BY <1>1, <2>1 DEF Persist, PTypeOK
    <2> QED
      BY <1>2, <2>2 DEF Serial
  <1> QED
    BY <1>5, <1>6, <1>7 DEF PostureInv

(* A persist that returned an error changes only the state of its process. *)
LEMMA RevertTypes ==
    ASSUME PTypeOK, NEW p \in Proc, Revert(p), pfile' \in Content
    PROVE  /\ phase' \in [Proc -> {"down", "up", "truncated"}]
           /\ current' \in [Proc -> State] /\ old' \in [Proc -> State]
           /\ perr' \in [Proc -> BOOLEAN] /\ pdisk' \in Content
           /\ UNCHANGED posture
  <1>1. perr' \in [Proc -> BOOLEAN]
    BY Zenon DEF Revert, PTypeOK
  <1> QED
    BY <1>1 DEF Revert, PTypeOK, State, MayWriteBack

(* A file that could not be closed may hold the posture that was refused. *)
LEMMA CloseFailsStep ==
    ASSUME PostureInv, NEW p \in Proc, CloseFails(p)
    PROVE  PostureInv'
  <1>1. PTypeOK /\ "close" \in pmishaps' /\ pmishaps' = pmishaps \cup {"close"}
    BY DEF PostureInv, CloseFails
  <1>2. pfile' \in Content
    BY <1>1, ContentFacts DEF CloseFails, PTypeOK
  <1>3. PTypeOK'
    BY <1>1, <1>2, RevertTypes DEF CloseFails, PTypeOK
  <1> QED
    BY <1>1, <1>3 DEF PostureInv, LastWriterWins

(* A failed persist returns to the acknowledged posture. *)
LEMMA PersistFailsStep ==
    ASSUME PostureInv, NEW p \in Proc, PersistFails(p)
    PROVE  PostureInv'
  <1>1. PTypeOK /\ LastWriterWins /\ (pmishaps = {} => Serial)
    BY DEF PostureInv
  <1>2. /\ UNCHANGED <<posture, pmishaps>> /\ phase[p] = "truncated"
        /\ pfile' \in {pfile, "garbled"} /\ pdisk' \in {pdisk, pfile'}
    BY DEF PersistFails, Revert, MayWriteBack
  <1>3. pfile' \in Content
    BY <1>1, <1>2, ContentFacts DEF PTypeOK
  <1>4. PTypeOK'
    BY <1>1, <1>3, RevertTypes DEF PersistFails, PTypeOK
  <1>5. LastWriterWins'
    BY <1>1, <1>2, ContentFacts DEF LastWriterWins
  <1>6. ASSUME pmishaps' = {} PROVE Serial'
    <2>1. old[p] = posture /\ \A q \in Proc \ {p} : phase[q] = "down"
      BY <1>1, <1>2, <1>6 DEF Serial
    <2>2. /\ phase'[p] = "up" /\ current'[p] = posture
          /\ \A q \in Proc \ {p} : phase'[q] = "down"
      BY <1>1, <2>1 DEF PersistFails, Revert, PTypeOK
    <2> QED
      BY <1>2, <2>2 DEF Serial
  <1> QED
    BY <1>4, <1>5, <1>6 DEF PostureInv

(* The end of processes leaves the others as they are. *)
LEMMA GoneTypes ==
    ASSUME PTypeOK, NEW P \in SUBSET Proc, PGone(P)
    PROVE  /\ phase' \in [Proc -> {"down", "up", "truncated"}]
           /\ current' \in [Proc -> State] /\ old' \in [Proc -> State]
           /\ perr' \in [Proc -> BOOLEAN]
  <1>1. perr' \in [Proc -> BOOLEAN]
    BY Zenon DEF PGone, PTypeOK
  <1> QED
    BY <1>1 DEF PGone, PTypeOK, State

(* A process that ends, also inside persist, leaves the file and the others alone. *)
LEMMA ExitStep ==
    ASSUME PostureInv, NEW p \in Proc, PGone({p}),
           UNCHANGED <<pfile, pdisk, posture, pmishaps>>
    PROVE  PostureInv'
  <1>1. PTypeOK /\ LastWriterWins /\ (pmishaps = {} => Serial)
    BY DEF PostureInv
  <1>2. PGone({p}) /\ UNCHANGED <<pfile, pdisk, posture, pmishaps>>
    OBVIOUS
  <1>3. PTypeOK'
    BY <1>1, <1>2, GoneTypes DEF PTypeOK
  <1>4. LastWriterWins'
    BY <1>1, <1>2 DEF LastWriterWins, Loaded, Broken, State
  <1>5. ASSUME pmishaps' = {} PROVE Serial'
    <2>1. Serial /\ transitions(posture') = transitions(posture)
      BY <1>1, <1>2, <1>5
    <2>2. /\ phase'[p] = "down"
          /\ \A q \in Proc \ {p} : /\ phase'[q] = phase[q]
                                   /\ current'[q] = current[q]
                                   /\ old'[q] = old[q]
      BY <1>2 DEF PGone
    <2> QED
      BY <1>2, <2>1, <2>2 DEF Serial
  <1> QED
    BY <1>3, <1>4, <1>5 DEF PostureInv

(* A power loss ends every process and is noted if it changes the file. *)
LEMMA PowerStep ==
    ASSUME PostureInv, PPowerLoss
    PROVE  PostureInv'
  <1>1. PTypeOK /\ LastWriterWins
    BY DEF PostureInv
  <1>2. /\ PGone(Proc) /\ posture' = posture
        /\ pfile' \in {pfile, pdisk} /\ pdisk' = pfile'
        /\ pmishaps' = IF pfile' = pfile THEN pmishaps ELSE pmishaps \cup {"power"}
    BY DEF PPowerLoss
  <1>3. PTypeOK'
    BY <1>1, <1>2, GoneTypes DEF PTypeOK
  <1>4. LastWriterWins'
    BY <1>1, <1>2 DEF LastWriterWins, Loaded, Broken, State
  <1>5. Serial'
    <2>1. \A q \in Proc : phase'[q] = "down"
      BY <1>2 DEF PGone
    <2> QED
      BY <2>1 DEF Serial
  <1> QED
    BY <1>3, <1>4, <1>5 DEF PostureInv

(* No step of any process, and no power loss, breaks the invariant. *)
LEMMA PostureNext == PostureInv /\ [PNext]_pvars => PostureInv'
  <1> SUFFICES ASSUME PostureInv, [PNext]_pvars PROVE PostureInv'
    OBVIOUS
  <1>1. CASE PPowerLoss
    BY <1>1, PowerStep
  <1>2. ASSUME NEW p \in Proc, PStep(p) PROVE PostureInv'
    BY <1>2, NewStep, RefusalStep, TransitionStep, PersistStep, PersistFailsStep,
       CloseFailsStep, ExitStep DEF PStep, PExit
  <1>3. CASE UNCHANGED pvars
    BY <1>3 DEF pvars, PostureInv, PTypeOK, LastWriterWins, Loaded, Broken, Content,
                State, Serial, transitions
  <1> QED
    BY <1>1, <1>2, <1>3 DEF PNext

(* machine.go: a file that parses holds the posture of the last Transition    *)
(* that returned nil, for any number of processes in any interleaving.        *)
THEOREM LastWriter == PSpec => []LastWriterWins
  <1>1. PostureInv => LastWriterWins
    BY DEF PostureInv
  <1> QED
    BY <1>1, PostureInit, PostureNext, PTL DEF PSpec

(* machine.go: neither crashes nor failed writes lose the posture that was    *)
(* acknowledged, as long as processes run one at a time.                      *)
THEOREM PostureKept == PSpec => []NoPostureLost
  <1>1. PostureInv => NoPostureLost
    BY DEF PostureInv, NoPostureLost, LastWriterWins, Serial
  <1> QED
    BY <1>1, PostureInit, PostureNext, PTL DEF PSpec

(* machine.go is type-correct: whatever the file holds, a process has one of  *)
(* the six postures.                                                          *)
THEOREM PostureTypes == PSpec => []PTypeOK
  <1>1. PostureInv => PTypeOK
    BY DEF PostureInv
  <1> QED
    BY <1>1, PostureInit, PostureNext, PTL DEF PSpec

(* A permitted move is a step of the Ada port. *)
LEMMA PortMove ==
    ASSUME NEW s \in State, NEW t \in State, t \in transitions(s),
           posture = s, posture' = t
    PROVE  Port!Next
  <1>1. Port!Set(t)
    BY DEF Port!Set, Port!Allowed, transitions, State
  <1> QED
    BY <1>1 DEF Port!Next

(* A change that reaches the file is a permitted move of the one posture. *)
LEMMA PortPersist ==
    ASSUME PostureInv, NEW p \in Proc, Persist(p), pmishaps' = {}
    PROVE  Port!Next
  <1>1. pmishaps = {} /\ posture' = current[p] /\ phase[p] = "truncated"
    BY DEF Persist
  <1>2. current[p] \in transitions(posture) /\ posture \in State
           /\ current[p] \in State
    BY <1>1 DEF PostureInv, Serial, PTypeOK
  <1> QED
    BY <1>1, <1>2, PortMove

(* machine.go and ada/posture agree: while processes run one at a time and no *)
(* power loss destroys data, every change of the acknowledged posture is a    *)
(* step of the protected object of the Ada port.                              *)
THEOREM PortRefinement == PSpec => ImplementsPort
  <1>1. PostureInv /\ [PNext]_pvars
           => [pmishaps' = {} => [Port!Next]_posture]_pvars
    <2> SUFFICES ASSUME PostureInv, [PNext]_pvars, pmishaps' = {}, posture' # posture
                 PROVE  Port!Next
      OBVIOUS
    <2>1. PICK p \in Proc : Persist(p)
      BY DEF PNext, PStep, pvars, PPowerLoss, New, NewFails, TransitionFails,
             Transition, PersistFails, CloseFails, Revert, PExit
    <2> QED
      BY <2>1, PortPersist
  <1> QED
    BY <1>1, PostureInit, PostureNext, PTL DEF PSpec, ImplementsPort

(* The Go table of overrides and the Ada one agree on every capability that   *)
(* the port knows.                                                            *)
LEMMA TablesAgree ==
    ASSUME posture \in State, NEW cap \in Port!Capability
    PROVE  Port!Verdict(cap, CapabilityVerdict(posture, cap))
  BY DEF State, Port!Capability, Port!Verdict, Port!Overrides, CapabilityVerdict

(* Every process that is up asks the posture that was acknowledged. *)
LEMMA InvVerdicts == PostureInv => SameVerdicts
  <1> SUFFICES ASSUME PostureInv, pmishaps = {}, NEW p \in Proc, phase[p] = "up",
                      NEW cap \in Port!Capability
               PROVE  Port!Verdict(cap, CapabilityVerdict(current[p], cap))
    BY DEF SameVerdicts
  <1>1. current[p] = posture /\ posture \in State
    BY DEF PostureInv, Serial, PTypeOK
  <1> QED
    BY <1>1, TablesAgree

(* machine.go and ada/posture give the same verdicts: a process asks its own  *)
(* copy, and while processes run one at a time and no power loss destroys     *)
(* data, gets what the port gives for the acknowledged posture.               *)
THEOREM PortVerdicts == PSpec => []SameVerdicts
  BY InvVerdicts, PostureInit, PostureNext, PTL DEF PSpec
=============================================================================
