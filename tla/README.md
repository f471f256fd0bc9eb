# EmilyOS in TLA+

A model of the stateful core of EmilyOS: the hash-chained audit log, the
posture machine and its file, the verb dispatcher with the commands that use
both, and the policy snapshots with the filesystem ACL commands that record
them. Paths below are relative to the repository. Everything is Go unless it
says Ada.

## The system and its parts

Every `emilyos` command is one short-lived process. There is no daemon and no
lock: processes meet only in three places on disk.

| on disk | written by | format |
|---|---|---|
| `audit.jsonl` | `internal/audit/log.go` | one JSON event per line, each with the SHA-256 of the one before; `O_APPEND`, `fsync` per event |
| `posture.json` | `internal/posture/machine.go` | the current posture; `os.WriteFile` (truncate, write), no sync |
| `snapshots/<ID>.json` | `internal/policy/snapshot.go` | one file per policy change, named by the second; `os.WriteFile` |

`verb.Dispatch` ties the first two together: RBAC check, posture check, pending
event, handler, outcome event. `posture set`, `audit bundle` and `audit export`
have orders of their own. `fs grant` and `fs revoke` go through Dispatch, whose
handler runs `setfacl` by way of a small generated C module, and then write a
snapshot. An Ada port of the posture machine keeps the same tables in one
protected object in memory.

| part | module | state of the model |
|---|---|---|
| audit log | `AuditLog`, abstract `Ledger` | complete |
| posture machine | `PostureMachine` | complete |
| posture machine, Ada port | `PosturePort` | complete: transitions and verdicts |
| transition, override, role and verb tables | `Policy` | complete |
| verb dispatcher | `Kernel` | complete |
| `verb dispatch`, `posture set`, `audit bundle`, `audit export`, `audit verify` | `Kernel` | without the content of the snapshot inside a bundle |
| policy snapshots | `Snapshots` | without power losses |
| `fs grant`, `fs revoke`, `snapshot capture` | `FsCommand` from the handler on; `System` the whole command | complete |
| `snapshot rollback` | `System` | complete |
| commands that only print; usage | - | no state |
| PARENA runtime header, packaging, CI, Ada self-test | - | generated, third-party, or build and test code |

How the modules build on each other (`->` is EXTENDS, `=>` is INSTANCE):

    System -> Kernel -> AuditLog       -> Processes     AuditLog       => Ledger
      |          |   -> PostureMachine -> Policy        PostureMachine => PosturePort
      |                                -> Processes
      +=> FsCommand -> Snapshots

## The modules

**AuditLog.** The variables `log` and `torn` are the file: the events that
decode, and whether there is also a fragment of one. `synced` and `tornSynced`
say what of it is on stable storage. `seq`, `lastHash` are the fields of a
process's `Logger`; `status` says whether it has one and whether it is between
the write and the sync of `Log`; `hash` is the local variable that `Log` carries
from the one to the other. `Open`, `OpenFails`, `Write`, `WriteFails`, `Sync`,
`SyncFails` and `Close` are the code between two system calls; `Crash` and
`PowerLoss` are the environment. A failed write leaves nothing, a fragment, or
the line without its newline, which still decodes as an event. `VerifyChain` is
`ReadFile` and `VerifyEvents`: a log with a fragment is not accepted. `acked`,
`failed` and `mishaps` are history: the events whose `Log` returned nil, whether the
last call of a process returned an error, and whether two Loggers ever overlapped
or one was used after an error.

SHA-256 is taken to be injective: a digest is the list of the (seq, body) pairs
it covers. A body stands for the other hashed fields; `ts` and `meta` are not
hashed and not modelled. The bound is `MaxEvents`.

**Ledger.** What the log promises without hashes and processes: a list that
grows at its end, of which a first part is kept for ever.

**PostureMachine.** `pfile` is the content of the file: a posture, `absent`,
`foreign` (parses, names no posture), `empty` or `garbled` (do not parse).
`pdisk` is what stable storage holds; the kernel may write a content back at
any time or never. `current` and `old` are `Machine.current` and the local of
`Transition`. `Transition` is the code up to the truncation, `Persist` the
write. When two processes write at once the second one may leave a tail of the
first one's content. `PersistFails` is a write that fails or is cut short,
`CloseFails` a whole one whose `Close` fails: `Transition` then reverts its copy
although the file has the new posture. `posture` is history: the target of the last `Transition`
that returned nil.

**PosturePort.** The Ada protected object: one variable, the table of
transitions and the table of verdicts.

**Policy.** The tables, as operators.

**Processes.** The constant `Proc` that the two components share.

**Kernel.** `AuditLog` and `PostureMachine` over one set of processes, with what
the commands add: `cmd` (what the process was asked to do), `pc` (where it is),
`bundle` (the evidence it has gathered). An action of `Kernel` is a step of one
component with the code around it, so that the order of calls and the errors
that are looked at or ignored are those of `dispatch.go` and `main.go`.
`LoadPosture` includes the decision of Dispatch: it depends on the loaded
posture and the command only. `audit verify` is an evidence command that reads
the log twice and copies nothing; it ignores the error of its second read and
prints 0. `runAuditBundle` ignores the errors of both reads: the first leaves it
without events, the second with a part of the bytes. `blind` notes such an error,
and `torn` that the copied bytes contain a fragment. `faults` counts the failures of the operating
system against `MaxFaults`; what follows from the state of a file (a log that
does not decode) is not a failure and not counted. `ran`, `changed` and
`overlapped` are history.

**System.** The commands over the snapshot store, from `audit.Open` to the end
of the process. `Kernel` takes them through Dispatch; `System` puts the steps of
`FsCommand` into their places: `Handler` runs setfacl where Dispatch executes the
handler, `RecordSnapshot` writes the snapshot after Dispatch returned nil,
`LoadTarget` verifies the target of a rollback before the log is opened, and
`StoreFails` is a directory that cannot be made. `verified` is what a rollback
has verified. The store may hold captures of earlier invocations (`StartIDs`).

**Snapshots.** The directory: `dir` maps the IDs of the files that parse to
their content, `empty` and `partial` are the torn ones. `Link` is `Latest`, whose
errors the callers ignore: that of a last file which does not parse, and that of a
store which cannot be read. `Truncate` and `Save` are `NewSnapshotID` and `Write`;
`SaveFails` includes a whole file whose `Close` failed. The
time is an input of `Truncate`: two commands may run in one second and a clock
may be set back; `smishaps` notes both, overlapping writers, and a store that could
not be read.

**FsCommand.** `access` and `default` say how much of the tree below a path has
the two kinds of entries. `setfacl` is external: it does all its work or fails
and did part of it. `SetfaclFails` has the second run with which `TriggerGrant`
and `TriggerRevoke` recover the error of the first. `Capture` is `snapshot
capture`. The denylist is looked up for the path of the command, as the code
does. `undeclared` is history: the paths on which a command has begun its change
and none has recorded a snapshot since. Two paths do not contain one another.

**MCKernel**, **MCSystem**, **MCFsCommand.** The sets of commands and the
symmetry for TLC.

**AuditLogProofs**, **PostureProofs**, **KernelProofs**, **HistoryProofs**,
**SystemProofs**, **StoreProofs**, **CommandProofs**, **FsProofs.** The theorems.
The ones about `Kernel` and `System` build on each other:

    CommandProofs -> StoreProofs -> SystemProofs -> KernelProofs -> AuditLogProofs
                  -> HistoryProofs ---------------> KernelProofs -> PostureProofs

## What is checked

Passing runs (`tlc -config <cfg> <module>`):

| run | instance | shows |
|---|---|---|
| `audit` | 2 processes, 2 bodies, 3 events; 179,250 states | the log is always a tree rooted at genesis (`LogIsTree`); if Loggers do not overlap and are not used after an error its events verify, and `audit verify` rejects it only for a fragment (`SerialChainIntact`); acknowledged events stay (`AckedDurable`); it is an append-only ledger (`ImplementsLedger`) |
| `posture` | 2 processes; 948,796 states | crashes and failed writes never change the posture silently (`NoPostureLost`), a file that parses is the last acknowledged one (`LastWriterWins`), serial use moves as the Ada port (`ImplementsPort`) and answers as it does (`SameVerdicts`); a failed `Close` and a power loss are the exceptions |
| `kernel` | 2 invocations out of 7 commands, from `GAME`, 4 events, 2 failures; 843,137 states | no handler runs before its event is durable (`AuditedBeforeRun`), the log does not lie (`RecordsAreTrue`), its last posture change is the posture (`HistoryTellsPosture`), no command reuses a Logger after an error and so serial use keeps the chain (`ChainIntact`), nothing is executed, changed or logged while the log holds a fragment (`FragmentStops`), a manifest is right about the events it counts (`EvidenceConsistent`), the posture is obeyed (`SerialRunsObeyPosture`) |
| `system` | 2 invocations out of 6 commands over the store, 4 events, 1 failure, 2 seconds; 568,125 states | entries change only after a durable event on their path (`AclChangesAudited`), the store declares nothing that the log calls failed or denied (`DeclarationsBacked`), the target of a logged rollback is still the verified one (`RollbackStands`), a logged success tells the entries whatever was left half done before (`LogTellsEntries`) |
| `system_live` | 2 invocations out of 9 commands of every kind, most of them refused, 1 failure; 167,121 states | every invocation ends (`InvocationsEnd`); one whose own `Log` calls returned no error has its durable denial or outcome, whatever else fails or overlaps (`OutcomesRecorded`); the log does not lie about these commands either (`RecordsAreTrue`) |
| `fs` | 2 processes, 3 commands, 2 paths, 3 seconds; 2,766,972 states | links lead to older snapshots that are whole, without overlap to the one before (`SnapshotChain`), and whole snapshots stay (`OrderedSnapshotsImmutable`), while IDs increase; a reported success is complete (`SuccessIsComplete`); the last snapshot about a path says what holds, except for the path of a command that failed or died since (`DeclaredStateIsActual`) |

Several properties have a proviso ("as long as invocations do not overlap").
The runs do not restrict the model to it: the interleavings are all explored,
a history variable records when the proviso is lost, and the unconditional
properties (`LogIsTree`, `AckedDurable`, `ImplementsLedger`, `AuditedBeforeRun`,
`AclChangesAudited`, `DeclarationsBacked`; and but for a failed `Close` of the
posture file or an error of the command's own, `LastWriterWins`, `RecordsAreTrue`,
`OutcomesRecorded` and the first part of `EvidenceConsistent`) are checked throughout. What goes wrong
without the proviso is in the violation runs.

Violation runs. Each one checks a sentence of the repository that the code does
not live up to:

| run | sentence | what happens |
|---|---|---|
| `audit_fork` | `docs/AUDIT.md:46` "Monotonically increasing sequence number" | two processes with the log open at once write the same `seq`; `audit verify` reports tampering |
| `incident_lost` | `docs/POSTURE.md:93` "it comes back in `INCIDENT`" | `posture.json` is not synced: a power loss brings the old content back |
| `bundle_unaudited` | `internal/verb/dispatch.go:117` "no audit = no action" | `runAuditBundle` stops on `ErrDenied` only, not on an audit failure |
| `set_then_audit` | `docs/AUDIT.md:142` "Never execute then audit." | `posture set` changes the file first, and ignores the error of the event |
| `exited_runs` | `internal/posture/machine.go:73` "no capabilities allowed in exited state (handled separately)" | nothing handles it: Dispatch lets everything pass in `EXITED` |
| `snapshot_overwritten` | `internal/policy/snapshot.go:3` "immutable" | a second snapshot in the same second overwrites the first |

### Bounds

Two processes are enough for every hazard found: each is a pair (a stale copy
and a change, two writers, a writer and a crash, a verified snapshot and a
command that writes the store). Three events let a fork be followed by an event
on either branch; the four of `kernel` and the `system` runs are two commands
with two events each, the most two invocations write, so that this bound cuts
nothing off. Two failures let a failed write meet a crash. The `system` run has
one, for its size; two give 3,097,650 states and no error. Three
snapshots are a chain with a middle, and three seconds let their IDs increase,
repeat or decrease. `system` has the snapshot an earlier capture may have left
and two seconds, so that a new one follows it or takes its ID. `kernel` starts in `GAME`, the one
posture with a toggle, from which `NORMAL` and `SIEGE` are one command away. The
bundle of `system_live` is a refused one, for the size of the run: one that is not
takes the steps of a verb and of an export, and closes the log between them. Symmetry over
processes is used in `kernel`, `system` and `fs`, where no property is a
liveness property and all processes are alike.

Deadlock is checked in `audit` and `posture`. It is not in the others, where the
system does stop: invocations end, and commands are bounded.

### Fairness

`SysFairness` asks for weak fairness of each process's own steps: the operating
system runs a process that can run. Nothing is assumed about failures, and
crashes are not fair. The code has no lock, no wait and no retry loop across
processes, so this is all that `InvocationsEnd` needs.

## What is proved

TLAPS checks the following for any set of processes and bodies and any bound.

`AuditLogProofs`. `TypeCorrect`, `TreeForEver` and `Durability` come from one
inductive invariant, `TreeInv`: type correctness, `LogIsTree`, `AckedDurable`,
and `LoggersInTree`, which neither of them implies: the `lastHash` of every
open Logger is genesis or the hash of an event in the file, its `seq` is the
distance from genesis, and the event of a `Log` in progress is in the file. It
is what makes the next event a node of the tree. It survives a power loss because that kills
every Logger. `ChainUnderSerialUse` adds `SerialInv`: without mishaps the list
is a chain whose `seq` counts from zero, and a Logger that has not failed
stands at its tip. The proofs have one lemma per action. `Refinement` shows each
step to be an `Add`, a `Keep`, a `Lose` or a stutter of `Ledger`; the mapping
takes an event to its body.

`PostureProofs`. `PostureInv` is type correctness, `LastWriterWins`, and, without
mishaps, `Serial`: at most one process is up, it has the acknowledged posture
outside `persist`, and inside it `old` is the acknowledged posture and `current`
a permitted successor of it. The last part is what `Revert` needs to restore
the posture and what `Persist` needs to be a step of the Ada port. `PostureTypes`,
`LastWriter`, `PostureKept`, `PortRefinement` and, by comparing the two tables
cell by cell, `PortVerdicts` follow.

`KernelProofs` uses both. `KernelInv` is `TreeInv`, `PostureInv`, the types, and
for each process `Control` and `Recorded`: what its place says about its Logger
and its machine, and which of its events are in the file and on stable storage
there. It holds under every interleaving, and gives `KernelTypeCorrect`,
`NoAuditNoAction` and `TheLogDoesNotLie`. `AloneInv` holds until invocations
overlap: one process is alive, and the log is a chain at whose tip its Logger
stands; a bundle being gathered agrees with the file. From it come
`SerialCommandsKeepChain` and `HandlersObeyPosture`. `Evidence` holds with overlap
too: between the two reads of a command the log has at least the events counted, and
its `chain_ok` is about just these (`Faithful`). It is kept because the others only
append, and a power loss, which may shorten the log, ends every command. With
`AloneInv` it gives `EvidenceHolds`. `OutcomesAreRecorded` adds what has been logged
at each place by a command whose calls of `Log` returned no error.

`HistoryProofs` is about the order of posture changes and their events. In
`HistoryInv`, `Story` says that a process between `Transition` and its event is
on its way to its target and that, without overlap, nobody has changed the
posture meanwhile; `Once` that a change has one event, after which its command
changes nothing; `LastShows` that, once every change has its event, the last one
names the posture. A power loss may take unsynced events away; then `Told` fails
for the change whose event is gone, and the claim is void
(`HistoryIsTrue`). `FragmentStopsCommands` rests on `Blocked`: while there is a
fragment, and without overlap, every process is at a place from which it no longer
logs or executes (`Calm`), the one whose write failed included; whoever starts anew
fails in `Open`. The other theorems hand the promises of the components up
to the commands: every step of a command is a step of `Ledger` or a stutter
(`CommandsKeepLedger`), a step of the Ada port or a stutter
(`CommandsImplementPort`), and the guarantees about acknowledged events and
postures hold as the commands use them (`CommandsKeepEvents`,
`CommandsKeepPosture`).

`SystemProofs`. `SystemInv` extends `KernelInv` to the steps of `System`, with
`FsControl` (where a command is with respect to setfacl and its snapshot) and
`EntriesMade` (entries that changed were changed by a command that ran):
`NoAuditNoEntry`, `SystemLogDoesNotLie`, `SystemNoAuditNoAction`,
`SystemDurability` and `SystemKeepsPosture`. `SystemSuccess` repeats the argument
of `FsProofs` for the handler in its place in the command.

`StoreProofs` goes on from there. `DeclarationInv` says that an error or
a denial is logged only by a process whose place can no longer lead to a
snapshot, and that a declaring snapshot was written by a process past all its
events: `DeclarationsAreBacked`. `RollbacksStand` needs `StoreInv`: while IDs
increase, a file being written is empty and belongs to one process, so that
nobody writes over a verified snapshot. It does not need that writers do not
overlap, and neither does `SystemSnapshotsStay`, which is
`OrderedSnapshotsImmutable` for the store of `System`. `StoreTypes` is what the types
of the store need to be inductive (a file being written has an ID of the clock):
`SystemTypeCorrect`.

`CommandProofs`. A step of `System` is a step of `Kernel`, or it is `Quiet`: it
leaves the log and the posture alone. Quiet steps keep `AloneInv` and
`HistoryInv`, so that what is proved of the commands of `Kernel` holds with all
commands: `SystemKeepsChain`, `SystemEvidence`, `SystemHistoryIsTrue`,
`SystemObeysPosture`, `SystemRecordsOutcomes`, `SystemKeepsLedger`,
`SystemImplementsPort`. `TheLogTellsEntries` needs `EntriesInv`: without overlap
nobody logs after a process that is still alive (`Latest`), a process with a
logged success is past its handler (`Placed`), and a handler at its second call
or at its outcome has made the entries (`Made`). Then whoever changes the entries
of a path has a pending event in the log. It lies behind the success, which is no
longer the last word on the path, or before it, which `Latest` excludes.

`FsProofs`. `FsInv` is the types and the places. `SuccessInv`: without overlap
the setfacl calls that were made still hold (`SuccessMeansBoth`). `OrderInv`: while
IDs increase, a file being written is empty and one process's own, and predecessors
are older and whole, whoever else writes (`WholeSnapshotsStay`). `ChainInv` adds,
without overlap, that the only writer has linked to the latest file, or could not
read it, and that its own file is then the last one (`SnapshotsFormChain`).
`DeclaredInv`: a path that is not `undeclared` has the entries its last snapshot
declares, the path of a busy command is `undeclared` until its snapshot is saved, and
the ID of that snapshot is later than all about its path (`DeclarationsAreActual`). That a non-empty set of IDs has a largest element is
proved from the well-foundedness of the natural numbers.

The assumptions are the named `ASSUME`s on the constants: the bounds are natural
numbers, the events of the commands are among the bodies (`KernelAssumption`),
`fs` commands have a verb and a path (`SystemAssumption`), and what a snapshot
declares is a pair of a verb and a path (`WhatAssumption`). Built into the models
are that SHA-256 is injective, that `O_APPEND` writes are not interleaved
inside a line, and that a successful `fsync` makes durable everything the file
holds. In a file with a fragment, `AckedDurable` is about the event's bytes:
`ReadFile` stops at the fragment.

Only model-checked: `InvocationsEnd`, because liveness is out of the prover's
reach. The violation runs are counterexamples and need no proof. tlapm does not
carry theorems through a named instance, so that what `FsProofs` shows about
`FsCommand` is proved again for the instance in `System` where it is used, and the
chain of snapshots (`SnapshotChain`, `DeclaredStateIsActual`) is proved for
`FsCommand` only.

## What is not modelled

- `ts` and `meta` of an event, which no hash covers.
- The content of the archive: the snapshot that a bundle includes, and what a
  failed close leaves of it.
- Power losses of the snapshot directory; `System` therefore has crashes of
  processes and no power loss. The posture and the log have both.
- The hash of a snapshot: a file that parses was written whole by `Write`, and
  nothing in the code edits one, so that a rollback computes the hash stored in it.
- What `setfacl` does inside a tree; the denylist's patterns. The tree below a path
  is one unit, and the paths of different commands are taken to be disjoint. `setfacl
  -R` on a directory also changes what lies below it, so that `SuccessIsComplete`,
  `LogTellsEntries` and `DeclaredStateIsActual` say nothing about commands on two
  paths of which one contains the other.
- A handler other than setfacl is a step that succeeds or returns an error.
- `posture get`, `audit tail`, `audit history`, `snapshot list`, `snapshot show`,
  `about` and the usage text: they read a file and print it. `audit tail` with a
  negative count panics, without consequences for any file.
- The PARENA support code, packaging and CI have no state that outlives them.
- Where code and documentation differ in a single branch or table cell, the
  model has what the code does and there is no run: a `posture set` without the
  admin role is denied without an event (`docs/NORTHSTAR.md:129`), `ForceOn` never
  lets a role do what RBAC denies (`docs/POSTURE.md:70`), `INCIDENT` lets
  `GRANT_FS`, `REVOKE_FS` and `POLICY_ROLLBACK` pass (`docs/POSTURE.md:106`), and
  `GAME` in `GAME` is recorded as a change to `GAME`.
