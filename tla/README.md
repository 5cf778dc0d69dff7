# A verification of the agent coordination substrate

The repository is a file-backed protocol by which one orchestrator and several
agent roles coordinate without a server: events are files nobody may overwrite,
pointers are files replaced atomically, exclusion is a `flock`, a `mkdir` or an
`O_EXCL`, and a listener process per role turns a moved pointer into a line on
an agent's pipe.  What makes it correct is the order of these file operations
under concurrency and failure, which is what these TLA+ modules model.  The
reference is `src/coordination_substrate/`; every definition names, in
`PROJECT.json` under `map`, the lines it stands for.

## Inventory

| Part | State | Operations | Hard behaviour | What makes it correct |
|---|---|---|---|---|
| Publisher (`publisher.py`) | event files, pointer files, flocks | `publish()` | publishers on several routes, a failure at any step, retries, nested locks | event before pointer, one rising sequence per writer, one identity per event, locks given back |
| Layer contract, failure cap (`publisher.py`) | derived from the ledger at each publication | checks inside `publish()` | the ledger changes between reading and linking | the ledger never becomes one that refuses everything; a third authority answers the failures there are |
| Lease (`lease.py`) | lease directory, `lease.yaml`, owner's belief | `claim`, `refresh`, `release`, `reap`, `read_lease` | no lock around read, decide, write; expiry; listener restarts; kills | one holder; nobody loses it inside its term; a free slot can be claimed |
| Consumption (`consumption.py`) | receipt files per grant, flock | `consume()` | several consumers, failed writes, kills, power loss | a grant of n runs authorizes n at most; no unit is lost to a gap |
| Listener (`listener.py`) | the Listener object, the state file, the agent's pipes | `serve()`, three dispatch rails, `accept_output` | agent silent, wrong or dead; kill between wake and record; restart; second listener | one wake at a time; no false acknowledgement; capped continuations; no rail starved |
| Event references (`publisher.py`) | the digests an event binds | binding ahead of the locks, verifying under them, opening indexes | targets change between two reads; nothing locks them | an event is linked with its references verified to the last index |
| Integrity (`integrity.py`) | none, a scan in progress | `verify()` | publishers and editors go on between any two reads | no alarm without a cause, no damage without an alarm |
| Topology (`topology.py`) | configuration | `parse`, `validate`, derived maps | what `validate()` leaves open | routes, writers and locks agree |
| Orient (`orient.py`) | none | `decide()` | rows in any order, times, missing fields | nothing continues that was not earned |
| Metrics reference (`metrics_reference.py`) | none | intent, bindings, duplicates, `fail_closed` | it classifies otherwise than its successor | it fails closed where `integrity.py` does |

How they interact: the listener writes a state file that the publisher reads to
admit an agent (`_validate_agent_sender`); the publisher's pointers are what
the listener's rails read; the lease records a listener's pid and start time,
and `reap` decides by them; a grant consumed is an event published; `verify()`
reads what publishers link, while they do.  Everything goes through the file
system; no two parts share memory.

## Modules

| Module | Models |
|---|---|
| `EventLog` | the abstract log: append an event, advance a pointer |
| `Publisher` | `publish()` with its locks, checks and failure points |
| `Lease` | the lease at the grain of its file system calls |
| `Tenure` | the abstract lease: granted when vacant, prolonged by its holder, over when the holder was told so |
| `Consumption` | `consume()` from its lock on |
| `Budget` | the abstract grant: a counter, and runs that each stand on a unit of it |
| `Delivery` | the abstract handshake: one wake at a time, taken in, acknowledged |
| `Listener` | one role's `serve()` loop, its state file and its agent |
| `References` | the references of `publish()`: binding, verifying, indexes |
| `Integrity` | `verify()`, read by read |
| `Ledger` | composes the two over one disk that others change |
| `Topology` | what `validate()` accepts and the maps derived from it, with theorems |
| `Orient` | `decide()` as an operator, with theorems |
| `Metrics` | the integrity half of the metrics calculator, with theorems |
| `MCAlgorithms` | the last three on bounded inputs, as assumptions TLC evaluates |
| other `MC*` | constants and symmetry for TLC |
| `PublisherProofs`, `LeaseProofs`, `ConsumptionProofs`, `ListenerProofs`, `LedgerProofs` | theorems |

A definition named after another with a suffix (`LockOf_OwnPointer` after
`LockOf`) is a bug variant: no specification uses it, and putting it in the
place of the original makes a property of the runs fail.  `PROJECT.json` lists
one for every property.

### Publisher

One action per stretch of `publish()` that no other process can see inside:
`Prepare` (the caller's spec, before any lock), `TakeContractLock`,
`TakePointerLock`, `ValidateSender`, `ValidateInputs`, `InstallEvent` (the
hard link), `ReplacePointer` (`os.replace` and return), `Refuse`, `Fail` (a
kill or an I/O error at any point).  `events` is the union of the event
directories, `pointer` what each pointer file is bound to.  The digests are the
events themselves.  An event is a record of what the checks tell apart: its
route and sequence, its kind (an activation, an authority or neither), what its
top level says of the action (a typed failure or success, the descriptor without
a typed outcome, or nothing), whether it has a layer, whether its file name
repeats the writer (the history check's glob needs it), and the second in the
file name.  Whatever its kind, an installed event that names the action and has
no typed outcome makes the history `Ambiguous`, and authorities are refused from
then on (`publisher.py:519-536`).  All terminals and grants concern one action
identity, the failure cap being computed per identity.

What an agent's listener state admits is `lineage`, which the environment
changes at will.  The state is read once, under the lock, and a listener may end
or change its child while the event is being installed, so that an admission may
be stale at the link.  Nothing in the code prevents that;
`AdmissionsDoNotOverlap` says that the next child's publication still waits for
the one under way.

Two things that `validate()` leaves open are constants.  `Writer` gives each
agent route the directory and prefix its role writes under; two roles may have
one (`topology.py:372`), and then share a history but neither a pointer nor a
lock.  `WriterOf` is about histories, `SequenceOf` about pointers and locks, and
`WritersExclude` says that no two roles share a writer or that the contract lock
spans them.  `ContractFile` is the contract's lock file, which may be that of a
route (`topology.py:382`); a `flock` is on a file, so `PointerLockFree` and
`ContractLockFree` then look at both holders.

The temporary files of `_write_fsynced` are left out: no scan reads them.  A
directory sync that fails after the pointer's replace is `ReplacePointer` with
an error returned to the caller, which changes nothing on disk.

### EventLog

The reader's view, without locks, processes and failures: a history that only
grows, under sequences its writer has not moved past, and pointers that only
move forward onto installed events.  `Publisher` implements it with the same
`events` and `pointer` (`LogSpec`), and the theorem `ImplementsLog` proves so.

### Lease

One action per system call another process can observe: `mkdir`, the temporary
file, the replace, the unlink, the `rmdir`, with the decision each operation
takes on what it read before.  `belief[o]` is until when owner `o` was last
told it holds the lease, by a claim or a refresh that returned; it is what
exclusion is about, since an owner acts on what it was told.  An owner tuple runs
its operations one after the other.  `ReapAlone` says that one `reap()` runs at
a time, and none next to an operation of the owner whose lease it finds;
operations of every other owner may be in flight.  Nothing in the code enforces
it, and one run shows what happens without it.

### Tenure

Who holds the lease, until when, what each owner was told and the clock.  A
tenure begins only where there is none, only its holder prolongs it and never
past one term from now, and it ends only when its holder was told so or the time
it was told of is over.  In `Lease` the holder is the owner in the record, so
that `TenureSpec` says of the file system calls that the record is never passed
straight from one owner to the next, whatever was read before and written late.

### Consumption

Everything ahead of the slot's lock is one step, since it depends on nothing
that changes.  `authorized[g]` counts the calls that returned, each of which
entitles the caller to one run.  `durable` are the receipts a directory sync
has covered; a `PowerLoss` keeps those and any subset of the others.  Deleting a
failed receipt is taken as synced, which only matters with a power loss: it can
make a unit look spent, never unspent.

`slot` is the entry of the slot directory itself.  The code syncs the directory
after a receipt (`consumption.py:272`), never the parent that names it, so until
`Writeback`, the file system's own, a power loss may take the slot with all
its receipts.  `taken` counts the durable receipts that went this way; the
bounds hold up to it.

### Budget

A counter per grant from which units are taken one by one while one is left, and
runs that are authorized only while the units spent, and those the host lost
after they were durable, cover them.  In `Consumption` a receipt file is a unit
(`BudgetSpec`): calls that count, create, write, sync and fail next to each other
spend as if each took effect in one step.

### Listener

One action per rail of a round and per write of the state file: `SendPointer`,
`SendContinuation`, `SendHeartbeat`, `SendMonitorError` send a wake, `Save`
records it, so that `Kill` and `SaveFails` can fall between the two.
`AcceptEnd`, `AcceptReceipt`, `IgnoreLine` and `NoOutput` are the last part of a
round, with its deadline.  `WriteTerminal` is `main()` ending a listener, also
one that was refused because another serves.  `Start`, `Stop`, `Kill` and `Fall`
are the process; `Ingest`, `Reject`, `EndTurn`, `AgentExits` and
`PublishProgress` the agent; `OrchestratorPublishes`, `InboundBreaks` and
`LedgerChanges` what the rails read.  Ages are counted in ticks up to the limit
at which the code compares them.  Whether a recorded wake concerns the role's
current progress event is kept by forgetting it when the role publishes
(`Unwoken`).

`former` is a child whose listener was killed and which, having been sent a
SIGTERM by the kernel, is not gone yet.  It may still publish, and holds its
session; the next listener may start, but the check at the head of each round
(`SessionClear`) ends that listener before it sends a wake.  `Chatter` is a line
of the agent that is JSON but not an object; `accept_output` raises on it
(`AcceptScalar`, `listener.py:682`), and the listener ends with its wake pending.

Two auxiliary variables count the wakes of the continuation rail for the role's
current progress event: `continued` those that were sent, `forgotten` those of
which no record is left.  A record is lost when a kill or a failed save falls
between the wake and the state file (`MaxLost`), and it is erased when `main()`
replaces the state file by a terminal state, which carries no wake (`MaxErased`).
It does so on every orderly and every refused exit (`listener.py:901-915`).
`ContinuationsAccounted` says that wakes exceed the cap of three by at most
those forgotten; `ContinuationsCapped`, the cap without that allowance, is what
the repository says and the code does not keep, see `listener_restarts`.

### Delivery

What all this comes to: a wake is sent when none is outstanding, the agent takes
it in or loses it, and what is acknowledged is what was taken in last.
`Listener` implements it with a refinement mapping that forgets the rails, the
file and the deadlines (`DeliverySpec`), checked by a run and proved.

### References, Integrity, Ledger

In `References` a digest is the content it is the digest of, and a file is what
is at its path: a text, a link or nothing; an event file is intact, edited or
garbage.  `Bind` reads a target before any lock is taken, `CheckReference`
under the lock, one target per step, and `OpenIndex` reads an index a second
time, after it was hashed, and takes what it lists for references to verify
in their turn.  An index may be any file, an event among them.  `Edit` and
`Damage` change files and events in between.  `LockOf` is the file a publication
locks, which is the pointer's or the orchestrator's one
(`publisher.py:1235-1239`): two events of one writer may have two.  `DirOf` is
the directory whose history the sequence check looks through.

`Integrity` is `verify()` with one step per read: `List` a directory, once the
events of the one before are loaded, `Load` per event, `CheckBinding` per
reference, the duplicates and the verdict at the end.  It is instantiated by
`Ledger` over the disk that `References` publishes to.  Three
history variables say what happened: `stirred` (in a publication), references
whose target changed since they were verified; `tampered`, events that were
damaged or had a verified reference broken; `broken`, what was broken during
the whole scan.  `AlarmIsJustified` and `DamageIsSeen` then say that the audit
never takes a publication in progress for damage and never misses damage that
was there from first read to last.  Of duplicates it says so where their
publications share a lock and a directory (`Together`); where they do not, the
code can install one identity twice, and the audit reports it.

### Topology, Orient, Metrics

Pure functions, as operators over values of any size; there is no state, and
the properties are theorems.  A topology's paths and names are only compared,
as in the code; a registry's row holds what can be missing as a set of at most
one value; `Demands` collects what each row asks for and the decision is the
worst of it.  `InTurn` is the loops as the code runs them, by `_worse`, and the
theorem `LoopsDecide` says that they come to the same, whatever the order of the
rows.  `Metrics` puts the calculator's `Bucket` of a reference next to `Peer`,
what `integrity.py` says of the same mapping.  The two collect different ones
(`Collected`, `Declared`): the calculator takes a digest under either of two keys
and infers an intent, integrity asks for three keys to be there.  A key of a
reference can therefore be missing, null or of another type, and a path can be a
link.

`MCAlgorithms` evaluates, ahead of the run `ledger`, what the theorems leave to
examples, among them that their hypotheses can be met.

## Runs

| Run | Instance | Shows |
|---|---|---|
| `publisher_routes` | 2 processes, 2 orchestrator routes, 1 agent route, sequences 1-2, two seconds | `TypeOK`, `PointerBound`, `UniqueIdentity`, `AdmissionsDoNotOverlap`, `SequenceRises`, `LogSpec` |
| `publisher_contract` | 2 processes, 1 orchestrator route, 2 agent routes that share a prefix, sequences 1-2, an activation, authorities, failures with and without layer, fairness | `EpochStaysReadable`, `UniqueIdentity`, `HoldersNeverWait`, `LayerFollowsActivation`, `AuthorityIsCapped`, `LocksComeBack` |
| `publisher_unnamed` | 1 process, file names without the writer | violates `OrphanedSequenceStaysTaken` |
| `publisher_inline` | 1 process, authorities at the top level of the event | violates `SecondAuthorityNeedsNothing` |
| `lease_held` | 3 owners, 2 reapers that keep apart, a term of 2 ticks in 6, 1 restart each, 2 kills | `TypeOK`, `OneHolder`, `BeliefIsRecorded`, `ReapIsJustified`, `TenureSpec` |
| `lease_reap` | 2 owners, a reaper at any time | violates `OneHolder` |
| `lease_wedge` | 1 owner, 1 kill, a reaper at any time | violates `FreeSlotClaimable` |
| `consumption` | 3 consumers, grants of 3 and of 1, 2 power losses that may take a slot | `NeverOverspent`, `RunsAreAccounted`, `LeftIsSpendable`, `BudgetSpec` |
| `listener` | 1 role, 1 inbound event, 1 error, 1 unread line, limits of 1 tick, a former child, 1 record lost and 1 erased | `TypeOK`, `OneOutstanding`, `AcknowledgedWasIngested`, `ContinuationsAccounted`, `SessionIsSole`, `DeliverySpec`; `InboundArrives`, `HeartbeatComes`, `PublishingComesBack` |
| `listener_restarts` | the same, no fairness, no record lost, up to 3 erased | violates `ContinuationsCapped` |
| `listener_refused` | as `listener`, no fairness | violates `LiveStateStands` |
| `ledger` | 2 publishers, 3 events of one identity (two under one lock and in one directory, the third apart in both), 2 directories, 2 files, 2 texts, one of them an index, 2 disturbances, 1 audit at a time | `TypeOK`, `AlarmIsJustified`, `DamageIsSeen`, `IndexIsVerified`; the assumptions of `MCAlgorithms` |

Why the bounds are enough.  The publisher's checks compare two sequences and
count to two failures; two processes, two routes of one writer and one of
another give every pair of contenders for a lock, and the theorems cover the
rest.  Six ticks hold three terms of a lease, one to expire, one to be reaped or
released into, one to be held meanwhile; a listener needs one restart to be
another incarnation.  A grant of three leaves room for a gap below the bound.
For the listener a limit of one tick makes every deadline both missed and kept;
one unread line lets a receipt be late; one inbound event becomes unreadable
and readable again, so that it is delivered again (what a second one, replacing
the first before its dispatch, does is left to the theorems), and the
continuation cap is the code's own three.  One record lost and one erased let
`forgotten` be both; the guard that keeps to `MaxErased` holds back a start from
a terminal state after more wakes than that, and nothing else.  The sequences
never wrap in the code (Python integers).
In the ledger two publishers of one writer contend for a sequence under one lock
or install it under two, in a directory each (two locks over one directory are
left to the theorems), or one publishes while another's references move; two
disturbances are what it takes to change a file and change it back, or to change
an index and what it lists; the audit runs again and again next to all of it,
listing a directory when events have joined the one before.

Deadlock is checked where the system has no bound that ends it (the publisher,
consumption, the listener and the ledger), and not for the lease, whose clock,
restarts and kills are bounded.

### What the violations show

- A file name that contains its sequence but not the writer after it passes
  the name check (`publisher.py:1174`) and is not found by the history check
  (1176-1180): after a crash between link and replace, the sequence is installed
  a second time under the next second's name.  With the writer in the name
  `UniqueIdentity` holds and is proved.
- An authority with its count and descriptor at the top level becomes, once
  installed, a record of its action without an outcome, and every later
  authority for the action is refused, while `publisher.py:857-859` says a
  second one carries nothing extra.
- `reap()` unlinks whatever record is there, not the one it judged
  (`lease.py:339` and `364`): run next to a release and a claim it removes a
  live lease, and two owners hold it.
- A kill between `mkdir` and the record wedges the lease slot: `read_lease`
  says free, every claim, release and reap refuses.
- An orderly exit erases the count of continuation wakes with the state file it
  was kept in, so the next listener wakes a broken agent for the same event three
  times more, and nothing bounds that over restarts, while `listener.py:645-646`
  caps them "so a broken agent cannot spin forever".  Nor is the cap that of
  `listener.py:600` and `docs/WALKTHROUGH.md:510`, "one wake per role sequence":
  it is three per listener.
- A refused or late listener overwrites the state file of the one that serves
  with a terminal state (`listener.py:901-915`), so that a live listener reads
  as dead and its agent may not publish until the loop writes again.

### Limits the properties state

- Without a layer contract no lock spans the routes, so `AuthorityIsCapped` and
  the layer properties are stated for a topology that has one.
- `ContinuationsAccounted` allows one wake beyond the cap for each whose record
  was lost or erased.  The heartbeat's "one wake per stale window" is erased by
  a terminal state in the same way, and no property is about it.
- `DeliverySpec` and the liveness properties accept that the listener ends, on a
  line of the agent that is a JSON scalar as on a deadline.
- `AdmissionsDoNotOverlap` does not exclude that the admitted child is gone when
  its event is linked.
- `ReapIsJustified`, `OneHolder` and the other properties of `lease_held` assume
  `ReapAlone`.  `SlotStaysConsistent`, that a failed claim or refresh and a release
  leave no half-made slot, is proved where nobody is killed; no run checks it.
- `NeverOverspent` and `RunsAreAccounted` hold up to the receipts that a power
  loss took with their slot.
- `AlarmIsJustified` excepts `Foreign` references: the publisher admits any
  intent of its topology and a path with `..` that stays below the root, and
  `integrity.py` accepts neither, so that such an event, legally published,
  alarms every later audit, while `docs/WALKTHROUGH.md:431-433` names
  immutable failures, unparseable events and duplicates as all that does.  It
  excepts duplicates whose publications do not share lock and directory.
- `IndexIsVerified` excepts a target that changes between two reads of it (an
  index between hashing and opening, for one): the code locks no target.
- `validate()` accepts two roles with one writer prefix and one event directory
  (`WritersMayCoincide`), which look for a number in one history under two
  locks.  `UniqueIdentity` needs `WritersExclude` then: without a contract two
  processes that validate before either links install one number twice, under
  two file names; with one, `publisher_contract` shows that they do not.
- `validate()` compares the declared paths of contract lock and sequence lock,
  while the lock files are `.NAME.lock` at the root and `.NAME.publish.lock`
  next to the path.  With a contract lock `x.publish` and a sequence lock `x`
  at the root they are one file, and an orchestrator's publication waits for
  itself (`PublicationMayBlockItself`); `LocksNest` says what name rules it out.
  `HoldersNeverWait` and `LocksComeBack` are about a contract file of its own;
  `OneFileShutsRoute` proves that otherwise nothing is ever published on the
  route that shares it.
- `decide()` lets an effort go on with a failed assumption or a tripped trigger
  whose declared decision is CONTINUE, and takes a validation dated in the
  future as fresh (`FailedMayContinue`, `TrippedMayContinue`, `FutureIsFresh`).
- `reconcile_duplicates` is documented to ask for a later rebound event
  (`metrics_reference.py:314`); it compares neither times nor sequences, and
  `Reconciled` does not either.

## Fairness

`Publisher!FairSpec` has weak fairness of each process's `Step`: a process
inside `publish()` that is not blocked on a flock runs on.  A kill releases its
locks too.  No caller has to start, and nothing is assumed of `Fail`.

`Listener!FairSpec` has weak fairness of `Loop`, the disjunction of what the
loop does of its own accord: no call in a round blocks for longer than
`POLL_SECONDS`, apart from a pipe write, which the model takes as completing.
And of `Tick`: time passes.  The agent, the supervisor that starts listeners and
the orchestrator owe nothing, which is why the liveness properties end in
"or the listener ends": the deadline of an unanswered wake ends it.

`Lease` and `Consumption` state safety only: a lease expires by the clock, and
a consumer that stops holds up nobody, its flock being freed.

## Proofs

TLAPS checks the theorems for every value of the constants that the named
assumptions in the modules admit; `LeaseProofs` assumes `ReapAlone` in each
theorem but `TypeCorrect`.  Where a run shows a claim of the repository violated,
a theorem says when it is kept: `OrphansStayTaken` (every file name carries its
writer), `MutualExclusion` (`ReapAlone`), `SlotStaysConsistent` (no kill) and
`ContinuationsAreAccounted` (no record lost or erased).

- **Publisher.**  `PointerBound` and `UniqueIdentity` are not inductive: what
  a process has validated must still hold when it links and replaces.  `Inv`
  adds that a process past a lock holds it (`LocksHeld`), and that what it
  checked stands (`ValidatedStands`, `InstalledStands`): about the pointers of
  its sequence since they share its lock, about its writer's history as far as
  `WritersExclude`, the assumption of `IdentitiesUnique` and of nothing else but
  `OrphansStayTaken`.  `SequencesRise` and `ImplementsLog` follow from it.
  For the contract, `ContractStands` adds that what was checked about the whole
  ledger stands while the contract lock is held; from it
  `EpochAlwaysReadable`, `LayersFollow` and, with a finite ledger,
  `AuthoritiesCapped`.  `AdmissionsApart` follows from `LocksHeld`: an admitted
  publication holds its route's lock to its end.  `NoCircularWait` needs the
  converse of `LocksHeld`, that a held lock is held by a process past it
  (`HoldersInside`): whoever waits for a route's lock with the contract lock
  would find its holder to hold the contract lock too.
- **Lease.**  No lock spans an operation.  The argument is that an operation
  that has begun has seen either the directory it made or a record of its own,
  and either shuts every other owner out until it ends (`OneInFlight`,
  `SlotMatches`).  So what it read still holds when it writes; `ValueProlongs`
  and `RecordIsPast` carry the expiry and the incarnation through the steps.
  `MutualExclusion` then follows from `BeliefIsRecorded`.  A reaper acts on a
  record of somebody else, which is where the argument needs `ReapAlone`, and
  all it needs is that this somebody is idle until the reap is over.
  `ImplementsTenure` uses the whole invariant: a replace prolongs since the
  record is still the one read (`ValueProlongs`), an unlink vacates since what
  its owner was told is over (`BeliefIsRecorded`, `RecordIsPast`).
- **Consumption.**  Whoever is past the lock is its holder (`Exclusive`), so
  what it counted stays the count (`CountIsFresh`), its receipt is new
  (`ReceiptIsNew`) and every authorized run has a durable receipt or one that
  went with its slot (`Paid`).  `BoundHolds` follows since receipts are numbered
  up to the bound.  `RestIsSpendable` needs that there is no gap before a power
  loss (`NoGap`).  `ImplementsBudget` adds that the units there are, the new one
  of a consumer inside the lock left out, cover the runs (`RunsCovered`): so a
  failed write gives back a unit no run stands on, and a return finds one.
- **Listener.**  A rail sends only while nothing is pending, so inbox and unread
  receipts never hold more than the pending wake (`OneOutstanding`,
  `ReceiptsAreReal`); a pointer wake is newer than what was acknowledged
  (`PendingIsNew`), so a receipt acknowledges what was taken in.  A former child
  keeps the next listener at the head of its first round (`HeldAtHead`), hence
  `SoleSession`.  The wakes sent for an event are those in memory, or those
  on disk when nothing is unsaved, and those forgotten (`CountIsKept`), hence
  `ContinuationsAreAccounted`.
  `ImplementsDelivery` maps each action to a step of `Delivery` or a stutter and
  uses all of these.  No fairness and no assumption on the agent is needed.
- **Ledger.**  A publisher's verified references stand or are stirred
  (`VerifiedStands`), and an identity that a publication found free stays free
  of events under the same lock and in the same directory (`SequenceIsFree`), so
  an event joins the history sound or tampered.
  What the audit has loaded or left to check was there at some moment, and what
  no longer is was tampered with; what is broken all along goes from listed to
  loaded to left to a defect.
- **Topology, Orient, Metrics.**  No state: the theorems unfold the operators.
  `Orient` rests on the worst of a set of decisions growing with the set
  (`WorstGrows`), which gives the three comparisons.  In `Metrics`,
  `OnlyIntegrityAlarms` and `OnlyCalculatorAlarms` say in what a reference must
  be unusual for one of the two readers to stop at it and the other not, and
  `ReadersDiffer` shows that each of these cases occurs by itself.
  `InAnyOrder` is an induction over the rows, put as a least counterexample:
  the library's well-founded order on the naturals gives the first step of the
  loop that would be wrong (`LeastNatural`), and the step before it was right.

Only model-checked: `LocksComeBack` and the three liveness properties of the
listener (liveness under fairness and ENABLED are out of the prover's reach), and
the assumptions of `MCAlgorithms`.  `TypeOK` of `Consumption` is proved and not
among its run's invariants.  There is no recursive operator in any module; an
induction theorem with a predicate as its parameter is out of the prover's
reach, so the one induction over data argues with a least counterexample.

## Not modelled

- The stateless refusals of `publish()` (pause scope, decision, credentials,
  grant shape, the remediation inventory) appear as `Fail`; their rules are not
  stated.
- `validate_grant`, `verify_repository` and the other checks ahead of the
  consumption lock: pure, or calls of git; a refusal leaves no trace.  An event
  that was linked but whose pointer never moved counts as a published grant there
  (`consumption.py:195-209`), as it does for every reader of the event files.
- The defect kinds of `integrity.py` for ill-typed identities and bindings: the
  publisher does not link such events.
- The checks of single fields in `topology.py`, and its `ActiveWorkProbe`, a
  query of the ledger that the listener's `work` stands for, task identities
  included.
- The throughput half of `metrics_reference.py`: arithmetic over timestamps
  and one project's event names, with no state and nothing that depends on it.
- A state file of the listener whose wake has no `dispatch_count` is read as one
  dispatch (`listener.py:444-445`); the listener writes none without it.
- The optional time-authority epoch of the heartbeat rail: it turns the rail off
  for events older than the epoch.
- The CLI wrappers, the demo, the library-reuse proposal.

## Plan

Done, in this order: `EventLog` and `Publisher`, `Lease`, `Consumption`,
`Listener` with `Delivery`, `References` with `Integrity` and `Ledger`, each with
its proofs; `Topology`, `Orient` and `Metrics`; the abstract `Tenure` and
`Budget` with the proofs that `Lease` and `Consumption` implement them; roles
that share a writer or a lock file in `Publisher`.

Next:

1. `Bridge`: a listener and a publisher composed over one role, so that
   `lineage` and `inbound` are computed, with the question whether an event of
   the orchestrator ends in a publication of the agent under an agent that
   answers.  The product is large: it needs the listener's rails reduced to
   `Delivery` first.
2. Which lease properties survive a `reap()` at any time: what an owner loses,
   and for how long, when its record is unlinked by a reaper that was late.
3. The grant of a consumption as an event of the ledger, installed or orphaned,
   and the repository verified ahead of the lock.
4. An abstract audit for `Ledger`: a verdict over some ledger between the first
   and the last read, to which `verify()` corresponds.
