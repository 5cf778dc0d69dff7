----------------------------- MODULE Publisher ------------------------------
(***************************************************************************)
(* publish() of coordination_substrate/publisher.py, run by several        *)
(* processes over one bridge root.                                         *)
(*                                                                         *)
(* A publication takes the layer-contract lock (when the topology has a    *)
(* contract), then the lock of its sequence space, validates its event     *)
(* against the ledger and the pointers, links the event file without       *)
(* overwrite, and replaces the pointer with one bound to that file.  Every *)
(* step can be the last one: a kill or an I/O error frees the flocks and   *)
(* leaves behind whatever was already linked.                              *)
(*                                                                         *)
(* An event is a record of what the checks tell apart.  Digests are the    *)
(* event itself: a pointer bound to a file's digest is a pointer holding   *)
(* that event.  Terminals and grants all concern one action identity, the  *)
(* failure cap being computed per identity.                                *)
(*                                                                         *)
(* A definition named after another with a suffix, as LockOf_OwnPointer is *)
(* after LockOf, is a bug variant: not used by Spec, it shows that the     *)
(* properties fail when the code gets that definition wrong.               *)
(***************************************************************************)
EXTENDS Naturals, FiniteSets

CONSTANTS
  Procs,            \* processes that call publish()
  AgentRoutes,      \* outbound pointers, one per role
  Writer,           \* per agent route, the directory and prefix it writes under
  OrchRoutes,       \* inbound pointers, all written by the orchestrator
  Orchestrator,     \* the orchestrator as writer, and its shared lock target
  Offers,           \* the events the processes may try to publish
  ContractEnabled,  \* the topology declares a layer vocabulary
  ContractFile,     \* the contract's lock file; may be that of a route
  NoEvent, Nobody, NoAdmission

Routes == AgentRoutes \cup OrchRoutes

(***************************************************************************)
(* kind      what the failure cap and the layer contract look for:         *)
(*             "activation"  the layer activation record                   *)
(*             "authority"   a positive count, at the top level of the     *)
(*                           event or under live_authorization             *)
(*             "plain"       anything else                                 *)
(* terminal  what the top level of the event says of the action:           *)
(*             "failed", "succeeded"  a typed terminal, whose label is     *)
(*                           checked before it is installed                *)
(*             "unclear"     it has the action's descriptor and no typed   *)
(*                           outcome, under its label or another           *)
(*             "none"        it does not name the action                   *)
(* layer     the event (and its pointer) carries the layer field           *)
(* named     the file name carries the writer prefix after the sequence    *)
(* stamp     the second the file name is stamped with                      *)
(***************************************************************************)
Event == [route: Routes, sequence: Nat \ {0},
          kind: {"plain", "activation", "authority"},
          terminal: {"none", "failed", "succeeded", "unclear"},
          layer: BOOLEAN, named: BOOLEAN, stamp: Nat]

ASSUME RoutesAssumption ==
  /\ AgentRoutes \cap OrchRoutes = {}
  /\ Orchestrator \notin Routes
ASSUME OffersAssumption == Offers \subseteq Event /\ NoEvent \notin Offers
ASSUME NobodyAssumption == Nobody \notin Procs
ASSUME ContractAssumption == ContractEnabled \in BOOLEAN

VARIABLES
  events,        \* the installed event files, orphans included
  pointer,       \* per route, the event its pointer file is bound to
  contractLock,  \* holder of the layer-contract flock
  pointerLock,   \* holder of each route or global-sequence flock
  lineage,       \* per agent route, the callers its listener state admits
  pc,            \* how far each process is into publish()
  job            \* the spec each process is publishing

vars == <<events, pointer, contractLock, pointerLock, lineage, pc, job>>

-----------------------------------------------------------------------------
\* The writer of a route's events.  Two roles may declare the same one.
WriterOf(r) == IF r \in OrchRoutes THEN Orchestrator ELSE Writer[r]

\* The sequence a route's pointer moves along: the orchestrator's is global,
\* every agent route is only compared with itself.
SequenceOf(r) == IF r \in OrchRoutes THEN Orchestrator ELSE r

\* Bug variant: every orchestrator route locks its own pointer.
LockOf_OwnPointer(r) == r

\* The flock a publication on r takes.
LockOf(r) == IF r \in OrchRoutes THEN Orchestrator ELSE r

Locks == {LockOf(r) : r \in Routes}

\* The routes whose pointers a publication on r is compared with.
SameSequence(r) == {q \in Routes : SequenceOf(q) = SequenceOf(r)}

\* Bug variant: only the route's own pointer is compared.
Ahead_OwnPointer(e) ==
  pointer[e.route] # NoEvent => e.sequence > pointer[e.route].sequence

\* e's sequence is beyond every pointer it is compared with.
Ahead(e) ==
  \A q \in SameSequence(e.route) :
    pointer[q] # NoEvent => e.sequence > pointer[q].sequence

\* Bug variant: orphans do not count as taken.
SequenceTaken_PointedOnly(e) ==
  \E q \in SameSequence(e.route) :
    pointer[q] # NoEvent /\ pointer[q].sequence = e.sequence

\* The history already holds a file the writer's glob finds for e's sequence.
\* (A prefix that begins another writer's finds more, and is refused more.)
SequenceTaken(e) ==
  \E f \in events :
    /\ f.named
    /\ WriterOf(f.route) = WriterOf(e.route)
    /\ f.sequence = e.sequence

\* The file name is the second, the sequence, and the caller's words, for
\* which kind and terminal stand: two events agreeing on them go to the same
\* file.
SameFile(e, f) ==
  /\ WriterOf(e.route) = WriterOf(f.route)
  /\ e.sequence = f.sequence
  /\ e.stamp = f.stamp
  /\ e.named = f.named
  /\ e.kind = f.kind
  /\ e.terminal = f.terminal

\* Typed failures of the action, counted from every installed event.
Failures == {e \in events : e.terminal = "failed"}

\* A record that names the action with no outcome makes its history ambiguous,
\* whatever record it is.
Ambiguous == \E e \in events : e.terminal = "unclear"

IsAuthority(e) == e.kind = "authority"

\* Bug variant: any admission satisfies the cap, a stale one too.
FailureLoopAdmits_AnyAdmission(e, cites) ==
  IsAuthority(e) =>
    ~Ambiguous /\ (Cardinality(Failures) < 2 \/ cites # NoAdmission)

\* From the third authority on, the exact failures must be cited.
FailureLoopAdmits(e, cites) ==
  IsAuthority(e) =>
    /\ ~Ambiguous
    /\ Cardinality(Failures) < 2 \/ cites = Failures

Activations == {e \in events : e.kind = "activation"}

\* The epoch can be told: one activation at most, none only if no event in
\* the ledger carries a layer.
EpochReadable ==
  /\ Cardinality(Activations) <= 1
  /\ Activations = {} => \A e \in events : ~e.layer

\* Bug variant: before or after the activation is told from the sequences.
LayerContractAdmits_BySequence(e) ==
  ContractEnabled =>
    /\ EpochReadable
    /\ IF e.kind = "activation"
       THEN Activations = {} /\ e.layer
       ELSE e.layer <=> \E a \in Activations : a.sequence < e.sequence

\* Bug variant: a layer ahead of the activation is let through.
LayerContractAdmits_Premature(e) ==
  ContractEnabled =>
    /\ EpochReadable
    /\ IF e.kind = "activation" THEN Activations = {} /\ e.layer
                                ELSE Activations # {} => e.layer

\* One activation, and a layer on exactly the events after it.
LayerContractAdmits(e) ==
  ContractEnabled =>
    /\ EpochReadable
    /\ IF e.kind = "activation" THEN Activations = {} /\ e.layer
                                ELSE e.layer <=> Activations # {}

\* Everything _validated_inputs and the global sequence check ask for.
Admissible(e, cites) ==
  /\ Ahead(e)
  /\ ~SequenceTaken(e)
  /\ FailureLoopAdmits(e, cites)
  /\ LayerContractAdmits(e)

-----------------------------------------------------------------------------
Init ==
  /\ events = {}
  /\ pointer = [r \in Routes |-> NoEvent]
  /\ contractLock = Nobody
  /\ pointerLock = [l \in Locks |-> Nobody]
  /\ lineage = [r \in AgentRoutes |-> {}]
  /\ pc = [p \in Procs |-> "idle"]
  /\ job = [p \in Procs |-> NoEvent]

Idle == NoEvent

\* A caller prepares its spec before any lock is taken; when it attaches an
\* admission, it cites the failures the ledger shows it at that moment.
Prepare(p) ==
  /\ pc[p] = "idle"
  /\ \E e \in Offers, cites \in {NoAdmission, Failures} :
       /\ IsAuthority(e) \/ cites = NoAdmission
       /\ job' = [job EXCEPT ![p] = [event |-> e, cites |-> cites]]
  /\ pc' = [pc EXCEPT ![p] = "prepared"]
  /\ UNCHANGED <<events, pointer, contractLock, pointerLock, lineage>>

\* A flock is on a file: where the contract's is also that of a route, either
\* holder blocks, itself included.
ContractLockFree ==
  /\ contractLock = Nobody
  /\ ContractFile \in Locks => pointerLock[ContractFile] = Nobody

PointerLockFree(l) ==
  /\ pointerLock[l] = Nobody
  /\ l = ContractFile => contractLock = Nobody

\* Bug variant: only an event with a layer takes the contract lock.
TakeContractLock_LayeredOnly(p) ==
  LET locks == ContractEnabled /\ job[p].event.layer
  IN  /\ pc[p] = "prepared"
      /\ locks => ContractLockFree
      /\ contractLock' = IF locks THEN p ELSE contractLock
      /\ pc' = [pc EXCEPT ![p] = "contract"]
      /\ UNCHANGED <<events, pointer, pointerLock, lineage, job>>

\* The contract lock comes first; without a contract there is none to take.
TakeContractLock(p) ==
  /\ pc[p] = "prepared"
  /\ ContractEnabled => ContractLockFree
  /\ contractLock' = IF ContractEnabled THEN p ELSE contractLock
  /\ pc' = [pc EXCEPT ![p] = "contract"]
  /\ UNCHANGED <<events, pointer, pointerLock, lineage, job>>

TakePointerLock(p) ==
  /\ pc[p] = "contract"
  /\ PointerLockFree(LockOf(job[p].event.route))
  /\ pointerLock' = [pointerLock EXCEPT ![LockOf(job[p].event.route)] = p]
  /\ pc' = [pc EXCEPT ![p] = "locked"]
  /\ UNCHANGED <<events, pointer, contractLock, lineage, job>>

\* An agent route admits only callers below the registered listener child.
SenderAdmitted(p) ==
  job[p].event.route \in AgentRoutes => p \in lineage[job[p].event.route]

\* Bug variant: the checks do not wait for the lock.
ValidateSender_Unlocked(p) ==
  /\ pc[p] \in {"contract", "locked"}
  /\ SenderAdmitted(p)
  /\ pc' = [pc EXCEPT ![p] = "sender"]
  /\ UNCHANGED <<events, pointer, contractLock, pointerLock, lineage, job>>

ValidateSender(p) ==
  /\ pc[p] = "locked"
  /\ SenderAdmitted(p)
  /\ pc' = [pc EXCEPT ![p] = "sender"]
  /\ UNCHANGED <<events, pointer, contractLock, pointerLock, lineage, job>>

ValidateInputs(p) ==
  /\ pc[p] = "sender"
  /\ Admissible(job[p].event, job[p].cites)
  /\ pc' = [pc EXCEPT ![p] = "validated"]
  /\ UNCHANGED <<events, pointer, contractLock, pointerLock, lineage, job>>

\* The hard link: the event is in the history, the pointer still is not.
InstallEvent(p) ==
  /\ pc[p] = "validated"
  /\ \A f \in events : ~SameFile(f, job[p].event)
  /\ events' = events \cup {job[p].event}
  /\ pc' = [pc EXCEPT ![p] = "installed"]
  /\ UNCHANGED <<pointer, contractLock, pointerLock, lineage, job>>

\* Bug variant: the contract lock is not given back.
Leave_KeepsContract(p) ==
  /\ pointerLock' = [l \in Locks |-> IF pointerLock[l] = p THEN Nobody
                                                         ELSE pointerLock[l]]
  /\ pc' = [pc EXCEPT ![p] = "idle"]
  /\ job' = [job EXCEPT ![p] = Idle]
  /\ UNCHANGED contractLock

\* Bug variant: the locks are freed and the spec dropped, but the process
\* goes on.
Leave_GoesOn(p) ==
  /\ contractLock' = IF contractLock = p THEN Nobody ELSE contractLock
  /\ pointerLock' = [l \in Locks |-> IF pointerLock[l] = p THEN Nobody
                                                         ELSE pointerLock[l]]
  /\ job' = [job EXCEPT ![p] = Idle]
  /\ UNCHANGED pc

\* Leaving publish(), whichever way: the flocks are free again.
Leave(p) ==
  /\ contractLock' = IF contractLock = p THEN Nobody ELSE contractLock
  /\ pointerLock' = [l \in Locks |-> IF pointerLock[l] = p THEN Nobody
                                                         ELSE pointerLock[l]]
  /\ pc' = [pc EXCEPT ![p] = "idle"]
  /\ job' = [job EXCEPT ![p] = Idle]

\* Bug variant: the pointer may land before its event.
ReplacePointer_First(p) ==
  /\ pc[p] \in {"validated", "installed"}
  /\ pointer' = [pointer EXCEPT ![job[p].event.route] = job[p].event]
  /\ Leave(p)
  /\ UNCHANGED <<events, lineage>>

\* The atomic replace of the pointer file, then the return.
ReplacePointer(p) ==
  /\ pc[p] = "installed"
  /\ job[p].event \in events
  /\ pointer' = [pointer EXCEPT ![job[p].event.route] = job[p].event]
  /\ Leave(p)
  /\ UNCHANGED <<events, lineage>>

\* A PublishError out of one of the checks.
Refuse(p) ==
  /\ \/ pc[p] = "locked" /\ ~SenderAdmitted(p)
     \/ pc[p] = "sender" /\ ~Admissible(job[p].event, job[p].cites)
     \/ pc[p] = "validated" /\ \E f \in events : SameFile(f, job[p].event)
  /\ Leave(p)
  /\ UNCHANGED <<events, pointer, lineage>>

\* A kill, an I/O error or a failed read-back anywhere inside publish(), or a
\* refusal over the shape of the spec itself (its pause scope, its decision,
\* its credentials), which no other process can change.
Fail(p) ==
  /\ pc[p] # "idle"
  /\ Leave(p)
  /\ UNCHANGED <<events, pointer, lineage>>

\* External: the role's listener starts, stops, or changes its child.
ListenerChange(r) ==
  /\ \E callers \in SUBSET Procs : lineage' = [lineage EXCEPT ![r] = callers]
  /\ UNCHANGED <<events, pointer, contractLock, pointerLock, pc, job>>

Step(p) ==
  \/ TakeContractLock(p)
  \/ TakePointerLock(p)
  \/ ValidateSender(p)
  \/ ValidateInputs(p)
  \/ InstallEvent(p)
  \/ ReplacePointer(p)
  \/ Refuse(p)

Next ==
  \/ \E p \in Procs : Prepare(p) \/ Step(p) \/ Fail(p)
  \/ \E r \in AgentRoutes : ListenerChange(r)

Spec == Init /\ [][Next]_vars

\* A process that is inside publish() and not blocked on a lock keeps going.
\* Nothing is assumed of callers, of failures or of the listeners.
FairSpec == Spec /\ \A p \in Procs : WF_vars(Step(p))

-----------------------------------------------------------------------------
(***************************************************************************)
(* Properties                                                              *)
(***************************************************************************)
Job == [event: Offers, cites: (SUBSET Offers) \cup {NoAdmission}]

\* The variables hold what the code can put in them.
TypeOK ==
  /\ events \subseteq Offers
  /\ pointer \in [Routes -> Offers \cup {NoEvent}]
  /\ contractLock \in Procs \cup {Nobody}
  /\ pointerLock \in [Locks -> Procs \cup {Nobody}]
  /\ lineage \in [AgentRoutes -> SUBSET Procs]
  /\ pc \in [Procs -> {"idle", "prepared", "contract", "locked", "sender",
                       "validated", "installed"}]
  /\ job \in [Procs -> Job \cup {Idle}]
  /\ \A p \in Procs : pc[p] # "idle" => job[p] \in Job

\* Event first: whatever crashed, a pointer names an event of its own route
\* whose file is in the history (publish(), publisher.py:1248-1298).
PointerBound ==
  \A r \in Routes :
    pointer[r] # NoEvent => pointer[r] \in events /\ pointer[r].route = r

\* No two roles declare one writer, or the contract lock spans the routes:
\* either way publications of one writer exclude each other.
WritersApart ==
  \A q, r \in Routes :
    WriterOf(q) = WriterOf(r) => SequenceOf(q) = SequenceOf(r)

WritersExclude == WritersApart \/ ContractEnabled

\* Two files named after their writer never share a (writer, sequence)
\* identity, across routes, retries and orphans (_validated_inputs, 1176), if
\* WritersExclude.
UniqueIdentity ==
  \A e, f \in events :
    /\ e.named /\ f.named
    /\ WriterOf(e.route) = WriterOf(f.route)
    /\ e.sequence = f.sequence
    => e = f

\* The listener state is read once, and the listener may end or change its
\* child while the admitted publication goes on.  Even so the children of one
\* role publish one at a time: until one that was admitted has left, no other
\* is (_validate_agent_sender, publisher.py:107-154; publish(), 1249).
AdmissionsDoNotOverlap ==
  \A p, q \in Procs :
    /\ pc[p] \in {"sender", "validated", "installed"}
    /\ pc[q] \in {"sender", "validated", "installed"}
    /\ job[p].event.route = job[q].event.route
    => p = q

\* A moved pointer is beyond every pointer of its sequence, so the orchestrator
\* has one rising sequence over all its routes and no lower publication lands
\* last (publish(), 1241-1251; _validate_global_orchestrator_sequence, 157).
SequenceRises ==
  [][\A r \in Routes : pointer'[r] # pointer[r] =>
       \A q \in SameSequence(r) :
         pointer[q] # NoEvent => pointer'[r].sequence > pointer[q].sequence
    ]_vars

\* With a contract the ledger never reaches the states every later publication
\* would refuse: two activations, or a layer before any activation
\* (_activation_epoch, 763).
EpochStaysReadable == ContractEnabled => EpochReadable

\* An event joins the ledger with a layer exactly when the activation is
\* already there, whatever its route and its own sequence
\* (_validate_layer_contract, 782; _layer_contract_lock, 827).
LayerFollowsActivation ==
  [][ContractEnabled =>
       \A e \in events' \ events :
         IF e.kind = "activation" THEN Activations = {}
                                  ELSE e.layer <=> Activations # {}]_vars

\* With a contract, whoever installs a third authority cites exactly the
\* failures in the ledger at that moment, not the ones it read when it was
\* prepared (_validate_failure_loop_admission, 854).
AuthorityIsCapped ==
  [][ContractEnabled =>
       \A p \in Procs :
         /\ pc[p] = "validated" /\ pc'[p] = "installed"
         /\ IsAuthority(job[p].event)
         /\ Cardinality(Failures) >= 2
         => job[p].cites = Failures]_vars

Holds(p) == contractLock = p \/ \E l \in Locks : pointerLock[l] = p

\* p is blocked in flock.
Waits(p) ==
  \/ pc[p] = "prepared" /\ ContractEnabled /\ ~ContractLockFree
  \/ pc[p] = "contract" /\ ~PointerLockFree(LockOf(job[p].event.route))

\* With two locks per publication nobody waits while it holds one, so no circle
\* of publications can close, whatever was killed and whichever routes meet, as
\* long as the two are two files: "nesting cannot deadlock" (publisher.py:833;
\* _layer_contract_lock, 827-851; publish(), 1236-1249).
HoldersNeverWait == \A p \in Procs : ~(Holds(p) /\ Waits(p))

\* Every process that holds a flock gives back all it holds: contract first,
\* pointer second, no two publications wait for each other
\* (_layer_contract_lock, 827-834).
LocksComeBack == \A p \in Procs : Holds(p) ~> ~Holds(p)

\* Readers see the abstract log: histories only grow, under sequences nobody
\* moved past, and pointers only move forward onto installed events (the
\* module's opening comment, publisher.py:4-7).
Log == INSTANCE EventLog WITH
  Routes <- Routes, SequenceOf <- SequenceOf, Offers <- Offers,
  NoEvent <- NoEvent, events <- events, pointer <- pointer
LogSpec == Log!Spec
-----------------------------------------------------------------------------
(***************************************************************************)
(* Claims of the repository that the code does not keep.                   *)
(***************************************************************************)

\* "writer sequence already exists in append-only history": an orphaned
\* sequence cannot be republished under a new clock file name
\* (tests/test_publisher.py:103, publisher.py:1176-1180).
OrphanedSequenceStaysTaken ==
  \A e, f \in events :
    WriterOf(e.route) = WriterOf(f.route) /\ e.sequence = f.sequence => e = f

\* "A first or second authority carries nothing extra ... The cap engages only
\* once the ledger itself shows two matching failures" (publisher.py:857-859).
\* It is claimed only of ledgers where no record but an authority names the
\* action without an outcome.
SecondAuthorityNeedsNothing ==
  (\A e \in events : e.terminal = "unclear" => IsAuthority(e)) =>
    \A p \in Procs :
      pc[p] = "sender" /\ Cardinality(Failures) < 2
        => FailureLoopAdmits(job[p].event, job[p].cites)
=============================================================================
