-------------------------- MODULE PublisherProofs ---------------------------
(***************************************************************************)
(* Proofs about Publisher, for any number of processes, routes and offers. *)
(*                                                                         *)
(* The argument: a process that is past its checks holds the lock of its   *)
(* sequence, so what it checked about that sequence's pointers still holds *)
(* when it links its event and when it replaces its pointer; and what it   *)
(* checked about its writer's files, if no other role is that writer.      *)
(* With a contract it also holds the contract lock, so the whole ledger    *)
(* stands still between its checks and its link.                           *)
(***************************************************************************)
EXTENDS Publisher, TLAPS, FiniteSetTheorems

Inside == {"locked", "sender", "validated", "installed"}

\* A process past a lock holds it.
LocksHeld ==
  \A p \in Procs :
    /\ pc[p] \in Inside => pointerLock[LockOf(job[p].event.route)] = p
    /\ ContractEnabled /\ pc[p] \in Inside \cup {"contract"}
         => contractLock = p

\* What was validated before the link still holds; what other roles of the same
\* writer did not take stays free only where they are locked out.
ValidatedStands ==
  \A p \in Procs : pc[p] = "validated" =>
    /\ Ahead(job[p].event)
    /\ WritersExclude => ~SequenceTaken(job[p].event)

\* Between the link and the replace the event is there and still ahead.
InstalledStands ==
  \A p \in Procs : pc[p] = "installed" =>
    Ahead(job[p].event) /\ job[p].event \in events

Inv ==
  /\ TypeOK
  /\ LocksHeld
  /\ ValidatedStands
  /\ InstalledStands
  /\ PointerBound
  /\ WritersExclude => UniqueIdentity

-----------------------------------------------------------------------------
\* A job offers an event of one of the routes.
LEMMA JobEvent ==
  ASSUME TypeOK, NEW p \in Procs, pc[p] # "idle"
  PROVE  /\ job[p] \in Job
         /\ job[p].event \in Offers
         /\ job[p].event \in Event
         /\ job[p].event.route \in Routes
         /\ LockOf(job[p].event.route) \in Locks
         /\ job[p].event # NoEvent
BY OffersAssumption DEF TypeOK, Job, Event, Locks

\* The variables keep their types (every variable of Publisher).
THEOREM TypeCorrect == Spec => []TypeOK
<1>1. Init => TypeOK
  BY DEF Init, TypeOK, Idle
<1>2. TypeOK /\ [Next]_vars => TypeOK'
  <2> SUFFICES ASSUME TypeOK, [Next]_vars PROVE TypeOK'
    OBVIOUS
  <2> USE DEF TypeOK
  <2>1. ASSUME NEW p \in Procs, Prepare(p) PROVE TypeOK'
    <3>1. PICK e \in Offers, cites \in {NoAdmission, Failures} :
            job' = [job EXCEPT ![p] = [event |-> e, cites |-> cites]]
      BY <2>1 DEF Prepare
    <3>2. [event |-> e, cites |-> cites] \in Job
      BY DEF Job, Failures
    <3>3. QED
      BY <2>1, <3>1, <3>2 DEF Prepare
  <2>2. ASSUME NEW p \in Procs, TakeContractLock(p) PROVE TypeOK'
    BY <2>2 DEF TakeContractLock
  <2>3. ASSUME NEW p \in Procs, TakePointerLock(p) PROVE TypeOK'
    BY <2>3 DEF TakePointerLock
  <2>4. ASSUME NEW p \in Procs, ValidateSender(p) PROVE TypeOK'
    BY <2>4 DEF ValidateSender
  <2>5. ASSUME NEW p \in Procs, ValidateInputs(p) PROVE TypeOK'
    BY <2>5 DEF ValidateInputs
  <2>6. ASSUME NEW p \in Procs, InstallEvent(p) PROVE TypeOK'
    BY <2>6, JobEvent DEF InstallEvent
  <2>7. ASSUME NEW p \in Procs, Leave(p), UNCHANGED <<events, lineage>>,
               pointer' \in [Routes -> Offers \cup {NoEvent}]
        PROVE  TypeOK'
    BY <2>7 DEF Leave
  <2>8. ASSUME NEW p \in Procs, ReplacePointer(p) PROVE TypeOK'
    BY <2>7, <2>8, JobEvent DEF ReplacePointer
  <2>9. ASSUME NEW p \in Procs, Refuse(p) PROVE TypeOK'
    BY <2>7, <2>9 DEF Refuse
  <2>10. ASSUME NEW p \in Procs, Fail(p) PROVE TypeOK'
    BY <2>7, <2>10 DEF Fail
  <2>11. ASSUME NEW r \in AgentRoutes, ListenerChange(r) PROVE TypeOK'
    BY <2>11 DEF ListenerChange
  <2>12. CASE UNCHANGED vars
    BY <2>12 DEF vars
  <2>13. QED
    BY <2>1, <2>2, <2>3, <2>4, <2>5, <2>6, <2>8, <2>9, <2>10, <2>11, <2>12
    DEF Next, Step
<1>3. QED
  BY <1>1, <1>2, PTL DEF Spec

-----------------------------------------------------------------------------
\* Two routes of one sequence share their lock.
LEMMA OneLockPerSequence ==
  ASSUME NEW r, NEW q, SequenceOf(r) = SequenceOf(q)
  PROVE  LockOf(r) = LockOf(q)
BY DEF SequenceOf, LockOf

\* Two processes past their locks publish in different sequences, and with a
\* contract there is only one of them.
LEMMA Exclusive ==
  ASSUME TypeOK, LocksHeld, NEW p \in Procs, NEW q \in Procs, p # q,
         pc[p] \in Inside, pc[q] \in Inside
  PROVE  /\ SequenceOf(job[p].event.route) # SequenceOf(job[q].event.route)
         /\ ~ContractEnabled
         /\ WritersExclude =>
              WriterOf(job[p].event.route) # WriterOf(job[q].event.route)
<1>1. /\ SequenceOf(job[p].event.route) # SequenceOf(job[q].event.route)
      /\ ~ContractEnabled
  BY OneLockPerSequence DEF LocksHeld, TypeOK
<1>2. job[p].event.route \in Routes /\ job[q].event.route \in Routes
  BY JobEvent DEF Inside
<1>3. QED
  BY <1>1, <1>2 DEF WritersExclude, WritersApart

\* A step that leaves the events, the pointers and every other process alone
\* keeps what others validated.
LEMMA QuietStep ==
  ASSUME Inv, TypeOK', NEW p \in Procs, UNCHANGED <<events, pointer>>,
         pc'[p] \notin {"validated", "installed"},
         \A q \in Procs : q # p => pc'[q] = pc[q] /\ job'[q] = job[q]
  PROVE  /\ ValidatedStands' /\ InstalledStands' /\ PointerBound'
         /\ WritersExclude => UniqueIdentity'
<1>1. ValidatedStands'
  BY DEF Inv, ValidatedStands, Ahead, SequenceTaken, SameSequence
<1>2. InstalledStands'
  BY DEF Inv, InstalledStands, Ahead, SameSequence
<1>3. PointerBound' /\ (WritersExclude => UniqueIdentity')
  BY DEF Inv, PointerBound, UniqueIdentity
<1>4. QED
  BY <1>1, <1>2, <1>3

\* Leaving frees the locks of the process that leaves and of no other.
LEMMA LeaveKeepsLocks ==
  ASSUME Inv, NEW p \in Procs, Leave(p)
  PROVE  LocksHeld'
<1> SUFFICES ASSUME NEW q \in Procs
             PROVE  /\ pc'[q] \in Inside
                         => pointerLock'[LockOf(job'[q].event.route)] = q
                    /\ ContractEnabled /\ pc'[q] \in Inside \cup {"contract"}
                         => contractLock' = q
  BY DEF LocksHeld
<1>1. CASE q = p
  BY <1>1 DEF Leave, Inv, TypeOK, Inside
<1>2. CASE q # p
  <2>1. pc'[q] = pc[q] /\ job'[q] = job[q]
    BY <1>2 DEF Leave, Inv, TypeOK
  <2>2. ASSUME pc[q] \in Inside
        PROVE  pointerLock'[LockOf(job[q].event.route)] = q
    <3>1. LockOf(job[q].event.route) \in Locks
      BY <2>2, JobEvent DEF Inv, Inside
    <3>2. pointerLock[LockOf(job[q].event.route)] = q
      BY <2>2 DEF Inv, LocksHeld
    <3>3. QED
      BY <1>2, <3>1, <3>2 DEF Leave
  <2>3. ASSUME ContractEnabled, pc[q] \in Inside \cup {"contract"}
        PROVE  contractLock' = q
    BY <1>2, <2>3 DEF Leave, Inv, LocksHeld
  <2>4. QED
    BY <2>1, <2>2, <2>3
<1>3. QED
  BY <1>1, <1>2

\* The strengthened invariant behind the pointer and identity theorems: what a
\* process validated still holds when it installs and when it replaces.
THEOREM Inductive == Spec => []Inv
<1>1. Init => Inv
  BY DEF Init, Inv, TypeOK, LocksHeld, ValidatedStands, InstalledStands,
         PointerBound, UniqueIdentity, Inside, Idle
<1>2. Inv /\ TypeOK' /\ [Next]_vars => Inv'
  <2> SUFFICES ASSUME Inv, TypeOK', [Next]_vars PROVE Inv'
    OBVIOUS
  <2> USE DEF Inv
  <2>1. ASSUME NEW p \in Procs, Prepare(p) PROVE Inv'
    <3>1. \A q \in Procs : q # p => pc'[q] = pc[q] /\ job'[q] = job[q]
      BY <2>1 DEF Prepare, TypeOK
    <3>2. pc'[p] = "prepared"
      BY <2>1 DEF Prepare, TypeOK
    <3>3. LocksHeld'
      BY <2>1, <3>1, <3>2 DEF Prepare, LocksHeld, Inside
    <3>4. QED
      BY <2>1, <3>1, <3>2, <3>3, QuietStep DEF Prepare
  <2>2. ASSUME NEW p \in Procs, TakeContractLock(p) PROVE Inv'
    <3>1. \A q \in Procs : q # p => pc'[q] = pc[q] /\ job'[q] = job[q]
      BY <2>2 DEF TakeContractLock, TypeOK
    <3>2. pc'[p] = "contract"
      BY <2>2 DEF TakeContractLock, TypeOK
    <3>3. LocksHeld'
      BY <2>2, <3>1, <3>2, NobodyAssumption
      DEF TakeContractLock, ContractLockFree, LocksHeld, Inside
    <3>4. QED
      BY <2>2, <3>1, <3>2, <3>3, QuietStep DEF TakeContractLock
  <2>3. ASSUME NEW p \in Procs, TakePointerLock(p) PROVE Inv'
    <3>1. \A q \in Procs : q # p => pc'[q] = pc[q] /\ job'[q] = job[q]
      BY <2>3 DEF TakePointerLock, TypeOK
    <3>2. pc'[p] = "locked" /\ pc[p] = "contract" /\ job' = job
      BY <2>3 DEF TakePointerLock, TypeOK
    <3>3. LockOf(job[p].event.route) \in Locks
      BY <3>2, JobEvent
    <3>4. LocksHeld'
      BY <2>3, <3>1, <3>2, <3>3, NobodyAssumption
      DEF TakePointerLock, PointerLockFree, LocksHeld, Inside, TypeOK
    <3>5. QED
      BY <2>3, <3>1, <3>2, <3>4, QuietStep DEF TakePointerLock
  <2>4. ASSUME NEW p \in Procs, ValidateSender(p) PROVE Inv'
    <3>1. \A q \in Procs : q # p => pc'[q] = pc[q] /\ job'[q] = job[q]
      BY <2>4 DEF ValidateSender, TypeOK
    <3>2. pc'[p] = "sender" /\ pc[p] = "locked"
      BY <2>4 DEF ValidateSender, TypeOK
    <3>3. LocksHeld'
      BY <2>4, <3>1, <3>2 DEF ValidateSender, LocksHeld, Inside
    <3>4. QED
      BY <2>4, <3>1, <3>2, <3>3, QuietStep DEF ValidateSender
  <2>5. ASSUME NEW p \in Procs, ValidateInputs(p) PROVE Inv'
    <3>1. \A q \in Procs : q # p => pc'[q] = pc[q]
      BY <2>5 DEF ValidateInputs, TypeOK
    <3>2. pc'[p] = "validated" /\ pc[p] = "sender"
      BY <2>5 DEF ValidateInputs, TypeOK
    <3>3. UNCHANGED <<events, pointer, contractLock, pointerLock, job>>
      BY <2>5 DEF ValidateInputs
    <3>4. LocksHeld'
      BY <3>1, <3>2, <3>3 DEF LocksHeld, Inside
    <3>5. Ahead(job[p].event) /\ ~SequenceTaken(job[p].event)
      BY <2>5 DEF ValidateInputs, Admissible
    <3>6. ValidatedStands'
      BY <3>1, <3>3, <3>5
      DEF ValidatedStands, Ahead, SequenceTaken, SameSequence
    <3>7. InstalledStands'
      BY <3>1, <3>2, <3>3 DEF InstalledStands, Ahead, SameSequence
    <3>8. PointerBound' /\ (WritersExclude => UniqueIdentity')
      BY <3>3 DEF PointerBound, UniqueIdentity
    <3>9. QED
      BY <3>4, <3>6, <3>7, <3>8
  <2>6. ASSUME NEW p \in Procs, InstallEvent(p) PROVE Inv'
    <3> DEFINE e == job[p].event
    <3>1. \A q \in Procs : q # p => pc'[q] = pc[q]
      BY <2>6 DEF InstallEvent, TypeOK
    <3>2. pc'[p] = "installed" /\ pc[p] = "validated"
      BY <2>6 DEF InstallEvent, TypeOK
    <3>3. events' = events \cup {e}
      BY <2>6 DEF InstallEvent
    <3>4. UNCHANGED <<pointer, contractLock, pointerLock, job>>
      BY <2>6 DEF InstallEvent
    <3>5. LocksHeld'
      BY <3>1, <3>2, <3>4 DEF LocksHeld, Inside
    <3>6. Ahead(e) /\ (WritersExclude => ~SequenceTaken(e))
      BY <3>2 DEF ValidatedStands
    <3>7. ValidatedStands'
      <4> SUFFICES ASSUME NEW q \in Procs, pc'[q] = "validated"
                   PROVE  /\ Ahead(job[q].event)'
                          /\ WritersExclude => ~SequenceTaken(job[q].event)'
        BY DEF ValidatedStands
      <4>1. q # p /\ pc[q] = "validated"
        BY <3>1, <3>2
      <4>2. WritersExclude =>
              WriterOf(e.route) # WriterOf(job[q].event.route)
        BY <3>2, <4>1, Exclusive DEF Inside
      <4>3. /\ Ahead(job[q].event)
            /\ WritersExclude => ~SequenceTaken(job[q].event)
        BY <4>1 DEF ValidatedStands
      <4>4. QED
        BY <3>3, <3>4, <4>2, <4>3 DEF Ahead, SequenceTaken, SameSequence
    <3>8. InstalledStands'
      BY <3>1, <3>2, <3>3, <3>4, <3>6 DEF InstalledStands, Ahead, SameSequence
    <3>9. PointerBound'
      BY <3>3, <3>4 DEF PointerBound
    <3>10. WritersExclude => UniqueIdentity'
      BY <3>3, <3>6 DEF UniqueIdentity, SequenceTaken
    <3>11. QED
      BY <3>5, <3>7, <3>8, <3>9, <3>10
  <2>7. ASSUME NEW p \in Procs, ReplacePointer(p) PROVE Inv'
    <3> DEFINE e == job[p].event
    <3>1. pc[p] = "installed" /\ pc'[p] = "idle"
      BY <2>7 DEF ReplacePointer, Leave, TypeOK
    <3>2. \A q \in Procs : q # p => pc'[q] = pc[q] /\ job'[q] = job[q]
      BY <2>7 DEF ReplacePointer, Leave, TypeOK
    <3>3. pointer' = [pointer EXCEPT ![e.route] = e] /\ e \in events
      BY <2>7 DEF ReplacePointer
    <3>4. e.route \in Routes /\ UNCHANGED events
      BY <2>7, <3>1, JobEvent DEF ReplacePointer
    <3>5. LocksHeld'
      BY <2>7, LeaveKeepsLocks DEF ReplacePointer
    <3>6. ASSUME NEW q \in Procs, q # p, pc[q] \in {"validated", "installed"},
                 Ahead(job[q].event)
          PROVE  Ahead(job[q].event)'
      <4>1. SequenceOf(e.route) # SequenceOf(job[q].event.route)
        BY <3>1, <3>6, Exclusive DEF Inside
      <4>2. e.route \notin SameSequence(job[q].event.route)
        BY <4>1 DEF SameSequence
      <4>3. QED
        BY <3>2, <3>3, <3>4, <3>6, <4>2 DEF Ahead, SameSequence, TypeOK
    <3>7. ValidatedStands'
      BY <3>1, <3>2, <3>4, <3>6 DEF ValidatedStands, SequenceTaken
    <3>8. InstalledStands'
      BY <3>1, <3>2, <3>4, <3>6 DEF InstalledStands
    <3>9. PointerBound'
      BY <3>3, <3>4 DEF PointerBound, TypeOK
    <3>10. WritersExclude => UniqueIdentity'
      BY <3>4 DEF UniqueIdentity
    <3>11. QED
      BY <3>5, <3>7, <3>8, <3>9, <3>10
  <2>8. ASSUME NEW p \in Procs, Refuse(p) \/ Fail(p) PROVE Inv'
    <3>1. Leave(p) /\ UNCHANGED <<events, pointer>>
      BY <2>8 DEF Refuse, Fail
    <3>2. \A q \in Procs : q # p => pc'[q] = pc[q] /\ job'[q] = job[q]
      BY <3>1 DEF Leave, TypeOK
    <3>3. pc'[p] = "idle"
      BY <3>1 DEF Leave, TypeOK
    <3>4. QED
      BY <3>1, <3>2, <3>3, LeaveKeepsLocks, QuietStep
  <2>9. CASE UNCHANGED <<events, pointer, contractLock, pointerLock, pc, job>>
    BY <2>9 DEF LocksHeld, ValidatedStands, InstalledStands, PointerBound,
                UniqueIdentity, Ahead, SequenceTaken, SameSequence
  <2>10. ASSUME NEW r \in AgentRoutes, ListenerChange(r) PROVE Inv'
    BY <2>9, <2>10 DEF ListenerChange
  <2>11. CASE UNCHANGED vars
    BY <2>9, <2>11 DEF vars
  <2>12. QED
    BY <2>1, <2>2, <2>3, <2>4, <2>5, <2>6, <2>7, <2>8, <2>10, <2>11
    DEF Next, Step
<1>3. QED
  BY <1>1, <1>2, TypeCorrect, PTL DEF Spec

-----------------------------------------------------------------------------
\* Event first: after any crash, refusal or race, a pointer names an installed
\* event of its own route (publisher.py:4-7).
THEOREM PointersBound == Spec => []PointerBound
BY Inductive, PTL DEF Inv

\* No two files named after their writer share a sequence, orphans and retries
\* included (publisher.py:1176-1180), if no two roles declare one writer or the
\* contract lock spans them; validate() asks for neither (topology.py:360-385).
THEOREM IdentitiesUnique ==
  ASSUME WritersExclude
  PROVE  Spec => []UniqueIdentity
<1>1. Inv => UniqueIdentity
  BY DEF Inv
<1>2. QED
  BY <1>1, Inductive, PTL

\* One publication at a time past the sender check of a route, whatever its
\* listener does meanwhile (AdmissionsDoNotOverlap).
THEOREM AdmissionsApart == Spec => []AdmissionsDoNotOverlap
<1>1. Inv => AdmissionsDoNotOverlap
  BY DEF Inv, LocksHeld, AdmissionsDoNotOverlap, Inside
<1> QED
  BY <1>1, Inductive, PTL

\* Only ReplacePointer moves a pointer, forward and to an installed event.
LEMMA PointerSteps ==
  ASSUME Inv, [Next]_vars, pointer' # pointer
  PROVE  \E p \in Procs :
           /\ job[p].event \in Offers
           /\ job[p].event.route \in Routes
           /\ job[p].event \in events
           /\ Ahead(job[p].event)
           /\ pointer' = [pointer EXCEPT ![job[p].event.route] = job[p].event]
           /\ UNCHANGED events
<1>1. PICK p \in Procs : ReplacePointer(p)
  BY DEF Next, Step, Prepare, TakeContractLock, TakePointerLock, ValidateSender,
         ValidateInputs, InstallEvent, Refuse, Fail, ListenerChange, vars
<1>2. pc[p] = "installed"
  BY <1>1 DEF ReplacePointer
<1>3. job[p].event \in Offers /\ job[p].event.route \in Routes
  BY <1>2, JobEvent DEF Inv
<1>4. Ahead(job[p].event) /\ job[p].event \in events
  BY <1>2 DEF Inv, InstalledStands
<1>5. QED
  BY <1>1, <1>3, <1>4 DEF ReplacePointer

\* Only InstallEvent adds to the history, one new validated event.
LEMMA EventSteps ==
  ASSUME Inv, [Next]_vars, events' # events
  PROVE  \E p \in Procs :
           /\ pc[p] = "validated" /\ pc'[p] = "installed"
           /\ InstallEvent(p)
           /\ job[p].event \in Offers
           /\ job[p].event \notin events
           /\ Ahead(job[p].event)
           /\ events' = events \cup {job[p].event}
           /\ UNCHANGED pointer
<1>1. PICK p \in Procs : InstallEvent(p)
  BY DEF Next, Step, Prepare, TakeContractLock, TakePointerLock, ValidateSender,
         ValidateInputs, ReplacePointer, Refuse, Fail, ListenerChange, vars
<1>2. pc[p] = "validated" /\ pc'[p] = "installed"
  BY <1>1 DEF InstallEvent, Inv, TypeOK
<1>3. job[p].event \in Offers
  BY <1>2, JobEvent DEF Inv
<1>4. job[p].event \notin events
  BY <1>1 DEF InstallEvent, SameFile
<1>5. Ahead(job[p].event)
  BY <1>2 DEF Inv, ValidatedStands
<1>6. QED
  BY <1>1, <1>2, <1>3, <1>4, <1>5 DEF InstallEvent

\* A moved pointer passes every pointer of its sequence, for any number of
\* routes (publisher.py:157-185, 1241-1251).
THEOREM SequencesRise == Spec => SequenceRises
<1>1. ASSUME Inv, [Next]_vars
      PROVE  \A r \in Routes : pointer'[r] # pointer[r] =>
               \A q \in SameSequence(r) :
                 pointer[q] # NoEvent
                   => pointer'[r].sequence > pointer[q].sequence
  <2> SUFFICES ASSUME NEW r \in Routes, pointer'[r] # pointer[r],
                      NEW q \in SameSequence(r), pointer[q] # NoEvent
               PROVE  pointer'[r].sequence > pointer[q].sequence
    OBVIOUS
  <2>1. PICK p \in Procs :
          /\ job[p].event.route \in Routes
          /\ Ahead(job[p].event)
          /\ pointer' = [pointer EXCEPT ![job[p].event.route] = job[p].event]
    BY <1>1, PointerSteps
  <2>2. r = job[p].event.route /\ pointer'[r] = job[p].event
    BY <1>1, <2>1 DEF Inv, TypeOK
  <2>3. QED
    BY <2>1, <2>2 DEF Ahead
<1>2. QED
  BY <1>1, Inductive, PTL DEF Spec, SequenceRises

\* Publisher implements the abstract log: an install appends, a replace
\* advances, every other step is invisible to readers.
THEOREM ImplementsLog == Spec => LogSpec
<1>1. Init => Log!Init
  BY DEF Init, Log!Init
<1>2. ASSUME Inv, [Next]_vars
      PROVE  [Log!Next]_(Log!vars)
  <2>1. CASE events' # events
    <3>1. PICK p \in Procs :
            /\ job[p].event \in Offers
            /\ job[p].event \notin events
            /\ Ahead(job[p].event)
            /\ events' = events \cup {job[p].event}
            /\ UNCHANGED pointer
      BY <1>2, <2>1, EventSteps
    <3>2. Log!Append(job[p].event)
      BY <3>1 DEF Log!Append, Log!Ahead, Ahead, SameSequence
    <3>3. QED
      BY <3>1, <3>2 DEF Log!Next
  <2>2. CASE pointer' # pointer
    <3>1. PICK p \in Procs :
            /\ job[p].event \in Offers
            /\ job[p].event \in events
            /\ Ahead(job[p].event)
            /\ pointer' = [pointer EXCEPT ![job[p].event.route] = job[p].event]
            /\ UNCHANGED events
      BY <1>2, <2>2, PointerSteps
    <3>2. Log!Advance(job[p].event)
      BY <3>1 DEF Log!Advance, Log!Ahead, Ahead, SameSequence
    <3>3. QED
      BY <3>1, <3>2 DEF Log!Next
  <2>3. CASE UNCHANGED <<events, pointer>>
    BY <2>3 DEF Log!vars
  <2>4. QED
    BY <2>1, <2>2, <2>3
<1>3. QED
  BY <1>1, <1>2, Inductive, PTL DEF Spec, LogSpec, Log!Spec

-----------------------------------------------------------------------------
\* The converse of LocksHeld: a held lock is held by a process past it.
HoldersInside ==
  /\ contractLock # Nobody =>
       ContractEnabled /\ pc[contractLock] \in Inside \cup {"contract"}
  /\ \A l \in Locks : pointerLock[l] # Nobody => pc[pointerLock[l]] \in Inside

\* Leaving frees every lock of the process that leaves.
LEMMA LeaveKeepsHolders ==
  ASSUME TypeOK, HoldersInside, NEW p \in Procs, Leave(p)
  PROVE  HoldersInside'
<1>1. \A q \in Procs : q # p => pc'[q] = pc[q]
  BY DEF Leave, TypeOK
<1>2. /\ contractLock' # p
      /\ contractLock' # Nobody => contractLock' = contractLock
  BY NobodyAssumption DEF Leave
<1>3. \A l \in Locks :
        /\ pointerLock'[l] # p
        /\ pointerLock'[l] # Nobody => pointerLock'[l] = pointerLock[l]
  BY NobodyAssumption DEF Leave
<1>4. QED
  BY <1>1, <1>2, <1>3 DEF HoldersInside, TypeOK

\* Whatever is killed or refused, a lock's holder is inside publish().
THEOREM HoldersAreInside == Spec => []HoldersInside
<1>1. Init => HoldersInside
  BY DEF Init, HoldersInside
<1>2. TypeOK /\ HoldersInside /\ [Next]_vars => HoldersInside'
  <2> SUFFICES ASSUME TypeOK, HoldersInside, [Next]_vars
               PROVE  HoldersInside'
    OBVIOUS
  <2>1. ASSUME NEW p \in Procs, TakeContractLock(p) PROVE HoldersInside'
    <3>1. /\ \A q \in Procs : q # p => pc'[q] = pc[q]
          /\ pc'[p] = "contract" /\ pc[p] = "prepared"
          /\ contractLock' = IF ContractEnabled THEN p ELSE contractLock
          /\ UNCHANGED pointerLock
      BY <2>1 DEF TakeContractLock, TypeOK
    <3>2. QED
      BY <3>1 DEF HoldersInside, TypeOK, Inside
  <2>2. ASSUME NEW p \in Procs, TakePointerLock(p) PROVE HoldersInside'
    <3>1. /\ \A q \in Procs : q # p => pc'[q] = pc[q]
          /\ pc'[p] = "locked"
          /\ UNCHANGED contractLock
          /\ \A l \in Locks : pointerLock'[l] \in {p, pointerLock[l]}
      BY <2>2 DEF TakePointerLock, TypeOK
    <3>2. QED
      BY <3>1 DEF HoldersInside, TypeOK, Inside
  <2>3. ASSUME NEW p \in Procs,
               \/ Prepare(p) \/ ValidateSender(p) \/ ValidateInputs(p)
               \/ InstallEvent(p)
        PROVE  HoldersInside'
    <3>1. /\ \A q \in Procs : q # p => pc'[q] = pc[q]
          /\ pc[p] \in Inside \cup {"contract"} =>
               pc[p] \in Inside /\ pc'[p] \in Inside
          /\ UNCHANGED <<contractLock, pointerLock>>
      BY <2>3
      DEF Prepare, ValidateSender, ValidateInputs, InstallEvent, TypeOK, Inside
    <3>2. QED
      BY <3>1 DEF HoldersInside, TypeOK, Inside
  <2>4. ASSUME NEW p \in Procs, ReplacePointer(p) \/ Refuse(p) \/ Fail(p)
        PROVE  HoldersInside'
    BY <2>4, LeaveKeepsHolders DEF ReplacePointer, Refuse, Fail
  <2>5. CASE UNCHANGED <<contractLock, pointerLock, pc>>
    BY <2>5 DEF HoldersInside
  <2>6. ASSUME NEW r \in AgentRoutes, ListenerChange(r) PROVE HoldersInside'
    BY <2>5, <2>6 DEF ListenerChange
  <2>7. QED
    BY <2>1, <2>2, <2>3, <2>4, <2>5, <2>6 DEF Next, Step, vars
<1>3. QED
  BY <1>1, <1>2, TypeCorrect, PTL DEF Spec

\* No process waits for a lock while it holds one, for any number of processes
\* and routes: publications never wait for each other in a circle, if the
\* contract's lock file is no route's (publisher.py:827-851, 1236-1249).
THEOREM NoCircularWait ==
  ASSUME ContractFile \notin Locks
  PROVE  Spec => []HoldersNeverWait
<1>1. Inv /\ HoldersInside => HoldersNeverWait
  <2> SUFFICES ASSUME Inv, HoldersInside, NEW p \in Procs, Holds(p), Waits(p)
               PROVE  FALSE
    BY DEF HoldersNeverWait
  <2>1. CASE \E l \in Locks : pointerLock[l] = p
    BY <2>1, NobodyAssumption DEF HoldersInside, Waits, Inside
  <2>2. CASE contractLock = p
    <3> DEFINE q == pointerLock[LockOf(job[p].event.route)]
    <3>1. ContractEnabled /\ pc[p] = "contract"
      BY <2>2, NobodyAssumption DEF HoldersInside, Waits, Inside
    <3>2. LockOf(job[p].event.route) \in Locks /\ q # Nobody
      BY <3>1, JobEvent DEF Inv, Waits, PointerLockFree
    <3>3. q \in Procs /\ pc[q] \in Inside
      BY <3>1, <3>2 DEF Inv, TypeOK, HoldersInside
    <3>4. contractLock = q
      BY <3>1, <3>3 DEF Inv, LocksHeld
    <3>5. QED
      BY <2>2, <3>1, <3>3, <3>4 DEF Inside
  <2>3. QED
    BY <2>1, <2>2 DEF Holds
<1>2. QED
  BY <1>1, Inductive, HoldersAreInside, PTL

\* Nobody past its locks is on a route whose lock file is the contract's.
NotThrough ==
  ContractEnabled =>
    \A p \in Procs :
      pc[p] \in Inside => LockOf(job[p].event.route) # ContractFile

\* Nothing was published there.
Shut ==
  ContractEnabled =>
    /\ \A r \in Routes : LockOf(r) = ContractFile => pointer[r] = NoEvent
    /\ \A e \in events : LockOf(e.route) # ContractFile

\* Where the contract's lock file is a route's, which validate() does not rule
\* out (topology.py:382-385), every publication there waits for itself and
\* none ever gets through.
THEOREM OneFileShutsRoute == Spec => []Shut
<1>1. Init => NotThrough /\ Shut
  BY DEF Init, NotThrough, Shut, Inside
<1>2. ASSUME Inv, NotThrough, Shut, [Next]_vars
      PROVE  NotThrough' /\ Shut'
  <2>1. SUFFICES ASSUME ContractEnabled
                 PROVE  NotThrough' /\ Shut'
    BY DEF NotThrough, Shut
  <2>2. ASSUME NEW p \in Procs, pc'[p] \in Inside
        PROVE  LockOf(job'[p].event.route) # ContractFile
    <3>1. CASE pc[p] \in Inside /\ job'[p] = job[p]
      BY <1>2, <2>1, <3>1 DEF NotThrough
    <3>2. CASE TakePointerLock(p)
      <4>1. contractLock = p /\ job' = job
        BY <1>2, <2>1, <3>2 DEF TakePointerLock, Inv, LocksHeld
      <4>2. QED
        BY <3>2, <4>1, NobodyAssumption DEF TakePointerLock, PointerLockFree
    <3>3. CASE ~TakePointerLock(p) /\ ~(pc[p] \in Inside /\ job'[p] = job[p])
      BY <1>2, <2>2, <3>3
      DEF Next, Step, Prepare, TakeContractLock, TakePointerLock,
          ValidateSender, ValidateInputs, InstallEvent, ReplacePointer,
          Refuse, Fail, Leave, ListenerChange, vars, Inv, TypeOK, Inside
    <3>4. QED
      BY <3>1, <3>2, <3>3
  <2>3. Shut'
    <3>1. CASE events' # events
      <4>1. PICK p \in Procs :
              /\ pc[p] = "validated"
              /\ events' = events \cup {job[p].event}
              /\ UNCHANGED pointer
        BY <1>2, <3>1, EventSteps
      <4>2. LockOf(job[p].event.route) # ContractFile
        BY <1>2, <2>1, <4>1 DEF NotThrough, Inside
      <4>3. QED
        BY <1>2, <2>1, <4>1, <4>2 DEF Shut
    <3>2. CASE pointer' # pointer
      <4>1. PICK p \in Procs :
              /\ job[p].event \in events
              /\ pointer' = [pointer EXCEPT ![job[p].event.route] =
                                             job[p].event]
              /\ UNCHANGED events
        BY <1>2, <3>2, PointerSteps
      <4>2. LockOf(job[p].event.route) # ContractFile
        BY <1>2, <2>1, <4>1 DEF Shut
      <4>3. QED
        BY <1>2, <2>1, <4>1, <4>2 DEF Shut, Inv, TypeOK
    <3>3. CASE UNCHANGED <<events, pointer>>
      BY <1>2, <2>1, <3>3 DEF Shut
    <3>4. QED
      BY <3>1, <3>2, <3>3
  <2>4. QED
    BY <2>2, <2>3 DEF NotThrough
<1>3. QED
  BY <1>1, <1>2, Inductive, PTL DEF Spec

\* Where every file name carries its writer and writers exclude each other,
\* the claim that an orphaned sequence stays taken is kept
\* (publisher.py:1176-1180).
THEOREM OrphansStayTaken ==
  ASSUME WritersExclude, \A e \in Offers : e.named
  PROVE  Spec => []OrphanedSequenceStaysTaken
<1>1. Inv => OrphanedSequenceStaysTaken
  BY DEF Inv, TypeOK, UniqueIdentity, OrphanedSequenceStaysTaken
<1>2. QED
  BY <1>1, Inductive, PTL

-----------------------------------------------------------------------------
\* With a contract, the ledger a process validated against is still the
\* ledger when it links.
ContractStands ==
  ContractEnabled =>
    \A p \in Procs : pc[p] = "validated" =>
      /\ FailureLoopAdmits(job[p].event, job[p].cites)
      /\ LayerContractAdmits(job[p].event)

\* Installing an event its contract check admits keeps the epoch readable.
LEMMA InstallKeepsEpoch ==
  ASSUME ContractEnabled, NEW e, LayerContractAdmits(e), e.layer \in BOOLEAN,
         events' = events \cup {e}
  PROVE  EpochReadable'
<1>1. EpochReadable
  BY DEF LayerContractAdmits
<1>2. CASE e.kind = "activation"
  <2>1. Activations = {} /\ Activations' = {e}
    BY <1>2 DEF LayerContractAdmits, Activations
  <2>2. Cardinality(Activations') = 1
    BY <2>1, FS_Singleton
  <2>3. QED
    BY <2>1, <2>2 DEF EpochReadable
<1>3. CASE e.kind # "activation"
  <2>1. Activations' = Activations
    BY <1>3 DEF Activations
  <2>2. e.layer <=> Activations # {}
    BY <1>3 DEF LayerContractAdmits
  <2>3. QED
    BY <1>1, <2>1, <2>2 DEF EpochReadable
<1>4. QED
  BY <1>2, <1>3

\* Under contract, a process past the contract lock is alone, so what the layer
\* contract admitted is still admissible when the event is installed.
THEOREM ContractInductive == Spec => [](ContractStands /\ EpochStaysReadable)
<1>1. Init => ContractStands /\ EpochStaysReadable
  <2>1. ASSUME Init PROVE Cardinality(Activations) <= 1
    <3>1. Activations = {}
      BY <2>1 DEF Init, Activations
    <3>2. QED
      BY <3>1, FS_EmptySet
  <2>2. QED
    BY <2>1 DEF Init, ContractStands, EpochStaysReadable, EpochReadable
<1>2. ASSUME Inv, Inv', [Next]_vars, ContractStands, EpochStaysReadable
      PROVE  ContractStands' /\ EpochStaysReadable'
  <2>1. CASE ~ContractEnabled
    BY <2>1 DEF ContractStands, EpochStaysReadable
  <2>2. CASE ContractEnabled /\ events' # events
    <3>1. PICK p \in Procs :
            /\ pc[p] = "validated" /\ pc'[p] = "installed"
            /\ job[p].event \in Offers
            /\ events' = events \cup {job[p].event}
      BY <1>2, <2>2, EventSteps
    <3>2. EpochStaysReadable'
      <4>1. LayerContractAdmits(job[p].event)
        BY <1>2, <2>2, <3>1 DEF ContractStands
      <4>2. job[p].event.layer \in BOOLEAN
        BY <3>1, OffersAssumption DEF Event
      <4>3. QED
        BY <2>2, <3>1, <4>1, <4>2, InstallKeepsEpoch DEF EpochStaysReadable
    <3>3. \A q \in Procs : pc'[q] # "validated"
      <4> SUFFICES ASSUME NEW q \in Procs, pc'[q] = "validated" PROVE FALSE
        OBVIOUS
      <4>1. q # p
        BY <3>1
      <4>2. contractLock' = q /\ contractLock' = p
        BY <1>2, <2>2, <3>1 DEF Inv, LocksHeld, Inside
      <4>3. QED
        BY <4>1, <4>2
    <3>4. QED
      BY <3>2, <3>3 DEF ContractStands
  <2>3. CASE UNCHANGED events
    <3>1. EpochStaysReadable'
      BY <1>2, <2>3 DEF EpochStaysReadable, EpochReadable, Activations
    <3>2. ASSUME NEW q \in Procs, pc'[q] = "validated"
          PROVE  \/ pc[q] = "validated" /\ job'[q] = job[q]
                 \/ Admissible(job[q].event, job[q].cites) /\ job' = job
      <4>1. CASE ValidateInputs(q)
        BY <4>1 DEF ValidateInputs
      <4>2. CASE ~ValidateInputs(q)
        BY <1>2, <3>2, <4>2
        DEF Next, Step, Prepare, TakeContractLock, TakePointerLock,
            ValidateSender, ValidateInputs, InstallEvent, ReplacePointer,
            Refuse, Fail, Leave, ListenerChange, vars, Inv, TypeOK
      <4>3. QED
        BY <4>1, <4>2
    <3>3. ContractStands'
      <4> SUFFICES ASSUME ContractEnabled, NEW q \in Procs, pc'[q] = "validated"
                   PROVE  /\ FailureLoopAdmits(job[q].event, job[q].cites)'
                          /\ LayerContractAdmits(job[q].event)'
        BY DEF ContractStands
      <4>1. /\ FailureLoopAdmits(job[q].event, job[q].cites)
            /\ LayerContractAdmits(job[q].event)
            /\ job'[q] = job[q]
        BY <1>2, <3>2 DEF ContractStands, Admissible
      <4>2. Failures' = Failures /\ Ambiguous' = Ambiguous
            /\ Activations' = Activations /\ EpochReadable' = EpochReadable
        BY <2>3 DEF Failures, Ambiguous, Activations, EpochReadable
      <4>3. QED
        BY <4>1, <4>2 DEF FailureLoopAdmits, LayerContractAdmits
    <3>4. QED
      BY <3>1, <3>3
  <2>4. QED
    BY <2>1, <2>2, <2>3
<1>3. QED
  BY <1>1, <1>2, Inductive, PTL DEF Spec

\* Two activations, or a layer with no activation, never reach a ledger under
\* contract (publisher.py:763-779).
THEOREM EpochAlwaysReadable == Spec => []EpochStaysReadable
BY ContractInductive, PTL

\* Under contract, an installed event carries a layer exactly when the
\* activation is there, on every route (publisher.py:782-834).
THEOREM LayersFollow == Spec => LayerFollowsActivation
<1>1. ASSUME Inv, ContractStands, [Next]_vars
      PROVE  ContractEnabled =>
               \A e \in events' \ events :
                 IF e.kind = "activation" THEN Activations = {}
                                          ELSE e.layer <=> Activations # {}
  <2> SUFFICES ASSUME ContractEnabled, NEW e \in events' \ events
               PROVE  IF e.kind = "activation" THEN Activations = {}
                                               ELSE e.layer <=> Activations # {}
    OBVIOUS
  <2>1. PICK p \in Procs :
          pc[p] = "validated" /\ events' = events \cup {job[p].event}
    BY <1>1, EventSteps
  <2>2. e = job[p].event
    BY <2>1
  <2>3. LayerContractAdmits(e)
    BY <1>1, <2>1, <2>2 DEF ContractStands
  <2>4. QED
    BY <2>3 DEF LayerContractAdmits
<1>2. QED
  BY <1>1, Inductive, ContractInductive, PTL DEF Spec, LayerFollowsActivation

Finite == IsFiniteSet(events)

\* The ledger is finite at any time, so its failures can be counted.
LEMMA LedgerFinite == Spec => []Finite
<1>1. Init => Finite
  BY FS_EmptySet DEF Init, Finite
<1>2. ASSUME Inv, [Next]_vars, Finite
      PROVE  Finite'
  <2>1. CASE events' # events
    <3>1. PICK p \in Procs : events' = events \cup {job[p].event}
      BY <1>2, <2>1, EventSteps
    <3>2. QED
      BY <1>2, <3>1, FS_AddElement DEF Finite
  <2>2. CASE events' = events
    BY <1>2, <2>2 DEF Finite
  <2>3. QED
    BY <2>1, <2>2
<1>3. QED
  BY <1>1, <1>2, Inductive, PTL DEF Spec

\* Under contract, a third authority cites the failures of the ledger it joins
\* (publisher.py:854-894).
THEOREM AuthoritiesCapped == Spec => AuthorityIsCapped
<1>1. ASSUME ContractStands, Finite, [Next]_vars
      PROVE  ContractEnabled =>
               \A p \in Procs :
                 /\ pc[p] = "validated" /\ pc'[p] = "installed"
                 /\ IsAuthority(job[p].event)
                 /\ Cardinality(Failures) >= 2
                 => job[p].cites = Failures
  <2> SUFFICES ASSUME ContractEnabled, NEW p \in Procs,
                      pc[p] = "validated", IsAuthority(job[p].event),
                      Cardinality(Failures) >= 2
               PROVE  job[p].cites = Failures
    OBVIOUS
  <2>1. Cardinality(Failures) \in Nat
    <3>1. IsFiniteSet(Failures)
      BY <1>1, FS_Subset DEF Failures, Finite
    <3>2. QED
      BY <3>1, FS_CardinalityType
  <2>2. Cardinality(Failures) < 2 \/ job[p].cites = Failures
    BY <1>1 DEF ContractStands, FailureLoopAdmits
  <2>3. QED
    BY <2>1, <2>2
<1>2. QED
  BY <1>1, ContractInductive, LedgerFinite, PTL DEF Spec, AuthorityIsCapped
=============================================================================
