---------------------------- MODULE LedgerProofs -----------------------------
(***************************************************************************)
(* Proofs about Ledger, for any number of publishers, events, files, texts *)
(* and disturbances.                                                       *)
(*                                                                         *)
(* The argument for the publisher: a reference that was verified and whose *)
(* target was not touched since still is what it names, so an event joins  *)
(* the history with sound references or as tampered; later changes are     *)
(* tampering by definition, and a lock keeps out the sequences under it.   *)
(* The argument for the audit: what it has loaded, and what it still has   *)
(* to check, was there at some moment, and whatever is no longer there was *)
(* tampered with; and what is broken all along is listed, then loaded,     *)
(* then left to check, then a defect, unless a defect came first.          *)
(***************************************************************************)
EXTENDS Ledger, TLAPS

\* A file of e's identity is there that its lock keeps out.
TakenHere(e) ==
  \E f \in Events :
    disk[f] # Absent /\ Together(f, e) /\ Identity[f] = Identity[e]

\* Past the lock a process holds it, and no other event takes its sequence
\* under it while the references are verified.
SequenceIsFree ==
  \A p \in Procs :
    /\ pc[p] \in {"locked", "checking"} => lock[JobLock(p)] = p
    /\ pc[p] = "checking" => ~TakenHere(job[p].event)

\* Nothing is in the history but installed events, one per sequence and lock,
\* and what is no longer intact was tampered with.
HistoryIsSound ==
  /\ \A e \in Events : disk[e] # Absent => e \in installed
  /\ \A e \in installed : disk[e] # Intact => e \in tampered
  /\ \A e, f \in Events :
       /\ disk[e] # Absent /\ disk[f] # Absent
       /\ Identity[e] = Identity[f] /\ Together(e, f)
       => e = f

\* A reference of a publication is verified, or still to be; and verified ones
\* stand unless stirred, with all that an index declares.
Stands(j) ==
  /\ j.bound \subseteq j.left \cup j.checked
  /\ \A r \in j.checked \ j.stirred :
       /\ disk[r.path] = r.digest
       /\ \/ r \in j.open
          \/ r.index => Listed(r) \subseteq j.checked \cup j.left

VerifiedStands ==
  \A p \in Procs :
    /\ pc[p] \in {"binding", "locked"} => job[p].checked = {}
    /\ pc[p] = "checking" => Stands(job[p])

BreakageIsTampering ==
  \A e \in installed : \A r \in binding[e] :
    Breaks(r, disk[r.path]) => e \in tampered

PublisherInv ==
  /\ TypeOK
  /\ SequenceIsFree
  /\ HistoryIsSound
  /\ VerifiedStands
  /\ BreakageIsTampering

\* What the audit has in hand and is no longer so was tampered with.
ScanIsExplained ==
  /\ \A e \in scan.listed \cup scan.loaded :
       disk[e] # Absent \/ e \in tampered
  /\ \A e, f \in scan.loaded :
       e # f /\ Identity[e] = Identity[f] /\ Together(e, f)
       => e \in tampered \/ f \in tampered
  /\ \A b \in scan.left :
       b[1] \in scan.loaded /\ (b[1] \in tampered \/ b[2] \in binding[b[1]])

Explained(e) == e \in tampered \/ \E r \in binding[e] : Foreign(r)

\* Whatever is not benign has a cause.
AlarmsExplained ==
  \A d \in Reader!Alarms : d[2] \in installed /\ Explained(d[2])

\* What was broken all along is on its way to being a defect.
NothingSlips ==
  \/ Reader!Alarms # {}
  \/ scan.at = "rest"
  \/ /\ scan.at = "load"
     /\ \A b \in broken :
          \/ b[1] \in scan.listed \cup scan.loaded
          \/ DirOf[b[1]] > scan.dir
  \/ scan.at = "check" /\ broken \subseteq scan.left
  \/ scan.at = "done" /\ broken = {}

Inv ==
  /\ PublisherInv
  /\ ScanIsExplained
  /\ AlarmsExplained
  /\ NothingSlips

-----------------------------------------------------------------------------
\* What is no digest is told from every digest.
LEMMA NoDigest ==
  /\ Absent \notin Digests /\ Symlink \notin Digests /\ Unbound \notin Digests
  /\ Absent # Symlink /\ Intact \in Digests /\ Intact # Absent
  /\ Garbage # Absent /\ Garbage # Intact /\ Intact # Symlink
BY TextsAssumption DEF Digests, EventBytes, Absent, Symlink, Unbound, Intact,
                       Garbage

\* The fields of a job and of a reference.
LEMMA JobFields ==
  ASSUME TypeOK, NEW p \in Procs
  PROVE  /\ job[p].bound \in Bound /\ job[p].open \in Bound
         /\ job[p].checked \in Bound /\ job[p].stirred \in Bound
         /\ job[p].left \in SUBSET Reference(Digests \cup {Unbound})
         /\ job[p].event \in Events \cup {Nobody}
         /\ job[p] \in Job
BY DEF TypeOK, Job

LEMMA ReferenceFields ==
  ASSUME NEW D, NEW r \in Reference(D)
  PROVE  r.path \in Paths /\ r.digest \in D
BY DEF Reference

LEMMA ScanFields ==
  ASSUME TypeOK
  PROVE  /\ scan.at \in {"rest", "load", "check", "done"}
         /\ scan.dir \in 0..DirCount
         /\ scan.listed \in SUBSET Events /\ scan.loaded \in SUBSET Events
         /\ scan.left \in SUBSET (Events \X Reference(Digests))
         /\ scan.defects \in SUBSET (Reader!Kinds \X Events)
         /\ scan \in Scan
BY DEF TypeOK, Scan

\* A disturbance changes one path: a file, or an event that was intact.
LEMMA OneChange ==
  ASSUME Environment
  PROVE  \E path \in Paths, c \in {Absent, Symlink} \cup Digests :
           /\ Changes(path, c)
           /\ path \in Events => disk[path] = Intact
<1>1. ASSUME NEW f \in Files, Edit(f)
      PROVE  \E c \in {Absent, Symlink} \cup Digests : Changes(f, c)
  BY <1>1 DEF Edit, Digests
<1>2. ASSUME NEW e \in Events, Damage(e)
      PROVE  disk[e] = Intact
             /\ \E c \in {Absent, Symlink} \cup Digests : Changes(e, c)
  BY <1>2 DEF Damage, Digests, EventBytes
<1>3. QED
  BY <1>1, <1>2, PathsAssumption DEF Environment, Paths

-----------------------------------------------------------------------------
(***************************************************************************)
(* The publishers.                                                         *)
(***************************************************************************)

\* What is known of the history after every step of a publisher or of the
\* environment.
LEMMA TamperingFacts ==
  ASSUME TypeOK, Tampering
  PROVE  /\ tampered \subseteq tampered'
         /\ \A e \in installed :
              disk[e] = Intact /\ disk'[e] # Intact => e \in tampered'
         /\ \A e \in installed : \A r \in binding[e] :
              ~Breaks(r, disk[r.path]) /\ Breaks(r, disk'[r.path])
                => e \in tampered'
         /\ \A p \in Procs :
              Links(p) /\ (\E r \in job[p].bound \cap job[p].stirred :
                             Breaks(r, disk[r.path]))
                => job[p].event \in tampered'
<1>1. ASSUME NEW e \in installed, NEW r \in binding[e],
             ~Breaks(r, disk[r.path]), Breaks(r, disk'[r.path])
      PROVE  e \in tampered'
  <2>1. <<e, r>> \in Declared
    BY DEF Declared
  <2>2. <<e, r>>[1] = e /\ <<e, r>>[2] = r
    OBVIOUS
  <2>3. <<e, r>> \in {c \in Declared : ~Breaks(c[2], disk[c[2].path])
                                        /\ Breaks(c[2], disk'[c[2].path])}
    BY <1>1, <2>1, <2>2
  <2>4. e \in {b[1] : b \in {c \in Declared : ~Breaks(c[2], disk[c[2].path])
                                        /\ Breaks(c[2], disk'[c[2].path])}}
    BY <2>2, <2>3
  <2>5. QED
    BY <2>4 DEF Tampering
<1>2. QED
  BY <1>1 DEF Tampering

\* Only installed events are tampered with.
LEMMA TamperedAreInstalled ==
  ASSUME TypeOK, Tampering, installed \subseteq installed'
  PROVE  tampered' \subseteq installed'
<1>1. {b[1] : b \in {c \in Declared : ~Breaks(c[2], disk[c[2].path])
                                      /\ Breaks(c[2], disk'[c[2].path])}}
        \subseteq installed
  BY DEF Declared
<1>2. {job[p].event : p \in
            {q \in Procs : /\ Links(q)
                           /\ \E r \in job[q].bound \cap job[q].stirred :
                                Breaks(r, disk[r.path])}} \subseteq installed'
  BY DEF Links
<1>3. QED
  BY <1>1, <1>2 DEF Tampering, TypeOK

\* What a step leaves as it was, and what is left to show then.
Quietly ==
  /\ Tampering
  /\ broken' = broken \cap BrokenNow'
  /\ UNCHANGED <<disk, installed, binding, faults, scan>>

LEMMA QuietStep ==
  ASSUME PublisherInv, Quietly,
         lock' \in [Locks -> Procs \cup {Nobody}],
         pc' \in [Procs -> {"idle", "binding", "locked", "checking"}],
         job' \in [Procs -> Job],
         \A p \in Procs :
           /\ pc'[p] # "idle" => job'[p].event \in Events
           /\ pc'[p] = "checking" => job'[p].left \in Bound,
         SequenceIsFree', VerifiedStands'
  PROVE  PublisherInv'
<1>1. TypeOK /\ HistoryIsSound /\ BreakageIsTampering
  BY DEF PublisherInv
<1>2. tampered \subseteq tampered' /\ tampered' \subseteq installed'
  BY <1>1, TamperingFacts, TamperedAreInstalled DEF Quietly
<1>3. BrokenNow' = BrokenNow
  BY DEF Quietly, BrokenNow, Declared, Breaks
<1>4. TypeOK'
  BY <1>1, <1>2, <1>3 DEF TypeOK, Quietly
<1>5. HistoryIsSound'
  BY <1>1, <1>2 DEF HistoryIsSound, Quietly
<1>6. BreakageIsTampering'
  BY <1>1, <1>2 DEF BreakageIsTampering, Quietly, Breaks
<1>7. QED
  BY <1>4, <1>5, <1>6 DEF PublisherInv

\* A quiet step of one process, which may take or free locks.
LEMMA OneProcess ==
  ASSUME PublisherInv, Quietly, NEW p \in Procs, NEW j \in Job,
         NEW at \in {"idle", "binding", "locked", "checking"},
         job' = [job EXCEPT ![p] = j], pc' = [pc EXCEPT ![p] = at],
         lock' \in [Locks -> Procs \cup {Nobody}],
         \A l \in Locks : lock[l] \in Procs \ {p} => lock'[l] = lock[l],
         at # "idle" => j.event \in Events,
         at \in {"locked", "checking"} => lock'[LockOf[j.event]] = p,
         at \in {"binding", "locked"} => j.checked = {},
         at = "checking" =>
           j.left \in Bound /\ ~TakenHere(j.event) /\ Stands(j)
  PROVE  PublisherInv'
<1>1. TypeOK /\ SequenceIsFree /\ VerifiedStands
  BY DEF PublisherInv
<1>2. /\ job \in [Procs -> Job]
      /\ pc \in [Procs -> {"idle", "binding", "locked", "checking"}]
  BY <1>1 DEF TypeOK
<1>3. /\ job'[p] = j /\ pc'[p] = at
      /\ \A q \in Procs : q # p => job'[q] = job[q] /\ pc'[q] = pc[q]
  BY <1>2
<1>4. job' \in [Procs -> Job]
      /\ pc' \in [Procs -> {"idle", "binding", "locked", "checking"}]
  BY <1>2
<1>5. \A q \in Procs :
        /\ pc'[q] # "idle" => job'[q].event \in Events
        /\ pc'[q] = "checking" => job'[q].left \in Bound
  BY <1>1, <1>3 DEF TypeOK
<1>6. SequenceIsFree'
  <2> SUFFICES ASSUME NEW q \in Procs
               PROVE  /\ pc'[q] \in {"locked", "checking"} => lock'[JobLock(q)'] = q
                      /\ pc'[q] = "checking" => ~TakenHere(job[q].event)'
    BY DEF SequenceIsFree
  <2>1. CASE q = p
    BY <1>3, <2>1 DEF JobLock, TakenHere, Quietly
  <2>2. CASE q # p
    <3>1. job'[q] = job[q] /\ pc'[q] = pc[q]
      BY <1>3, <2>2
    <3>2. CASE pc[q] \in {"locked", "checking"}
      <4>1. JobLock(q) \in Locks /\ JobLock(q)' = JobLock(q)
        BY <1>1, <3>1, <3>2 DEF JobLock, Locks, TypeOK
      <4>2. lock[JobLock(q)] = q /\ q \in Procs \ {p}
        BY <1>1, <2>2, <3>2 DEF SequenceIsFree
      <4>3. lock'[JobLock(q)'] = q
        BY <4>1, <4>2
      <4>4. pc'[q] = "checking" => ~TakenHere(job[q].event)'
        BY <1>1, <3>1, <3>2 DEF SequenceIsFree, TakenHere, Quietly
      <4>5. QED
        BY <4>3, <4>4
    <3>3. QED
      BY <3>1, <3>2
  <2>3. QED
    BY <2>1, <2>2
<1>7. VerifiedStands'
  <2> SUFFICES ASSUME NEW q \in Procs
               PROVE  /\ pc'[q] \in {"binding", "locked"} => job'[q].checked = {}
                      /\ pc'[q] = "checking" => Stands(job[q])'
    BY DEF VerifiedStands
  <2>1. CASE q = p
    BY <1>3, <2>1 DEF Stands, Listed, Quietly
  <2>2. CASE q # p
    BY <1>1, <1>3, <2>2 DEF VerifiedStands, Stands, Listed, Quietly
  <2>3. QED
    BY <2>1, <2>2
<1>8. QED
  BY <1>4, <1>5, <1>6, <1>7, QuietStep

LEMMA PrepareStep ==
  ASSUME PublisherInv, Quietly, NEW p \in Procs, Prepare(p)
  PROVE  PublisherInv'
<1>1. PICK e \in Events \ installed :
        job' = [job EXCEPT ![p] =
                 [Idle EXCEPT !.event = e,
                              !.bound = {r \in Refs[e] : r.digest # Unbound},
                              !.left = {r \in Refs[e] : r.digest = Unbound}]]
  BY DEF Prepare
<1> DEFINE new == [Idle EXCEPT !.event = e,
                              !.bound = {r \in Refs[e] : r.digest # Unbound},
                              !.left = {r \in Refs[e] : r.digest = Unbound}]
<1>2. /\ \A r \in Refs[e] : r.digest # Unbound => r \in Reference(Digests)
      /\ Refs[e] \subseteq Reference(Digests \cup {Unbound})
  BY RefsAssumption DEF Reference
<1>3. new \in Job /\ new.event \in Events /\ new.checked = {}
  BY <1>2 DEF Job, Bound, Idle
<1>4. /\ pc' = [pc EXCEPT ![p] = "binding"] /\ lock' = lock
      /\ lock \in [Locks -> Procs \cup {Nobody}]
  BY DEF Prepare, PublisherInv, TypeOK
<1> HIDE DEF new
<1>5. job' = [job EXCEPT ![p] = new]
  BY <1>1 DEF new
<1>6. QED
  BY <1>3, <1>4, <1>5, OneProcess

LEMMA BindStep ==
  ASSUME PublisherInv, Quietly, NEW p \in Procs, NEW r \in job[p].left,
         Bind(p, r)
  PROVE  PublisherInv'
<1> DEFINE new == [job[p] EXCEPT !.left = @ \ {r},
                     !.bound = @ \cup {[r EXCEPT !.digest = disk[r.path]]}]
<1>1. TypeOK /\ VerifiedStands
  BY DEF PublisherInv
<1>2. r \in Reference(Digests \cup {Unbound}) /\ job[p] \in Job
  BY <1>1, JobFields
<1>3. disk[r.path] \in Digests
  BY <1>1, <1>2, ReferenceFields DEF Bind, Readable, TypeOK
<1>4. [r EXCEPT !.digest = disk[r.path]] \in Reference(Digests)
  BY <1>2, <1>3 DEF Reference
<1>5. new \in Job /\ new.event = job[p].event /\ new.checked = {}
  BY <1>1, <1>2, <1>4 DEF Job, Bound, VerifiedStands, Bind
<1>6. /\ job' = [job EXCEPT ![p] = new]
      /\ pc' = [pc EXCEPT ![p] = "binding"] /\ lock' = lock
      /\ lock \in [Locks -> Procs \cup {Nobody}]
      /\ job[p].event \in Events
  BY <1>1 DEF Bind, TypeOK
<1> HIDE DEF new
<1>7. QED
  BY <1>5, <1>6, OneProcess

LEMMA TakeLockStep ==
  ASSUME PublisherInv, Quietly, NEW p \in Procs, TakeLock(p)
  PROVE  PublisherInv'
<1>1. TypeOK /\ VerifiedStands
  BY DEF PublisherInv
<1>2. job[p] \in Job /\ job[p].event \in Events /\ job[p].checked = {}
  BY <1>1, JobFields DEF TakeLock, TypeOK, VerifiedStands
<1>3. JobLock(p) \in Locks
  BY <1>2 DEF JobLock, Locks
<1>4. /\ job' = [job EXCEPT ![p] = job[p]]
      /\ pc' = [pc EXCEPT ![p] = "locked"]
      /\ lock' = [lock EXCEPT ![JobLock(p)] = p]
      /\ lock \in [Locks -> Procs \cup {Nobody}]
      /\ lock[JobLock(p)] \notin Procs
  BY <1>1, NobodyRefsAssumption DEF TakeLock, TypeOK, LockFree
<1>5. /\ lock' \in [Locks -> Procs \cup {Nobody}]
      /\ lock'[LockOf[job[p].event]] = p
      /\ \A l \in Locks : lock[l] \in Procs \ {p} => lock'[l] = lock[l]
  BY <1>3, <1>4 DEF JobLock
<1>6. QED
  BY <1>2, <1>4, <1>5, OneProcess

LEMMA ValidateSequenceStep ==
  ASSUME PublisherInv, Quietly, NEW p \in Procs, ValidateSequence(p)
  PROVE  PublisherInv'
<1> DEFINE new == [job[p] EXCEPT !.left = job[p].bound]
<1>1. TypeOK /\ SequenceIsFree /\ VerifiedStands
  BY DEF PublisherInv
<1>2. job[p] \in Job /\ job[p].event \in Events /\ pc[p] = "locked"
  BY <1>1, JobFields DEF ValidateSequence, TypeOK
<1>3. new \in Job /\ new.event = job[p].event /\ new.left \in Bound
  BY <1>2 DEF Job, Bound, Reference
<1>4. Stands(new) /\ ~TakenHere(new.event)
  BY <1>1, <1>2, <1>3
     DEF Stands, VerifiedStands, ValidateSequence, SequenceTaken, TakenHere,
         Together, Job
<1>5. /\ job' = [job EXCEPT ![p] = new]
      /\ pc' = [pc EXCEPT ![p] = "checking"] /\ lock' = lock
      /\ lock \in [Locks -> Procs \cup {Nobody}]
      /\ lock[LockOf[job[p].event]] = p
  BY <1>1, <1>2 DEF ValidateSequence, TypeOK, SequenceIsFree, JobLock
<1> HIDE DEF new
<1>6. QED
  BY <1>2, <1>3, <1>4, <1>5, OneProcess

\* What a process holds while it verifies.
LEMMA Verifying ==
  ASSUME PublisherInv, NEW p \in Procs, pc[p] = "checking"
  PROVE  /\ job[p] \in Job /\ job[p].event \in Events
         /\ job[p].left \in Bound
         /\ lock[LockOf[job[p].event]] = p
         /\ ~TakenHere(job[p].event)
         /\ Stands(job[p])
BY JobFields DEF PublisherInv, TypeOK, SequenceIsFree, VerifiedStands, JobLock

LEMMA CheckReferenceStep ==
  ASSUME PublisherInv, Quietly, NEW p \in Procs, NEW r \in job[p].left,
         CheckReference(p, r)
  PROVE  PublisherInv'
<1> DEFINE j == job[p]
           new == [j EXCEPT !.left = @ \ {r},
                            !.open = IF r.index THEN @ \cup {r} ELSE @,
                            !.checked = @ \cup {r},
                            !.stirred = @ \ {r}]
<1>1. /\ j \in Job /\ j.event \in Events /\ j.left \in Bound
      /\ lock[LockOf[j.event]] = p
      /\ ~TakenHere(j.event) /\ Stands(j)
  BY Verifying DEF CheckReference
<1>2. /\ new \in Job /\ new.event = j.event /\ new.left \in Bound
      /\ new.bound = j.bound /\ new.left = j.left \ {r}
      /\ new.checked = j.checked \cup {r} /\ new.stirred = j.stirred \ {r}
      /\ new.open = IF r.index THEN j.open \cup {r} ELSE j.open
  BY <1>1 DEF Job, Bound
<1>3. disk[r.path] = r.digest
  BY DEF CheckReference, Verifies
<1>4. new.checked \cup new.left = j.checked \cup j.left
  BY <1>2
<1>5. Stands(new)
  <2>1. new.bound \subseteq new.left \cup new.checked
    BY <1>1, <1>2 DEF Stands
  <2>2. ASSUME NEW s \in new.checked \ new.stirred
        PROVE  /\ disk[s.path] = s.digest
               /\ \/ s \in new.open
                  \/ s.index => Listed(s) \subseteq new.checked \cup new.left
    <3>1. CASE s = r
      BY <1>2, <1>3, <3>1
    <3>2. CASE s # r
      <4>1. s \in j.checked \ j.stirred
        BY <1>2, <2>2, <3>2
      <4>2. s \in j.open => s \in new.open
        BY <1>2
      <4>3. QED
        BY <1>1, <1>4, <4>1, <4>2 DEF Stands
    <3>3. QED
      BY <3>1, <3>2
  <2>3. QED
    BY <2>1, <2>2 DEF Stands
<1>6. /\ job' = [job EXCEPT ![p] = new]
      /\ pc' = [pc EXCEPT ![p] = "checking"] /\ lock' = lock
      /\ lock \in [Locks -> Procs \cup {Nobody}]
  BY DEF CheckReference, PublisherInv, TypeOK
<1> HIDE DEF new
<1>7. QED
  BY <1>1, <1>2, <1>5, <1>6, OneProcess

LEMMA OpenIndexStep ==
  ASSUME PublisherInv, Quietly, NEW p \in Procs, NEW r \in job[p].open,
         OpenIndex(p, r)
  PROVE  PublisherInv'
<1>1. PICK declared \in Contents(r.path) :
        job' = [job EXCEPT ![p].open = @ \ {r}, ![p].left = @ \cup declared]
  BY DEF OpenIndex
<1> DEFINE j == job[p]
           new == [j EXCEPT !.open = @ \ {r}, !.left = @ \cup declared]
<1>2. /\ j \in Job /\ j.event \in Events /\ j.left \in Bound
      /\ lock[LockOf[j.event]] = p
      /\ ~TakenHere(j.event) /\ Stands(j)
  BY Verifying DEF OpenIndex
<1>3. declared \in Bound
  BY <1>1, RefsAssumption DEF Contents, Bound, PublisherInv, TypeOK
<1>4. /\ new \in Job /\ new.event = j.event /\ new.left \in Bound
      /\ new.bound = j.bound /\ new.left = j.left \cup declared
      /\ new.checked = j.checked /\ new.stirred = j.stirred
      /\ new.open = j.open \ {r}
  <2>1. j.left \cup declared \in Bound
    BY <1>2, <1>3 DEF Bound
  <2>2. j.left \cup declared \in SUBSET Reference(Digests \cup {Unbound})
    BY <2>1 DEF Bound, Reference
  <2>3. j.open \ {r} \in Bound
    BY <1>2 DEF Job, Bound
  <2>4. new \in Job
    BY <1>2, <2>2, <2>3 DEF Job
  <2>5. QED
    BY <1>2, <2>1, <2>4 DEF Job
<1>5. Stands(new)
  <2>1. new.bound \subseteq new.left \cup new.checked
    BY <1>2, <1>4 DEF Stands
  <2>2. ASSUME NEW s \in new.checked \ new.stirred
        PROVE  /\ disk[s.path] = s.digest
               /\ \/ s \in new.open
                  \/ s.index => Listed(s) \subseteq new.checked \cup new.left
    <3>1. disk[s.path] = s.digest /\ s.digest \in Digests
      BY <1>2, <1>4, <2>2, ReferenceFields DEF Stands, Job, Bound
    <3>2. CASE s = r
      <4>1. declared = Listed(s)
        BY <1>1, <3>1, <3>2, NoDigest DEF Contents, Listed
      <4>2. QED
        BY <1>4, <3>1, <4>1
    <3>3. CASE s # r
      BY <1>2, <1>4, <2>2, <3>3 DEF Stands
    <3>4. QED
      BY <3>2, <3>3
  <2>3. QED
    BY <2>1, <2>2 DEF Stands
<1>6. /\ job' = [job EXCEPT ![p] = new]
      /\ pc' = [pc EXCEPT ![p] = "checking"] /\ lock' = lock
      /\ lock \in [Locks -> Procs \cup {Nobody}]
  BY <1>1 DEF OpenIndex, PublisherInv, TypeOK
<1> HIDE DEF new
<1>7. QED
  BY <1>2, <1>4, <1>5, <1>6, OneProcess

\* A publication that ends without a link.
LEMMA LeaveStep ==
  ASSUME PublisherInv, Quietly, NEW p \in Procs, Leave(p)
  PROVE  PublisherInv'
<1>1. Idle \in Job
  BY DEF Job, Bound, Idle
<1>2. /\ lock' \in [Locks -> Procs \cup {Nobody}]
      /\ \A l \in Locks : lock[l] \in Procs \ {p} => lock'[l] = lock[l]
      /\ job' = [job EXCEPT ![p] = Idle] /\ pc' = [pc EXCEPT ![p] = "idle"]
  BY DEF Leave, PublisherInv, TypeOK
<1>3. QED
  BY <1>1, <1>2, OneProcess

\* The link: the new event has sound references or is tampered with.
LEMMA InstallStep ==
  ASSUME PublisherInv, NEW p \in Procs, Install(p), Tampering,
         broken' = broken \cap BrokenNow', UNCHANGED scan
  PROVE  PublisherInv'
<1> DEFINE e == job[p].event
<1>1. TypeOK /\ HistoryIsSound /\ BreakageIsTampering /\ SequenceIsFree
      /\ VerifiedStands /\ pc[p] = "checking"
  BY DEF PublisherInv, Install
<1>2. /\ job[p] \in Job /\ e \in Events /\ job[p].left = {}
      /\ job[p].bound \in Bound
      /\ lock[LockOf[e]] = p
      /\ ~TakenHere(e) /\ Stands(job[p])
      /\ disk[e] = Absent
  BY <1>1, Verifying DEF Install, Job
<1>3. /\ disk' = [disk EXCEPT ![e] = Intact]
      /\ installed' = installed \cup {e}
      /\ binding' = [binding EXCEPT ![e] = job[p].bound]
      /\ pc' = [pc EXCEPT ![p] = "idle"] /\ job' = [job EXCEPT ![p] = Idle]
      /\ lock' = [l \in Locks |-> IF lock[l] = p THEN Nobody ELSE lock[l]]
      /\ faults' = faults
  BY DEF Install, Leave
<1>4. /\ disk \in [Paths -> {Absent, Symlink} \cup Digests]
      /\ binding \in [Events -> Bound] /\ job \in [Procs -> Job]
      /\ pc \in [Procs -> {"idle", "binding", "locked", "checking"}]
      /\ lock \in [Locks -> Procs \cup {Nobody}]
      /\ installed \subseteq Events /\ e \in Paths
  BY <1>1, <1>2 DEF TypeOK, Paths
<1>5. /\ disk'[e] = Intact /\ \A x \in Paths : x # e => disk'[x] = disk[x]
      /\ binding'[e] = job[p].bound
      /\ \A f \in Events : f # e => binding'[f] = binding[f]
      /\ \A q \in Procs : q # p => job'[q] = job[q] /\ pc'[q] = pc[q]
      /\ job'[p] = Idle /\ pc'[p] = "idle"
  BY <1>2, <1>3, <1>4
<1>6. tampered \subseteq tampered' /\ tampered' \subseteq installed'
  BY <1>1, <1>3, TamperingFacts, TamperedAreInstalled
<1>7. TypeOK'
  <2>1. disk' \in [Paths -> {Absent, Symlink} \cup Digests]
    BY <1>3, <1>4, NoDigest
  <2>2. binding' \in [Events -> Bound]
    BY <1>2, <1>3, <1>4
  <2>3. Idle \in Job
    BY DEF Job, Bound, Idle
  <2>4. /\ lock' \in [Locks -> Procs \cup {Nobody}]
        /\ pc' \in [Procs -> {"idle", "binding", "locked", "checking"}]
        /\ job' \in [Procs -> Job]
    BY <1>3, <1>4, <2>3
  <2>5. \A q \in Procs :
          /\ pc'[q] # "idle" => job'[q].event \in Events
          /\ pc'[q] = "checking" => job'[q].left \in Bound
    BY <1>1, <1>5 DEF TypeOK
  <2>6. installed' \subseteq Events /\ installed \subseteq installed'
    BY <1>2, <1>3, <1>4
  <2>7. scan' \in Scan /\ scan'.listed \cup scan'.loaded \subseteq installed'
    BY <1>1, <2>6 DEF TypeOK
  <2>8. faults' \in Nat /\ broken' \subseteq BrokenNow'
    BY <1>1, <1>3 DEF TypeOK
  <2>9. QED
    BY <1>6, <2>1, <2>2, <2>4, <2>5, <2>6, <2>7, <2>8 DEF TypeOK
<1>8. SequenceIsFree'
  <2> SUFFICES ASSUME NEW q \in Procs
               PROVE  /\ pc'[q] \in {"locked", "checking"} => lock'[JobLock(q)'] = q
                      /\ pc'[q] = "checking" => ~TakenHere(job[q].event)'
    BY DEF SequenceIsFree
  <2>1. CASE q = p
    BY <1>5, <2>1
  <2>2. CASE q # p /\ pc[q] \in {"locked", "checking"}
    <3>1. job'[q] = job[q] /\ pc'[q] = pc[q] /\ JobLock(q)' = JobLock(q)
      BY <1>5, <2>2 DEF JobLock
    <3>2. JobLock(q) \in Locks /\ lock[JobLock(q)] = q
      BY <1>1, <2>2 DEF JobLock, Locks, TypeOK, SequenceIsFree
    <3>3. lock'[JobLock(q)'] = q
      BY <1>3, <2>2, <3>1, <3>2
    <3>4. ~Together(e, job[q].event)
      BY <1>2, <2>2, <3>2 DEF JobLock, Together
    <3>5. ASSUME pc[q] = "checking", TakenHere(job[q].event)'
          PROVE  FALSE
      <4>1. PICK f \in Events :
              /\ disk'[f] # Absent /\ Together(f, job'[q].event)
              /\ Identity[f] = Identity[job'[q].event]
        BY <3>5 DEF TakenHere, Together
      <4>2. f # e /\ f \in Paths
        BY <3>1, <3>4, <4>1 DEF Paths
      <4>3. TakenHere(job[q].event)
        BY <1>5, <3>1, <4>1, <4>2 DEF TakenHere
      <4>4. QED
        BY <1>1, <3>5, <4>3 DEF SequenceIsFree
    <3>6. QED
      BY <3>1, <3>3, <3>5
  <2>3. CASE q # p /\ pc[q] \notin {"locked", "checking"}
    BY <1>5, <2>3
  <2>4. QED
    BY <2>1, <2>2, <2>3
<1>9. HistoryIsSound'
  <2>1. \A f \in Events : disk'[f] # Absent => f \in installed'
    BY <1>1, <1>3, <1>5 DEF HistoryIsSound, Paths
  <2>2. \A f \in installed' : disk'[f] # Intact => f \in tampered'
    BY <1>1, <1>3, <1>4, <1>5, <1>6 DEF HistoryIsSound, Paths
  <2>3. \A f \in Events :
          disk[f] # Absent /\ Together(f, e) => Identity[f] # Identity[e]
    BY <1>2 DEF TakenHere
  <2>4. \A f, g \in Events :
          /\ disk'[f] # Absent /\ disk'[g] # Absent
          /\ Identity[f] = Identity[g] /\ Together(f, g)
          => f = g
    BY <1>1, <1>5, <2>3 DEF HistoryIsSound, Paths, Together
  <2>5. QED
    BY <2>1, <2>2, <2>4 DEF HistoryIsSound
<1>10. \A r \in Reference(Digests) :
         Breaks(r, disk'[r.path]) => Breaks(r, disk[r.path])
  <2> SUFFICES ASSUME NEW r \in Reference(Digests), Breaks(r, disk'[r.path])
               PROVE  Breaks(r, disk[r.path])
    OBVIOUS
  <2>1. r.path \in Paths /\ r.digest \in Digests
    BY ReferenceFields
  <2>2. CASE r.path = e
    BY <1>2, <1>5, <2>1, <2>2, NoDigest DEF Breaks
  <2>3. CASE r.path # e
    BY <1>5, <2>1, <2>3
  <2>4. QED
    BY <2>2, <2>3
<1>11. VerifiedStands'
  <2> SUFFICES ASSUME NEW q \in Procs
               PROVE  /\ pc'[q] \in {"binding", "locked"} => job'[q].checked = {}
                      /\ pc'[q] = "checking" => Stands(job[q])'
    BY DEF VerifiedStands
  <2>1. CASE q = p
    BY <1>5, <2>1
  <2>2. CASE q # p
    <3>1. job'[q] = job[q] /\ pc'[q] = pc[q]
      BY <1>5, <2>2
    <3>2. ASSUME pc[q] = "checking"
          PROVE  Stands(job[q])'
      <4>1. Stands(job[q]) /\ job[q] \in Job
        BY <1>1, <1>4, <3>2 DEF VerifiedStands
      <4>2. ASSUME NEW r \in job[q].checked, disk[r.path] = r.digest
            PROVE  disk'[r.path] = r.digest /\ Listed(r)' = Listed(r)
        <5>1. r.path \in Paths /\ r.digest \in Digests
          BY <4>1, ReferenceFields DEF Job, Bound
        <5>2. QED
          BY <1>2, <1>5, <4>2, <5>1, NoDigest DEF Listed
      <4>3. QED
        BY <3>1, <4>1, <4>2 DEF Stands
    <3>3. QED
      BY <1>1, <3>1, <3>2 DEF VerifiedStands
  <2>3. QED
    BY <2>1, <2>2
<1>12. BreakageIsTampering'
  <2> SUFFICES ASSUME NEW f \in installed', NEW r \in binding'[f],
                      Breaks(r, disk'[r.path])
               PROVE  f \in tampered'
    BY DEF BreakageIsTampering, Breaks
  <2>1. CASE f # e
    <3>1. f \in installed /\ f \in Events /\ r \in binding[f]
      BY <1>3, <1>4, <1>5, <2>1
    <3>2. r \in Reference(Digests)
      BY <1>4, <3>1 DEF Bound
    <3>3. QED
      BY <1>1, <1>6, <1>10, <3>1, <3>2 DEF BreakageIsTampering
  <2>2. CASE f = e /\ e \in installed
    BY <1>1, <1>2, <1>6, <2>2, NoDigest DEF HistoryIsSound
  <2>3. CASE f = e /\ e \notin installed
    <3>1. Links(p)
      BY <1>1, <1>3, <2>3 DEF Links
    <3>2. r \in job[p].bound /\ r \in Reference(Digests)
      BY <1>2, <1>5, <2>3 DEF Bound
    <3>3. Breaks(r, disk[r.path])
      BY <1>10, <3>2
    <3>4. disk[r.path] # r.digest
      BY <3>2, <3>3, NoDigest, ReferenceFields DEF Breaks
    <3>5. r \in job[p].stirred
      BY <1>2, <3>2, <3>4 DEF Stands
    <3>6. QED
      BY <1>1, <2>3, <3>1, <3>2, <3>3, <3>5, TamperingFacts
  <2>4. QED
    BY <2>1, <2>2, <2>3
<1>13. QED
  BY <1>7, <1>8, <1>9, <1>11, <1>12 DEF PublisherInv

\* A disturbance: what it breaks is tampered with, what it touches stirred.
LEMMA EnvironmentStep ==
  ASSUME PublisherInv, Environment, Tampering,
         broken' = broken \cap BrokenNow', UNCHANGED scan
  PROVE  PublisherInv'
<1>1. TypeOK /\ HistoryIsSound /\ BreakageIsTampering /\ SequenceIsFree
      /\ VerifiedStands
  BY DEF PublisherInv
<1>2. PICK path \in Paths, c \in {Absent, Symlink} \cup Digests :
        /\ Changes(path, c)
        /\ path \in Events => disk[path] = Intact
  BY OneChange
<1>3. /\ disk' = [disk EXCEPT ![path] = c]
      /\ UNCHANGED <<installed, binding, lock, pc>>
      /\ faults' = faults + 1
      /\ job' = [p \in Procs |->
                   [job[p] EXCEPT !.stirred =
                      @ \cup {r \in job[p].checked : r.path = path}]]
  BY <1>2 DEF Changes
<1>4. /\ disk \in [Paths -> {Absent, Symlink} \cup Digests]
      /\ binding \in [Events -> Bound] /\ job \in [Procs -> Job]
      /\ installed \subseteq Events
  BY <1>1 DEF TypeOK
<1>5. /\ disk'[path] = c
      /\ \A x \in Paths : x # path => disk'[x] = disk[x]
  BY <1>3, <1>4
<1>6. \A p \in Procs :
        /\ job'[p] \in Job
        /\ job'[p].event = job[p].event /\ job'[p].left = job[p].left
        /\ job'[p].bound = job[p].bound /\ job'[p].open = job[p].open
        /\ job'[p].checked = job[p].checked
        /\ job'[p].stirred
             = job[p].stirred \cup {r \in job[p].checked : r.path = path}
  BY <1>3, <1>4 DEF Job, Bound
<1>7. tampered \subseteq tampered' /\ tampered' \subseteq installed'
  BY <1>1, <1>3, TamperingFacts, TamperedAreInstalled
<1>8. \A f \in Events : disk'[f] # Absent => disk[f] # Absent
  BY <1>2, <1>5, NoDigest DEF Paths
<1>9. TypeOK'
  <2>1. disk' \in [Paths -> {Absent, Symlink} \cup Digests]
    BY <1>3, <1>4
  <2>2. job' \in [Procs -> Job]
    BY <1>3, <1>6
  <2>3. faults' \in Nat /\ broken' \subseteq BrokenNow'
    BY <1>1, <1>3 DEF TypeOK
  <2>4. QED
    BY <1>1, <1>3, <1>6, <1>7, <2>1, <2>2, <2>3 DEF TypeOK
<1>10. SequenceIsFree'
  <2> SUFFICES ASSUME NEW q \in Procs
               PROVE  /\ pc'[q] \in {"locked", "checking"} => lock'[JobLock(q)'] = q
                      /\ pc'[q] = "checking" => ~TakenHere(job[q].event)'
    BY DEF SequenceIsFree
  <2>1. JobLock(q)' = JobLock(q)
    BY <1>6 DEF JobLock
  <2>2. TakenHere(job[q].event)' => TakenHere(job[q].event)
    BY <1>6, <1>8 DEF TakenHere, Together
  <2>3. QED
    BY <1>1, <1>3, <2>1, <2>2 DEF SequenceIsFree
<1>11. HistoryIsSound'
  <2>1. \A f \in installed : disk'[f] # Intact => f \in tampered'
    BY <1>1, <1>7, TamperingFacts DEF HistoryIsSound
  <2>2. QED
    BY <1>1, <1>3, <1>8, <2>1 DEF HistoryIsSound
<1>12. VerifiedStands'
  <2> SUFFICES ASSUME NEW p \in Procs, pc[p] = "checking"
               PROVE  Stands(job[p])'
    BY <1>1, <1>3, <1>6 DEF VerifiedStands
  <2>1. Stands(job[p]) /\ job[p] \in Job
    BY <1>1, <1>4 DEF VerifiedStands
  <2>2. ASSUME NEW r \in job'[p].checked \ job'[p].stirred
        PROVE  r \in job[p].checked \ job[p].stirred
               /\ disk'[r.path] = disk[r.path]
    <3>1. r \in job[p].checked \ job[p].stirred /\ r.path # path
      BY <1>6, <2>2
    <3>2. r.path \in Paths
      BY <2>1, <3>1, ReferenceFields DEF Job, Bound
    <3>3. QED
      BY <1>5, <3>1, <3>2
  <2>3. \A r : Listed(r)' = Listed(r)
    BY <1>3 DEF Listed
  <2>4. QED
    BY <1>6, <2>1, <2>2, <2>3 DEF Stands
<1>13. BreakageIsTampering'
  <2> SUFFICES ASSUME NEW f \in installed, NEW r \in binding[f],
                      Breaks(r, disk'[r.path])
               PROVE  f \in tampered'
    BY <1>3 DEF BreakageIsTampering, Breaks
  <2>1. QED
    BY <1>1, <1>7, TamperingFacts DEF BreakageIsTampering
<1>14. QED
  BY <1>9, <1>10, <1>11, <1>12, <1>13 DEF PublisherInv

LEMMA WriteStep ==
  ASSUME PublisherInv, Write
  PROVE  PublisherInv'
<1>1. Tampering /\ broken' = broken \cap BrokenNow' /\ UNCHANGED scan
  BY DEF Write
<1>2. CASE Environment
  BY <1>1, <1>2, EnvironmentStep
<1>3. ASSUME NEW p \in Procs, Publish(p)
      PROVE  PublisherInv'
  <2>1. CASE Prepare(p)
    BY <1>1, <2>1, PrepareStep DEF Prepare, Quietly
  <2>2. CASE TakeLock(p)
    BY <1>1, <2>2, TakeLockStep DEF TakeLock, Quietly
  <2>3. CASE ValidateSequence(p)
    BY <1>1, <2>3, ValidateSequenceStep DEF ValidateSequence, Quietly
  <2>4. CASE Install(p)
    BY <1>1, <2>4, InstallStep
  <2>5. ASSUME NEW r \in job[p].left, Bind(p, r)
        PROVE  PublisherInv'
    BY <1>1, <2>5, BindStep DEF Bind, Quietly
  <2>6. ASSUME NEW r \in job[p].left, CheckReference(p, r)
        PROVE  PublisherInv'
    BY <1>1, <2>6, CheckReferenceStep DEF CheckReference, Quietly
  <2>7. ASSUME NEW r \in job[p].open, OpenIndex(p, r)
        PROVE  PublisherInv'
    BY <1>1, <2>7, OpenIndexStep DEF OpenIndex, Quietly
  <2>8. CASE Refuse(p) \/ Fail(p)
    BY <1>1, <2>8, LeaveStep DEF Refuse, Fail, Quietly
  <2>9. QED
    BY <1>3, <2>1, <2>2, <2>3, <2>4, <2>5, <2>6, <2>7, <2>8 DEF Publish
<1>4. QED
  BY <1>2, <1>3 DEF Write

-----------------------------------------------------------------------------
(***************************************************************************)
(* The audit.                                                              *)
(***************************************************************************)

\* No write changes what an installed event declares, unless it was tampered
\* with, and nothing that is gone was not.
LEMMA WhatWritesLeave ==
  ASSUME PublisherInv, Write
  PROVE  /\ installed \subseteq installed' /\ tampered \subseteq tampered'
         /\ \A e \in installed : e \in tampered \/ binding'[e] = binding[e]
         /\ \A e \in installed :
              disk[e] # Absent /\ disk'[e] = Absent => e \in tampered'
<1>1. TypeOK /\ HistoryIsSound /\ Tampering
  BY DEF PublisherInv, Write
<1>2. tampered \subseteq tampered'
      /\ \A e \in installed :
           disk[e] = Intact /\ disk'[e] # Intact => e \in tampered'
  BY <1>1, TamperingFacts
<1>3. \A e \in installed :
        disk[e] # Absent /\ disk'[e] = Absent => e \in tampered'
  BY <1>1, <1>2, NoDigest DEF HistoryIsSound
<1>4. /\ installed \subseteq installed'
      /\ \A e \in installed : e \in tampered \/ binding'[e] = binding[e]
  <2>1. CASE Environment
    BY <2>1, OneChange DEF Changes
  <2>2. ASSUME NEW p \in Procs, Install(p)
        PROVE  /\ installed \subseteq installed'
               /\ \A e \in installed : e \in tampered \/ binding'[e] = binding[e]
    <3>1. \A e \in installed : e # job[p].event => binding'[e] = binding[e]
      BY <1>1, <2>2 DEF Install, TypeOK
    <3>2. job[p].event \in installed => job[p].event \in tampered
      BY <1>1, <2>2, NoDigest DEF Install, HistoryIsSound
    <3>3. QED
      BY <2>2, <3>1, <3>2 DEF Install
  <2>3. ASSUME NEW p \in Procs, Publish(p), ~Install(p)
        PROVE  UNCHANGED <<installed, binding>>
    BY <2>3 DEF Publish, Prepare, Bind, TakeLock, ValidateSequence,
                CheckReference, OpenIndex, Refuse, Fail
  <2>4. QED
    BY <2>1, <2>2, <2>3 DEF Write
<1>5. QED
  BY <1>2, <1>3, <1>4

LEMMA AuditUnderWrites ==
  ASSUME Inv, Write
  PROVE  ScanIsExplained' /\ AlarmsExplained' /\ NothingSlips'
<1>1. /\ TypeOK /\ PublisherInv /\ ScanIsExplained /\ AlarmsExplained
      /\ NothingSlips
  BY DEF Inv, PublisherInv
<1>2. /\ installed \subseteq installed' /\ tampered \subseteq tampered'
      /\ \A e \in installed : e \in tampered \/ binding'[e] = binding[e]
      /\ \A e \in installed :
           disk[e] # Absent /\ disk'[e] = Absent => e \in tampered'
  BY <1>1, WhatWritesLeave
<1>3. scan' = scan /\ broken' \subseteq broken
  BY DEF Write
<1>4. scan.listed \cup scan.loaded \subseteq installed
  BY <1>1 DEF TypeOK
<1>5. Reader!Alarms' = Reader!Alarms
  BY <1>3 DEF Reader!Alarms
<1>6. ScanIsExplained'
  BY <1>1, <1>2, <1>3, <1>4 DEF ScanIsExplained
<1>7. AlarmsExplained'
  BY <1>1, <1>2, <1>5 DEF AlarmsExplained, Explained
<1>8. NothingSlips'
  BY <1>1, <1>3, <1>5 DEF NothingSlips
<1>9. QED
  BY <1>6, <1>7, <1>8

\* The publishers do not notice the audit.
LEMMA PublisherUnderAudit ==
  ASSUME PublisherInv, UNCHANGED <<refVars, tampered>>,
         scan' \in Scan, scan'.listed \cup scan'.loaded \subseteq installed,
         broken' = BrokenNow \/ broken' = broken
  PROVE  PublisherInv'
<1>1. UNCHANGED <<disk, installed, binding, lock, pc, job, faults, tampered>>
  BY DEF refVars
<1>2. BrokenNow' = BrokenNow
  BY <1>1 DEF BrokenNow, Declared, Breaks
<1>3. TypeOK'
  BY <1>1, <1>2 DEF PublisherInv, TypeOK
<1>4. SequenceIsFree' /\ HistoryIsSound'
  BY <1>1 DEF PublisherInv, SequenceIsFree, HistoryIsSound, JobLock,
              TakenHere
<1>5. VerifiedStands' /\ BreakageIsTampering'
  BY <1>1 DEF PublisherInv, VerifiedStands, Stands, Listed,
              BreakageIsTampering, Breaks
<1>6. QED
  BY <1>3, <1>4, <1>5 DEF PublisherInv

\* The rest of the invariant, as it is left to show for a step of the audit.
LEMMA AuditStep ==
  ASSUME Inv, UNCHANGED <<refVars, tampered>>,
         scan' \in Scan, scan'.listed \cup scan'.loaded \subseteq installed,
         broken' = BrokenNow \/ broken' = broken,
         ScanIsExplained',
         \A d \in scan'.defects :
           d \in scan.defects \/ d[1] \in Reader!Benign
             \/ (d[2] \in installed /\ Explained(d[2])),
         NothingSlips'
  PROVE  Inv'
<1>1. PublisherInv'
  BY PublisherUnderAudit DEF Inv
<1>2. AlarmsExplained'
  BY DEF Inv, AlarmsExplained, Explained, Reader!Alarms, Reader!Benign, refVars
<1>3. QED
  BY <1>1, <1>2 DEF Inv

LEMMA RestStep ==
  ASSUME Inv, Audit, Reader!Rest \/ Reader!EndCheck
  PROVE  Inv'
<1>1. TypeOK /\ ScanIsExplained /\ NothingSlips
  BY DEF Inv, PublisherInv
<1>2. UNCHANGED <<refVars, tampered>> /\ broken' = broken
      /\ UNCHANGED <<disk, binding>>
  BY DEF Audit, Reader!Rest, Reader!EndCheck, refVars
<1>3. CASE Reader!Rest
  <2>1. scan' = [at |-> "rest", dir |-> 0, listed |-> {}, loaded |-> {},
                 left |-> {}, defects |-> {}]
    BY <1>3 DEF Reader!Rest, Reader!AtRest
  <2>2. scan' \in Scan
    BY <2>1, DirsAssumption DEF Scan
  <2>3. ScanIsExplained' /\ NothingSlips'
    BY <2>1 DEF ScanIsExplained, NothingSlips
  <2>4. QED
    BY <1>2, <2>1, <2>2, <2>3, AuditStep
<1>4. CASE Reader!EndCheck
  <2>1. /\ scan' = [scan EXCEPT !.at = "done"]
        /\ scan.at = "check" /\ scan.left = {} /\ scan \in Scan
    BY <1>1, <1>4 DEF Reader!EndCheck, TypeOK
  <2>2. /\ scan' \in Scan /\ scan'.at = "done" /\ scan'.left = {}
        /\ scan'.listed = scan.listed /\ scan'.loaded = scan.loaded
        /\ scan'.defects = scan.defects
    BY <2>1 DEF Scan
  <2>3. ScanIsExplained'
    BY <1>1, <1>2, <2>2 DEF ScanIsExplained, refVars
  <2>4. NothingSlips'
    BY <1>1, <1>2, <2>1, <2>2 DEF NothingSlips, Reader!Alarms, Reader!Benign
  <2>5. scan'.listed \cup scan'.loaded \subseteq installed
    BY <1>1, <2>2 DEF TypeOK
  <2>6. QED
    BY <1>2, <2>2, <2>3, <2>4, <2>5, AuditStep
<1>5. QED
  BY <1>3, <1>4

LEMMA BeginStep ==
  ASSUME Inv, Audit, Reader!Begin
  PROVE  Inv'
<1>1. TypeOK
  BY DEF Inv, PublisherInv
<1>2. UNCHANGED <<refVars, tampered>> /\ broken' = BrokenNow
      /\ disk' = disk /\ scan.at = "rest"
  BY DEF Audit, Reader!Begin, refVars
<1>3. scan' = [at |-> "load", dir |-> 0, listed |-> {}, loaded |-> {},
               left |-> {}, defects |-> {}]
  BY DEF Reader!Begin, Reader!AtRest
<1>4. scan' \in Scan
  BY <1>3, DirsAssumption DEF Scan
<1>5. scan'.listed \cup scan'.loaded \subseteq installed
  BY <1>3
<1>6. ScanIsExplained'
  BY <1>3 DEF ScanIsExplained
<1>7. \A b \in BrokenNow : b[1] \in Events
  BY <1>1 DEF BrokenNow, Declared, TypeOK
<1>8. NothingSlips'
  <2>1. \A b \in broken' : DirOf[b[1]] > scan'.dir
    BY <1>2, <1>3, <1>7, DirsAssumption
  <2>2. QED
    BY <1>3, <2>1 DEF NothingSlips
<1>9. QED
  BY <1>2, <1>3, <1>4, <1>5, <1>6, <1>8, AuditStep

LEMMA ListStep ==
  ASSUME Inv, Audit, Reader!List
  PROVE  Inv'
<1>1. TypeOK /\ HistoryIsSound /\ ScanIsExplained /\ NothingSlips
  BY DEF Inv, PublisherInv
<1> DEFINE here == {e \in Events : DirOf[e] = scan.dir + 1 /\ disk[e] # "absent"}
<1>2. UNCHANGED <<refVars, tampered>> /\ broken' = broken
      /\ UNCHANGED <<disk, binding>> /\ scan.at = "load" /\ scan.listed = {}
      /\ scan.dir < DirCount /\ scan \in Scan
  BY <1>1 DEF Audit, Reader!List, refVars, TypeOK
<1>3. scan' = [scan EXCEPT !.dir = @ + 1, !.listed = here]
  BY DEF Reader!List
<1>4. /\ scan' \in Scan /\ scan'.at = "load" /\ scan'.left = scan.left
      /\ scan'.dir = scan.dir + 1 /\ scan'.listed = here
      /\ scan'.loaded = scan.loaded /\ scan'.defects = scan.defects
  <2>1. scan.dir + 1 \in 0..DirCount
    BY <1>2, DirsAssumption DEF Scan
  <2> HIDE DEF here
  <2>2. here \in SUBSET Events
    BY DEF here
  <2>3. QED
    BY <1>2, <1>3, <2>1, <2>2 DEF Scan
<1>5. scan'.listed \cup scan'.loaded \subseteq installed
  BY <1>1, <1>4 DEF HistoryIsSound, TypeOK, Absent
<1>6. ScanIsExplained'
  BY <1>1, <1>2, <1>4 DEF ScanIsExplained, Absent, refVars
<1>7. NothingSlips'
  <2>1. \A b \in broken : b[1] \in Events /\ disk[b[1]] # Absent
    BY <1>1 DEF BrokenNow, Declared, TypeOK
  <2>2. \A b \in broken : DirOf[b[1]] > scan.dir =>
          DirOf[b[1]] = scan.dir + 1 \/ DirOf[b[1]] > scan.dir + 1
    BY <1>2, <2>1, DirsAssumption DEF Scan
  <2>3. Reader!Alarms' = Reader!Alarms
    BY <1>4 DEF Reader!Alarms, Reader!Benign
  <2>4. QED
    BY <1>1, <1>2, <1>4, <2>1, <2>2, <2>3 DEF NothingSlips, Absent
<1>8. \A d \in scan'.defects : d \in scan.defects
  BY <1>4
<1>9. QED
  BY <1>2, <1>4, <1>5, <1>6, <1>7, <1>8, AuditStep

LEMMA LoadStep ==
  ASSUME Inv, Audit, NEW e \in Events, Reader!Load(e)
  PROVE  Inv'
<1>1. TypeOK /\ HistoryIsSound /\ ScanIsExplained /\ NothingSlips
  BY DEF Inv, PublisherInv
<1>2. UNCHANGED <<refVars, tampered>> /\ broken' = broken
      /\ UNCHANGED <<disk, binding>> /\ scan.at = "load" /\ scan \in Scan
  BY <1>1 DEF Audit, Reader!Load, refVars, TypeOK
<1>3. e \in installed
  BY <1>1 DEF Reader!Load, TypeOK
<1>4. CASE disk[e] \in {Absent, Garbage}
  <2>1. scan' = [scan EXCEPT !.listed = @ \ {e},
                             !.defects = @ \cup {<<"unparseable", e>>}]
    BY <1>4 DEF Reader!Load, Absent, Garbage
  <2>2. /\ scan' \in Scan /\ scan'.at = "load" /\ scan'.left = scan.left
        /\ scan'.dir = scan.dir
        /\ scan'.listed = scan.listed \ {e} /\ scan'.loaded = scan.loaded
        /\ scan'.defects = scan.defects \cup {<<"unparseable", e>>}
    <3> DEFINE found == {<<"unparseable", e>>}
    <3>1. <<"unparseable", e>> \in Reader!Kinds \X Events
      BY DEF Reader!Kinds
    <3>2. found \subseteq Reader!Kinds \X Events
      BY <3>1
    <3>3. scan' = [scan EXCEPT !.listed = @ \ {e}, !.defects = @ \cup found]
      BY <2>1
    <3> HIDE DEF found
    <3>4. /\ scan' \in Scan /\ scan'.at = "load" /\ scan'.left = scan.left
          /\ scan'.dir = scan.dir
          /\ scan'.listed = scan.listed \ {e} /\ scan'.loaded = scan.loaded
          /\ scan'.defects = scan.defects \cup found
      BY <1>2, <3>2, <3>3 DEF Scan
    <3>5. QED
      BY <3>4 DEF found
  <2>3. e \in tampered
    BY <1>1, <1>3, <1>4, NoDigest DEF HistoryIsSound
  <2>4. ScanIsExplained'
    BY <1>1, <1>2, <2>2 DEF ScanIsExplained, refVars
  <2>5. NothingSlips'
    <3>1. <<"unparseable", e>> \in scan'.defects
          /\ <<"unparseable", e>>[1] \notin Reader!Benign
      BY <2>2 DEF Reader!Benign
    <3>2. Reader!Alarms' # {}
      BY <3>1 DEF Reader!Alarms, Reader!Benign
    <3>3. QED
      BY <3>2 DEF NothingSlips
  <2>6. scan'.listed \cup scan'.loaded \subseteq installed
    BY <1>1, <2>2 DEF TypeOK
  <2>7. \A d \in scan'.defects :
          d \in scan.defects \/ d[1] \in Reader!Benign
            \/ (d[2] \in installed /\ Explained(d[2]))
    BY <1>3, <2>2, <2>3 DEF Explained
  <2>8. QED
    BY <1>2, <2>2, <2>4, <2>5, <2>6, <2>7, AuditStep
<1>5. CASE disk[e] \notin {Absent, Garbage}
  <2>1. scan' = [scan EXCEPT !.listed = @ \ {e}, !.loaded = @ \cup {e}]
    BY <1>5 DEF Reader!Load, Absent, Garbage
  <2>2. /\ scan' \in Scan /\ scan'.at = "load" /\ scan'.left = scan.left
        /\ scan'.dir = scan.dir /\ scan'.listed = scan.listed \ {e}
        /\ scan'.loaded = scan.loaded \cup {e}
        /\ scan'.defects = scan.defects
    BY <1>2, <2>1 DEF Scan
  <2>3. \A f \in scan.loaded :
          f # e /\ Identity[e] = Identity[f] /\ Together(e, f)
            => f \in tampered
    BY <1>1, <1>5 DEF ScanIsExplained, HistoryIsSound, TypeOK, Scan
  <2>4. ScanIsExplained'
    BY <1>1, <1>2, <1>5, <2>2, <2>3 DEF ScanIsExplained, Together, refVars
  <2>5. NothingSlips'
    BY <1>1, <1>2, <2>2 DEF NothingSlips, Reader!Alarms, Reader!Benign
  <2>6. scan'.listed \cup scan'.loaded \subseteq installed
    BY <1>1, <1>3, <2>2 DEF TypeOK
  <2>7. QED
    BY <1>2, <2>2, <2>4, <2>5, <2>6, AuditStep
<1>6. QED
  BY <1>4, <1>5

LEMMA EndLoadStep ==
  ASSUME Inv, Audit, Reader!EndLoad
  PROVE  Inv'
<1>1. TypeOK /\ ScanIsExplained /\ NothingSlips
  BY DEF Inv, PublisherInv
<1> DEFINE todo == UNION {{<<e, r>> : r \in binding[e]} : e \in scan.loaded}
<1>2. UNCHANGED <<refVars, tampered>> /\ broken' = broken
      /\ UNCHANGED <<disk, binding>>
      /\ scan.at = "load" /\ scan.listed = {} /\ scan.dir = DirCount
      /\ scan \in Scan
  BY <1>1 DEF Audit, Reader!EndLoad, refVars, TypeOK
<1>3. scan' = [scan EXCEPT !.at = "check", !.left = todo]
  BY DEF Reader!EndLoad
<1>4. \A b \in todo : /\ b \in Events \X Reference(Digests)
                      /\ b[1] \in scan.loaded /\ b[2] \in binding[b[1]]
  BY <1>1, <1>2 DEF TypeOK, Bound, Scan
<1>5. \A b \in Declared : b[1] \in scan.loaded => b \in todo
  BY DEF Declared
<1> HIDE DEF todo
<1>6. /\ scan' \in Scan /\ scan'.at = "check" /\ scan'.left = todo
      /\ scan'.listed = scan.listed /\ scan'.loaded = scan.loaded
      /\ scan'.defects = scan.defects
  BY <1>2, <1>3, <1>4 DEF Scan
<1>7. ScanIsExplained'
  BY <1>1, <1>2, <1>4, <1>6 DEF ScanIsExplained, refVars
<1>8. broken \subseteq Declared
  BY <1>1 DEF TypeOK, BrokenNow
<1>9. NothingSlips'
  <2>1. \A b \in broken : ~(DirOf[b[1]] > scan.dir)
    BY <1>1, <1>2, <1>8, DirsAssumption DEF Declared, TypeOK
  <2>2. QED
    BY <1>1, <1>2, <1>5, <1>6, <1>8, <2>1
       DEF NothingSlips, Reader!Alarms, Reader!Benign
<1>10. scan'.listed \cup scan'.loaded \subseteq installed
  BY <1>1, <1>6 DEF TypeOK
<1>11. QED
  BY <1>2, <1>6, <1>7, <1>9, <1>10, AuditStep

\* What a reference that does not hold is found to be, and what is found
\* otherwise.
LEMMA Findings ==
  ASSUME TypeOK, NEW r \in Reference(Digests)
  PROVE  /\ Reader!Finds(r) \subseteq Reader!Kinds
         /\ Breaks(r, disk[r.path]) =>
              \E k \in Reader!Finds(r) : k \notin Reader!Benign
         /\ (\E k \in Reader!Finds(r) : k \notin Reader!Benign)
              => Foreign(r) \/ Breaks(r, disk[r.path])
<1> DEFINE at == disk[r.path]
           i == r.intent
<1>1. at \in {Absent, Symlink} \cup Digests /\ r.digest \in Digests
      /\ r.dotted \in BOOLEAN
  BY DEF TypeOK, Reference
<1>2. CASE i \notin Reader!Known
  <2>1. Reader!Finds(r) = {"unknown"}
    BY <1>2 DEF Reader!Finds
  <2>2. QED
    BY <1>2, <2>1 DEF Reader!Benign, Reader!Kinds, Foreign
<1>3. CASE i \in Reader!Known /\ r.dotted
  <2>1. Reader!Finds(r) = {"path-escape"}
    BY <1>3 DEF Reader!Finds
  <2>2. QED
    BY <1>3, <2>1 DEF Reader!Benign, Reader!Kinds, Foreign
<1>4. CASE i \in Reader!Known /\ ~r.dotted /\ at = Symlink
  <2>1. Reader!Finds(r) = {"symlinked-target"}
    BY <1>4 DEF Reader!Finds, Symlink
  <2>2. QED
    BY <1>4, <2>1 DEF Reader!Benign, Reader!Kinds, Breaks
<1>5. CASE i = "immutable_ref" /\ ~r.dotted /\ at # Symlink
  <2>1. Reader!Finds(r) = IF at # r.digest THEN {"immutable-failure"} ELSE {}
    BY <1>1, <1>5, NoDigest DEF Reader!Finds, Reader!Known, Symlink
  <2>2. QED
    BY <1>5, <2>1 DEF Reader!Benign, Reader!Kinds, Breaks
<1>6. CASE i = "snapshot_at_publication" /\ ~r.dotted /\ at # Symlink
  <2>1. Reader!Finds(r) \subseteq {"snapshot-absent", "snapshot-drift"}
    BY <1>1, <1>6, NoDigest DEF Reader!Finds, Reader!Known, Symlink, Absent
  <2>2. ~Breaks(r, at)
    BY <1>6 DEF Breaks
  <2>3. QED
    BY <2>1, <2>2 DEF Reader!Benign, Reader!Kinds
<1>7. QED
  BY <1>1, <1>2, <1>3, <1>4, <1>5, <1>6 DEF Reader!Known

LEMMA CheckBindingStep ==
  ASSUME Inv, Audit, Reader!CheckBinding
  PROVE  Inv'
<1>1. TypeOK /\ ScanIsExplained /\ NothingSlips /\ BreakageIsTampering
  BY DEF Inv, PublisherInv
<1>2. UNCHANGED <<refVars, tampered>> /\ broken' = broken
      /\ UNCHANGED <<disk, binding>> /\ scan.at = "check" /\ scan \in Scan
  BY <1>1 DEF Audit, Reader!CheckBinding, refVars, TypeOK
<1>3. PICK b \in scan.left :
        scan' = [scan EXCEPT !.left = @ \ {b},
                             !.defects = @ \cup (Reader!Finds(b[2]) \X {b[1]})]
  BY DEF Reader!CheckBinding
<1> DEFINE e == b[1]
           r == b[2]
           found == Reader!Finds(r) \X {e}
<1>4. /\ b = <<e, r>> /\ e \in Events /\ r \in Reference(Digests)
      /\ e \in installed
      /\ e \in tampered \/ r \in binding[e]
  BY <1>1, <1>2 DEF Scan, ScanIsExplained, TypeOK
<1>5. found \subseteq Reader!Kinds \X Events
  BY <1>1, <1>4, Findings
<1>6. \A d \in found :
        d[2] = e /\ (d[1] \in Reader!Benign \/ Explained(e))
  <2>1. (\E k \in Reader!Finds(r) : k \notin Reader!Benign) => Explained(e)
    BY <1>1, <1>4, Findings DEF BreakageIsTampering, Explained
  <2>2. QED
    BY <2>1
<1>7. b \in BrokenNow => \E d \in found : d[1] \notin Reader!Benign
  <2>1. b \in BrokenNow => Breaks(r, disk[r.path])
    BY DEF BrokenNow
  <2>2. ASSUME NEW k \in Reader!Finds(r), k \notin Reader!Benign
        PROVE  <<k, e>> \in found /\ <<k, e>>[1] \notin Reader!Benign
    BY <2>2
  <2>3. QED
    BY <1>1, <1>4, <2>1, <2>2, Findings
<1>8. scan' = [scan EXCEPT !.left = @ \ {b}, !.defects = @ \cup found]
  BY <1>3
<1> HIDE DEF found
<1>9. /\ scan' \in Scan /\ scan'.at = "check" /\ scan'.left = scan.left \ {b}
      /\ scan'.listed = scan.listed /\ scan'.loaded = scan.loaded
      /\ scan'.defects = scan.defects \cup found
  BY <1>2, <1>5, <1>8 DEF Scan
<1>10. ScanIsExplained'
  BY <1>1, <1>2, <1>9 DEF ScanIsExplained, refVars
<1>11. NothingSlips'
  <2>1. Reader!Alarms \subseteq Reader!Alarms'
    BY <1>9 DEF Reader!Alarms, Reader!Benign
  <2>2. b \in broken => Reader!Alarms' # {}
    BY <1>1, <1>7, <1>9 DEF Reader!Alarms, Reader!Benign, TypeOK
  <2>3. QED
    BY <1>1, <1>2, <1>9, <2>1, <2>2 DEF NothingSlips
<1>12. scan'.listed \cup scan'.loaded \subseteq installed
  BY <1>1, <1>9 DEF TypeOK
<1>13. \A d \in scan'.defects :
         d \in scan.defects \/ d[1] \in Reader!Benign
           \/ (d[2] \in installed /\ Explained(d[2]))
  BY <1>4, <1>6, <1>9
<1>14. QED
  BY <1>2, <1>9, <1>10, <1>11, <1>12, <1>13, AuditStep

-----------------------------------------------------------------------------
(***************************************************************************)
(* The theorems.                                                           *)
(***************************************************************************)

LEMMA Initially == LedgerInit => Inv
<1> SUFFICES ASSUME LedgerInit
             PROVE  Inv
  OBVIOUS
<1> USE DEF LedgerInit, Init, Reader!Init, Reader!AtRest
<1>1. Idle \in Job
  BY DEF Job, Bound, Idle
<1>2. TypeOK
  <2>1. disk \in [Paths -> {Absent, Symlink} \cup Digests]
    BY DEF Digests
  <2>2. binding \in [Events -> Bound]
    BY DEF Bound
  <2>3. scan \in Scan
    BY DirsAssumption DEF Scan
  <2>4. QED
    BY <1>1, <2>1, <2>2, <2>3 DEF TypeOK
<1>3. HistoryIsSound /\ SequenceIsFree /\ VerifiedStands /\ BreakageIsTampering
  BY NoDigest DEF HistoryIsSound, SequenceIsFree, VerifiedStands,
                  BreakageIsTampering
<1>4. ScanIsExplained /\ NothingSlips
  BY DEF ScanIsExplained, NothingSlips
<1>5. AlarmsExplained
  BY DEF AlarmsExplained, Reader!Alarms
<1>6. QED
  BY <1>2, <1>3, <1>4, <1>5 DEF Inv, PublisherInv

LEMMA Inductive == Inv /\ [LedgerNext]_ledgerVars => Inv'
<1> SUFFICES ASSUME Inv, [LedgerNext]_ledgerVars
             PROVE  Inv'
  OBVIOUS
<1>1. CASE Write
  BY <1>1, WriteStep, AuditUnderWrites DEF Inv
<1>2. CASE Audit
  BY <1>2, BeginStep, ListStep, LoadStep, EndLoadStep, CheckBindingStep, RestStep
     DEF Audit, Reader!Step
<1>3. CASE UNCHANGED ledgerVars
  <2>1. UNCHANGED <<refVars, scan, tampered, broken>>
        /\ UNCHANGED <<disk, installed, binding>>
    BY <1>3 DEF ledgerVars, refVars
  <2>2. PublisherInv'
    BY <2>1, PublisherUnderAudit DEF Inv, PublisherInv, TypeOK
  <2>3. ScanIsExplained' /\ AlarmsExplained' /\ NothingSlips'
    BY <2>1 DEF Inv, ScanIsExplained, AlarmsExplained, NothingSlips, Explained,
                Reader!Alarms, Reader!Benign
  <2>4. QED
    BY <2>2, <2>3 DEF Inv
<1>4. QED
  BY <1>1, <1>2, <1>3 DEF LedgerNext

THEOREM Invariance == LedgerSpec => []Inv
BY Initially, Inductive, PTL DEF LedgerSpec

\* Every variable keeps its type, whatever the publishers, the audit and the
\* files do.
THEOREM TypeCorrect == LedgerSpec => []TypeOK
<1>1. Inv => TypeOK
  BY DEF Inv, PublisherInv
<1>2. QED
  BY <1>1, Invariance, PTL

\* An audit never stops its reader because of what the publishers do, however
\* many they are and however they race (integrity.py:118-130).
THEOREM AlarmsAreJustified == LedgerSpec => []AlarmIsJustified
<1>1. Inv => AlarmIsJustified
  <2> SUFFICES ASSUME Inv
               PROVE  AlarmIsJustified
    OBVIOUS
  <2>1. \A d \in Reader!Alarms :
          d[2] \in tampered \/ \E r \in binding[d[2]] : Foreign(r)
    BY DEF Inv, AlarmsExplained, Explained
  <2>2. \A d \in Reader!Duplicates :
          Together(d[1], d[2]) => d[1] \in tampered \/ d[2] \in tampered
    BY DEF Inv, ScanIsExplained, Reader!Duplicates
  <2>3. QED
    BY <2>1, <2>2 DEF AlarmIsJustified
<1>2. QED
  BY <1>1, Invariance, PTL

\* An audit that lets its reader go on missed no event that was there and
\* broken from its first read to its last (integrity.py:216-281).
THEOREM DamageShows == LedgerSpec => []DamageIsSeen
<1>1. Inv => DamageIsSeen
  BY DEF Inv, NothingSlips, DamageIsSeen, Reader!FailClosed
<1>2. QED
  BY <1>1, Invariance, PTL

\* What is linked was verified to its last index, and only a change after that
\* can have undone it (publisher.py:1100-1120).
THEOREM IndexesAreVerified == LedgerSpec => IndexIsVerified
<1>1. Inv /\ [LedgerNext]_ledgerVars =>
        [\A p \in Procs :
           Links(p) => \A r \in job[p].bound \cup job[p].checked : Held(p, r)
        ]_ledgerVars
  <2> SUFFICES ASSUME Inv, LedgerNext, NEW p \in Procs, Links(p),
                      NEW r \in job[p].bound \cup job[p].checked
               PROVE  Held(p, r)
    OBVIOUS
  <2>1. PublisherInv /\ pc[p] = "checking" /\ Stands(job[p])
    BY Verifying DEF Inv, Links
  <2>2. job[p].left = {} /\ job[p].open = {}
    <3>1. PICK q \in Procs : Install(q)
      <4>1. CASE Audit
        BY <4>1 DEF Audit, refVars, Links
      <4>2. CASE Environment
        BY <4>2, OneChange DEF Changes, Links
      <4>3. ASSUME NEW q \in Procs, Publish(q), ~Install(q)
            PROVE  FALSE
        BY <4>3 DEF Publish, Prepare, Bind, TakeLock, ValidateSequence,
                    CheckReference, OpenIndex, Refuse, Fail, Links
      <4>4. QED
        BY <4>1, <4>2, <4>3 DEF LedgerNext, Write
    <3>2. job[q].event = job[p].event /\ pc[q] = "checking"
      BY <3>1 DEF Install, Links
    <3>3. lock[LockOf[job[p].event]] = p
          /\ lock[LockOf[job[q].event]] = q
      BY <2>1, <3>2, Verifying
    <3>4. QED
      BY <3>1, <3>2, <3>3 DEF Install
  <2>3. CASE r \in job[p].stirred
    BY <2>3 DEF Held
  <2>4. CASE r \notin job[p].stirred
    BY <2>1, <2>2, <2>4 DEF Held, Stands
  <2>5. QED
    BY <2>3, <2>4
<1>2. QED
  BY <1>1, Invariance, PTL DEF LedgerSpec, IndexIsVerified
=============================================================================
