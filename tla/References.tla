----------------------------- MODULE References -----------------------------
(***************************************************************************)
(* The references of an event, as publish() of                             *)
(* coordination_substrate/publisher.py binds and verifies them.            *)
(*                                                                         *)
(* A caller may leave a digest to the publisher ("auto"): it is read off   *)
(* the target before any lock is taken.  Under its lock, which is that of  *)
(* the pointer or of the orchestrator's sequence, every digest is compared *)
(* with its target again, one target after the other, and the event is     *)
(* linked.  Nothing locks the targets.                                     *)
(*                                                                         *)
(* A digest is the content it is the digest of.  An event file is intact,  *)
(* edited or garbage; an edited one keeps its identity and references.     *)
(* Pointers and the other checks of publish() are the module Publisher; the*)
(* sequence check and its lock are repeated here since integrity relies on *)
(* them, for events whose file names carry the writer.  Under a layer      *)
(* contract all events have one lock.  A link or a ".." above the last     *)
(* component that leaves the root is refused, and left out.                *)
(*                                                                         *)
(* A definition named after another with a suffix is a bug variant of it.  *)
(***************************************************************************)
EXTENDS Naturals

CONSTANTS
  Procs,       \* processes that call publish()
  Events,      \* event files callers may try to publish
  Identity,    \* per event, its writer and sequence
  LockOf,      \* per event, the file its publication locks
  DirCount,    \* how many directories topology.event_dirs has
  DirOf,       \* per event, which of them its pointer's history is in
  Files,       \* other files a reference may name
  Texts,       \* what a file may contain
  Lists,       \* per text, the references it declares when read as an index
  Refs,        \* per event, the references its caller wrote
  Intents,     \* topology.reference_intents
  MaxFaults,   \* bound on edits of files and damage to events
  Nobody

Paths == Events \cup Files

\* What is at a path, or cannot be a digest.
Absent == "absent"
Symlink == "symlink"
Intact == "intact"
Garbage == "garbage"
EventBytes == {Intact, "edited", Garbage}

\* The digest a caller leaves to the publisher.
Unbound == "auto"

(***************************************************************************)
(* answers  it is the value of an event-reference field (responds_to, ...) *)
(* index    validate_declared_contents: its target lists further ones      *)
(* dotted   its path has a ".." component that stays inside the root       *)
(***************************************************************************)
Reference(digests) ==
  [path: Paths, intent: STRING, digest: digests,
   answers: BOOLEAN, index: BOOLEAN, dotted: BOOLEAN]

Digests == EventBytes \cup Texts

ASSUME PathsAssumption == Events \cap Files = {}
ASSUME DirsAssumption ==
  DirCount \in Nat /\ \A e \in Events : DirOf[e] \in 1..DirCount
ASSUME TextsAssumption ==
  Texts \cap (EventBytes \cup {Absent, Symlink, Unbound}) = {}
ASSUME RefsAssumption ==
  /\ \A e \in Events : Refs[e] \subseteq Reference(Digests \cup {Unbound})
  /\ \A t \in Texts : Lists[t] \subseteq Reference(Digests)
ASSUME ImmutableAssumption == "immutable_ref" \in Intents
ASSUME NobodyRefsAssumption == Nobody \notin Procs

VARIABLES
  disk,       \* what is at each path
  installed,  \* the events that were linked
  binding,    \* per installed event, the references its bytes declare
  lock,       \* holder of the flock on each of those files
  pc,         \* how far each process is into publish()
  job,        \* the publication each process is at
  faults      \* edits and damage so far

refVars == <<disk, installed, binding, lock, pc, job, faults>>

-----------------------------------------------------------------------------
Locks == {LockOf[e] : e \in Events}

Idle ==
  [event |-> Nobody, bound |-> {}, left |-> {}, open |-> {},
   checked |-> {}, stirred |-> {}]

Init ==
  /\ disk \in [Paths -> {Absent} \cup Texts]
  /\ \A e \in Events : disk[e] = Absent
  /\ installed = {}
  /\ binding = [e \in Events |-> {}]
  /\ lock = [l \in Locks |-> Nobody]
  /\ pc = [p \in Procs |-> "idle"]
  /\ job = [p \in Procs |-> Idle]
  /\ faults = 0

JobLock(p) == LockOf[job[p].event]

LockFree(p) == lock[JobLock(p)] = Nobody

Leave(p) ==
  /\ pc' = [pc EXCEPT ![p] = "idle"]
  /\ job' = [job EXCEPT ![p] = Idle]
  /\ lock' = [l \in Locks |-> IF lock[l] = p THEN Nobody ELSE lock[l]]

\* What the topology and the schema ask of a reference, whatever its target:
\* an answer names an event, immutably.
WellFormed(r) ==
  /\ r.intent \in Intents
  /\ r.answers => r.path \in Events /\ r.intent = "immutable_ref"

\* Bug variant: whether the file is there is not asked.
Readable_NoLink(r) == disk[r.path] # Symlink

\* A regular file is there.
Readable(r) == disk[r.path] \notin {Absent, Symlink}

-----------------------------------------------------------------------------
(***************************************************************************)
(* Ahead of the locks.                                                     *)
(***************************************************************************)

Prepare(p) ==
  /\ pc[p] = "idle"
  /\ \E e \in Events \ installed :
       job' = [job EXCEPT ![p] =
                 [Idle EXCEPT !.event = e,
                              !.bound = {r \in Refs[e] : r.digest # Unbound},
                              !.left = {r \in Refs[e] : r.digest = Unbound}]]
  /\ pc' = [pc EXCEPT ![p] = "binding"]
  /\ UNCHANGED <<disk, installed, binding, lock, faults>>

\* The digest of the target as it is now.
Bind(p, r) ==
  /\ pc[p] = "binding"
  /\ r \in job[p].left
  /\ WellFormed(r) /\ Readable(r)
  /\ job' = [job EXCEPT
       ![p].left = @ \ {r},
       ![p].bound = @ \cup {[r EXCEPT !.digest = disk[r.path]]}]
  /\ UNCHANGED <<disk, installed, binding, lock, pc, faults>>

TakeLock(p) ==
  /\ pc[p] = "binding"
  /\ job[p].left = {}
  /\ LockFree(p)
  /\ lock' = [lock EXCEPT ![JobLock(p)] = p]
  /\ pc' = [pc EXCEPT ![p] = "locked"]
  /\ UNCHANGED <<disk, installed, binding, job, faults>>

-----------------------------------------------------------------------------
(***************************************************************************)
(* Under the lock.                                                         *)
(***************************************************************************)

\* The history has a file of e's writer and sequence.
SequenceTaken(e) ==
  \E f \in Events :
    disk[f] # Absent /\ DirOf[f] = DirOf[e] /\ Identity[f] = Identity[e]

ValidateSequence(p) ==
  /\ pc[p] = "locked"
  /\ ~SequenceTaken(job[p].event)
  /\ pc' = [pc EXCEPT ![p] = "checking"]
  /\ job' = [job EXCEPT ![p].left = job[p].bound]
  /\ UNCHANGED <<disk, installed, binding, lock, faults>>

\* Bug variant: a digest the publisher read itself is not read again.
Verifies_Trusting(r) ==
  /\ WellFormed(r) /\ Readable(r)
  /\ r.answers => disk[r.path] # Garbage

\* The target hashes to the digest; an answer parses, too.
Verifies(r) ==
  /\ WellFormed(r) /\ Readable(r)
  /\ disk[r.path] = r.digest
  /\ r.answers => disk[r.path] # Garbage

\* Bug variant: what an index declares is not looked at.
CheckReference_Shallow(p, r) ==
  /\ pc[p] = "checking"
  /\ r \in job[p].left
  /\ Verifies(r)
  /\ job' = [job EXCEPT ![p].left = @ \ {r},
                        ![p].checked = @ \cup {r},
                        ![p].stirred = @ \ {r}]
  /\ UNCHANGED <<disk, installed, binding, lock, pc, faults>>

\* One reference verified; an index remains to be opened.
CheckReference(p, r) ==
  /\ pc[p] = "checking"
  /\ r \in job[p].left
  /\ Verifies(r)
  /\ job' = [job EXCEPT ![p].left = @ \ {r},
                        ![p].open = IF r.index THEN @ \cup {r} ELSE @,
                        ![p].checked = @ \cup {r},
                        ![p].stirred = @ \ {r}]
  /\ UNCHANGED <<disk, installed, binding, lock, pc, faults>>

\* What the target declares when it is read as an index: an event that parses
\* has its references; a link put in the place of a text meanwhile is followed.
Contents(path) ==
  IF path \in Events
  THEN {binding[f] : f \in {e \in {path} : disk[e] \notin {Absent, Garbage}}}
  ELSE {Lists[t] : t \in IF disk[path] = Symlink THEN Texts
                                                ELSE Texts \cap {disk[path]}}

\* The index is read a second time; what it declares now is verified next.
OpenIndex(p, r) ==
  /\ pc[p] = "checking"
  /\ r \in job[p].open
  /\ \E declared \in Contents(r.path) :
       job' = [job EXCEPT ![p].open = @ \ {r}, ![p].left = @ \cup declared]
  /\ UNCHANGED <<disk, installed, binding, lock, pc, faults>>

Install(p) ==
  /\ pc[p] = "checking"
  /\ job[p].left = {} /\ job[p].open = {}
  /\ disk[job[p].event] = Absent
  /\ disk' = [disk EXCEPT ![job[p].event] = Intact]
  /\ installed' = installed \cup {job[p].event}
  /\ binding' = [binding EXCEPT ![job[p].event] = job[p].bound]
  /\ Leave(p)
  /\ UNCHANGED faults

\* A PublishError out of one of the checks.
Refuse(p) ==
  /\ \/ /\ pc[p] = "binding"
        /\ \E r \in job[p].left : ~(WellFormed(r) /\ Readable(r))
     \/ pc[p] = "locked" /\ SequenceTaken(job[p].event)
     \/ pc[p] = "checking" /\ \E r \in job[p].left : ~Verifies(r)
     \/ pc[p] = "checking" /\ \E r \in job[p].open : Contents(r.path) = {}
     \/ pc[p] = "checking" /\ disk[job[p].event] # Absent
  /\ Leave(p)
  /\ UNCHANGED <<disk, installed, binding, faults>>

\* A kill, an I/O error or one of the other checks ends the publication.
Fail(p) ==
  /\ pc[p] # "idle"
  /\ Leave(p)
  /\ UNCHANGED <<disk, installed, binding, faults>>

Publish(p) ==
  \/ Prepare(p) \/ TakeLock(p) \/ ValidateSequence(p) \/ Install(p)
  \/ \E r \in job[p].left : Bind(p, r) \/ CheckReference(p, r)
  \/ \E r \in job[p].open : OpenIndex(p, r)
  \/ Refuse(p) \/ Fail(p)

-----------------------------------------------------------------------------
(***************************************************************************)
(* The environment.  `stirred' are the references of a publication whose   *)
(* targets changed since it verified them.                                 *)
(***************************************************************************)
Changes(path, content) ==
  /\ faults < MaxFaults
  /\ faults' = faults + 1
  /\ disk[path] # content
  /\ disk' = [disk EXCEPT ![path] = content]
  /\ job' = [p \in Procs |->
               [job[p] EXCEPT
                  !.stirred = @ \cup {r \in job[p].checked : r.path = path}]]
  /\ UNCHANGED <<installed, binding, lock, pc>>

\* Somebody edits, removes or replaces a file.
Edit(f) == \E c \in Texts \cup {Absent, Symlink} : Changes(f, c)

\* An installed event does not stay what it was.
Damage(e) ==
  /\ disk[e] = Intact
  /\ \E c \in {"edited", Garbage, Absent} : Changes(e, c)

Environment == (\E f \in Files : Edit(f)) \/ (\E e \in Events : Damage(e))
=============================================================================
