------------------------------- MODULE Lease --------------------------------
(***************************************************************************)
(* The one exclusive mutating lease of coordination_substrate/lease.py:    *)
(* claim, refresh, release and reap over a lease directory that holds one  *)
(* lease.yaml.                                                             *)
(*                                                                         *)
(* Only mkdir, rename, unlink and rmdir are atomic: every operation reads, *)
(* decides and then writes, with no lock around the three.  A kill between *)
(* two of these steps leaves the directory as it is.                       *)
(*                                                                         *)
(* An owner stands for a tuple (task, attempt, request digest, owner       *)
(* instance); it runs its own operations one at a time.  A reaper is any   *)
(* process that calls reap().  A listener incarnation stands for the pair  *)
(* (pid, start ticks) a claim captures; 0 is a pair /proc did not answer.  *)
(*                                                                         *)
(* A definition named after another with a suffix is a bug variant of it.  *)
(***************************************************************************)
EXTENDS Naturals, FiniteSets

CONSTANTS
  Owners,        \* owner tuples, each with one process running its operations
  Reapers,       \* processes that call reap()
  LeaseSeconds,  \* topology.lease_seconds, in ticks
  ReapAlone,     \* whoever schedules reap() runs one at a time, and none next to
                 \* an operation of the owner whose lease it finds
  MaxTime,       \* bound on the clock
  MaxLife,       \* bound on the incarnations of a listener
  MaxCrashes,    \* bound on killed operations
  NoRecord

Procs == Owners \cup Reapers

ASSUME ProcsAssumption == Owners \cap Reapers = {}
ASSUME LeaseAssumption == LeaseSeconds \in Nat \ {0}
ASSUME BoundsAssumption ==
  /\ MaxTime \in Nat /\ MaxLife \in Nat /\ MaxCrashes \in Nat
  /\ ReapAlone \in BOOLEAN

Record == [owner: Owners, expires: Nat, life: Nat]

ASSUME NoRecordAssumption == NoRecord \notin Record /\ NoRecord \notin Owners

VARIABLES
  leaseDir,  \* the lease directory exists
  record,    \* the content of lease.yaml
  temps,     \* processes with a temporary file in the directory
  litter,    \* a killed process left a temporary file in the directory
  now,       \* the host clock
  up,        \* the listeners that run
  life,      \* the current or last incarnation of each listener
  crashes,   \* operations killed so far
  belief,    \* until when each owner was last told it holds the lease
  pc,        \* where each process is in its operation
  value      \* the document each process is about to install

disk == <<leaseDir, record, temps, litter>>
world == <<now, up, life, crashes>>
vars == <<leaseDir, record, temps, litter, now, up, life, crashes,
          belief, pc, value>>

-----------------------------------------------------------------------------
Init ==
  /\ leaseDir = FALSE
  /\ record = NoRecord
  /\ temps = {}
  /\ litter = FALSE
  /\ now = 1
  /\ up = Owners
  /\ life = [o \in Owners |-> 1]
  /\ crashes = 0
  /\ belief = [o \in Owners |-> 0]
  /\ pc = [p \in Procs |-> "idle"]
  /\ value = [p \in Procs |-> NoRecord]

InFlight == {p \in Procs : pc[p] # "idle"}

\* The record is o's: _assert_owner.
OwnedBy(o) == record # NoRecord /\ record.owner = o

\* An owner starts an operation.
Free(o) ==
  /\ pc[o] = "idle"
  /\ ReapAlone /\ OwnedBy(o) => InFlight \cap Reapers = {}

Expired(r) == r.expires <= now

\* Bug variant: an owner that was never captured counts as gone.
ProvablyGone_NeverCaptured(r) ==
  ~ (r.owner \in up /\ life[r.owner] = r.life)

\* Whether owner_is_alive answers False: captured, and no longer running.
ProvablyGone(r) ==
  /\ r.life # 0
  /\ ~ (r.owner \in up /\ life[r.owner] = r.life)

Goto(p, label) == pc' = [pc EXCEPT ![p] = label]

\* Bug variant: the prepared document is dropped, the operation goes on.
Finish_GoesOn(p) ==
  /\ value' = [value EXCEPT ![p] = NoRecord]
  /\ UNCHANGED pc

\* An operation ends; nothing it prepared outlives it.
Finish(p) ==
  /\ Goto(p, "idle")
  /\ value' = [value EXCEPT ![p] = NoRecord]

-----------------------------------------------------------------------------
\* Bug variant: mkdir with exist_ok.
ClaimMkdir_ExistOk(o) ==
  /\ Free(o)
  /\ leaseDir' = TRUE
  /\ Goto(o, "made")
  /\ UNCHANGED <<record, temps, litter, belief, value>> /\ UNCHANGED world

\* claim: mkdir decides who may write.
ClaimMkdir(o) ==
  /\ Free(o)
  /\ ~leaseDir
  /\ leaseDir' = TRUE
  /\ Goto(o, "made")
  /\ UNCHANGED <<record, temps, litter, belief, value>> /\ UNCHANGED world

\* claim on an existing directory: an identical, unexpired claim replays.
ClaimReplay(o) ==
  /\ Free(o)
  /\ leaseDir
  /\ OwnedBy(o)
  /\ ~Expired(record)
  /\ belief' = [belief EXCEPT ![o] = record.expires]
  /\ UNCHANGED <<pc, value>> /\ UNCHANGED disk /\ UNCHANGED world

\* The claim reads the clock and the listener's identity, and writes its
\* temporary file.
ClaimTemp(o) ==
  /\ pc[o] = "made"
  /\ leaseDir
  /\ temps' = temps \cup {o}
  /\ value' = [value EXCEPT ![o] =
       [owner |-> o, expires |-> now + LeaseSeconds,
        life |-> IF o \in up THEN life[o] ELSE 0]]
  /\ Goto(o, "claiming")
  /\ UNCHANGED <<leaseDir, record, litter, belief>> /\ UNCHANGED world

\* os.replace moves p's temporary file over lease.yaml.
Replace(p) ==
  /\ p \in temps
  /\ record' = value[p]
  /\ temps' = temps \ {p}
  /\ belief' = [belief EXCEPT ![p] = value[p].expires]
  /\ Finish(p)
  /\ UNCHANGED <<leaseDir, litter>> /\ UNCHANGED world

ClaimReplace(o) == pc[o] = "claiming" /\ Replace(o)

\* An exception while the claim writes, or while it syncs what it wrote,
\* removes the whole directory.
ClaimRollback(o) ==
  /\ pc[o] \in {"made", "claiming"}
  /\ leaseDir' = FALSE
  /\ record' = NoRecord
  /\ temps' = {}
  /\ litter' = FALSE
  /\ Finish(o)
  /\ UNCHANGED belief /\ UNCHANGED world

\* Bug variant: refresh without _assert_owner.
RefreshRead_AnyOwner(o) ==
  /\ Free(o)
  /\ record # NoRecord /\ ~Expired(record)
  /\ value' = [value EXCEPT
                 ![o] = [record EXCEPT !.expires = now + LeaseSeconds]]
  /\ Goto(o, "refreshing")
  /\ UNCHANGED belief /\ UNCHANGED disk /\ UNCHANGED world

\* refresh reads its own unexpired record and computes the next one.
RefreshRead(o) ==
  /\ Free(o)
  /\ OwnedBy(o)
  /\ ~Expired(record)
  /\ value' = [value EXCEPT
                 ![o] = [record EXCEPT !.expires = now + LeaseSeconds]]
  /\ Goto(o, "refreshing")
  /\ UNCHANGED belief /\ UNCHANGED disk /\ UNCHANGED world

RefreshTemp(o) ==
  /\ pc[o] = "refreshing"
  /\ leaseDir
  /\ temps' = temps \cup {o}
  /\ Goto(o, "rewriting")
  /\ UNCHANGED <<leaseDir, record, litter, belief, value>> /\ UNCHANGED world

RefreshReplace(o) == pc[o] = "rewriting" /\ Replace(o)

\* Bug variant: release without _assert_owner.
ReleaseRead_AnyOwner(o) ==
  /\ Free(o)
  /\ record # NoRecord
  /\ belief' = [belief EXCEPT ![o] = 0]
  /\ Goto(o, "removing")
  /\ UNCHANGED value /\ UNCHANGED disk /\ UNCHANGED world

\* release reads its own record, expired or not; its owner stops there.
ReleaseRead(o) ==
  /\ Free(o)
  /\ OwnedBy(o)
  /\ belief' = [belief EXCEPT ![o] = 0]
  /\ Goto(o, "removing")
  /\ UNCHANGED value /\ UNCHANGED disk /\ UNCHANGED world

\* reap decides on the record it reads: gone and expired.
ReapRead(p) ==
  /\ pc[p] = "idle"
  /\ record # NoRecord
  /\ ReapAlone => InFlight \cap (Reapers \cup {record.owner}) = {}
  /\ ProvablyGone(record)
  /\ Expired(record)
  /\ Goto(p, "removing")
  /\ UNCHANGED <<belief, value>> /\ UNCHANGED disk /\ UNCHANGED world

\* release and reap unlink whatever lease.yaml is there now.
Unlink(p) ==
  /\ pc[p] = "removing"
  /\ record # NoRecord
  /\ record' = NoRecord
  /\ Goto(p, "emptied")
  /\ UNCHANGED <<leaseDir, temps, litter, belief, value>> /\ UNCHANGED world

\* rmdir needs an empty directory.
Rmdir(p) ==
  /\ pc[p] = "emptied"
  /\ leaseDir /\ record = NoRecord /\ temps = {} /\ ~litter
  /\ leaseDir' = FALSE
  /\ Finish(p)
  /\ UNCHANGED <<record, temps, litter, belief>> /\ UNCHANGED world

\* An OSError out of refresh, release or reap: the directory or the file is
\* not what the operation saw.  Its own temporary file is unlinked.
Error(p) ==
  /\ \/ pc[p] = "refreshing" /\ ~leaseDir
     \/ pc[p] = "rewriting"
     \/ pc[p] = "removing" /\ record = NoRecord
     \/ pc[p] = "emptied"
          /\ ~(leaseDir /\ record = NoRecord /\ temps = {} /\ ~litter)
  /\ temps' = temps \ {p}
  /\ Finish(p)
  /\ UNCHANGED <<leaseDir, record, litter, belief>> /\ UNCHANGED world

\* The process is killed inside its operation, or a disk error ends it there.
\* (An operation whose sync fails right after its replace is taken for one that
\* succeeded: belief is until when its owner may think that it holds.)
Crash(p) ==
  /\ pc[p] # "idle"
  /\ crashes < MaxCrashes
  /\ crashes' = crashes + 1
  /\ litter' = (litter \/ p \in temps)
  /\ temps' = temps \ {p}
  /\ Finish(p)
  /\ UNCHANGED <<leaseDir, record, belief, now, up, life>>

Tick ==
  /\ now < MaxTime
  /\ now' = now + 1
  /\ UNCHANGED <<up, life, crashes, belief, pc, value>> /\ UNCHANGED disk

ListenerDies(o) ==
  /\ o \in up
  /\ up' = up \ {o}
  /\ UNCHANGED <<now, life, crashes, belief, pc, value>> /\ UNCHANGED disk

ListenerRestarts(o) ==
  /\ o \notin up
  /\ life[o] < MaxLife
  /\ up' = up \cup {o}
  /\ life' = [life EXCEPT ![o] = @ + 1]
  /\ UNCHANGED <<now, crashes, belief, pc, value>> /\ UNCHANGED disk

Next ==
  \/ \E o \in Owners :
       \/ ClaimMkdir(o) \/ ClaimReplay(o) \/ ClaimTemp(o) \/ ClaimReplace(o)
       \/ ClaimRollback(o)
       \/ RefreshRead(o) \/ RefreshTemp(o) \/ RefreshReplace(o)
       \/ ReleaseRead(o)
       \/ ListenerDies(o) \/ ListenerRestarts(o)
  \/ \E p \in Reapers : ReapRead(p)
  \/ \E p \in Procs : Unlink(p) \/ Rmdir(p) \/ Error(p) \/ Crash(p)
  \/ Tick

Spec == Init /\ [][Next]_vars

-----------------------------------------------------------------------------
(***************************************************************************)
(* Properties                                                              *)
(***************************************************************************)

\* The variables hold what the operations can put in them.
TypeOK ==
  /\ leaseDir \in BOOLEAN
  /\ record \in Record \cup {NoRecord}
  /\ temps \subseteq Procs
  /\ litter \in BOOLEAN
  /\ now \in Nat
  /\ up \subseteq Owners
  /\ life \in [Owners -> Nat]
  /\ crashes \in Nat
  /\ belief \in [Owners -> Nat]
  /\ pc \in [Procs -> {"idle", "made", "claiming", "refreshing", "rewriting",
                       "removing", "emptied"}]
  /\ value \in [Procs -> Record \cup {NoRecord}]
  /\ \A p \in Procs :
       pc[p] \in {"claiming", "refreshing", "rewriting"} => value[p] \in Record
  /\ \A p \in Procs :
       pc[p] \in {"made", "claiming", "refreshing", "rewriting"} => p \in Owners

Believes(o) == belief[o] > now

\* No two owners hold the lease at once: each was told so by a claim or a
\* refresh, neither released it, and neither term is over (lease.py:1-14,
\* docs/ROLES.md:21).
OneHolder ==
  \A o, q \in Owners : Believes(o) /\ Believes(q) => o = q

\* Whoever may believe it holds the lease is the one lease.yaml names, for at
\* least as long: nobody can lose it unnoticed inside its term (claim, 207;
\* refresh, 241; release, 264).
BeliefIsRecorded ==
  \A o \in Owners : Believes(o) =>
    OwnedBy(o) /\ record.expires >= belief[o]

\* reap removes only a lease that is expired and whose listener was captured
\* and is gone, at the moment of the removal and not just when it looked
\* (reap, lease.py:325).
ReapIsJustified ==
  [][\A p \in Reapers :
       pc[p] = "removing" /\ pc'[p] = "emptied" =>
         /\ record.expires <= now
         /\ record.life # 0
         /\ record.owner \in up => life[record.owner] # record.life]_vars

\* "Return the current lease, or None when the slot is free": with no operation
\* in flight, a slot read_lease calls free can be claimed (lease.py:272).
FreeSlotClaimable ==
  InFlight = {} /\ record = NoRecord => ~leaseDir

\* As long as no kill or disk error fell half way, refusals, rollbacks, errors
\* and races leave the slot either held or claimable (claim's rollback,
\* lease.py:207-211; release, 264-267).
SlotConsistent == crashes = 0 => FreeSlotClaimable
-----------------------------------------------------------------------------
\* The record is the tenure; what an owner was told is its belief.
Seat == INSTANCE Tenure WITH
  Term <- LeaseSeconds,
  Nobody <- NoRecord,
  holder <- IF record = NoRecord THEN NoRecord ELSE record.owner,
  until <- IF record = NoRecord THEN 0 ELSE record.expires,
  told <- belief,
  clock <- now

\* Operations that interleave over a directory and a file, fail half way or are
\* killed pass the lease on as if each took effect in one step: never straight
\* from one owner to the next, and never inside a term its holder was told of
\* (claim, lease.py:137-212; refresh, 215-242; release, 245-268; reap, 325-368).
TenureSpec == Seat!Spec
=============================================================================
