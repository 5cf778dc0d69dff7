---------------------------- MODULE Consumption -----------------------------
(***************************************************************************)
(* consume() of coordination_substrate/consumption.py: processes spend the *)
(* units of bounded execution grants, one receipt file per unit.           *)
(*                                                                         *)
(* What consume() checks before it takes the slot's lock (the grant's      *)
(* digest and shape, the repository, the runner) does not depend on the    *)
(* slot: passing it is Begin, failing it leaves no trace and is no step.   *)
(* A receipt counts by its name alone, so its content is left out.  A      *)
(* power loss may take back a name that no directory fsync has covered;    *)
(* and since nothing syncs the slot directory's own entry, it may take a   *)
(* whole slot, until the kernel has written that entry of its own accord.  *)
(*                                                                         *)
(* A definition named after another with a suffix is a bug variant of it.  *)
(***************************************************************************)
EXTENDS Naturals, FiniteSets

CONSTANTS
  Procs,      \* processes that call consume()
  Grants,     \* grants, each with the receipt slot of its digest
  Bound,      \* per grant, isolated_disposable_runs
  MaxLosses,  \* bound on power losses
  Nobody

ASSUME BoundAssumption == Bound \in [Grants -> Nat \ {0}]
ASSUME NobodyAssumption == Nobody \notin Procs
ASSUME LossesAssumption == MaxLosses \in Nat

VARIABLES
  receipts,    \* per grant, the ordinals of the receipt files
  durable,     \* those that a directory fsync has covered
  lock,        \* holder of each slot's flock
  pc,          \* how far each process is into consume()
  job,         \* the grant and the ordinal each process is spending
  authorized,  \* how often consume() returned for each grant
  losses,      \* power losses so far
  slot,        \* the entry of each slot directory
  taken        \* history: durable receipts that went with their slots

vars == <<receipts, durable, lock, pc, job, authorized, losses, slot, taken>>

-----------------------------------------------------------------------------
\* Outside consume() a process is at no grant.
Idle == [grant |-> Nobody, ordinal |-> 0]

Init ==
  /\ receipts = [g \in Grants |-> {}]
  /\ durable = [g \in Grants |-> {}]
  /\ lock = [g \in Grants |-> Nobody]
  /\ pc = [p \in Procs |-> "idle"]
  /\ job = [p \in Procs |-> Idle]
  /\ authorized = [g \in Grants |-> 0]
  /\ losses = 0
  /\ slot = [g \in Grants |-> "absent"]
  /\ taken = [g \in Grants |-> 0]

Grant(p) == job[p].grant
Ordinal(p) == job[p].ordinal

Goto(p, label) == pc' = [pc EXCEPT ![p] = label]

\* Leaving consume(), whichever way, frees the flock.
Leave(p) ==
  /\ Goto(p, "idle")
  /\ job' = [job EXCEPT ![p] = Idle]
  /\ lock' = [g \in Grants |-> IF lock[g] = p THEN Nobody ELSE lock[g]]

\* All checks ahead of the lock passed; the slot directory is made unless it
\* exists.
Begin(p) ==
  /\ pc[p] = "idle"
  /\ \E g \in Grants :
       /\ job' = [job EXCEPT ![p] = [Idle EXCEPT !.grant = g]]
       /\ slot' = [slot EXCEPT ![g] = IF @ = "absent" THEN "fresh" ELSE @]
  /\ Goto(p, "waiting")
  /\ UNCHANGED <<receipts, durable, lock, authorized, losses, taken>>

\* Bug variant: the lock does not exclude.
TakeLock_Shared(p) ==
  /\ pc[p] = "waiting"
  /\ lock' = [lock EXCEPT ![Grant(p)] = p]
  /\ Goto(p, "counting")
  /\ UNCHANGED <<receipts, durable, job, authorized, losses, slot, taken>>

TakeLock(p) ==
  /\ pc[p] = "waiting"
  /\ lock[Grant(p)] = Nobody
  /\ lock' = [lock EXCEPT ![Grant(p)] = p]
  /\ Goto(p, "counting")
  /\ UNCHANGED <<receipts, durable, job, authorized, losses, slot, taken>>

\* Bug variant: one unit too many.
Exhausted_OffByOne(g) == Cardinality(receipts[g]) > Bound[g]

Exhausted(g) == Cardinality(receipts[g]) >= Bound[g]

\* Count, and fix the ordinal the receipt will have.
Count(p) ==
  /\ pc[p] = "counting"
  /\ ~Exhausted(Grant(p))
  /\ job' = [job EXCEPT ![p].ordinal = Cardinality(receipts[Grant(p)]) + 1]
  /\ Goto(p, "counted")
  /\ UNCHANGED <<receipts, durable, lock, authorized, losses, slot, taken>>

\* authority-exhausted.
RefuseExhausted(p) ==
  /\ pc[p] = "counting"
  /\ Exhausted(Grant(p))
  /\ Leave(p)
  /\ UNCHANGED <<receipts, durable, authorized, losses, slot, taken>>

\* Bug variant: an existing receipt is overwritten.
CreateReceipt_Overwrites(p) ==
  /\ pc[p] = "counted"
  /\ receipts' = [receipts EXCEPT ![Grant(p)] = @ \cup {Ordinal(p)}]
  /\ Goto(p, "created")
  /\ UNCHANGED <<durable, lock, job, authorized, losses, slot, taken>>

\* O_EXCL: the file did not exist.
CreateReceipt(p) ==
  /\ pc[p] = "counted"
  /\ Ordinal(p) \notin receipts[Grant(p)]
  /\ receipts' = [receipts EXCEPT ![Grant(p)] = @ \cup {Ordinal(p)}]
  /\ Goto(p, "created")
  /\ UNCHANGED <<durable, lock, job, authorized, losses, slot, taken>>

\* receipt-conflict.
RefuseConflict(p) ==
  /\ pc[p] = "counted"
  /\ Ordinal(p) \in receipts[Grant(p)]
  /\ Leave(p)
  /\ UNCHANGED <<receipts, durable, authorized, losses, slot, taken>>

WriteReceipt(p) ==
  /\ pc[p] = "created"
  /\ Goto(p, "written")
  /\ UNCHANGED <<receipts, durable, lock, job, authorized, losses, slot, taken>>

\* An exception while writing removes the receipt again.
WriteFails(p) ==
  /\ pc[p] = "created"
  /\ receipts' = [receipts EXCEPT ![Grant(p)] = @ \ {Ordinal(p)}]
  /\ Leave(p)
  /\ UNCHANGED <<durable, authorized, losses, slot, taken>>

\* Bug variant: the directory is not synced.
SyncDirectory_Skipped(p) ==
  /\ pc[p] = "written"
  /\ Goto(p, "synced")
  /\ UNCHANGED <<receipts, durable, lock, job, authorized, losses, slot, taken>>

\* The fsync of the directory covers every name in it.
SyncDirectory(p) ==
  /\ pc[p] = "written"
  /\ durable' = [durable EXCEPT ![Grant(p)] = receipts[Grant(p)]]
  /\ Goto(p, "synced")
  /\ UNCHANGED <<receipts, lock, job, authorized, losses, slot, taken>>

\* It fails: the call ends, the receipt stays and counts.
SyncFails(p) ==
  /\ pc[p] = "written"
  /\ Leave(p)
  /\ UNCHANGED <<receipts, durable, authorized, losses, slot, taken>>

\* consume() returns: the caller may run once.
Return(p) ==
  /\ pc[p] = "synced"
  /\ authorized' = [authorized EXCEPT ![Grant(p)] = @ + 1]
  /\ Leave(p)
  /\ UNCHANGED <<receipts, durable, losses, slot, taken>>

\* The process is killed.
Kill(p) ==
  /\ pc[p] # "idle"
  /\ Leave(p)
  /\ UNCHANGED <<receipts, durable, authorized, losses, slot, taken>>

\* The kernel writes the slot's entry back.
Writeback(g) ==
  /\ slot[g] = "fresh"
  /\ slot' = [slot EXCEPT ![g] = "durable"]
  /\ UNCHANGED <<receipts, durable, lock, pc, job, authorized, losses, taken>>

\* The host loses power: every process and lock is gone, and any name that
\* was not durable may be, with all that is below it.
PowerLoss ==
  /\ losses < MaxLosses
  /\ losses' = losses + 1
  /\ receipts' \in [Grants -> UNION {SUBSET receipts[g] : g \in Grants}]
  /\ \A g \in Grants : receipts'[g] \subseteq receipts[g]
  /\ \E gone \in SUBSET {g \in Grants : slot[g] = "fresh"} :
       /\ \A g \in Grants : IF g \in gone THEN receipts'[g] = {}
                                        ELSE durable[g] \subseteq receipts'[g]
       /\ taken' = [g \in Grants |-> IF g \in gone
                                     THEN taken[g] + Cardinality(durable[g])
                                     ELSE taken[g]]
       /\ slot' = [g \in Grants |-> IF g \in gone THEN "absent"
                                    ELSE IF slot[g] = "fresh" THEN "durable"
                                    ELSE slot[g]]
  /\ durable' = receipts'
  /\ lock' = [g \in Grants |-> Nobody]
  /\ pc' = [p \in Procs |-> "idle"]
  /\ job' = [p \in Procs |-> Idle]
  /\ UNCHANGED authorized

Next ==
  \/ \E p \in Procs :
       \/ Begin(p) \/ TakeLock(p) \/ Count(p) \/ RefuseExhausted(p)
       \/ CreateReceipt(p) \/ RefuseConflict(p) \/ WriteReceipt(p)
       \/ WriteFails(p) \/ SyncDirectory(p) \/ SyncFails(p) \/ Return(p)
       \/ Kill(p)
  \/ \E g \in Grants : Writeback(g)
  \/ PowerLoss

Spec == Init /\ [][Next]_vars

-----------------------------------------------------------------------------
(***************************************************************************)
(* Properties                                                              *)
(***************************************************************************)

\* The variables hold what the code can put in them.
TypeOK ==
  /\ receipts \in [Grants -> SUBSET Nat]
  /\ \A g \in Grants : receipts[g] \subseteq 1..Bound[g]
  /\ durable \in [Grants -> SUBSET Nat]
  /\ lock \in [Grants -> Procs \cup {Nobody}]
  /\ pc \in [Procs -> {"idle", "waiting", "counting", "counted", "created",
                       "written", "synced"}]
  /\ job \in [Procs -> [grant: Grants \cup {Nobody}, ordinal: Nat]]
  /\ \A p \in Procs : pc[p] # "idle" => Grant(p) \in Grants
  /\ authorized \in [Grants -> Nat]
  /\ losses \in Nat
  /\ slot \in [Grants -> {"absent", "fresh", "durable"}]
  /\ taken \in [Grants -> Nat]
  /\ \A g \in Grants : slot[g] = "absent" => receipts[g] = {}

\* However consumers race, fail, are killed or lose power, a grant of n runs
\* authorizes n at most; a power loss that takes a slot gives back no more
\* than the receipts in it (consume, consumption.py:337-357).
NeverOverspent == \A g \in Grants : authorized[g] <= Bound[g] + taken[g]

\* Every run consume() authorized has a receipt of its own, which a power loss
\* takes back with the whole slot only (_install_receipt,
\* consumption.py:249-277).
RunsAreAccounted ==
  \A g \in Grants : authorized[g] <= Cardinality(durable[g]) + taken[g]

\* Short of a power loss the receipts have no gap: while units are left, the
\* next ordinal is free, and no spend ends in receipt-conflict because of what
\* failed or was killed before (consume, consumption.py:340-357).
LeftIsSpendable ==
  losses = 0 =>
    \A g \in Grants :
      lock[g] = Nobody /\ ~Exhausted(g) =>
        Cardinality(receipts[g]) + 1 \notin receipts[g]
-----------------------------------------------------------------------------
\* A receipt file is a spent unit, the durable ones a slot took are excused.
Counter == INSTANCE Budget WITH
  spent <- [g \in Grants |-> Cardinality(receipts[g])],
  excused <- taken

\* Calls that interleave over files, fail half way, are killed or lose power
\* spend units as if each took effect in one step, and never return without a
\* unit of their own (consume, consumption.py:337-367; _exclusive, 225-247).
BudgetSpec == Counter!Spec
=============================================================================
