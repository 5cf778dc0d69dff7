------------------------- MODULE ConsumptionProofs --------------------------
(***************************************************************************)
(* Proofs about Consumption, for any number of consumers and grants, any   *)
(* bounds of the grants and any number of power losses.                    *)
(*                                                                         *)
(* The argument: whoever is past the lock is its holder, so between the    *)
(* count and the end of the call only the holder changes the slot.  The    *)
(* receipt it creates is new, counts from then on, and its name is durable *)
(* before the call returns; and what is durable is removed with the whole  *)
(* slot only, which `taken' accounts for.                                  *)
(***************************************************************************)
EXTENDS Consumption, FiniteSetTheorems, TLAPS

\* Only the holder of the slot's lock works on the slot.
Exclusive ==
  \A p \in Procs : pc[p] \notin {"idle", "waiting"} => lock[Grant(p)] = p

\* What the holder counted still is the count.
CountIsFresh ==
  \A p \in Procs : pc[p] = "counted" =>
    /\ Ordinal(p) = Cardinality(receipts[Grant(p)]) + 1
    /\ Ordinal(p) <= Bound[Grant(p)]

\* The receipt of an unfinished call is there, and new.
ReceiptIsNew ==
  \A p \in Procs :
    /\ pc[p] \in {"created", "written", "synced"}
         => Ordinal(p) \in receipts[Grant(p)]
    /\ pc[p] \in {"created", "written"} => Ordinal(p) \notin durable[Grant(p)]

DurableExists == \A g \in Grants : durable[g] \subseteq receipts[g]

\* Whoever is inside consume() works in a slot directory that is there.
SlotIsThere == \A p \in Procs : pc[p] # "idle" => slot[Grant(p)] # "absent"

\* A run is authorized on a durable receipt nobody else was authorized on.
Paid ==
  /\ RunsAreAccounted
  /\ \A p \in Procs : pc[p] = "synced" =>
       authorized[Grant(p)] < Cardinality(durable[Grant(p)]) + taken[Grant(p)]

\* Until power is lost, the receipts are numbered without a gap.
NoGap ==
  losses = 0 =>
    \A g \in Grants : \E k \in Nat :
      /\ receipts[g] = 1..k
      /\ \A p \in Procs : pc[p] = "created" /\ Grant(p) = g => Ordinal(p) = k

Inv ==
  /\ TypeOK
  /\ Exclusive
  /\ CountIsFresh
  /\ ReceiptIsNew
  /\ DurableExists
  /\ Paid
  /\ NoGap
  /\ SlotIsThere

-----------------------------------------------------------------------------
\* A slot is finite, and so is all of it.
LEMMA FiniteSlot ==
  ASSUME TypeOK, NEW g \in Grants, NEW S \in SUBSET receipts[g]
  PROVE  /\ IsFiniteSet(S)
         /\ Cardinality(S) \in Nat
         /\ Cardinality(S) <= Cardinality(receipts[g])
         /\ Cardinality(receipts[g]) \in Nat
         /\ Cardinality(receipts[g]) <= Bound[g]
<1>1. Bound[g] \in Nat /\ Bound[g] >= 1
  BY BoundAssumption
<1>2. IsFiniteSet(1..Bound[g]) /\ Cardinality(1..Bound[g]) = Bound[g]
  BY <1>1, FS_Interval
<1>3. receipts[g] \in SUBSET (1..Bound[g])
  BY DEF TypeOK
<1>4. IsFiniteSet(receipts[g]) /\ Cardinality(receipts[g]) <= Bound[g]
  BY <1>2, <1>3, FS_Subset
<1>5. IsFiniteSet(S) /\ Cardinality(S) <= Cardinality(receipts[g])
  BY <1>4, FS_Subset
<1>6. QED
  BY <1>4, <1>5, FS_CardinalityType

\* A slot without gaps counts up to its last receipt.
LEMMA CountOfInterval ==
  ASSUME NEW k \in Nat
  PROVE  Cardinality(1..k) = k
BY FS_Interval

\* Nobody else works on the slot of whoever is past the lock.
LEMMA Alone ==
  ASSUME Inv, NEW p \in Procs, pc[p] \notin {"idle", "waiting"},
         NEW q \in Procs, q # p, pc[q] \notin {"idle", "waiting"}
  PROVE  Grant(q) # Grant(p)
BY DEF Inv, Exclusive

\* Leaving frees the lock and keeps everybody else where it is.
LEMMA LeaveFrees ==
  ASSUME Inv, NEW p \in Procs, Leave(p)
  PROVE  /\ pc' = [pc EXCEPT ![p] = "idle"]
         /\ job' = [job EXCEPT ![p] = Idle]
         /\ lock' \in [Grants -> Procs \cup {Nobody}]
         /\ job' \in [Procs -> [grant: Grants \cup {Nobody}, ordinal: Nat]]
         /\ Exclusive'
         /\ pc'[p] = "idle"
         /\ \A q \in Procs : q # p =>
              pc'[q] = pc[q] /\ Grant(q)' = Grant(q) /\ Ordinal(q)' = Ordinal(q)
<1>1. /\ pc' = [pc EXCEPT ![p] = "idle"] /\ job' = [job EXCEPT ![p] = Idle]
      /\ lock' = [g \in Grants |-> IF lock[g] = p THEN Nobody ELSE lock[g]]
  BY DEF Leave, Goto
<1>2. pc'[p] = "idle" /\ \A q \in Procs : q # p =>
         pc'[q] = pc[q] /\ Grant(q)' = Grant(q) /\ Ordinal(q)' = Ordinal(q)
  BY <1>1 DEF Inv, TypeOK, Grant, Ordinal
<1>3. Exclusive'
  <2> SUFFICES ASSUME NEW q \in Procs, pc'[q] \notin {"idle", "waiting"}
               PROVE  lock'[Grant(q)'] = q
    BY DEF Exclusive
  <2>1. q # p /\ pc[q] = pc'[q] /\ Grant(q)' = Grant(q)
    BY <1>2
  <2>2. lock[Grant(q)] = q /\ Grant(q) \in Grants
    BY <2>1 DEF Inv, TypeOK, Exclusive
  <2>3. QED
    BY <1>1, <2>1, <2>2
<1>4. job' \in [Procs -> [grant: Grants \cup {Nobody}, ordinal: Nat]]
  BY <1>1 DEF Inv, TypeOK, Idle
<1>5. QED
  BY <1>1, <1>2, <1>3, <1>4 DEF Inv, TypeOK

-----------------------------------------------------------------------------
\* Calls that end, return or are killed with the slot as it is.
LEMMA EndStep ==
  ASSUME Inv, NEW p \in Procs,
         \/ RefuseExhausted(p) \/ RefuseConflict(p) \/ SyncFails(p) \/ Kill(p)
         \/ Return(p)
  PROVE  Inv'
<1>1. Leave(p) /\ UNCHANGED <<receipts, durable, losses, slot, taken>>
  BY DEF RefuseExhausted, RefuseConflict, SyncFails, Kill, Return
<1>2. /\ Exclusive' /\ pc'[p] = "idle"
      /\ \A q \in Procs : q # p =>
           pc'[q] = pc[q] /\ Grant(q)' = Grant(q) /\ Ordinal(q)' = Ordinal(q)
  BY <1>1, LeaveFrees
<1>3. /\ authorized' \in [Grants -> Nat]
      /\ \A g \in Grants :
           \/ authorized'[g] = authorized[g]
           \/ /\ pc[p] = "synced" /\ g = Grant(p)
              /\ authorized'[g] = authorized[g] + 1
  <2>1. CASE Return(p)
    <3>1. pc[p] = "synced" /\ Grant(p) \in Grants
      BY <2>1 DEF Return, Inv, TypeOK
    <3>2. authorized \in [Grants -> Nat] /\ authorized[Grant(p)] + 1 \in Nat
      BY <3>1 DEF Inv, TypeOK
    <3>3. authorized' = [authorized EXCEPT ![Grant(p)] = authorized[Grant(p)] + 1]
      BY <2>1 DEF Return
    <3>4. QED
      BY <3>1, <3>2, <3>3
  <2>2. CASE ~Return(p)
    <3>1. authorized' = authorized
      BY <2>2 DEF RefuseExhausted, RefuseConflict, SyncFails, Kill
    <3>2. QED
      BY <3>1 DEF Inv, TypeOK
  <2>3. QED
    BY <2>1, <2>2
<1>4. TypeOK'
  <2>1. /\ pc' \in [Procs -> {"idle", "waiting", "counting", "counted",
                              "created", "written", "synced"}]
        /\ \A q \in Procs : pc'[q] # "idle" => Grant(q)' \in Grants
    <3>1. pc' = [pc EXCEPT ![p] = "idle"]
      BY <1>1, LeaveFrees
    <3>2. QED
      BY <1>2, <3>1 DEF Inv, TypeOK
  <2>2. QED
    BY <1>1, <1>3, <2>1, LeaveFrees DEF Inv, TypeOK
<1>5. CountIsFresh' /\ ReceiptIsNew' /\ DurableExists'
  BY <1>1, <1>2 DEF Inv, CountIsFresh, ReceiptIsNew, DurableExists
<1>6. NoGap'
  BY <1>1, <1>2 DEF Inv, NoGap
<1>7. Paid'
  <2>1. ASSUME NEW g \in Grants
        PROVE  authorized'[g] <= Cardinality(durable[g]) + taken[g]
    <3>1. /\ Cardinality(durable[g]) \in Nat /\ authorized[g] \in Nat
          /\ taken[g] \in Nat
      BY FiniteSlot DEF Inv, TypeOK, DurableExists
    <3>2. QED
      BY <1>3, <3>1 DEF Inv, Paid, RunsAreAccounted
  <2>2. ASSUME NEW q \in Procs, pc'[q] = "synced"
        PROVE  authorized'[Grant(q)]
                 < Cardinality(durable[Grant(q)]) + taken[Grant(q)]
    <3>1. q # p /\ pc[q] = "synced"
      BY <1>2, <2>2
    <3>2. Grant(q) \in Grants
      BY <3>1 DEF Inv, TypeOK
    <3>3. authorized'[Grant(q)] = authorized[Grant(q)]
      BY <1>3, <3>1, <3>2, Alone
    <3>4. QED
      BY <3>1, <3>3 DEF Inv, Paid
  <2>3. QED
    BY <1>1, <1>2, <2>1, <2>2 DEF Paid, RunsAreAccounted
<1>8. SlotIsThere'
  BY <1>1, <1>2 DEF Inv, SlotIsThere
<1>9. QED
  BY <1>2, <1>4, <1>5, <1>6, <1>7, <1>8 DEF Inv

\* Steps on the way that change no file.
LEMMA WayStep ==
  ASSUME Inv, NEW p \in Procs,
         Begin(p) \/ TakeLock(p) \/ Count(p) \/ WriteReceipt(p)
  PROVE  Inv'
<1>1. /\ UNCHANGED <<receipts, durable, authorized, losses, taken>>
      /\ slot' \in [Grants -> {"absent", "fresh", "durable"}]
      /\ \A g \in Grants : slot'[g] = "absent" => slot[g] = "absent"
  BY DEF Begin, TakeLock, Count, WriteReceipt, Inv, TypeOK
<1>2. \A q \in Procs : q # p =>
        pc'[q] = pc[q] /\ Grant(q)' = Grant(q) /\ Ordinal(q)' = Ordinal(q)
  BY DEF Begin, TakeLock, Count, WriteReceipt, Goto, Grant, Ordinal, Inv, TypeOK
<1>3. /\ pc'[p] \in {"waiting", "counting", "counted", "written"}
      /\ Grant(p)' \in Grants
      /\ pc'[p] # "waiting" => Grant(p)' = Grant(p) /\ lock'[Grant(p)] = p
      /\ pc'[p] = "written" => pc[p] = "created" /\ Ordinal(p)' = Ordinal(p)
  <2>1. CASE Begin(p)
    BY <2>1 DEF Begin, Goto, Grant, Idle, Inv, TypeOK
  <2>2. CASE TakeLock(p)
    BY <2>2 DEF TakeLock, Goto, Grant, Inv, TypeOK
  <2>3. CASE Count(p)
    BY <2>3 DEF Count, Goto, Grant, Inv, TypeOK, Exclusive
  <2>4. CASE WriteReceipt(p)
    BY <2>4 DEF WriteReceipt, Goto, Grant, Ordinal, Inv, TypeOK, Exclusive
  <2>5. QED
    BY <2>1, <2>2, <2>3, <2>4
<1>4. pc'[p] = "counted" =>
        /\ Ordinal(p)' = Cardinality(receipts[Grant(p)]) + 1
        /\ Ordinal(p)' <= Bound[Grant(p)]
  <2>1. CASE Count(p)
    <3>1. Grant(p) \in Grants
      BY <2>1 DEF Count, Inv, TypeOK
    <3>2. /\ Cardinality(receipts[Grant(p)]) \in Nat /\ Bound[Grant(p)] \in Nat
          /\ ~(Cardinality(receipts[Grant(p)]) >= Bound[Grant(p)])
      BY <2>1, <3>1, FiniteSlot, BoundAssumption DEF Count, Exhausted, Inv
    <3>3. Ordinal(p)' = Cardinality(receipts[Grant(p)]) + 1
      BY <2>1 DEF Count, Ordinal, Grant, Inv, TypeOK
    <3>4. QED
      BY <3>2, <3>3
  <2>2. CASE ~Count(p)
    BY <2>2 DEF Begin, TakeLock, WriteReceipt, Goto, Inv, TypeOK
  <2>3. QED
    BY <2>1, <2>2
<1>5. TypeOK'
  <2>1. lock' \in [Grants -> Procs \cup {Nobody}]
    BY DEF Begin, TakeLock, Count, WriteReceipt, Inv, TypeOK
  <2>2. pc' \in [Procs -> {"idle", "waiting", "counting", "counted",
                           "created", "written", "synced"}]
    BY DEF Begin, TakeLock, Count, WriteReceipt, Goto, Inv, TypeOK
  <2>3. job' \in [Procs -> [grant: Grants \cup {Nobody}, ordinal: Nat]]
    <3>1. CASE Count(p)
      <4>1. Grant(p) \in Grants
        BY <3>1 DEF Count, Inv, TypeOK
      <4>2. Cardinality(receipts[Grant(p)]) + 1 \in Nat
        BY <4>1, FiniteSlot DEF Inv
      <4>3. QED
        BY <3>1, <4>2 DEF Count, Inv, TypeOK
    <3>2. CASE ~Count(p)
      BY <3>2 DEF Begin, TakeLock, WriteReceipt, Idle, Inv, TypeOK
    <3>3. QED
      BY <3>1, <3>2
  <2>4. \A q \in Procs : pc'[q] # "idle" => Grant(q)' \in Grants
    BY <1>2, <1>3 DEF Inv, TypeOK
  <2>5. QED
    BY <1>1, <2>1, <2>2, <2>3, <2>4 DEF Inv, TypeOK
<1>6. Exclusive'
  <2> SUFFICES ASSUME NEW q \in Procs, pc'[q] \notin {"idle", "waiting"}
               PROVE  lock'[Grant(q)'] = q
    BY DEF Exclusive
  <2>1. CASE q = p
    BY <1>3, <2>1
  <2>2. CASE q # p
    <3>1. /\ Grant(q)' = Grant(q) /\ lock[Grant(q)] = q /\ Grant(q) \in Grants
      BY <1>2, <2>2 DEF Inv, TypeOK, Exclusive
    <3>2. lock'[Grant(q)] = lock[Grant(q)]
      BY <3>1, NobodyAssumption
      DEF Begin, TakeLock, Count, WriteReceipt, Inv, TypeOK
    <3>3. QED
      BY <3>1, <3>2
  <2>3. QED
    BY <2>1, <2>2
<1>7. CountIsFresh'
  BY <1>1, <1>2, <1>3, <1>4 DEF Inv, CountIsFresh
<1>8. ReceiptIsNew' /\ DurableExists'
  BY <1>1, <1>2, <1>3 DEF Inv, ReceiptIsNew, DurableExists
<1>9. Paid'
  BY <1>1, <1>2, <1>3 DEF Inv, Paid, RunsAreAccounted
<1>10. NoGap'
  BY <1>1, <1>2, <1>3 DEF Inv, NoGap
<1>11. SlotIsThere'
  <2>1. slot'[Grant(p)'] # "absent"
    BY <1>1, <1>3 DEF Begin, TakeLock, Count, WriteReceipt, Grant, Goto,
                      Idle, Inv, TypeOK, SlotIsThere
  <2>2. QED
    BY <1>1, <1>2, <2>1 DEF Inv, TypeOK, SlotIsThere
<1>12. QED
  BY <1>5, <1>6, <1>7, <1>8, <1>9, <1>10, <1>11 DEF Inv

\* The receipt file appears under the ordinal that was counted.
LEMMA CreateStep ==
  ASSUME Inv, NEW p \in Procs, CreateReceipt(p)
  PROVE  Inv'
<1> DEFINE G == Grant(p)
           n == Ordinal(p)
<1>1. /\ pc[p] = "counted" /\ n \notin receipts[G]
      /\ receipts' = [receipts EXCEPT ![G] = receipts[G] \cup {n}]
      /\ pc' = [pc EXCEPT ![p] = "created"]
      /\ UNCHANGED <<durable, lock, job, authorized, losses, slot, taken>>
  BY DEF CreateReceipt, Goto
<1>2. /\ G \in Grants /\ n \in Nat
      /\ n = Cardinality(receipts[G]) + 1 /\ n <= Bound[G]
  BY <1>1 DEF Inv, TypeOK, CountIsFresh, Grant, Ordinal
<1>3. Cardinality(receipts[G]) \in Nat /\ Bound[G] \in Nat
  BY <1>2, FiniteSlot, BoundAssumption DEF Inv
<1>4. \A q \in Procs : Grant(q)' = Grant(q) /\ Ordinal(q)' = Ordinal(q)
  BY <1>1 DEF Grant, Ordinal
<1>5. TypeOK'
  <2>1. receipts[G] \cup {n} \subseteq 1..Bound[G]
    BY <1>2, <1>3 DEF Inv, TypeOK
  <2>2. \A g \in Grants : receipts'[g] \subseteq 1..Bound[g]
    BY <1>1, <1>2, <2>1 DEF Inv, TypeOK
  <2>3. receipts' \in [Grants -> SUBSET Nat]
    BY <1>1, <1>2 DEF Inv, TypeOK
  <2>4. /\ pc' \in [Procs -> {"idle", "waiting", "counting", "counted",
                              "created", "written", "synced"}]
        /\ \A q \in Procs : pc'[q] # "idle" => Grant(q)' \in Grants
    BY <1>1, <1>4 DEF Inv, TypeOK
  <2>5. slot[G] # "absent" /\ \A g \in Grants : g # G => receipts'[g] = receipts[g]
    BY <1>1, <1>2 DEF Inv, TypeOK, SlotIsThere
  <2>6. \A g \in Grants : slot'[g] = "absent" => receipts'[g] = {}
    BY <1>1, <2>5 DEF Inv, TypeOK
  <2>7. QED
    BY <1>1, <2>2, <2>3, <2>4, <2>6 DEF Inv, TypeOK
<1>6. Exclusive'
  BY <1>1, <1>4 DEF Inv, TypeOK, Exclusive
<1>7. CountIsFresh'
  <2> SUFFICES ASSUME NEW q \in Procs, pc'[q] = "counted"
               PROVE  /\ Ordinal(q) = Cardinality(receipts'[Grant(q)]) + 1
                      /\ Ordinal(q) <= Bound[Grant(q)]
    BY <1>4 DEF CountIsFresh
  <2>1. q # p /\ pc[q] = "counted"
    BY <1>1 DEF Inv, TypeOK
  <2>2. Grant(q) # G /\ Grant(q) \in Grants
    BY <1>1, <2>1, Alone DEF Inv, TypeOK
  <2>3. receipts'[Grant(q)] = receipts[Grant(q)]
    BY <1>1, <2>2 DEF Inv, TypeOK
  <2>4. QED
    BY <2>1, <2>3 DEF Inv, CountIsFresh
<1>8. DurableExists'
  BY <1>1, <1>2 DEF Inv, TypeOK, DurableExists
<1>9. ReceiptIsNew'
  <2> SUFFICES ASSUME NEW q \in Procs
               PROVE  /\ pc'[q] \in {"created", "written", "synced"}
                           => Ordinal(q) \in receipts'[Grant(q)]
                      /\ pc'[q] \in {"created", "written"}
                           => Ordinal(q) \notin durable[Grant(q)]
    BY <1>1, <1>4 DEF ReceiptIsNew
  <2>1. CASE q = p
    BY <1>1, <1>2, <2>1 DEF Inv, TypeOK, DurableExists
  <2>2. CASE q # p
    <3>1. pc'[q] = pc[q]
      BY <1>1, <2>2 DEF Inv, TypeOK
    <3>2. pc[q] # "idle" => receipts[Grant(q)] \subseteq receipts'[Grant(q)]
      BY <1>1, <1>2 DEF Inv, TypeOK
    <3>3. QED
      BY <3>1, <3>2 DEF Inv, ReceiptIsNew
  <2>3. QED
    BY <2>1, <2>2
<1>10. Paid'
  BY <1>1, <1>4 DEF Inv, TypeOK, Paid, RunsAreAccounted
<1>11. NoGap'
  <2> SUFFICES ASSUME losses = 0, NEW g \in Grants
               PROVE  \E k \in Nat :
                        /\ receipts'[g] = 1..k
                        /\ \A q \in Procs :
                             pc'[q] = "created" /\ Grant(q) = g => Ordinal(q) = k
    <3>1. losses' = losses
      BY <1>1
    <3>2. QED
      BY <1>4, <3>1 DEF NoGap
  <2>1. PICK k \in Nat :
          /\ receipts[g] = 1..k
          /\ \A q \in Procs : pc[q] = "created" /\ Grant(q) = g => Ordinal(q) = k
    BY DEF Inv, NoGap
  <2>2. CASE g = G
    <3>1. n = k + 1
      BY <1>2, <2>1, <2>2, CountOfInterval
    <3>2. receipts'[g] = 1..(k + 1)
      BY <1>1, <1>2, <2>1, <2>2, <3>1 DEF Inv, TypeOK
    <3>3. \A q \in Procs : pc'[q] = "created" /\ Grant(q) = g => q = p
      BY <1>1, <2>2, Alone DEF Inv, TypeOK
    <3>4. QED
      BY <3>1, <3>2, <3>3
  <2>3. CASE g # G
    BY <1>1, <2>1, <2>3 DEF Inv, TypeOK
  <2>4. QED
    BY <2>2, <2>3
<1>12. SlotIsThere'
  BY <1>1, <1>4 DEF Inv, TypeOK, SlotIsThere
<1>13. QED
  BY <1>5, <1>6, <1>7, <1>8, <1>9, <1>10, <1>11, <1>12 DEF Inv

\* A failed write takes its own receipt back, the last of the slot.
LEMMA WriteFailsStep ==
  ASSUME Inv, NEW p \in Procs, WriteFails(p)
  PROVE  Inv'
<1> DEFINE G == Grant(p)
           n == Ordinal(p)
<1>1. /\ pc[p] = "created" /\ Leave(p)
      /\ receipts' = [receipts EXCEPT ![G] = receipts[G] \ {n}]
      /\ UNCHANGED <<durable, authorized, losses, slot, taken>>
  BY DEF WriteFails
<1>2. G \in Grants /\ n \in receipts[G] /\ n \notin durable[G]
  BY <1>1 DEF Inv, TypeOK, ReceiptIsNew
<1>3. /\ Exclusive' /\ pc'[p] = "idle"
      /\ \A q \in Procs : q # p =>
           pc'[q] = pc[q] /\ Grant(q)' = Grant(q) /\ Ordinal(q)' = Ordinal(q)
  BY <1>1, LeaveFrees
<1>4. \A g \in Grants : g # G => receipts'[g] = receipts[g]
  BY <1>1 DEF Inv, TypeOK
<1>5. \A q \in Procs : q # p /\ pc[q] \notin {"idle", "waiting"} =>
        receipts'[Grant(q)] = receipts[Grant(q)]
  BY <1>1, <1>4, Alone DEF Inv, TypeOK
<1>6. TypeOK'
  <2>1. /\ receipts' \in [Grants -> SUBSET Nat]
        /\ \A g \in Grants : receipts'[g] \subseteq 1..Bound[g]
    BY <1>1, <1>2 DEF Inv, TypeOK
  <2>2. /\ pc' \in [Procs -> {"idle", "waiting", "counting", "counted",
                              "created", "written", "synced"}]
        /\ \A q \in Procs : pc'[q] # "idle" => Grant(q)' \in Grants
    BY <1>1, <1>3, LeaveFrees DEF Inv, TypeOK
  <2>3. QED
    BY <1>1, <2>1, <2>2, LeaveFrees DEF Inv, TypeOK
<1>7. CountIsFresh' /\ ReceiptIsNew'
  BY <1>1, <1>3, <1>5 DEF Inv, CountIsFresh, ReceiptIsNew
<1>8. DurableExists'
  BY <1>1, <1>2 DEF Inv, TypeOK, DurableExists
<1>9. Paid'
  BY <1>1, <1>3 DEF Inv, Paid, RunsAreAccounted
<1>10. NoGap'
  <2> SUFFICES ASSUME losses = 0, NEW g \in Grants
               PROVE  \E k \in Nat :
                        /\ receipts'[g] = 1..k
                        /\ \A q \in Procs :
                             pc'[q] = "created" /\ Grant(q)' = g => Ordinal(q)' = k
    BY <1>1 DEF NoGap
  <2>1. PICK k \in Nat :
          /\ receipts[g] = 1..k
          /\ \A q \in Procs : pc[q] = "created" /\ Grant(q) = g => Ordinal(q) = k
    BY DEF Inv, NoGap
  <2>2. CASE g = G
    <3>1. n = k /\ k \in 1..k
      BY <1>1, <1>2, <2>1, <2>2
    <3>2. receipts'[g] = 1..(k - 1) /\ k - 1 \in Nat
      BY <1>1, <1>2, <2>1, <2>2, <3>1 DEF Inv, TypeOK
    <3>3. \A q \in Procs : ~(pc'[q] = "created" /\ Grant(q)' = g)
      BY <1>1, <1>3, <2>2, Alone
    <3>4. QED
      BY <3>2, <3>3
  <2>3. CASE g # G
    BY <1>3, <1>4, <2>1, <2>3
  <2>4. QED
    BY <2>2, <2>3
<1>11. SlotIsThere'
  BY <1>1, <1>3 DEF Inv, SlotIsThere
<1>12. QED
  BY <1>3, <1>6, <1>7, <1>8, <1>9, <1>10, <1>11 DEF Inv

\* The directory fsync covers the new receipt too: one more than was paid for.
LEMMA SyncStep ==
  ASSUME Inv, NEW p \in Procs, SyncDirectory(p)
  PROVE  Inv'
<1> DEFINE G == Grant(p)
           n == Ordinal(p)
<1>1. /\ pc[p] = "written"
      /\ durable' = [durable EXCEPT ![G] = receipts[G]]
      /\ pc' = [pc EXCEPT ![p] = "synced"]
      /\ UNCHANGED <<receipts, lock, job, authorized, losses, slot, taken>>
  BY DEF SyncDirectory, Goto
<1>2. G \in Grants /\ n \in receipts[G] /\ n \notin durable[G]
  BY <1>1 DEF Inv, TypeOK, ReceiptIsNew
<1>3. \A q \in Procs : Grant(q)' = Grant(q) /\ Ordinal(q)' = Ordinal(q)
  BY <1>1 DEF Grant, Ordinal
<1>4. TypeOK'
  <2>1. durable' \in [Grants -> SUBSET Nat]
    BY <1>1, <1>2 DEF Inv, TypeOK
  <2>2. /\ pc' \in [Procs -> {"idle", "waiting", "counting", "counted",
                              "created", "written", "synced"}]
        /\ \A q \in Procs : pc'[q] # "idle" => Grant(q)' \in Grants
    BY <1>1, <1>3 DEF Inv, TypeOK
  <2>3. QED
    BY <1>1, <2>1, <2>2 DEF Inv, TypeOK
<1>5. Exclusive' /\ CountIsFresh' /\ DurableExists'
  BY <1>1, <1>2, <1>3
  DEF Inv, TypeOK, Exclusive, CountIsFresh, DurableExists
<1>6. ReceiptIsNew'
  <2> SUFFICES ASSUME NEW q \in Procs
               PROVE  /\ pc'[q] \in {"created", "written", "synced"}
                           => Ordinal(q) \in receipts[Grant(q)]
                      /\ pc'[q] \in {"created", "written"}
                           => Ordinal(q) \notin durable'[Grant(q)]
    BY <1>1, <1>3 DEF ReceiptIsNew
  <2>1. CASE q = p
    BY <1>1, <1>2, <2>1 DEF Inv, TypeOK
  <2>2. CASE q # p
    <3>1. pc'[q] = pc[q]
      BY <1>1, <2>2 DEF Inv, TypeOK
    <3>2. pc[q] \in {"created", "written"} => durable'[Grant(q)] = durable[Grant(q)]
      BY <1>1, <2>2, Alone DEF Inv, TypeOK
    <3>3. QED
      BY <3>1, <3>2 DEF Inv, ReceiptIsNew
  <2>3. QED
    BY <2>1, <2>2
<1>7. Paid'
  <2>1. Cardinality(durable[G]) < Cardinality(receipts[G])
    <3>1. durable[G] \in SUBSET receipts[G] /\ durable[G] # receipts[G]
      BY <1>2 DEF Inv, DurableExists
    <3>2. IsFiniteSet(receipts[G])
      BY <1>2, FiniteSlot DEF Inv
    <3>3. /\ Cardinality(durable[G]) <= Cardinality(receipts[G])
          /\ Cardinality(durable[G]) # Cardinality(receipts[G])
      BY <3>1, <3>2, FS_Subset
    <3>4. Cardinality(durable[G]) \in Nat /\ Cardinality(receipts[G]) \in Nat
      BY <1>2, <3>1, FiniteSlot DEF Inv
    <3>5. QED
      BY <3>3, <3>4
  <2>2. /\ authorized[G] <= Cardinality(durable[G]) + taken[G]
        /\ authorized[G] \in Nat /\ taken[G] \in Nat
        /\ Cardinality(durable[G]) \in Nat /\ Cardinality(receipts[G]) \in Nat
    BY <1>2, FiniteSlot DEF Inv, TypeOK, Paid, RunsAreAccounted, DurableExists
  <2>3. durable'[G] = receipts[G] /\ \A g \in Grants : g # G => durable'[g] = durable[g]
    BY <1>1, <1>2 DEF Inv, TypeOK
  <2>4. authorized[G] < Cardinality(durable'[G]) + taken[G]
    BY <2>1, <2>2, <2>3
  <2>5. RunsAreAccounted'
    <3> SUFFICES ASSUME NEW g \in Grants
                 PROVE  authorized[g] <= Cardinality(durable'[g]) + taken[g]
      BY <1>1 DEF RunsAreAccounted
    <3>1. CASE g = G
      BY <2>1, <2>2, <2>3, <3>1
    <3>2. CASE g # G
      BY <2>3, <3>2 DEF Inv, Paid, RunsAreAccounted
    <3>3. QED
      BY <3>1, <3>2
  <2>6. ASSUME NEW q \in Procs, pc'[q] = "synced"
        PROVE  authorized[Grant(q)]
                 < Cardinality(durable'[Grant(q)]) + taken[Grant(q)]
    <3>1. CASE q = p
      BY <2>4, <3>1
    <3>2. CASE q # p
      <4>1. pc[q] = "synced"
        BY <1>1, <2>6, <3>2 DEF Inv, TypeOK
      <4>2. Grant(q) # G /\ Grant(q) \in Grants
        BY <1>1, <3>2, <4>1, Alone DEF Inv, TypeOK
      <4>3. QED
        BY <2>3, <4>1, <4>2 DEF Inv, Paid
    <3>3. QED
      BY <3>1, <3>2
  <2>7. QED
    BY <1>1, <1>3, <2>5, <2>6 DEF Paid
<1>8. NoGap'
  BY <1>1, <1>3 DEF Inv, TypeOK, NoGap
<1>9. SlotIsThere'
  BY <1>1, <1>3 DEF Inv, TypeOK, SlotIsThere
<1>10. QED
  BY <1>4, <1>5, <1>6, <1>7, <1>8, <1>9 DEF Inv

\* The kernel writes a slot's entry back, and nothing else changes.
LEMMA WritebackStep ==
  ASSUME Inv, NEW g \in Grants, Writeback(g)
  PROVE  Inv'
<1>1. /\ slot' = [slot EXCEPT ![g] = "durable"]
      /\ UNCHANGED
           <<receipts, durable, lock, pc, job, authorized, losses, taken>>
  BY DEF Writeback
<1>2. TypeOK' /\ SlotIsThere'
  BY <1>1 DEF Inv, TypeOK, SlotIsThere, Grant
<1>3. QED
  BY <1>1, <1>2
  DEF Inv, Exclusive, CountIsFresh, ReceiptIsNew, DurableExists, Paid,
      RunsAreAccounted, NoGap, Grant, Ordinal

\* A power loss spares what is durable, or takes it with the slot.
LEMMA LossStep ==
  ASSUME Inv, PowerLoss
  PROVE  Inv'
<1>1. PICK gone \in SUBSET {g \in Grants : slot[g] = "fresh"} :
        /\ \A g \in Grants : IF g \in gone THEN receipts'[g] = {}
                                         ELSE durable[g] \subseteq receipts'[g]
        /\ taken' = [g \in Grants |-> IF g \in gone
                                      THEN taken[g] + Cardinality(durable[g])
                                      ELSE taken[g]]
        /\ slot' = [g \in Grants |-> IF g \in gone THEN "absent"
                                     ELSE IF slot[g] = "fresh" THEN "durable"
                                     ELSE slot[g]]
  BY DEF PowerLoss
<1>2. /\ \A g \in Grants : receipts'[g] \subseteq receipts[g]
      /\ receipts' \in [Grants -> UNION {SUBSET receipts[g] : g \in Grants}]
      /\ durable' = receipts' /\ lock' = [g \in Grants |-> Nobody]
      /\ pc' = [q \in Procs |-> "idle"] /\ job' = [q \in Procs |-> Idle]
      /\ UNCHANGED authorized /\ losses' = losses + 1
  BY DEF PowerLoss
<1>3. \A q \in Procs : pc'[q] = "idle"
  BY <1>2
<1>4. \A g \in Grants : /\ Cardinality(durable[g]) \in Nat
                        /\ Cardinality(receipts'[g]) \in Nat
                        /\ authorized[g] \in Nat /\ taken[g] \in Nat
  BY <1>2, FiniteSlot DEF Inv, TypeOK, DurableExists
<1>5. TypeOK'
  <2>1. receipts' \in [Grants -> SUBSET Nat]
    <3>1. \A g \in Grants : receipts'[g] \in SUBSET Nat
      BY <1>2 DEF Inv, TypeOK
    <3>2. QED
      BY <1>2, <3>1
  <2>2. \A g \in Grants : receipts'[g] \subseteq 1..Bound[g]
    BY <1>2 DEF Inv, TypeOK
  <2>3. /\ job' \in [Procs -> [grant: Grants \cup {Nobody}, ordinal: Nat]]
        /\ lock' \in [Grants -> Procs \cup {Nobody}]
        /\ pc' \in [Procs -> {"idle", "waiting", "counting", "counted",
                              "created", "written", "synced"}]
    BY <1>2 DEF Idle
  <2>4. taken' \in [Grants -> Nat]
    BY <1>1, <1>4
  <2>5. /\ slot' \in [Grants -> {"absent", "fresh", "durable"}]
        /\ \A g \in Grants : slot'[g] = "absent" => receipts'[g] = {}
    BY <1>1, <1>2 DEF Inv, TypeOK
  <2>6. QED
    BY <1>2, <1>3, <2>1, <2>2, <2>3, <2>4, <2>5 DEF Inv, TypeOK
<1>6. /\ Exclusive' /\ CountIsFresh' /\ ReceiptIsNew' /\ DurableExists'
      /\ SlotIsThere'
  BY <1>2, <1>3
  DEF Exclusive, CountIsFresh, ReceiptIsNew, DurableExists, SlotIsThere
<1>7. Paid'
  <2> SUFFICES ASSUME NEW g \in Grants
               PROVE  authorized[g] <= Cardinality(durable'[g]) + taken'[g]
    BY <1>2, <1>3 DEF Paid, RunsAreAccounted
  <2>1. authorized[g] <= Cardinality(durable[g]) + taken[g]
    BY DEF Inv, Paid, RunsAreAccounted
  <2>2. CASE g \in gone
    <3>1. taken'[g] = taken[g] + Cardinality(durable[g])
      BY <1>1, <2>2
    <3>2. QED
      BY <1>2, <1>4, <2>1, <3>1
  <2>3. CASE g \notin gone
    <3>1. /\ IsFiniteSet(durable'[g]) /\ durable[g] \in SUBSET durable'[g]
      BY <1>1, <1>2, <2>3, FiniteSlot DEF Inv
    <3>2. Cardinality(durable[g]) <= Cardinality(durable'[g])
      BY <3>1, FS_Subset
    <3>3. taken'[g] = taken[g]
      BY <1>1, <2>3
    <3>4. QED
      BY <1>2, <1>4, <2>1, <3>2, <3>3
  <2>4. QED
    BY <2>2, <2>3
<1>8. NoGap'
  BY <1>2 DEF Inv, TypeOK, NoGap
<1>9. QED
  BY <1>5, <1>6, <1>7, <1>8 DEF Inv

-----------------------------------------------------------------------------
\* The inductive invariant holds of every reachable state of consume()'s
\* callers, whatever fails, is killed or loses power.
THEOREM Inductive == Spec => []Inv
<1>1. Init => Inv
  <2> SUFFICES ASSUME Init PROVE Inv
    OBVIOUS
  <2>1. TypeOK
    <3>1. job \in [Procs -> [grant: Grants \cup {Nobody}, ordinal: Nat]]
      BY DEF Init, Idle
    <3>2. QED
      BY <3>1 DEF Init, TypeOK
  <2>2. /\ Exclusive /\ CountIsFresh /\ ReceiptIsNew /\ DurableExists
        /\ SlotIsThere
    BY DEF Init, Exclusive, CountIsFresh, ReceiptIsNew, DurableExists,
           SlotIsThere
  <2>3. Paid
    <3>1. Cardinality({}) = 0
      BY FS_EmptySet
    <3>2. QED
      BY <3>1 DEF Init, Paid, RunsAreAccounted
  <2>4. NoGap
    <3>1. {} = 1..0
      OBVIOUS
    <3>2. QED
      BY <3>1 DEF Init, NoGap
  <2>5. QED
    BY <2>1, <2>2, <2>3, <2>4 DEF Inv
<1>2. Inv /\ [Next]_vars => Inv'
  <2> SUFFICES ASSUME Inv, [Next]_vars PROVE Inv'
    OBVIOUS
  <2>1. CASE Next
    BY <2>1, WayStep, EndStep, CreateStep, WriteFailsStep, SyncStep,
       WritebackStep, LossStep
    DEF Next
  <2>2. CASE UNCHANGED vars
    BY <2>2
    DEF vars, Inv, TypeOK, Exclusive, CountIsFresh, ReceiptIsNew,
        DurableExists, Paid, RunsAreAccounted, NoGap, SlotIsThere, Grant,
        Ordinal
  <2>3. QED
    BY <2>1, <2>2
<1>3. QED
  BY <1>1, <1>2, PTL DEF Spec

\* The variables keep their types, no slot outgrowing its bound.
THEOREM TypeCorrect == Spec => []TypeOK
<1>1. Inv => TypeOK
  BY DEF Inv
<1>2. QED
  BY <1>1, Inductive, PTL

\* Every authorized run has a receipt of its own, which a power loss takes
\* back with its whole slot only (_install_receipt, consumption.py:249).
THEOREM Accounted == Spec => []RunsAreAccounted
<1>1. Inv => RunsAreAccounted
  BY DEF Inv, Paid
<1>2. QED
  BY <1>1, Inductive, PTL

\* A grant of n runs authorizes n at most, however many consumers race, fail
\* or crash, and a lost slot gives back what was in it at most (consume,
\* consumption.py:339).
THEOREM BoundHolds == Spec => []NeverOverspent
<1>1. Inv => NeverOverspent
  <2> SUFFICES ASSUME Inv, NEW g \in Grants
               PROVE  authorized[g] <= Bound[g] + taken[g]
    BY DEF NeverOverspent
  <2>1. /\ authorized[g] <= Cardinality(durable[g]) + taken[g]
        /\ authorized[g] \in Nat /\ taken[g] \in Nat
        /\ durable[g] \in SUBSET receipts[g]
    BY DEF Inv, TypeOK, Paid, RunsAreAccounted, DurableExists
  <2>2. /\ Cardinality(durable[g]) <= Cardinality(receipts[g])
        /\ Cardinality(receipts[g]) <= Bound[g] /\ Bound[g] \in Nat
        /\ Cardinality(durable[g]) \in Nat /\ Cardinality(receipts[g]) \in Nat
    BY <2>1, FiniteSlot, BoundAssumption DEF Inv
  <2>3. QED
    BY <2>1, <2>2
<1>2. QED
  BY <1>1, Inductive, PTL

\* Short of a power loss, what is left of a grant can be spent
\* (consume, consumption.py:340).
THEOREM RestIsSpendable == Spec => []LeftIsSpendable
<1>1. Inv => LeftIsSpendable
  <2> SUFFICES ASSUME Inv, losses = 0, NEW g \in Grants
               PROVE  Cardinality(receipts[g]) + 1 \notin receipts[g]
    BY DEF LeftIsSpendable
  <2>1. PICK k \in Nat : receipts[g] = 1..k
    BY DEF Inv, NoGap
  <2>2. QED
    BY <2>1, CountOfInterval
<1>2. QED
  BY <1>1, Inductive, PTL

-----------------------------------------------------------------------------
\* Every authorized run stands on a receipt, or on one its slot took along.
RunsCovered ==
  \A g \in Grants : /\ Cardinality(receipts[g]) \in Nat
                    /\ authorized[g] <= Cardinality(receipts[g]) + taken[g]

\* It follows from the invariant, in a state ...
LEMMA RunsAreCovered == Inv => RunsCovered
<1> SUFFICES ASSUME Inv, NEW g \in Grants
             PROVE  /\ Cardinality(receipts[g]) \in Nat
                    /\ authorized[g] <= Cardinality(receipts[g]) + taken[g]
  BY DEF RunsCovered
<1>1. /\ authorized[g] <= Cardinality(durable[g]) + taken[g]
      /\ authorized[g] \in Nat /\ taken[g] \in Nat
      /\ durable[g] \in SUBSET receipts[g]
  BY DEF Inv, TypeOK, Paid, RunsAreAccounted, DurableExists
<1>2. /\ Cardinality(durable[g]) <= Cardinality(receipts[g])
      /\ Cardinality(durable[g]) \in Nat /\ Cardinality(receipts[g]) \in Nat
  BY <1>1, FiniteSlot DEF Inv
<1>3. QED
  BY <1>1, <1>2

\* ... and in the one after it.
LEMMA RunsStayCovered == Inv' => RunsCovered'
BY RunsAreCovered, PTL

\* Creating a receipt takes one unit, and there was one left.
LEMMA CreateSpends ==
  ASSUME Inv, NEW p \in Procs, CreateReceipt(p), NEW G \in Grants, G = Grant(p)
  PROVE  Counter!Spend(G)
<1> DEFINE n == Ordinal(p)
<1>1. /\ n \notin receipts[G]
      /\ receipts' = [receipts EXCEPT ![G] = receipts[G] \cup {n}]
      /\ UNCHANGED <<authorized, taken>>
  BY DEF CreateReceipt
<1>2. G \in Grants /\ n = Cardinality(receipts[G]) + 1 /\ n <= Bound[G]
  BY DEF CreateReceipt, Inv, TypeOK, CountIsFresh, Grant, Ordinal
<1>3. /\ IsFiniteSet(receipts[G]) /\ Cardinality(receipts[G]) \in Nat
      /\ Bound[G] \in Nat
  BY <1>2, FiniteSlot, BoundAssumption DEF Inv
<1>4. Cardinality(receipts[G] \cup {n}) = Cardinality(receipts[G]) + 1
  BY <1>1, <1>3, FS_AddElement
<1>5. Cardinality(receipts[G]) < Bound[G]
  BY <1>2, <1>3
<1>6. \A g \in Grants :
        Cardinality(receipts'[g]) = IF g = G THEN Cardinality(receipts[G]) + 1
                                    ELSE Cardinality(receipts[g])
  BY <1>1, <1>2, <1>4 DEF Inv, TypeOK
<1>7. [g \in Grants |-> Cardinality(receipts'[g])]
        = [[g \in Grants |-> Cardinality(receipts[g])] EXCEPT ![G] = @ + 1]
  BY <1>2, <1>6
<1>8. QED
  BY <1>1, <1>2, <1>5, <1>7 DEF Counter!Spend

\* A failed write gives back a unit that no run stands on.
LEMMA WriteFailsRefunds ==
  ASSUME Inv, Inv', NEW p \in Procs, WriteFails(p), NEW G \in Grants,
         G = Grant(p)
  PROVE  Counter!Refund(G)
<1> DEFINE n == Ordinal(p)
<1>1. /\ n \in receipts[G] /\ G \in Grants
      /\ receipts' = [receipts EXCEPT ![G] = receipts[G] \ {n}]
      /\ UNCHANGED <<authorized, taken>>
  BY DEF WriteFails, Inv, TypeOK, ReceiptIsNew
<1>2. IsFiniteSet(receipts[G]) /\ Cardinality(receipts[G]) \in Nat
  BY <1>1, FiniteSlot DEF Inv
<1>3. /\ Cardinality(receipts[G] \ {n}) = Cardinality(receipts[G]) - 1
      /\ Cardinality(receipts[G]) > 0
  <2>1. Cardinality(receipts[G] \ {n}) = Cardinality(receipts[G]) - 1
    BY <1>1, <1>2, FS_RemoveElement
  <2>2. Cardinality(receipts[G]) # 0
    BY <1>1, <1>2, FS_EmptySet
  <2>3. QED
    BY <1>2, <2>1, <2>2
<1>4. \A g \in Grants :
        Cardinality(receipts'[g]) = IF g = G THEN Cardinality(receipts[G]) - 1
                                    ELSE Cardinality(receipts[g])
  BY <1>1, <1>3 DEF Inv, TypeOK
<1>5. [g \in Grants |-> Cardinality(receipts'[g])]
        = [[g \in Grants |-> Cardinality(receipts[g])] EXCEPT ![G] = @ - 1]
  BY <1>1, <1>4
<1>6. authorized'[G] <= Cardinality(receipts'[G]) + taken'[G]
  BY RunsStayCovered DEF RunsCovered
<1>7. QED
  BY <1>1, <1>3, <1>5, <1>6 DEF Counter!Refund, Counter!Covered

\* Returning authorizes one run, on a unit nobody else's run stands on.
LEMMA ReturnAuthorizes ==
  ASSUME Inv, Inv', NEW p \in Procs, Return(p), NEW G \in Grants, G = Grant(p)
  PROVE  Counter!Authorize(G)
<1>1. /\ authorized' = [authorized EXCEPT ![G] = @ + 1]
      /\ UNCHANGED <<receipts, taken>>
  BY DEF Return, Inv, TypeOK
<1>2. \A g \in Grants :
        authorized'[g] <= Cardinality(receipts'[g]) + taken'[g]
  BY RunsStayCovered DEF RunsCovered
<1>3. QED
  BY <1>1, <1>2 DEF Counter!Authorize, Counter!Covered

\* A power loss takes back what no run stands on, or a slot with all in it.
LEMMA LossLoses ==
  ASSUME Inv, Inv', PowerLoss
  PROVE  Counter!Lose
<1>1. PICK gone \in SUBSET {g \in Grants : slot[g] = "fresh"} :
        /\ \A g \in Grants : g \in gone => receipts'[g] = {}
        /\ taken' = [g \in Grants |-> IF g \in gone
                                      THEN taken[g] + Cardinality(durable[g])
                                      ELSE taken[g]]
  BY DEF PowerLoss
<1>2. \A g \in Grants :
        authorized'[g] <= Cardinality(receipts'[g]) + taken'[g]
  BY RunsStayCovered DEF RunsCovered
<1>3. ASSUME NEW g \in Grants
      PROVE  \/ /\ Cardinality(receipts'[g]) \in 0..Cardinality(receipts[g])
                /\ taken'[g] = taken[g]
             \/ /\ Cardinality(receipts'[g]) = 0
                /\ taken'[g] \in taken[g]..(taken[g] + Cardinality(receipts[g]))
  <2>1. receipts'[g] \in SUBSET receipts[g] /\ durable[g] \in SUBSET receipts[g]
    BY DEF PowerLoss, Inv, DurableExists
  <2>2. /\ Cardinality(receipts'[g]) \in 0..Cardinality(receipts[g])
        /\ Cardinality(durable[g]) \in 0..Cardinality(receipts[g])
        /\ Cardinality(receipts[g]) \in Nat /\ taken[g] \in Nat
    BY <2>1, FiniteSlot DEF Inv, TypeOK
  <2>3. CASE g \in gone
    <3>1. Cardinality(receipts'[g]) = 0
      BY <1>1, <2>3, FS_EmptySet
    <3>2. taken'[g] = taken[g] + Cardinality(durable[g])
      BY <1>1, <2>3
    <3>3. QED
      BY <2>2, <3>1, <3>2
  <2>4. CASE g \notin gone
    BY <1>1, <2>2, <2>4
  <2>5. QED
    BY <2>3, <2>4
<1>4. QED
  BY <1>2, <1>3 DEF PowerLoss, Counter!Lose, Counter!Covered

\* Calls of consume() that race, fail, are killed or lose power take, refund
\* and authorize units as a counter that does each in one step (consume,
\* consumption.py:337-367).
THEOREM ImplementsBudget == Spec => BudgetSpec
<1>1. Init => Counter!Init
  <2>1. Cardinality({}) = 0
    BY FS_EmptySet
  <2>2. QED
    BY <2>1 DEF Init, Counter!Init
<1>2. Inv /\ Inv' /\ [Next]_vars => [Counter!Next]_(Counter!vars)
  <2> SUFFICES ASSUME Inv, Inv', [Next]_vars
               PROVE  [Counter!Next]_(Counter!vars)
    OBVIOUS
  <2>1. ASSUME NEW p \in Procs,
               \/ CreateReceipt(p) \/ WriteFails(p) \/ Return(p)
        PROVE  Counter!Next
    <3>1. Grant(p) \in Grants
      BY <2>1 DEF CreateReceipt, WriteFails, Return, Inv, TypeOK
    <3>2. QED
      BY <2>1, <3>1, CreateSpends, WriteFailsRefunds, ReturnAuthorizes
      DEF Counter!Next
  <2>2. CASE PowerLoss
    BY <2>2, LossLoses DEF Counter!Next
  <2>3. CASE UNCHANGED <<receipts, authorized, taken>>
    BY <2>3 DEF Counter!vars
  <2>4. ASSUME NEW p \in Procs,
               \/ Begin(p) \/ TakeLock(p) \/ Count(p) \/ RefuseExhausted(p)
               \/ RefuseConflict(p) \/ WriteReceipt(p) \/ SyncDirectory(p)
               \/ SyncFails(p) \/ Kill(p)
        PROVE  UNCHANGED <<receipts, authorized, taken>>
    BY <2>4 DEF Begin, TakeLock, Count, RefuseExhausted, RefuseConflict,
                WriteReceipt, SyncDirectory, SyncFails, Kill
  <2>5. ASSUME NEW g \in Grants, Writeback(g)
        PROVE  UNCHANGED <<receipts, authorized, taken>>
    BY <2>5 DEF Writeback
  <2>6. QED
    BY <2>1, <2>2, <2>3, <2>4, <2>5 DEF Next, vars
<1>3. QED
  BY <1>1, <1>2, Inductive, PTL DEF Spec, BudgetSpec, Counter!Spec
=============================================================================
