---------------------------- MODULE LeaseProofs -----------------------------
(***************************************************************************)
(* Proofs about Lease, for any number of owners and reapers, any term and  *)
(* any bound on the clock, the restarts and the kills, under the           *)
(* assumption ReapAlone: one reap() runs at a time, and none next to an    *)
(* operation of the owner whose lease it finds.                            *)
(*                                                                         *)
(* The argument: nothing locks the slot, but every operation that has      *)
(* begun has seen either the directory it made or a record of its own, and *)
(* that shuts every other owner out until it ends.  So at most one         *)
(* operation is in flight at any time, and what it read still holds when   *)
(* it writes.  A reaper reads somebody else's record: nothing shuts others *)
(* out, which is why the assumption is needed (and Lease_reap.cfg shows    *)
(* what happens without it).                                               *)
(***************************************************************************)
EXTENDS Lease, TLAPS

Writing == {"refreshing", "rewriting"}

\* At most one operation is in flight.
OneInFlight ==
  \A p, q \in Procs : pc[p] # "idle" /\ pc[q] # "idle" => p = q

\* The directory and the record, as an operation in flight left them.
SlotMatches ==
  /\ record # NoRecord => leaseDir
  /\ \A p \in Procs :
       /\ pc[p] # "idle" => leaseDir
       /\ pc[p] \in {"made", "claiming", "emptied"} => record = NoRecord
       /\ pc[p] \in Writing \cup {"removing"} => record # NoRecord
       /\ pc[p] \in Writing \cup {"removing"} /\ p \in Owners
            => record.owner = p
       /\ pc[p] = "removing" /\ p \in Owners => belief[p] = 0
       /\ pc[p] = "removing" /\ p \in Reapers =>
            /\ record.expires <= now
            /\ record.life # 0
            /\ record.owner \in up => life[record.owner] # record.life

\* A prepared document prolongs the record it will replace.
ValueProlongs ==
  \A p \in Procs :
    /\ pc[p] \in Writing \cup {"claiming"} =>
         /\ value[p].owner = p
         /\ value[p].expires <= now + LeaseSeconds
         /\ value[p].life <= life[p]
    /\ pc[p] \in Writing => value[p].expires >= record.expires

\* A record ends within one term, and was captured in the past.
RecordIsPast ==
  record # NoRecord =>
    /\ record.expires <= now + LeaseSeconds
    /\ record.life <= life[record.owner]

\* Until something is killed, whatever lies in the directory is somebody's.
NoLeftovers ==
  crashes = 0 =>
    /\ ~litter
    /\ \A p \in temps : pc[p] \in {"claiming", "rewriting"}
    /\ leaseDir /\ record = NoRecord =>
         \E p \in Procs : pc[p] \in {"made", "claiming", "emptied"}

Inv ==
  /\ TypeOK
  /\ OneInFlight
  /\ SlotMatches
  /\ ValueProlongs
  /\ RecordIsPast
  /\ BeliefIsRecorded
  /\ NoLeftovers

-----------------------------------------------------------------------------
\* The initial state has its types.
LEMMA TypeInit ==
  ASSUME Init
  PROVE  TypeOK
<1>1. /\ leaseDir \in BOOLEAN /\ litter \in BOOLEAN /\ temps \subseteq Procs
      /\ record \in Record \cup {NoRecord}
      /\ now \in Nat /\ up \subseteq Owners /\ crashes \in Nat
  BY DEF Init
<1>2. life \in [Owners -> Nat] /\ belief \in [Owners -> Nat]
  BY DEF Init
<1>3. /\ pc \in [Procs -> {"idle", "made", "claiming", "refreshing",
                          "rewriting", "removing", "emptied"}]
      /\ \A p \in Procs : pc[p] = "idle"
      /\ value \in [Procs -> Record \cup {NoRecord}]
  BY DEF Init
<1>4. QED
  BY <1>1, <1>2, <1>3 DEF TypeOK

\* Every step keeps the types.
LEMMA TypeStep ==
  ASSUME TypeOK, [Next]_vars
  PROVE  TypeOK'
<1> USE LeaseAssumption, ProcsAssumption, NoRecordAssumption
    DEF TypeOK, Procs, disk, world, Free, Goto, Finish
<1>1. ASSUME NEW o \in Owners, ClaimMkdir(o) PROVE TypeOK'
  BY <1>1 DEF ClaimMkdir
<1>2. ASSUME NEW o \in Owners, ClaimReplay(o) PROVE TypeOK'
  BY <1>2 DEF ClaimReplay, OwnedBy, Record
<1>3. ASSUME NEW o \in Owners, ClaimTemp(o) PROVE TypeOK'
  <2>1. [owner |-> o, expires |-> now + LeaseSeconds,
         life |-> IF o \in up THEN life[o] ELSE 0] \in Record
    BY DEF Record
  <2>2. QED
    BY <1>3, <2>1 DEF ClaimTemp
<1>4. ASSUME NEW o \in Owners, pc[o] \in {"claiming", "rewriting"}, Replace(o)
      PROVE  TypeOK'
  <2>1. value[o] \in Record /\ value[o].expires \in Nat
    BY <1>4 DEF Record
  <2>2. QED
    BY <1>4, <2>1 DEF Replace
<1>5. ASSUME NEW o \in Owners, ClaimReplace(o) \/ RefreshReplace(o)
      PROVE  TypeOK'
  BY <1>4, <1>5 DEF ClaimReplace, RefreshReplace
<1>6. ASSUME NEW o \in Owners, ClaimRollback(o) PROVE TypeOK'
  BY <1>6 DEF ClaimRollback
<1>7. ASSUME NEW o \in Owners, RefreshRead(o) PROVE TypeOK'
  <2>1. [record EXCEPT !.expires = now + LeaseSeconds] \in Record
    BY <1>7 DEF RefreshRead, OwnedBy, Record
  <2>2. QED
    BY <1>7, <2>1 DEF RefreshRead
<1>8. ASSUME NEW o \in Owners, RefreshTemp(o) PROVE TypeOK'
  BY <1>8 DEF RefreshTemp
<1>9. ASSUME NEW o \in Owners, ReleaseRead(o) PROVE TypeOK'
  BY <1>9 DEF ReleaseRead
<1>10. ASSUME NEW o \in Owners, ListenerDies(o) \/ ListenerRestarts(o)
       PROVE  TypeOK'
  BY <1>10 DEF ListenerDies, ListenerRestarts
<1>11. ASSUME NEW p \in Reapers, ReapRead(p) PROVE TypeOK'
  BY <1>11 DEF ReapRead
<1>12. ASSUME NEW p \in Procs, Unlink(p) \/ Rmdir(p) PROVE TypeOK'
  BY <1>12 DEF Unlink, Rmdir
<1>13. ASSUME NEW p \in Procs, Error(p) PROVE TypeOK'
  BY <1>13 DEF Error
<1>14. ASSUME NEW p \in Procs, Crash(p) PROVE TypeOK'
  BY <1>14 DEF Crash
<1>15. ASSUME Tick PROVE TypeOK'
  BY <1>15 DEF Tick
<1>16. CASE UNCHANGED vars
  BY <1>16 DEF vars
<1>17. QED
  BY <1>1, <1>2, <1>3, <1>5, <1>6, <1>7, <1>8, <1>9, <1>10, <1>11, <1>12,
     <1>13, <1>14, <1>15, <1>16 DEF Next

\* The variables keep their types.
THEOREM TypeCorrect == Spec => []TypeOK
<1>1. Init => TypeOK
  BY TypeInit
<1>2. TypeOK /\ [Next]_vars => TypeOK'
  BY TypeStep
<1>3. QED
  BY <1>1, <1>2, PTL DEF Spec

-----------------------------------------------------------------------------
\* Who starts on a slot that is free, or his, finds nobody at work.
LEMMA StartsAlone ==
  ASSUME Inv, ReapAlone,
         NEW o \in Owners, Free(o), ~leaseDir \/ OwnedBy(o)
  PROVE  \A p \in Procs : pc[p] = "idle"
<1> SUFFICES ASSUME NEW p \in Procs, pc[p] # "idle" PROVE FALSE
  OBVIOUS
<1>1. CASE ~leaseDir
  BY <1>1 DEF Inv, SlotMatches
<1>2. CASE OwnedBy(o)
  <2>1. p \in Owners
    BY <1>2 DEF Free, InFlight, Procs
  <2>2. pc[p] \in Writing \cup {"removing"}
    BY <1>2 DEF Inv, SlotMatches, OwnedBy, TypeOK, Writing
  <2>3. QED
    BY <1>2, <2>1, <2>2 DEF Inv, SlotMatches, OwnedBy, Free
<1>3. QED
  BY <1>1, <1>2

\* The first step of an operation keeps the invariant.
LEMMA StartStep ==
  ASSUME Inv, ReapAlone, TypeOK', NEW o \in Owners,
         \/ ClaimMkdir(o) \/ ClaimReplay(o) \/ RefreshRead(o) \/ ReleaseRead(o)
  PROVE  Inv'
<1> o \in Procs /\ o \notin Reapers
  BY ProcsAssumption DEF Procs
<1>1. CASE ClaimMkdir(o)
  <2>1. \A p \in Procs : pc[p] = "idle"
    BY <1>1, StartsAlone DEF ClaimMkdir
  <2>2. record = NoRecord
    BY <1>1 DEF ClaimMkdir, Inv, SlotMatches
  <2>3. pc' = [pc EXCEPT ![o] = "made"] /\ leaseDir' = TRUE
    BY <1>1 DEF ClaimMkdir, Goto
  <2>4. UNCHANGED <<record, temps, litter, belief, value, now, up, life, crashes>>
    BY <1>1 DEF ClaimMkdir, world
  <2>5. OneInFlight'
    BY <2>1, <2>3 DEF Inv, TypeOK, OneInFlight
  <2>6. SlotMatches'
    BY <2>1, <2>2, <2>3, <2>4 DEF Inv, TypeOK, SlotMatches, Writing
  <2>7. ValueProlongs' /\ RecordIsPast' /\ BeliefIsRecorded'
    BY <2>1, <2>2, <2>3, <2>4
    DEF Inv, TypeOK, ValueProlongs, Writing, RecordIsPast, BeliefIsRecorded,
        Believes, OwnedBy
  <2>8. NoLeftovers'
    BY <2>1, <2>3, <2>4 DEF Inv, TypeOK, NoLeftovers
  <2>9. QED
    BY <2>5, <2>6, <2>7, <2>8 DEF Inv
<1>2. CASE ClaimReplay(o)
  <2>1. UNCHANGED <<pc, value, leaseDir, record, temps, litter>>
    BY <1>2 DEF ClaimReplay, disk
  <2>2. UNCHANGED <<now, up, life, crashes>>
    BY <1>2 DEF ClaimReplay, world
  <2>3. /\ pc[o] = "idle" /\ record # NoRecord /\ record.owner = o
        /\ belief' = [belief EXCEPT ![o] = record.expires]
    BY <1>2 DEF ClaimReplay, Free, OwnedBy
  <2>4. OneInFlight' /\ ValueProlongs' /\ RecordIsPast' /\ NoLeftovers'
    BY <2>1, <2>2
    DEF Inv, OneInFlight, ValueProlongs, Writing, RecordIsPast, NoLeftovers
  <2>5. SlotMatches'
    BY <2>1, <2>2, <2>3 DEF Inv, TypeOK, SlotMatches, Writing
  <2>6. BeliefIsRecorded'
    BY <2>1, <2>2, <2>3
    DEF Inv, TypeOK, Record, BeliefIsRecorded, Believes, OwnedBy
  <2>7. QED
    BY <2>4, <2>5, <2>6 DEF Inv
<1>3. CASE RefreshRead(o)
  <2>1. \A p \in Procs : pc[p] = "idle"
    BY <1>3, StartsAlone DEF RefreshRead
  <2>2. /\ UNCHANGED <<leaseDir, record, temps, litter, belief>>
        /\ UNCHANGED <<now, up, life, crashes>>
    BY <1>3 DEF RefreshRead, disk, world
  <2>3. /\ record # NoRecord /\ record.owner = o /\ record \in Record
        /\ pc' = [pc EXCEPT ![o] = "refreshing"]
        /\ value' = [value EXCEPT ![o] =
                       [record EXCEPT !.expires = now + LeaseSeconds]]
    BY <1>3 DEF RefreshRead, OwnedBy, Goto, Inv, TypeOK
  <2>4. OneInFlight'
    BY <2>1, <2>3 DEF Inv, TypeOK, OneInFlight
  <2>5. SlotMatches'
    BY <2>1, <2>2, <2>3 DEF Inv, TypeOK, SlotMatches, Writing
  <2>6. ValueProlongs'
    <3>1. /\ value'[o].owner = o /\ value'[o].life = record.life
          /\ value'[o].expires = now + LeaseSeconds
      BY <2>3 DEF Inv, TypeOK, Record
    <3>2. /\ record.expires <= now + LeaseSeconds /\ record.life <= life[o]
          /\ now + LeaseSeconds \in Nat
      BY <2>3, LeaseAssumption DEF Inv, TypeOK, RecordIsPast
    <3>3. QED
      BY <2>1, <2>2, <2>3, <3>1, <3>2 DEF Inv, TypeOK, ValueProlongs, Writing
  <2>7. RecordIsPast' /\ BeliefIsRecorded'
    BY <2>2 DEF Inv, RecordIsPast, BeliefIsRecorded, Believes, OwnedBy
  <2>8. NoLeftovers'
    BY <2>1, <2>2, <2>3 DEF Inv, TypeOK, NoLeftovers
  <2>9. QED
    BY <2>4, <2>5, <2>6, <2>7, <2>8 DEF Inv
<1>4. CASE ReleaseRead(o)
  <2>1. \A p \in Procs : pc[p] = "idle"
    BY <1>4, StartsAlone DEF ReleaseRead
  <2>2. /\ UNCHANGED <<leaseDir, record, temps, litter, value>>
        /\ UNCHANGED <<now, up, life, crashes>>
    BY <1>4 DEF ReleaseRead, disk, world
  <2>3. /\ record # NoRecord /\ record.owner = o
        /\ pc' = [pc EXCEPT ![o] = "removing"]
        /\ belief' = [belief EXCEPT ![o] = 0]
    BY <1>4 DEF ReleaseRead, OwnedBy, Goto
  <2>4. OneInFlight'
    BY <2>1, <2>3 DEF Inv, TypeOK, OneInFlight
  <2>5. SlotMatches'
    BY <2>1, <2>2, <2>3 DEF Inv, TypeOK, SlotMatches, Writing
  <2>6. ValueProlongs' /\ RecordIsPast'
    BY <2>1, <2>2, <2>3 DEF Inv, TypeOK, ValueProlongs, Writing, RecordIsPast
  <2>7. BeliefIsRecorded'
    BY <2>2, <2>3 DEF Inv, TypeOK, BeliefIsRecorded, Believes, OwnedBy
  <2>8. NoLeftovers'
    BY <2>1, <2>2, <2>3 DEF Inv, TypeOK, NoLeftovers
  <2>9. QED
    BY <2>4, <2>5, <2>6, <2>7, <2>8 DEF Inv
<1>5. QED
  BY <1>1, <1>2, <1>3, <1>4

\* The writing steps of a claim or a refresh keep the invariant.
LEMMA WriteStep ==
  ASSUME Inv, TypeOK', NEW o \in Owners,
         \/ ClaimTemp(o) \/ ClaimReplace(o) \/ ClaimRollback(o)
         \/ RefreshTemp(o) \/ RefreshReplace(o)
  PROVE  Inv'
<1> o \in Procs /\ o \notin Reapers
  BY ProcsAssumption DEF Procs
<1>1. pc[o] # "idle" /\ \A p \in Procs : p # o => pc[p] = "idle"
  BY DEF ClaimTemp, ClaimReplace, ClaimRollback, RefreshTemp, RefreshReplace,
         Inv, OneInFlight
<1>2. UNCHANGED <<now, up, life, crashes>>
  BY DEF ClaimTemp, ClaimReplace, ClaimRollback, RefreshTemp, RefreshReplace,
         Replace, world
<1>3. CASE ClaimTemp(o)
  <2>1. /\ pc[o] = "made" /\ pc' = [pc EXCEPT ![o] = "claiming"]
        /\ temps' = temps \cup {o}
        /\ UNCHANGED <<leaseDir, record, litter, belief>>
    BY <1>3 DEF ClaimTemp, Goto
  <2>2. record = NoRecord
    BY <2>1 DEF Inv, SlotMatches
  <2>3. OneInFlight'
    BY <1>1, <2>1 DEF Inv, TypeOK, OneInFlight
  <2>4. SlotMatches'
    BY <1>1, <1>2, <2>1, <2>2 DEF Inv, TypeOK, SlotMatches, Writing
  <2>5. ValueProlongs'
    <3>1. /\ value'[o].owner = o
          /\ value'[o].expires = now + LeaseSeconds
          /\ value'[o].life \in {0, life[o]}
      BY <1>3 DEF ClaimTemp, Inv, TypeOK
    <3>2. now + LeaseSeconds \in Nat /\ life[o] \in Nat
      BY LeaseAssumption DEF Inv, TypeOK
    <3>3. QED
      BY <1>1, <1>2, <2>1, <3>1, <3>2 DEF Inv, TypeOK, ValueProlongs, Writing
  <2>6. RecordIsPast' /\ BeliefIsRecorded'
    BY <1>2, <2>1 DEF Inv, RecordIsPast, BeliefIsRecorded, Believes, OwnedBy
  <2>7. NoLeftovers'
    BY <1>1, <1>2, <2>1 DEF Inv, TypeOK, NoLeftovers
  <2>8. QED
    BY <2>3, <2>4, <2>5, <2>6, <2>7 DEF Inv
<1>4. CASE RefreshTemp(o)
  <2>1. /\ pc[o] = "refreshing" /\ pc' = [pc EXCEPT ![o] = "rewriting"]
        /\ temps' = temps \cup {o}
        /\ UNCHANGED <<leaseDir, record, litter, belief, value>>
    BY <1>4 DEF RefreshTemp, Goto
  <2>2. OneInFlight'
    BY <1>1, <2>1 DEF Inv, TypeOK, OneInFlight
  <2>3. SlotMatches'
    BY <1>1, <1>2, <2>1 DEF Inv, TypeOK, SlotMatches, Writing
  <2>4. ValueProlongs'
    BY <1>1, <1>2, <2>1 DEF Inv, TypeOK, ValueProlongs, Writing
  <2>5. RecordIsPast' /\ BeliefIsRecorded'
    BY <1>2, <2>1 DEF Inv, RecordIsPast, BeliefIsRecorded, Believes, OwnedBy
  <2>6. NoLeftovers'
    BY <1>1, <1>2, <2>1 DEF Inv, TypeOK, NoLeftovers, SlotMatches, Writing
  <2>7. QED
    BY <2>2, <2>3, <2>4, <2>5, <2>6 DEF Inv
<1>5. CASE ClaimReplace(o) \/ RefreshReplace(o)
  <2>1. /\ pc[o] \in {"claiming", "rewriting"}
        /\ pc' = [pc EXCEPT ![o] = "idle"]
        /\ record' = value[o] /\ temps' = temps \ {o}
        /\ belief' = [belief EXCEPT ![o] = value[o].expires]
        /\ value' = [value EXCEPT ![o] = NoRecord]
        /\ UNCHANGED <<leaseDir, litter>>
    BY <1>5 DEF ClaimReplace, RefreshReplace, Replace, Finish, Goto
  <2>2. /\ record' \in Record /\ record'.owner = o /\ record' # NoRecord
        /\ record'.expires <= now + LeaseSeconds /\ record'.life <= life[o]
    BY <2>1, NoRecordAssumption
    DEF Inv, TypeOK, ValueProlongs, Writing
  <2>3. OneInFlight'
    BY <1>1, <2>1 DEF Inv, TypeOK, OneInFlight
  <2>4. \A p \in Procs : pc'[p] = "idle"
    BY <1>1, <2>1 DEF Inv, TypeOK
  <2>5. leaseDir'
    BY <1>1, <2>1 DEF Inv, SlotMatches
  <2>6. SlotMatches' /\ ValueProlongs'
    BY <2>4, <2>5 DEF SlotMatches, ValueProlongs, Writing
  <2>7. RecordIsPast'
    BY <1>2, <2>2 DEF RecordIsPast
  <2>8. BeliefIsRecorded'
    <3> SUFFICES ASSUME NEW q \in Owners, belief'[q] > now'
                 PROVE  q = o /\ record'.expires >= belief'[q]
      BY <2>2 DEF BeliefIsRecorded, Believes, OwnedBy
    <3>1. CASE q = o
      BY <1>1, <2>1, <2>2, <3>1 DEF Inv, TypeOK, Record
    <3>2. CASE q # o
      <4>1. record # NoRecord /\ record.owner = q
        BY <1>2, <2>1, <3>2
        DEF Inv, TypeOK, BeliefIsRecorded, Believes, OwnedBy
      <4>2. record = NoRecord \/ record.owner = o
        BY <2>1 DEF Inv, SlotMatches, Writing
      <4>3. QED
        BY <3>2, <4>1, <4>2
    <3>3. QED
      BY <3>1, <3>2
  <2>9. NoLeftovers'
    <3>1. \A p \in temps' : crashes' = 0 => p \in {}
      BY <1>1, <1>2, <2>1 DEF Inv, TypeOK, NoLeftovers
    <3>2. QED
      BY <1>2, <2>1, <2>2, <3>1 DEF Inv, NoLeftovers
  <2>10. QED
    BY <2>3, <2>6, <2>7, <2>8, <2>9 DEF Inv
<1>6. CASE ClaimRollback(o)
  <2>1. /\ pc[o] \in {"made", "claiming"}
        /\ pc' = [pc EXCEPT ![o] = "idle"]
        /\ leaseDir' = FALSE /\ record' = NoRecord
        /\ temps' = {} /\ litter' = FALSE /\ UNCHANGED belief
    BY <1>6 DEF ClaimRollback, Finish, Goto
  <2>2. record = NoRecord
    BY <2>1 DEF Inv, SlotMatches
  <2>3. \A p \in Procs : pc'[p] = "idle"
    BY <1>1, <2>1 DEF Inv, TypeOK
  <2>4. OneInFlight' /\ SlotMatches' /\ ValueProlongs'
    BY <2>1, <2>3 DEF OneInFlight, SlotMatches, ValueProlongs, Writing
  <2>5. RecordIsPast' /\ BeliefIsRecorded' /\ NoLeftovers'
    BY <1>2, <2>1, <2>2
    DEF Inv, RecordIsPast, BeliefIsRecorded, Believes, OwnedBy, NoLeftovers
  <2>6. QED
    BY <2>4, <2>5 DEF Inv
<1>7. QED
  BY <1>3, <1>4, <1>5, <1>6

\* A reaper's decision keeps the invariant: nobody else is at work.
LEMMA ReapStep ==
  ASSUME Inv, ReapAlone, TypeOK', NEW r \in Reapers, ReapRead(r)
  PROVE  Inv'
<1>1. r \in Procs /\ r \notin Owners
  BY ProcsAssumption DEF Procs
<1>2. \A p \in Procs : pc[p] = "idle"
  <2> SUFFICES ASSUME NEW p \in Procs, pc[p] # "idle" PROVE FALSE
    OBVIOUS
  <2>1. p \in Owners /\ record # NoRecord /\ p # record.owner
    BY DEF ReapRead, InFlight, Procs
  <2>2. pc[p] \in Writing \cup {"removing"}
    BY <2>1 DEF Inv, SlotMatches, TypeOK, Writing
  <2>3. QED
    BY <2>1, <2>2 DEF Inv, SlotMatches
<1>3. /\ UNCHANGED <<leaseDir, record, temps, litter, belief, value>>
      /\ UNCHANGED <<now, up, life, crashes>>
  BY DEF ReapRead, disk, world
<1>4. /\ record # NoRecord /\ record.expires <= now /\ record.life # 0
      /\ record.owner \in up => life[record.owner] # record.life
      /\ pc' = [pc EXCEPT ![r] = "removing"]
  BY DEF ReapRead, ProvablyGone, Expired, Goto
<1>5. OneInFlight'
  BY <1>2, <1>4 DEF Inv, TypeOK, OneInFlight
<1>6. SlotMatches'
  BY <1>1, <1>2, <1>3, <1>4 DEF Inv, TypeOK, SlotMatches, Writing
<1>7. ValueProlongs'
  BY <1>2, <1>3, <1>4 DEF Inv, TypeOK, ValueProlongs, Writing
<1>8. RecordIsPast' /\ BeliefIsRecorded'
  BY <1>3 DEF Inv, RecordIsPast, BeliefIsRecorded, Believes, OwnedBy
<1>9. NoLeftovers'
  BY <1>2, <1>3, <1>4 DEF Inv, TypeOK, NoLeftovers
<1>10. QED
  BY <1>5, <1>6, <1>7, <1>8, <1>9 DEF Inv

\* Removing the record, and removing the emptied directory.
LEMMA RemoveStep ==
  ASSUME Inv, TypeOK', NEW p \in Procs, Unlink(p) \/ Rmdir(p)
  PROVE  Inv'
<1>1. pc[p] # "idle" /\ \A q \in Procs : q # p => pc[q] = "idle"
  BY DEF Unlink, Rmdir, Inv, OneInFlight
<1>2. UNCHANGED <<temps, litter, belief, now, up, life, crashes>>
  BY DEF Unlink, Rmdir, world
<1>3. CASE Unlink(p)
  <2>1. /\ pc[p] = "removing" /\ pc' = [pc EXCEPT ![p] = "emptied"]
        /\ record # NoRecord /\ record' = NoRecord
        /\ UNCHANGED <<leaseDir, value>>
    BY <1>3 DEF Unlink, Goto
  <2>2. OneInFlight'
    BY <1>1, <2>1 DEF Inv, TypeOK, OneInFlight
  <2>3. SlotMatches' /\ ValueProlongs' /\ RecordIsPast'
    BY <1>1, <1>2, <2>1
    DEF Inv, TypeOK, SlotMatches, ValueProlongs, RecordIsPast, Writing
  <2>4. BeliefIsRecorded'
    <3> SUFFICES ASSUME NEW o \in Owners, belief[o] > now PROVE FALSE
      BY <1>2 DEF BeliefIsRecorded, Believes
    <3>1. /\ record.owner = o /\ record.expires >= belief[o]
          /\ record \in Record /\ record.expires \in Nat
      BY <2>1 DEF Inv, TypeOK, BeliefIsRecorded, Believes, OwnedBy, Record
    <3>2. belief[o] \in Nat /\ now \in Nat
      BY DEF Inv, TypeOK
    <3>3. CASE p \in Owners
      BY <2>1, <3>1, <3>2, <3>3 DEF Inv, SlotMatches, Writing
    <3>4. CASE p \in Reapers
      BY <2>1, <3>1, <3>2, <3>4 DEF Inv, SlotMatches, Writing
    <3>5. QED
      BY <3>3, <3>4 DEF Procs
  <2>5. NoLeftovers'
    <3>1. pc'[p] = "emptied"
      BY <2>1 DEF Inv, TypeOK
    <3>2. \A q \in temps' : crashes' = 0 => pc'[q] \in {"claiming", "rewriting"}
      BY <1>2, <2>1 DEF Inv, TypeOK, NoLeftovers
    <3>3. QED
      BY <1>2, <3>1, <3>2 DEF Inv, NoLeftovers
  <2>6. QED
    BY <2>2, <2>3, <2>4, <2>5 DEF Inv
<1>4. CASE Rmdir(p)
  <2>1. /\ pc[p] = "emptied" /\ pc' = [pc EXCEPT ![p] = "idle"]
        /\ record = NoRecord /\ record' = record
        /\ temps = {} /\ ~litter /\ leaseDir' = FALSE
    BY <1>4 DEF Rmdir, Finish, Goto
  <2>2. \A q \in Procs : pc'[q] = "idle"
    BY <1>1, <2>1 DEF Inv, TypeOK
  <2>3. OneInFlight' /\ SlotMatches' /\ ValueProlongs'
    BY <2>1, <2>2 DEF OneInFlight, SlotMatches, ValueProlongs, Writing
  <2>4. RecordIsPast' /\ BeliefIsRecorded' /\ NoLeftovers'
    BY <1>2, <2>1
    DEF Inv, RecordIsPast, BeliefIsRecorded, Believes, OwnedBy, NoLeftovers
  <2>5. QED
    BY <2>3, <2>4 DEF Inv
<1>5. QED
  BY <1>3, <1>4

\* An operation that ends in an error or a kill writes nothing.
LEMMA AbortStep ==
  ASSUME Inv, TypeOK', NEW p \in Procs, Error(p) \/ Crash(p)
  PROVE  Inv'
<1>1. pc[p] # "idle" /\ \A q \in Procs : q # p => pc[q] = "idle"
  BY DEF Error, Crash, Inv, OneInFlight
<1>2. /\ UNCHANGED <<leaseDir, record, belief, now, up, life>>
      /\ temps' = temps \ {p} /\ pc' = [pc EXCEPT ![p] = "idle"]
  BY DEF Error, Crash, Finish, Goto, world
<1>3. \A q \in Procs : pc'[q] = "idle"
  BY <1>1, <1>2 DEF Inv, TypeOK
<1>4. OneInFlight' /\ SlotMatches' /\ ValueProlongs'
  BY <1>2, <1>3 DEF Inv, OneInFlight, SlotMatches, ValueProlongs, Writing
<1>5. RecordIsPast' /\ BeliefIsRecorded'
  BY <1>2 DEF Inv, RecordIsPast, BeliefIsRecorded, Believes, OwnedBy
<1>6. NoLeftovers'
  <2>1. CASE Crash(p)
    <3>1. crashes' = crashes + 1 /\ crashes \in Nat
      BY <2>1 DEF Crash, Inv, TypeOK
    <3>2. QED
      BY <3>1 DEF NoLeftovers
  <2>2. CASE Error(p)
    <3>1. UNCHANGED <<litter, crashes>>
      BY <2>2 DEF Error, world
    <3> SUFFICES ASSUME crashes = 0 PROVE NoLeftovers'
      BY <3>1 DEF NoLeftovers
    <3>2. temps' = {} /\ ~litter'
      BY <1>1, <1>2, <3>1 DEF Inv, TypeOK, NoLeftovers
    <3>3. record # NoRecord
      <4>1. CASE pc[p] = "emptied"
        BY <1>1, <2>2, <4>1
        DEF Error, Inv, TypeOK, NoLeftovers, SlotMatches
      <4>2. CASE pc[p] # "emptied"
        BY <2>2, <4>2 DEF Error, Inv, SlotMatches, Writing
      <4>3. QED
        BY <4>1, <4>2
    <3>4. QED
      BY <1>2, <3>2, <3>3 DEF NoLeftovers
  <2>3. QED
    BY <2>1, <2>2
<1>7. QED
  BY <1>4, <1>5, <1>6 DEF Inv

\* Time passes, a listener dies or comes back.
LEMMA WorldStep ==
  ASSUME Inv, TypeOK',
         Tick \/ \E o \in Owners : ListenerDies(o) \/ ListenerRestarts(o)
  PROVE  Inv'
<1>1. /\ UNCHANGED <<leaseDir, record, temps, litter, crashes>>
      /\ UNCHANGED <<belief, pc, value>>
  BY DEF Tick, ListenerDies, ListenerRestarts, disk
<1>2. /\ now' \in Nat /\ now \in Nat /\ now' >= now
      /\ \A o \in Owners : life'[o] >= life[o]
      /\ \A o \in Owners : o \in up' => o \in up \/ life'[o] = life[o] + 1
      /\ \A o \in Owners : life'[o] = life[o] \/ life'[o] = life[o] + 1
      /\ \A o \in Owners : o \in up => life'[o] = life[o]
  BY DEF Tick, ListenerDies, ListenerRestarts, Inv, TypeOK
<1>3. /\ \A o \in Owners : life[o] \in Nat /\ belief[o] \in Nat
      /\ LeaseSeconds \in Nat
      /\ record # NoRecord => record.owner \in Owners /\ record.expires \in Nat
                               /\ record.life \in Nat
  BY LeaseAssumption DEF Inv, TypeOK, Record
<1>4. OneInFlight' /\ NoLeftovers'
  BY <1>1 DEF Inv, OneInFlight, NoLeftovers
<1>5. RecordIsPast'
  BY <1>1, <1>2, <1>3 DEF Inv, RecordIsPast
<1>6. BeliefIsRecorded'
  BY <1>1, <1>2, <1>3 DEF Inv, BeliefIsRecorded, Believes, OwnedBy
<1>7. ValueProlongs'
  <2> SUFFICES ASSUME NEW p \in Procs, pc[p] \in Writing \cup {"claiming"}
               PROVE  value[p].expires <= now' + LeaseSeconds /\ value[p].life <= life'[p]
    BY <1>1 DEF Inv, ValueProlongs
  <2>1. /\ p \in Owners /\ value[p].expires \in Nat /\ value[p].life \in Nat
        /\ value[p].expires <= now + LeaseSeconds /\ value[p].life <= life[p]
    BY DEF Inv, TypeOK, Record, ValueProlongs, Writing
  <2>2. QED
    BY <1>2, <1>3, <2>1
<1>8. SlotMatches'
  <2>1. ASSUME NEW p \in Reapers, pc[p] = "removing"
        PROVE  /\ record.expires <= now' /\ record.life # 0
               /\ record.owner \in up' => life'[record.owner] # record.life
    <3>1. p \in Procs
      BY DEF Procs
    <3>2. /\ record # NoRecord /\ record.life <= life[record.owner]
          /\ record.expires <= now /\ record.life # 0
          /\ record.owner \in up => life[record.owner] # record.life
      BY <2>1, <3>1 DEF Inv, SlotMatches, RecordIsPast, Writing
    <3>3. QED
      BY <1>2, <1>3, <3>2
  <2>2. QED
    BY <1>1, <2>1 DEF Inv, SlotMatches
<1>9. QED
  BY <1>4, <1>5, <1>6, <1>7, <1>8 DEF Inv

-----------------------------------------------------------------------------
\* With reaps run alone, the invariant holds of every reachable state.
THEOREM Inductive == ASSUME ReapAlone PROVE Spec => []Inv
<1>1. Init => Inv
  <2> SUFFICES ASSUME Init PROVE Inv
    OBVIOUS
  <2>1. TypeOK
    BY TypeInit
  <2>2. /\ leaseDir = FALSE /\ record = NoRecord /\ temps = {} /\ ~litter
        /\ now = 1 /\ \A o \in Owners : belief[o] = 0
        /\ \A p \in Procs : pc[p] = "idle"
    BY DEF Init
  <2>3. QED
    BY <2>1, <2>2
    DEF Inv, OneInFlight, SlotMatches, ValueProlongs, Writing, RecordIsPast,
        BeliefIsRecorded, Believes, NoLeftovers
<1>2. Inv /\ [Next]_vars => Inv'
  <2> SUFFICES ASSUME Inv, [Next]_vars PROVE Inv'
    OBVIOUS
  <2>1. TypeOK'
    BY TypeStep DEF Inv
  <2>2. CASE UNCHANGED vars
    BY <2>1, <2>2
    DEF vars, Inv, OneInFlight, SlotMatches, ValueProlongs, Writing,
        RecordIsPast, BeliefIsRecorded, Believes, OwnedBy, NoLeftovers
  <2>3. CASE Next
    BY <2>1, <2>3, StartStep, WriteStep, ReapStep, RemoveStep, AbortStep,
       WorldStep DEF Next
  <2>4. QED
    BY <2>2, <2>3
<1>3. QED
  BY <1>1, <1>2, PTL DEF Spec

\* With reaps run alone, whoever may believe it holds the lease is the one
\* lease.yaml names, for at least as long (_assert_owner, claim, refresh).
THEOREM BeliefsAreRecorded == ASSUME ReapAlone PROVE Spec => []BeliefIsRecorded
<1>1. Inv => BeliefIsRecorded
  BY DEF Inv
<1>2. QED
  BY <1>1, Inductive, PTL

\* With reaps run alone, no two owners hold the lease at once, for any number
\* of owners and whatever is killed (claim's mkdir, _assert_owner, reap).
THEOREM MutualExclusion == ASSUME ReapAlone PROVE Spec => []OneHolder
<1>1. Inv => OneHolder
  BY DEF Inv, BeliefIsRecorded, OwnedBy, OneHolder
<1>2. QED
  BY <1>1, Inductive, PTL

\* With reaps run alone, what reap unlinks is expired and its listener gone at
\* that moment, not only when it looked (reap, lease.py:325).
THEOREM ReapsAreJustified == ASSUME ReapAlone PROVE Spec => ReapIsJustified
<1> DEFINE Justified ==
      \A p \in Reapers :
        pc[p] = "removing" /\ pc'[p] = "emptied" =>
          /\ record.expires <= now
          /\ record.life # 0
          /\ record.owner \in up => life[record.owner] # record.life
<1>1. Inv /\ [Next]_vars => [Justified]_vars
  BY DEF Inv, SlotMatches, Procs
<1>2. QED
  BY <1>1, Inductive, PTL DEF Spec, ReapIsJustified

\* With reaps run alone and nothing killed, a slot without a record can be
\* claimed again, whatever was refused, rolled back or failed
\* (claim's rollback, lease.py:205-211; read_lease, 271).
THEOREM SlotStaysConsistent == ASSUME ReapAlone PROVE Spec => []SlotConsistent
<1>1. Inv => SlotConsistent
  BY DEF Inv, TypeOK, NoLeftovers, SlotConsistent, FreeSlotClaimable, InFlight
<1>2. QED
  BY <1>1, Inductive, PTL

-----------------------------------------------------------------------------
\* A replayed, prolonged or granted lease is a step of the tenure.
LEMMA TellStep ==
  ASSUME Inv, NEW o \in Owners,
         ClaimReplay(o) \/ ClaimReplace(o) \/ RefreshReplace(o)
  PROVE  Seat!Grant(o) \/ Seat!Prolong(o)
<1>1. o \in Procs /\ now + LeaseSeconds \in Nat
  BY LeaseAssumption DEF Procs, Inv, TypeOK
<1>2. CASE ClaimReplay(o)
  <2>1. /\ record # NoRecord /\ record.owner = o /\ UNCHANGED <<record, now>>
        /\ belief' = [belief EXCEPT ![o] = record.expires]
    BY <1>2 DEF ClaimReplay, OwnedBy, disk, world
  <2>2. record.expires \in 0..(now + LeaseSeconds)
    BY <1>1, <2>1 DEF Inv, TypeOK, Record, RecordIsPast
  <2>3. QED
    BY <2>1, <2>2 DEF Seat!Prolong, Seat!Tell
<1>3. ASSUME pc[o] \in {"claiming", "rewriting"}, Replace(o)
      PROVE  /\ record' \in Record /\ record' # NoRecord
             /\ record'.owner = o /\ record'.expires = value[o].expires
             /\ record'.expires \in 0..(now + LeaseSeconds)
             /\ belief' = [belief EXCEPT ![o] = record'.expires]
             /\ UNCHANGED now
  BY <1>1, <1>3, NoRecordAssumption
  DEF Replace, Inv, TypeOK, Record, ValueProlongs, Writing, world
<1>4. CASE ClaimReplace(o)
  <2>1. record = NoRecord
    BY <1>1, <1>4 DEF ClaimReplace, Inv, SlotMatches
  <2>2. QED
    BY <1>3, <1>4, <2>1 DEF ClaimReplace, Seat!Grant, Seat!Tell
<1>5. CASE RefreshReplace(o)
  <2>1. /\ record # NoRecord /\ record.owner = o
        /\ value[o].expires >= record.expires
    BY <1>1, <1>5
    DEF RefreshReplace, Inv, SlotMatches, ValueProlongs, Writing
  <2>2. QED
    BY <1>3, <1>5, <2>1 DEF RefreshReplace, Seat!Prolong, Seat!Tell
<1>6. QED
  BY <1>2, <1>4, <1>5

\* Unlinking the record ends a tenure nobody believes in any more.
LEMMA UnlinkVacates ==
  ASSUME Inv, Inv', NEW p \in Procs, Unlink(p)
  PROVE  Seat!Vacate
<1>1. /\ record # NoRecord /\ record' = NoRecord /\ UNCHANGED <<belief, now>>
  BY DEF Unlink, world
<1>2. record.owner \in Owners
  BY <1>1 DEF Inv, TypeOK, Record
<1>3. ~ (belief'[record.owner] > now')
  BY <1>1, <1>2 DEF Inv, BeliefIsRecorded, Believes, OwnedBy
<1>4. belief[record.owner] \in Nat /\ now \in Nat
  BY <1>2 DEF Inv, TypeOK
<1>5. belief[record.owner] <= now
  BY <1>1, <1>3, <1>4
<1>6. record.owner # NoRecord
  BY <1>2, NoRecordAssumption
<1>7. QED
  BY <1>1, <1>5, <1>6 DEF Seat!Vacate

\* With reaps run alone, operations that race, fail or are killed pass the
\* lease on as an atomic tenure does: from nobody to its next owner, and back
\* once its time is over or its holder gave it up (lease.py:137-368).
THEOREM ImplementsTenure == ASSUME ReapAlone PROVE Spec => TenureSpec
<1>1. Init => Seat!Init
  BY DEF Init, Seat!Init
<1>2. Inv /\ Inv' /\ [Next]_vars => [Seat!Next]_(Seat!vars)
  <2> SUFFICES ASSUME Inv, Inv', [Next]_vars
               PROVE  [Seat!Next]_(Seat!vars)
    OBVIOUS
  <2>1. ASSUME NEW o \in Owners,
               ClaimReplay(o) \/ ClaimReplace(o) \/ RefreshReplace(o)
        PROVE  Seat!Next
    BY <2>1, TellStep DEF Seat!Next
  <2>2. ASSUME NEW o \in Owners, ReleaseRead(o)
        PROVE  Seat!Next
    <3>1. Seat!GiveUp(o)
      BY <2>2 DEF ReleaseRead, OwnedBy, disk, world, Seat!GiveUp
    <3>2. QED
      BY <3>1 DEF Seat!Next
  <2>3. ASSUME NEW p \in Procs, Unlink(p)
        PROVE  Seat!Next
    BY <2>3, UnlinkVacates DEF Seat!Next
  <2>4. CASE Tick
    BY <2>4 DEF Tick, disk, Seat!Tick, Seat!Next
  <2>5. CASE UNCHANGED <<record, belief, now>>
    BY <2>5 DEF Seat!vars
  <2>6. ASSUME NEW o \in Owners,
               \/ ClaimMkdir(o) \/ ClaimTemp(o) \/ ClaimRollback(o)
               \/ RefreshRead(o) \/ RefreshTemp(o)
               \/ ListenerDies(o) \/ ListenerRestarts(o)
        PROVE  UNCHANGED <<record, belief, now>>
    <3>1. ClaimRollback(o) => record = NoRecord
      BY DEF ClaimRollback, Inv, SlotMatches, Procs
    <3>2. QED
      BY <2>6, <3>1
      DEF ClaimMkdir, ClaimTemp, ClaimRollback, RefreshRead, RefreshTemp,
          ListenerDies, ListenerRestarts, disk, world
  <2>7. ASSUME NEW p \in Procs, ReapRead(p) \/ Rmdir(p) \/ Error(p) \/ Crash(p)
        PROVE  UNCHANGED <<record, belief, now>>
    BY <2>7 DEF ReapRead, Rmdir, Error, Crash, disk, world
  <2>8. QED
    BY <2>1, <2>2, <2>3, <2>4, <2>5, <2>6, <2>7 DEF Next, Procs, vars
<1>3. QED
  BY <1>1, <1>2, Inductive, PTL DEF Spec, TenureSpec, Seat!Spec
=============================================================================
