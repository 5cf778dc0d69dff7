------------------------------- MODULE Budget -------------------------------
(***************************************************************************)
(* What consume() promises of bounded execution grants, with no locks, no  *)
(* receipt files, no fsync and no calls in flight: a counter per grant     *)
(* from which units are taken in one indivisible step, and runs that are   *)
(* authorized only on units that were taken and stay taken.                *)
(*                                                                         *)
(* consumption.py states it in its first lines and where it counts (230-   *)
(* 233): the count and the receipt belong under one lock, or two processes *)
(* "both read zero and both install".                                      *)
(***************************************************************************)
EXTENDS Naturals

CONSTANTS
  Grants,      \* execution grants
  Bound        \* per grant, how many runs it allows

VARIABLES
  spent,       \* per grant, the units that count as spent
  authorized,  \* per grant, the runs callers were told to make
  excused      \* per grant, units the host lost after they were durable

vars == <<spent, authorized, excused>>

Init ==
  /\ spent = [g \in Grants |-> 0]
  /\ authorized = [g \in Grants |-> 0]
  /\ excused = [g \in Grants |-> 0]

\* Every run stands on a unit that was spent, or that the host lost.
Covered(g) == authorized[g] <= spent[g] + excused[g]

\* A unit is taken, in one step, while one is left.
Spend(g) ==
  /\ spent[g] < Bound[g]
  /\ spent' = [spent EXCEPT ![g] = @ + 1]
  /\ UNCHANGED <<authorized, excused>>

\* A run is authorized on a unit that no other run stands on.
Authorize(g) ==
  /\ authorized' = [authorized EXCEPT ![g] = @ + 1]
  /\ Covered(g)'
  /\ UNCHANGED <<spent, excused>>

\* A unit goes back, unless a run stands on it.
Refund(g) ==
  /\ spent[g] > 0
  /\ spent' = [spent EXCEPT ![g] = @ - 1]
  /\ Covered(g)'
  /\ UNCHANGED <<authorized, excused>>

\* The host loses power: units that no run stands on may go back; or all of a
\* grant's units are lost at once, and excused as far as they were durable.
Lose ==
  /\ \A g \in Grants :
       /\ \/ spent'[g] \in 0..spent[g] /\ excused'[g] = excused[g]
          \/ /\ spent'[g] = 0
             /\ excused'[g] \in excused[g]..(excused[g] + spent[g])
       /\ Covered(g)'
  /\ UNCHANGED authorized

Next == (\E g \in Grants : Spend(g) \/ Authorize(g) \/ Refund(g)) \/ Lose

Spec == Init /\ [][Next]_vars
=============================================================================
