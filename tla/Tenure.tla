------------------------------- MODULE Tenure -------------------------------
(***************************************************************************)
(* What the mutating lease promises, with no directory, no record file, no *)
(* operations in flight and no kills: one tenure at a time, granted when   *)
(* there is none, prolonged by its holder alone, never for longer than one *)
(* term from now, and over only when its holder was told so or its time,   *)
(* as it was told to the holder, has run out.                              *)
(*                                                                         *)
(* lease.py states it in its first lines (4-12): "which process may        *)
(* currently mutate shared state".                                         *)
(***************************************************************************)
EXTENDS Naturals

CONSTANTS
  Owners,      \* whoever may hold the lease
  Term,        \* the longest a holder may be told to hold on
  Nobody

VARIABLES
  holder,      \* who holds the lease
  until,       \* the end of the tenure
  told,        \* until when each owner was last told that it holds the lease
  clock

vars == <<holder, until, told, clock>>

Init ==
  /\ holder = Nobody
  /\ until = 0
  /\ told = [o \in Owners |-> 0]
  /\ clock = 1

\* o is told the end of a tenure that is no longer than one term.
Tell(o) ==
  /\ until' \in 0..(clock + Term)
  /\ told' = [told EXCEPT ![o] = until']
  /\ UNCHANGED clock

Grant(o) == holder = Nobody /\ holder' = o /\ Tell(o)

\* The holder is told the end again, or a later one.
Prolong(o) == holder = o /\ UNCHANGED holder /\ until' >= until /\ Tell(o)

\* The holder stops, and is told nothing any more.
GiveUp(o) ==
  /\ holder = o
  /\ told' = [told EXCEPT ![o] = 0]
  /\ UNCHANGED <<holder, until, clock>>

\* The tenure of whoever was told of no time that is left ends.
Vacate ==
  /\ holder # Nobody
  /\ told[holder] <= clock
  /\ holder' = Nobody /\ until' = 0
  /\ UNCHANGED <<told, clock>>

Tick == clock' = clock + 1 /\ UNCHANGED <<holder, until, told>>

Next ==
  \/ \E o \in Owners : Grant(o) \/ Prolong(o) \/ GiveUp(o)
  \/ Vacate
  \/ Tick

Spec == Init /\ [][Next]_vars
=============================================================================
