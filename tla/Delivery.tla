------------------------------ MODULE Delivery ------------------------------
(***************************************************************************)
(* What a listener promises of the wakes it hands to its agent, with no    *)
(* loop, pipes, state file or deadlines: one wake at a time, delivered     *)
(* once the agent has taken it in and never before, and nothing carried    *)
(* over from one agent process to the next.                                *)
(*                                                                         *)
(* listener.py states it where it accepts the agent's output (672, 691-    *)
(* 697): the replay receipt "proves the turn was ingested".                *)
(***************************************************************************)
EXTENDS Naturals

CONSTANTS
  Wakes,      \* wakes, each with its kind and sequence
  NoWake      \* nothing is outstanding

VARIABLES
  wake,       \* the outstanding wake
  stage,      \* "none", or the wake is "sent", "taken" in, or "lost"
  taken,      \* the last inbound sequence the agent took in
  delivered   \* the last inbound sequence counted as delivered

vars == <<wake, stage, taken, delivered>>

Init == wake = NoWake /\ stage = "none" /\ taken = 0 /\ delivered = 0

Send ==
  /\ stage = "none"
  /\ wake' \in Wakes /\ stage' = "sent"
  /\ wake'.kind = "pointer" => wake'.sequence > delivered
  /\ UNCHANGED <<taken, delivered>>

\* The sequence that n becomes when the outstanding wake is about one.
Moved(n) == IF wake.kind = "pointer" THEN wake.sequence ELSE n

Take ==
  /\ stage = "sent"
  /\ stage' = "taken" /\ taken' = Moved(taken)
  /\ UNCHANGED <<wake, delivered>>

\* The agent rejects the wake, or is gone.
Lose ==
  /\ stage = "sent"
  /\ stage' = "lost"
  /\ UNCHANGED <<wake, taken, delivered>>

\* Only what was taken in is delivered; a lost wake stays outstanding.
Acknowledge ==
  /\ stage = "taken"
  /\ wake' = NoWake /\ stage' = "none" /\ delivered' = Moved(delivered)
  /\ UNCHANGED taken

\* The listener ends, with its agent.
Restart == wake' = NoWake /\ stage' = "none" /\ taken' = 0 /\ delivered' = 0

Next == Send \/ Take \/ Lose \/ Acknowledge \/ Restart

Spec == Init /\ [][Next]_vars
=============================================================================
