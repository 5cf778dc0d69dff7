------------------------------ MODULE EventLog ------------------------------
(***************************************************************************)
(* What the publisher promises to every reader of a bridge, with no locks, *)
(* processes, crashes or files: an append-only history of events and, for  *)
(* each route, a pointer that names one event of that history and only     *)
(* ever moves forward in its sequence.                                     *)
(*                                                                         *)
(* publisher.py states it in its first lines (4-7): "A valid append-only   *)
(* event is installed first without overwrite, then the pointer is         *)
(* atomically replaced ... A failure can leave a valid orphan event".      *)
(***************************************************************************)
EXTENDS Naturals

CONSTANTS
  Routes,         \* pointer files, one per direction of every role
  SequenceOf(_),  \* the sequence a route's pointer moves along
  Offers,         \* the events callers may try to publish
  NoEvent         \* the pointer file does not exist yet

VARIABLES
  events,       \* the append-only history
  pointer       \* the event each route names

vars == <<events, pointer>>

Init ==
  /\ events = {}
  /\ pointer = [r \in Routes |-> NoEvent]

\* Sequence e is beyond everything the routes of r's sequence point at.
Ahead(r, e) ==
  \A q \in Routes :
    SequenceOf(q) = SequenceOf(r) /\ pointer[q] # NoEvent
      => e.sequence > pointer[q].sequence

\* An event joins the history under a number its sequence has not moved past.
Append(e) ==
  /\ e \notin events
  /\ Ahead(e.route, e)
  /\ events' = events \cup {e}
  /\ UNCHANGED pointer

\* A route moves forward to an event that is already in the history.
Advance(e) ==
  /\ e \in events
  /\ Ahead(e.route, e)
  /\ pointer' = [pointer EXCEPT ![e.route] = e]
  /\ UNCHANGED events

Next == \E e \in Offers : Append(e) \/ Advance(e)

Spec == Init /\ [][Next]_vars
=============================================================================
