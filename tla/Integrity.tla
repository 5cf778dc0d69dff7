------------------------------ MODULE Integrity ------------------------------
(***************************************************************************)
(* verify() of coordination_substrate/integrity.py: a reader that loads    *)
(* every event of the ledger, recomputes every declared reference, looks   *)
(* for identities claimed twice, and says whether a reader has to stop     *)
(* (fail_closed).  It takes no lock: publishers go on, and files change,   *)
(* between any two of its reads.                                           *)
(*                                                                         *)
(* Each event directory is listed when those before it are loaded, so that *)
(* an event that was not there at the start may be loaded or not.  Events  *)
(* linked by the publisher are well-typed, so malformed bindings and       *)
(* identities are left out, and the directories are there.  Whether a      *)
(* target is a link is asked a moment before it is read: one step here,    *)
(* since what a link put there in between leads to is found as if it were  *)
(* the target's content.                                                   *)
(*                                                                         *)
(* A definition named after another with a suffix is a bug variant of it.  *)
(***************************************************************************)
EXTENDS Naturals

CONSTANTS
  Events,    \* event files
  Identity,  \* per event, its writer and sequence
  DirCount,  \* how many directories there are
  DirOf      \* per event, the one it is in

VARIABLES
  disk,      \* what is at each path
  binding,   \* per event, the references its bytes declare
  scan       \* how far verify() is, with its defects as <<kind, event>>

-----------------------------------------------------------------------------
Known == {"immutable_ref", "snapshot_at_publication"}

\* Bug variant: a target that is gone alarms nobody.
Benign_Absent == {"snapshot-drift", "snapshot-absent", "immutable-failure"}

\* The defect kinds that are expected.
Benign == {"snapshot-drift", "snapshot-absent"}

Kinds == Benign \cup {"unparseable", "unknown", "path-escape",
                      "symlinked-target", "immutable-failure"}

AtRest ==
  [at |-> "rest", dir |-> 0, listed |-> {}, loaded |-> {}, left |-> {},
   defects |-> {}]

Init == scan = AtRest

\* verify() begins.
Begin ==
  /\ scan.at = "rest"
  /\ scan' = [AtRest EXCEPT !.at = "load"]

\* The next directory as it is now, the events of the one before being loaded.
List ==
  /\ scan.at = "load"
  /\ scan.dir < DirCount /\ scan.listed = {}
  /\ scan' = [scan EXCEPT
       !.dir = @ + 1,
       !.listed = {e \in Events : DirOf[e] = scan.dir + 1 /\ disk[e] # "absent"}]

\* One event file read: it parses, or it is rejected.
Load(e) ==
  /\ scan.at = "load"
  /\ e \in scan.listed
  /\ scan' = IF disk[e] \in {"absent", "garbage"}
             THEN [scan EXCEPT !.listed = @ \ {e},
                               !.defects = @ \cup {<<"unparseable", e>>}]
             ELSE [scan EXCEPT !.listed = @ \ {e}, !.loaded = @ \cup {e}]

EndLoad ==
  /\ scan.at = "load"
  /\ scan.dir = DirCount /\ scan.listed = {}
  /\ scan' = [scan EXCEPT
       !.at = "check",
       !.left = UNION {{<<e, r>> : r \in binding[e]} : e \in scan.loaded}]

\* What check_bindings() finds wrong with a reference, if anything.
Finds(r) ==
  IF r.intent \notin Known THEN {"unknown"}
  ELSE IF r.dotted THEN {"path-escape"}
  ELSE IF disk[r.path] = "symlink" THEN {"symlinked-target"}
  ELSE IF disk[r.path] = r.digest THEN {}
  ELSE IF r.intent = "immutable_ref" THEN {"immutable-failure"}
  ELSE IF disk[r.path] = "absent" THEN {"snapshot-absent"}
  ELSE {"snapshot-drift"}

\* One reference of one loaded event recomputed.
CheckBinding ==
  /\ scan.at = "check"
  /\ \E b \in scan.left :
       scan' = [scan EXCEPT !.left = @ \ {b},
                            !.defects = @ \cup (Finds(b[2]) \X {b[1]})]

EndCheck ==
  /\ scan.at = "check"
  /\ scan.left = {}
  /\ scan' = [scan EXCEPT !.at = "done"]

\* The report was read.
Rest ==
  /\ scan.at = "done"
  /\ scan' = AtRest

\* Loaded events that claim one writer's sequence, as pairs.
Duplicates ==
  {d \in scan.loaded \X scan.loaded :
     d[1] # d[2] /\ Identity[d[1]] = Identity[d[2]]}

\* The defects that are not expected.
Alarms == {d \in scan.defects : d[1] \notin Benign}

\* A reader must not go on.
FailClosed == Duplicates # {} \/ Alarms # {}

Step == Begin \/ List \/ (\E e \in Events : Load(e)) \/ EndLoad
          \/ CheckBinding \/ EndCheck \/ Rest
=============================================================================
