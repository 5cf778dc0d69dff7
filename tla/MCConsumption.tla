--------------------------- MODULE MCConsumption ----------------------------
(***************************************************************************)
(* Instances of Consumption for TLC.                                       *)
(***************************************************************************)
EXTENDS Consumption, TLC

CONSTANTS
  g1, g2  \* a grant of three runs and one of a single run

Runs == (g1 :> 3) @@ (g2 :> 1)

Symmetry == Permutations(Procs)
=============================================================================
