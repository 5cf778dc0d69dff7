\* Three consumers over a grant of three runs and one of a single run; every
\* failure, kills, and two power losses.
SPECIFICATION Spec
CONSTANTS
  g1 = g1
  g2 = g2
  Procs = {p, q, s}
  Grants = {g1, g2}
  Bound <- Runs
  MaxLosses = 2
  Nobody = Nobody
SYMMETRY Symmetry
INVARIANTS NeverOverspent RunsAreAccounted LeftIsSpendable
PROPERTIES BudgetSpec
