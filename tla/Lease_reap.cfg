\* A reaper runs while the owners operate on the lease.
\* The clock, the restarts and the kills are bounded, so behaviours end.
SPECIFICATION Spec
CONSTANTS
  Owners = {a, b}
  Reapers = {r}
  LeaseSeconds = 2
  ReapAlone = FALSE
  MaxTime = 6
  MaxLife = 2
  MaxCrashes = 0
  NoRecord = NoRecord
SYMMETRY Symmetry
CHECK_DEADLOCK FALSE
INVARIANT OneHolder
