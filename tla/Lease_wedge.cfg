\* One owner, killed once inside an operation, and a reaper that does not wait
\* for it.
\* The clock, the restarts and the kills are bounded, so behaviours end.
SPECIFICATION Spec
CONSTANTS
  Owners = {a}
  Reapers = {r}
  LeaseSeconds = 2
  ReapAlone = FALSE
  MaxTime = 6
  MaxLife = 2
  MaxCrashes = 1
  NoRecord = NoRecord
CHECK_DEADLOCK FALSE
INVARIANT FreeSlotClaimable
