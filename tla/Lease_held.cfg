\* Three owners interleave every step; two reapers take turns, and wait for the
\* owner whose lease they find.
\* The clock, the restarts and the kills are bounded, so behaviours end.
SPECIFICATION Spec
CONSTANTS
  Owners = {a, b, c}
  Reapers = {r, s}
  LeaseSeconds = 2
  ReapAlone = TRUE
  MaxTime = 6
  MaxLife = 2
  MaxCrashes = 2
  NoRecord = NoRecord
SYMMETRY Symmetry
INVARIANTS TypeOK OneHolder BeliefIsRecorded
PROPERTIES ReapIsJustified TenureSpec
CHECK_DEADLOCK FALSE
