CONSTANTS
  v1 = v1
  v2 = v2
  a = a
  b = b
  c = c
  Names = {a, b, c}
  Versions = {v1, v2}
  Holds <- MCHolds
  Initial = v1
  Uploads = {u1, u2}
  None = None
  Own = Own
  Idle = Idle
  MaxRuns = 2
  MaxFaults = 2
SPECIFICATION Spec
SYMMETRY Symmetry
CHECK_DEADLOCK FALSE
INVARIANTS
  NothingLost
  OnlyLateUploadsLost
PROPERTY ReplacedAsOne
