SPECIFICATION Spec
CONSTANTS
  None = None
  d1 = d1
  d2 = d2
  p1 = p1
  p2 = p2
  r1 = r1
  r2 = r2
  Ids = {p1, p2}
  Forms = {f1}
  Documents = {d1, d2}
  Activities = {a1}
  Requests = {r1, r2}
  OnDelete = "refuse"
  MaxCrashes = 1
SYMMETRY Symmetric
INVARIANTS OneProjectPerForm DocumentsHaveFiles
 
\* The system may stop: no more ids and names, and nothing is left to change.
CHECK_DEADLOCK FALSE
