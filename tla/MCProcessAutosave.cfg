SPECIFICATION Spec
CONSTANTS
  Processes = {p1, p2}
  Existing = {p1}
  Versions = {v1, v2}
  Untitled = {}
  Template = v1
  Removable = {p1}
  Fresh = Fresh
  Gone = Gone
  None = None
INVARIANTS SavedIsStored
PROPERTIES EveryoneSent
