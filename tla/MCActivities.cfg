SPECIFICATION Spec
CONSTANTS
  None = None
  a1 = a1
  t1 = t1
  t2 = t2
  c1 = c1
  c2 = c2
  Texts <- MCTexts
  Ids = {a1}
  Clients <- MCClients
  Patches <- MCPatches
  Drafts <- MCDrafts
  LastDay = 1
  LastVersion = 2
INVARIANTS PlanningConsistent AtMostOnce
PROPERTIES EditsAreAtomic
\* The system may stop: the activity removed, the calendar at its bound.
CHECK_DEADLOCK FALSE
