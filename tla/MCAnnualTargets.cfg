SPECIFICATION Spec
CONSTANTS
  None = None
  t1 = t1
  r1 = r1
  r2 = r2
  m1 = m1
  m2 = m2
  Ids = {t1}
  Requests = {r1, r2}
  Measures = {m1, m2}
  Definitions <- MCDefinitions
  Commands <- MCCommands
  LastDay = 1
  LastData = 1
  LastVersion = 4
INVARIANTS ResultFits HistoryTells
PROPERTIES HistoryGrows
\* The system may stop: the calendar and the versions at their bounds.
CHECK_DEADLOCK FALSE
SYMMETRY Interchangeable
