SPECIFICATION Spec
CONSTANTS
  None = None
  s1 = s1
  s2 = s2
  s3 = s3
  v1 = v1
  v2 = v2
  d1 = d1
  q0 = q0
  q1 = q1
  q2 = q2
  Ids = {s1}
  Root = s1
  Requests = {r1, r2}
  Visits = {v1}
  DeviceOf <- MCDeviceOf
  Questions = {q0, q1}
  NoQuestions = q0
  Updates <- Nothing
  MinShown = 1
  MaxCrashes = 0
  LastDay = 1
PROPERTIES ResultKept
\* The system may stop: nothing is asked of it and the calendar is over.
CHECK_DEADLOCK FALSE
