SPECIFICATION QuotaFairSpec
CONSTANTS
  None = None
  r1 = r1
  r2 = r2
  f1 = f1
  f2 = f2
  Registrations <- MCRegistrations
  Files = {f1, f2}
  Scopes <- MCScopes
  Size <- MCSize
  Quota = 2
INVARIANTS  ChargedOnce
PROPERTY RegistrationsEnd
