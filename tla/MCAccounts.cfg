SPECIFICATION AccountsSpec
CONSTANTS
  i1 = i1
  i2 = i2
  i3 = i3
  e1 = e1
  e2 = e2
  s1 = s1
  v1 = v1
  Users = {i1, i2, i3}
  Emails = {e1, e2}
  FirstAdmin = i1
  Invited = {i2}
  Slots = {s1}
  Visitors = {v1}
  Operations = {"invite", "resend", "change", "create", "local", "remove", "delete"}
  MaxVersion = 2
  Fresh = Fresh
  Gone = Gone
  None = None
SYMMETRY Symmetry
INVARIANTS NewestLinkWorks RevokedLinksDead
PROPERTIES   GoneStaysGone
