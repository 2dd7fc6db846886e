SPECIFICATION TreeSpec
CONSTANTS
  o1 = o1
  o2 = o2
  o3 = o3
  o4 = o4
  ix = ix
  iy = iy
  Orgs = {o1, o2, o3, o4}
  Editable = {o2}
  Listed = {o2}
  Root = o1
  Items = {ix, iy}
  Own <- OwnItems
  Legacy = {ix}
  Rules <- Nothing
  Defaults <- Everything
  Kinds = {"create", "move", "remove", "edit"}
  Writers = {w1}
  Readers = {r1}
  Fresh = Fresh
  Gone = Gone
  None = None
SYMMETRY Symmetry
INVARIANTS NoCycle PathsMatchTree UnforcedMoveHidesNothing StaleOnlyWhenOverlapped
