SPECIFICATION FairSpec
CONSTANTS
  None = None
  f1 = f1
  Files = {f1}
  Scopes = {"org", "home"}
  Home = "home"
  Tables <- MCTables
  Grace = 1
  MaxCrashes = 1
INVARIANTS InFlightReserved
PROPERTIES HeldByOneTableKept ReservationsReleased OrphansRemoved SizesReconciled
\* The system may rest only between passes; a pass can always start.
