SPECIFICATION Spec
CONSTANTS
  t1 = t1 t2 = t2 anna = anna ben = ben
  Tabs = {t1, t2}
  Users = {anna, ben}
  Ids = {1, 2, 3, 4, 5, 6, 7}
  SignsIn <- BothInTheFirst
  Active = {t1}
  MaxStrays = 1
  None = None
INVARIANTS OwnSession WaitersAreServed
PROPERTIES KeepsItsSession
VIEW Seen
