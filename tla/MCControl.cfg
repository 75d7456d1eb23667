\* Three locks, links lost at any time, relaunches, up to four history objects.
CONSTANTS
  Peripheral = {p1, p2, p3}
  Nil = Nil
  MaxHistory = 4
SYMMETRY Symmetry
SPECIFICATION Spec
INVARIANTS
  TypeOK
  InterfaceAgrees
  CommandAtRest
  RecordMatchesInterface
  SelectedLockShown
  ControlInv
