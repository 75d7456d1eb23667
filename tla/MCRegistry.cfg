\* Race free, three peripherals: the safety of the arrays, the Realm and the
\* selected index.
CONSTANTS
  Peripheral = {p1, p2, p3}
  Nil = Nil
  MaxStateEvents = 1
SYMMETRY Symmetry
SPECIFICATION RaceFreeSpec
INVARIANTS
  OneRowPerDevice
  KnownIffConnected
  NoDuplicateRecord
  NothingLost
  SelectionInRange
  RaceFreeInv
PROPERTIES
  SelectionKept
  ImplementsRegistry
  ImplementsControlDevices
