CONSTANTS
  Peripheral = {p1, p2}
  Nil = Nil
  MaxStateEvents = 1
SYMMETRY Symmetry
SPECIFICATION Spec
INVARIANT AlwaysKnowDeviceIfConnected
