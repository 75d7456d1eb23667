CONSTANTS
  Peripheral = {p1, p2}
  Nil = Nil
  MaxHistory = 2
SPECIFICATION CalmSpec
PROPERTY TryingAgainHelps
