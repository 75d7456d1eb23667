CONSTANTS
  Peripheral = {p1, p2}
  Nil = Nil
  MaxStateEvents = 1
SPECIFICATION ConnectSpec
INVARIANTS
  ConnectTypeOK
  NoDeviceMissing
  RowsBalance
  LabelMatchesSection
  LabelSaysNoDevices
  ConnectInv
  TappedIsSelected
PROPERTIES
  KeepsLifeCycle
  FoundIsShown
