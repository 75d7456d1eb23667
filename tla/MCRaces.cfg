\* Overlapping array messages included: types, what is stored and looked up, and
\* the scan that must resume.
CONSTANTS
  Peripheral = {p1, p2}
  Nil = Nil
  MaxStateEvents = 2
SPECIFICATION Spec
INVARIANTS
  TypeOK
  ConnectedArePersisted
  ScanIsComing
  LookupIsRight
  RacesInv
PROPERTY ScanningResumes
