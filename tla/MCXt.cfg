\* A key, a metric that may be negative, 0 or missing, and every text of the grammar's tokens on both sides.
CONSTANTS
  View = {a, b}
  Key = {"v"}
  TemporalKey = {}
  Nil = Nil
  Number <- MCNumber
  Metric = {m}
  MaxConstraints = 1
SYMMETRY Symmetry
SPECIFICATION XtSpec
INVARIANT ParsedAsWritten
