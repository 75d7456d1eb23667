\* Four views, appended with or without a size while the margin changes.
CONSTANTS
  View = {a, b, c, d}
  Key = {1, 2, 3, 4}
  TemporalKey = {"end align"}
  Nil = Nil
  Margin = {0, 8}
SYMMETRY Symmetry
SPECIFICATION Spec
INVARIANT Chain
