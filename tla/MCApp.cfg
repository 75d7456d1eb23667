\* The three tabs, two locks and up to three history objects with dates in any order.
CONSTANTS
  View = {0, 1, 2}
  Key = {"v"}
  TemporalKey = {}
  Nil = Nil
  Date = {1, 2, 3}
  Peripheral = {p1, p2}
  MaxHistory = 3
SPECIFICATION AppSpec
INVARIANTS
  HistoryTypeOK
  ContentFillsView
  HighlightShowsContent
  HistoryComplete
  HistoryTellsCommands
  AppInv
PROPERTIES
  ImplementsControl
  ContentsKeepLifeCycle
