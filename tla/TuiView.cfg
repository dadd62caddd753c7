SPECIFICATION MCSpec
CONSTANTS
  f1 = f1
  f2 = f2
  Fs = {f1, f2}
  OwnLabel = FALSE
  Budget <- MCBudget
  Room = 2
  Null = Null
INVARIANTS TypeOK SettledView SettledSnapshots PanelOwn
PROPERTIES Quiesces
CHECK_DEADLOCK FALSE
