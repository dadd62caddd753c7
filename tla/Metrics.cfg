SPECIFICATION Spec
CONSTANTS
  Device = {d1}
  Source <- MCSource
  Retention = 2
  Ranges <- MCRanges
  Offsets = {0, 2}
  Horizon = 5
  Jump = 2
  Sets = 1
  Null = Null
INVARIANTS ChartAccounts WindowFaithful
PROPERTIES KeptForRetention
CHECK_DEADLOCK FALSE
