SPECIFICATION MCSpec
CONSTANTS
  a = a
  b = b
  View <- MCBlock
  Stored <- MCBlockRows
  Name = {a, b}
  Member = {m1, m2}
  Changes = 2
  Sends = 1
  Null = Null
PROPERTIES NothingUntyped SwitchKept MenuKeepsObject
CHECK_DEADLOCK FALSE
