SPECIFICATION MCSpec
CONSTANTS
  a = a
  b = b
  View <- MCShared
  Stored <- MCSharedRows
  Name = {a, b}
  Member = {m1, m2}
  Changes = 1
  Sends = 2
  Null = Null
INVARIANTS TypeOK SecretStays
PROPERTIES OneMemberAtATime
CHECK_DEADLOCK FALSE
