SPECIFICATION Spec
CONSTANTS
  Proc = {p1, p2}
  UserName = {admin, bob}
  DefaultUser = admin
  Role = {Administrator}
  Admin = Administrator
  Password = {factory, secret}
  DefaultPassword = factory
  LongPassword = {secret}
  Token = {t1}
  ApiId = {}
  TTL = 0
  MaxClock = 0
  MaxLate = 0
  Faults = {}
  Absent = Absent
  Missing = Missing
  Torn = Torn
SYMMETRY Symmetry
INVARIANTS ResetForcesChange
