SPECIFICATION Spec
CONSTANTS
  Proc = {p1, p2}
  UserName = {admin, bob}
  DefaultUser = admin
  Role = {Administrator, Operator}
  Admin = Administrator
  Password = {factory, secret}
  DefaultPassword = factory
  LongPassword = {secret}
  Token = {t1}
  ApiId = {a1}
  TTL = 0
  MaxClock = 0
  MaxLate = 0
  Faults = {"crash"}
  Absent = Absent
  Missing = Missing
  Torn = Torn
SYMMETRY Symmetry
INVARIANTS TypeOK AdminExists SessionsFollowAccounts
PROPERTIES KeepsPromise RevokedForCause
