SPECIFICATION FairSpec
CONSTANTS
  Proc = {p1, p2}
  UserName = {admin}
  DefaultUser = admin
  Role = {Administrator}
  Admin = Administrator
  Password = {factory, secret}
  DefaultPassword = factory
  LongPassword = {secret}
  Token = {t1}
  ApiId = {}
  TTL = 0
  MaxClock = 1
  MaxLate = 1
  Faults = {"io", "cancel", "crash"}
  Absent = Absent
  Missing = Missing
  Torn = Torn
INVARIANT Durable
PROPERTIES DiskNeverRegresses RequestsEnd KeepsTable
