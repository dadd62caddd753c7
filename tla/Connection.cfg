SPECIFICATION FairSpec
CONSTANTS
  Conn = {c1}
  Rest = {r1}
  User = {u1}
  Token = {t1}
  Role <- MCRole
  Table <- MCTable
  Calls <- MCCalls
  Cap = 1
  IdleLimit = 1
  Unissued = Unissued
  Null = Null
INVARIANTS TypeOK NoSilentChange GateHolds AnsweringClientsKept ReadersChangeNothing
PROPERTIES GateOpens SilentClientsDropped
CHECK_DEADLOCK FALSE
