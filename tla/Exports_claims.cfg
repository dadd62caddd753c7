SPECIFICATION MCClaimsSpec
CONSTANTS
  f1 = f1
  i1 = i1
  d1 = d1
  Task = {t1, t2}
  RestTask = {}
  Fs = {f1}
  Image = {i1, d1}
  Under <- MCUnder
  Named = {i1}
  Protocol <- MCClaimProtocol
  Requests <- MCClaims
  Null = Null
PROPERTIES DestroySeesExports ClaimSeesExports GuardedByProtocol
SYMMETRY MCSymmetry
CHECK_DEADLOCK FALSE
