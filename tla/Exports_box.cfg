SPECIFICATION FairSpec
CONSTANTS
  f1 = f1
  i1 = i1
  d1 = d1
  Task = {t1}
  RestTask = {t1}
  Fs = {f1}
  Image = {}
  Under <- MCNoImage
  Named = {}
  Protocol <- MCBoxProtocol
  Requests <- MCBox
  Null = Null
INVARIANTS TypeOK MountAttaches
PROPERTIES RestoreResumes EveryMoveSeen
CHECK_DEADLOCK FALSE
