SPECIFICATION Spec
CONSTANTS
  s1 = s1
  s2 = s2
  s3 = s3
  r1 = r1
  r2 = r2
  None = None
  Schedulers = {s1, s2, s3}
  Recoverers = {r1, r2}
SYMMETRY Symmetry
PROPERTIES
  RecoveryRefusesLiveOwner
CHECK_DEADLOCK FALSE
