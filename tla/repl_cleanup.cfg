SPECIFICATION FairSpec
CONSTANTS
  p1 = p1  p2 = p2  e1 = e1  f1 = f1  f2 = f2  f3 = f3  t1 = t1  t2 = t2
  Node = {p1}
  Committable = {p1}
  Ref = {f1, f2}
  Source <- OneSource
  N = 1  M = 1
  Deletable = {f1, f2}
  Planner = {t1}
  Modes = {"pin-only", "full"}
  Flaky = {}
  Verifiable = {p1}
  KuboFaults = {"refuses"}
  MayReturn = TRUE  MayRepeat = TRUE
  Recovered = {"trim-extra-replica", "final-release"}
  JobId = {1, 2}
  Token = {1, 2}
  MaxMishaps = 1
INVARIANTS RefcountIsLiveRefs AuthorizationStands
PROPERTY CleanupCompletes
CHECK_DEADLOCK FALSE
