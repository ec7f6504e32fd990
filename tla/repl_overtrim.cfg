SPECIFICATION Spec
CONSTANTS
  p1 = p1  p2 = p2  e1 = e1  f1 = f1  f2 = f2  f3 = f3  t1 = t1  t2 = t2
  Node = {p1, p2, e1}
  Committable = {p1, p2}
  Ref = {f1, f2, f3}
  Source <- OwnSource
  N = 1  M = 1
  Deletable = {}
  Planner = {t1}
  Modes = {"full"}
  Flaky = {}
  Verifiable = {}
  KuboFaults = {}
  MayReturn = FALSE  MayRepeat = FALSE
  Recovered = {"trim-extra-replica"}
  JobId = {1, 2}
  Token = {1, 2}
  MaxMishaps = 0
INVARIANT TrimKeepsFloor
CHECK_DEADLOCK FALSE
