SPECIFICATION FairSpec
CONSTANTS
  p1 = p1  p2 = p2  e1 = e1  f1 = f1  f2 = f2  f3 = f3  t1 = t1  t2 = t2
  Node = {p1, p2, e1}
  Committable = {p1, p2}
  Ref = {f1}
  Source <- OwnSource
  N = 2  M = 1
  Deletable = {}
  Planner = {t1}
  Modes = {"pin-only"}
  Flaky = {p1, p2, e1}
  Verifiable = {p1, e1}
  KuboFaults = {"refuses", "down"}
  MayReturn = FALSE  MayRepeat = FALSE
  Recovered = {}
  JobId = {1, 2}
  Token = {1, 2}
  MaxMishaps = 2
INVARIANTS ConfirmedIsReal AssignmentsAreRetried
PROPERTIES RepairCompletes NoCopyIsRemoved
CHECK_DEADLOCK FALSE
