SPECIFICATION Spec
CONSTANTS
  p1 = p1  p2 = p2  e1 = e1  f1 = f1  f2 = f2  f3 = f3  t1 = t1  t2 = t2
  Node = {p1, p2, e1}
  Committable = {p1, p2}
  Ref = {f1, f2, f3}
  Source <- OwnSource
  N = 1  M = 1
  Deletable = {f1, f2}
  Planner = {t1, t2}
  Modes = {"full"}
  Flaky = {e1}
  Verifiable = {}
  KuboFaults = {"refuses", "down"}
  MayReturn = FALSE  MayRepeat = FALSE
  Recovered = {}
  JobId = {1, 2}
  Token = {1, 2}
  MaxMishaps = 1
INVARIANTS TypeOK TrimKeepsFloor ConfirmedIsReal AuthorizationStands
PROPERTY ImplementsPinnedContent
SYMMETRY AlikePlanners
CHECK_DEADLOCK FALSE
