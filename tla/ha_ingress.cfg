CONSTANTS
  witness1 = witness1  dr1 = dr1  master = master  svc = svc
  None = None
  Voter <- Two
  VoterSeq <- TwoSeq
  Candidate <- TwoCandidates
  Priority <- MasterFirst
  PrimaryService = {}
  Ingress = {witness1}
  MinLeft = 1
  Lease = 1
  MaxTerm = 1
  MaxLate = 0
  MaxCrashes = 1
  DiskMayFail = FALSE
SPECIFICATION IngressSpec
INVARIANTS TypeOK GuardExclusive OneLeaderPerTerm RouteWasElected
