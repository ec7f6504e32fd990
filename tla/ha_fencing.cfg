CONSTANTS
  blockchainapi = blockchainapi
  witness1 = witness1
  dr1 = dr1
  master = master
  svc = svc
  None = None
  Voter <- OneVoter
  VoterSeq <- OneVoterSeq
  Candidate <- MCCandidate
  Priority <- MCPriority
  PrimaryService = {svc}
  Lease = 2
  MaxTerm = 2
  MaxLate = 0
  MaxCrashes = 1
  DiskMayFail = TRUE
SPECIFICATION FairSpec
PROPERTIES ServicesNeedLeases
