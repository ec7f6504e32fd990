CONSTANTS
  blockchainapi = blockchainapi
  witness1 = witness1
  dr1 = dr1
  master = master
  svc = svc
  None = None
  Voter <- OneVoter
  VoterSeq <- OneVoterSeq
  Candidate <- MCCandidate
  Priority <- MCPriority
  PrimaryService = {}
  Lease = 2
  MaxTerm = 2
  MaxLate = 1
  MaxCrashes = 2
  DiskMayFail = FALSE
SPECIFICATION Spec
INVARIANTS GuardExclusive GuardBacked
PROPERTIES VoteIsFinal ImplementsPrimaryLease
