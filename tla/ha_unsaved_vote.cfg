CONSTANTS
  blockchainapi = blockchainapi
  witness1 = witness1
  dr1 = dr1
  master = master
  svc = svc
  None = None
  Voter <- MCVoter
  VoterSeq <- MCVoterSeq
  Candidate <- MCCandidate
  Priority <- MCPriority
  PrimaryService = {}
  Lease = 1
  MaxTerm = 2
  MaxLate = 0
  MaxCrashes = 1
  DiskMayFail = TRUE
SPECIFICATION StorySpec
INVARIANTS GuardExclusive
CHECK_DEADLOCK FALSE
