---------------------------- MODULE HATerms_proofs ----------------------------
(***************************************************************************)
(* At most one candidate ever leads a term, for any voters, candidates and *)
(* durations.  What a candidate knows (its grants, the replies of a status *)
(* round, the majority found in them, its own lease) is about votes that   *)
(* may be long over, and the voters keep only the last one.  The argument  *)
(* is therefore about a history of all votes ever cast, to which the steps *)
(* only add.                                                               *)
(***************************************************************************)
EXTENDS HALease_proofs

\* Whom each voter voted for in each term.
History == [Voter -> [Nat -> Holder]]

\* H2 has every vote of H.
Keeps(H, H2) == \A v \in Voter, t \in Nat : H[v][t] # None => H2[v][t] = H[v][t]

WonBy(H, c, t) == IsQuorum({v \in Voter : H[v][t] = c})

\* H ends with the votes the voters hold now.
VotesRecorded(H) ==
  \A v \in Voter : /\ H[v][term[v]] = votedFor[v]
                   /\ \A t \in Nat : t > term[v] => H[v][t] = None

\* A reply that names a holder tells of a vote for it.
Told(H, r) == r.holder # None => H[r.voter][r.term] = r.holder

\* What a candidate goes by is in H.
RoundRecorded(H, c) ==
  /\ \A v \in grants[c] : H[v][ballot[c]] = c
  /\ \A r \in view[c] : Told(H, r)
  /\ found[c].holder # None => WonBy(H, found[c].holder, found[c].term)
  /\ leaderTerm[c] > 0 => WonBy(H, c, leaderTerm[c])

Recorded(H) == VotesRecorded(H) /\ \A c \in Candidate : RoundRecorded(H, c)

\* A round hears each voter once, so that a quorum of replies is one of voters.
HeardEach(V, n) ==
  /\ \A r \in V : \E i \in 1..(n - 1) : r.voter = VoterSeq[i]
  /\ \A r, s \in V : r.voter = s.voter => r = s

HeardOnce ==
  \A c \in Candidate : /\ HeardEach(view[c], ix[c])
                       /\ pc[c] # "query" => view[c] = {}

-----------------------------------------------------------------------------
(* Replies and voters.                                                      *)

LEMMA EachVoterOnce ==
  \A i, j \in 1..Len(VoterSeq) : VoterSeq[i] = VoterSeq[j] => i = j
<1> DEFINE n == Len(VoterSeq)
           f == [i \in 1..n |-> VoterSeq[i]]
<1>1. n \in Nat \ {0} /\ f \in [1..n -> Voter]
  BY VoterSeqType
<1>2. f \in Surjection(1..n, Voter)
  BY <1>1, VoterSeqAssumption DEF Surjection
<1>3. IsFiniteSet(1..n) /\ Cardinality(1..n) = n
  BY <1>1, FS_Interval
<1>4. f \in Injection(1..n, Voter)
  BY <1>2, <1>3, FS_Surjection, VoterSeqAssumption
<1>5. QED  BY <1>4 DEF Injection, IsInjective

\* A quorum of replies, one of each voter, comes from a quorum of voters.
LEMMA RepliesAreVoters ==
  ASSUME NEW V \in SUBSET Report, \A r, s \in V : r.voter = s.voter => r = s, IsQuorum(V)
  PROVE  IsQuorum({r.voter : r \in V})
<1> DEFINE T == {r.voter : r \in V}
           f == [r \in V |-> r.voter]
<1>1. T \in SUBSET Voter
  BY DEF Report
<1>2. IsFiniteSet(T) /\ Cardinality(T) \in Nat
  BY <1>1, VotersFinite, FS_Subset, FS_CardinalityType
<1>3. f \in Injection(V, T)
  BY DEF Injection, IsInjective
<1>4. IsFiniteSet(V) /\ Cardinality(V) <= Cardinality(T)
  BY <1>2, <1>3, FS_Injection
<1>5. Cardinality(V) \in Nat /\ QuorumSize \in Nat
  BY <1>4, VotersFinite, FS_CardinalityType DEF QuorumSize
<1>6. QED  BY <1>2, <1>4, <1>5 DEF IsQuorum

\* A majority that names a holder in a term tells that it won that term.
LEMMA MajorityWon ==
  ASSUME NEW H \in History, NEW V \in SUBSET Report,
         \A r, s \in V : r.voter = s.voter => r = s,
         \A r \in V : Told(H, r),
         NEW t, NEW h, MajorityHolds(V, t, h)
  PROVE  WonBy(H, h, t)
<1> DEFINE W == {r \in V : r.term = t /\ r.holder = h}
<1>1. h # None /\ IsQuorum(W) /\ W \in SUBSET Report
  BY DEF MajorityHolds
<1>2. IsQuorum({r.voter : r \in W})
  BY <1>1, RepliesAreVoters
<1>3. {r.voter : r \in W} \subseteq {v \in Voter : H[v][t] = h}
  BY <1>1 DEF Told, Report
<1>4. QED  BY <1>2, <1>3, MoreIsQuorum DEF WonBy

LEMMA WonStays ==
  ASSUME NEW H \in History, NEW H2 \in History, Keeps(H, H2),
         NEW c \in Candidate, NEW t \in Nat, WonBy(H, c, t)
  PROVE  WonBy(H2, c, t)
<1>1. {v \in Voter : H[v][t] = c} \subseteq {v \in Voter : H2[v][t] = c}
  BY NoneAssumption DEF Keeps
<1>2. QED  BY <1>1, MoreIsQuorum DEF WonBy

\* A voter votes once in a term, so that no term is won twice.
LEMMA WonOnce ==
  ASSUME NEW H \in History, NEW c \in Candidate, NEW d \in Candidate, NEW t \in Nat,
         WonBy(H, c, t), WonBy(H, d, t)
  PROVE  c = d
<1>1. PICK v \in Voter : v \in {w \in Voter : H[w][t] = c} /\ v \in {w \in Voter : H[w][t] = d}
  BY QuorumsMeet DEF WonBy
<1>2. QED  BY <1>1

-----------------------------------------------------------------------------
(* The history grows with the votes.                                        *)

LEMMA SameVotesRecorded ==
  ASSUME NEW H, VotesRecorded(H), UNCHANGED <<term, votedFor>>
  PROVE  VotesRecorded(H)'
BY DEF VotesRecorded

\* A granted request adds a vote in a term for which there was none, or repeats
\* the vote that is there.
LEMMA RequestRecorded ==
  ASSUME VoterTypeOK, NEW H \in History, VotesRecorded(H), NEW m \in Request,
         Granted(m) \/ Refused(m)
  PROVE  \E H2 \in History : /\ Keeps(H, H2) /\ VotesRecorded(H2)'
                             /\ Granted(m) => H2[m.to][m.term] = m.from
<1>0. m.to \in Voter /\ m.from \in Candidate /\ m.term \in Nat
  BY DEF Request
<1>1. CASE ~(Granted(m) /\ Advances(m))
  <2>1. UNCHANGED <<term, votedFor>>
    BY <1>1 DEF Granted, Refused, voterVars, voteVars
  <2>2. VotesRecorded(H)'
    BY <2>1, SameVotesRecorded
  <2>3. ASSUME Granted(m)  PROVE H[m.to][m.term] = m.from
    <3>1. m.term = term[m.to] /\ votedFor[m.to] = m.from
      BY <1>0, <1>1, <2>3
         DEF Granted, Denied, VoteDenied, RenewDenied, Advances, Request, VoterTypeOK
    <3>2. QED  BY <1>0, <3>1 DEF VotesRecorded
  <2>4. QED  BY <2>2, <2>3 DEF Keeps
<1>2. CASE Granted(m) /\ Advances(m)
  <2> DEFINE w == m.to
             H2 == [H EXCEPT ![w] = [H[w] EXCEPT ![m.term] = m.from]]
  <2>1. /\ term' = [term EXCEPT ![w] = m.term]
        /\ votedFor' = [votedFor EXCEPT ![w] = m.from]
        /\ m.term > term[w] \/ (m.term = term[w] /\ votedFor[w] = None)
    BY <1>0, <1>2
       DEF Granted, Denied, VoteDenied, Advances, Request, VoterTypeOK
  <2>2. H2 \in History
    BY <1>0 DEF History, Holder
  <2>3. H[w][m.term] = None
    BY <1>0, <2>1 DEF VotesRecorded
  <2>4. \A v \in Voter, t \in Nat :
          H2[v][t] = IF v = w /\ t = m.term THEN m.from ELSE H[v][t]
    BY <1>0 DEF History
  <2>5. Keeps(H, H2)
    BY <2>3, <2>4 DEF Keeps
  <2>6. VotesRecorded(H2)'
    <3> SUFFICES ASSUME NEW v \in Voter
                 PROVE  /\ H2[v][term'[v]] = votedFor'[v]
                        /\ \A t \in Nat : t > term'[v] => H2[v][t] = None
      BY DEF VotesRecorded
    <3>1. CASE v = w
      <4>1. term'[v] = m.term /\ votedFor'[v] = m.from /\ m.term >= term[v]
        BY <1>0, <2>1, <3>1 DEF VoterTypeOK
      <4>2. \A t \in Nat : t > m.term => H[v][t] = None
        BY <1>0, <4>1 DEF VotesRecorded, VoterTypeOK
      <4>3. QED  BY <1>0, <2>4, <3>1, <4>1, <4>2
    <3>2. CASE v # w
      <4>1. term'[v] = term[v] /\ votedFor'[v] = votedFor[v] /\ term[v] \in Nat
        BY <1>0, <2>1, <3>2 DEF VoterTypeOK
      <4>2. QED  BY <2>4, <3>2, <4>1 DEF VotesRecorded
    <3>3. QED  BY <3>1, <3>2
  <2>7. H2[m.to][m.term] = m.from
    BY <1>0, <2>4
  <2>8. QED  BY <2>2, <2>5, <2>6, <2>7
<1>3. QED  BY <1>1, <1>2

\* What a voter tells is its vote: LeasesVoted.
LEMMA StatusTold ==
  ASSUME IInv, NEW H, VotesRecorded(H), NEW v \in Voter
  PROVE  Told(H, StatusOf(v))
BY DEF IInv, TypeOK, VoterTypeOK, VoterInv, LeasesVoted, VotesRecorded, Told, StatusOf

\* A step after which a candidate goes by nothing it did not go by before.
LEMMA RoundKept ==
  ASSUME TypeOK, NEW H \in History, NEW H2 \in History, Keeps(H, H2),
         NEW c \in Candidate, RoundRecorded(H, c),
         grants'[c] = {} \/ (grants'[c] = grants[c] /\ ballot'[c] = ballot[c]),
         view'[c] = {} \/ view'[c] = view[c],
         found'[c] = NothingFound \/ found'[c] = found[c],
         leaderTerm'[c] = 0 \/ leaderTerm'[c] = leaderTerm[c]
  PROVE  RoundRecorded(H2, c)'
<1>1. /\ grants[c] \subseteq Voter /\ view[c] \subseteq Report /\ found[c] \in Finding
      /\ ballot[c] \in Nat /\ leaderTerm[c] \in Nat
  BY DEF TypeOK, RoundTypeOK, LeadTypeOK
<1>2. \A v \in grants'[c] : H2[v][ballot'[c]] = c
  BY <1>1, NoneAssumption DEF RoundRecorded, Keeps
<1>3. \A r \in view'[c] : Told(H2, r)
  BY <1>1 DEF RoundRecorded, Told, Keeps, Report
<1>4. found'[c].holder # None => WonBy(H2, found'[c].holder, found'[c].term)
  <2> SUFFICES ASSUME found'[c].holder # None
               PROVE  WonBy(H2, found'[c].holder, found'[c].term)
    OBVIOUS
  <2>1. found'[c] = found[c] /\ WonBy(H, found[c].holder, found[c].term)
    BY DEF NothingFound, RoundRecorded
  <2>2. found[c].holder \in Candidate /\ found[c].term \in Nat
    BY <1>1, <2>1 DEF Finding, Holder
  <2>3. QED  BY <2>1, <2>2, WonStays
<1>5. leaderTerm'[c] > 0 => WonBy(H2, c, leaderTerm'[c])
  BY <1>1, WonStays DEF RoundRecorded
<1>6. QED  BY <1>2, <1>3, <1>4, <1>5 DEF RoundRecorded

-----------------------------------------------------------------------------
(* The steps of voters and candidates.                                      *)

\* One reply more, of the next voter of the list.
LEMMA ReplyHeard ==
  ASSUME NEW n \in 1..Len(VoterSeq), NEW V \in SUBSET Report, HeardEach(V, n),
         NEW r \in Report, r.voter = VoterSeq[n]
  PROVE  HeardEach(V \cup {r}, n + 1)
<1>1. \A s \in V \cup {r} : \E i \in 1..n : s.voter = VoterSeq[i]
  <2>1. \A s \in V : \E i \in 1..(n - 1) : s.voter = VoterSeq[i]
    BY DEF HeardEach
  <2>2. 1..(n - 1) \subseteq 1..n /\ n \in 1..n
    BY VoterCount
  <2>3. QED  BY <2>1, <2>2
<1>2. \A s \in V : s.voter # r.voter
  <2> SUFFICES ASSUME NEW s \in V, s.voter = r.voter  PROVE FALSE
    OBVIOUS
  <2>1. PICK i \in 1..(n - 1) : s.voter = VoterSeq[i]
    BY DEF HeardEach
  <2>2. i \in 1..Len(VoterSeq) /\ i # n
    BY VoterCount
  <2>3. QED  BY <2>1, <2>2, EachVoterOnce
<1>3. (n + 1) - 1 = n
  BY VoterCount
<1>4. QED  BY <1>1, <1>2, <1>3 DEF HeardEach

LEMMA NoReplyHeard ==
  ASSUME NEW n \in 1..Len(VoterSeq), NEW V \in SUBSET Report, HeardEach(V, n)
  PROVE  HeardEach(V, n + 1)
<1>1. 1..(n - 1) \subseteq 1..((n + 1) - 1)
  BY VoterCount
<1>2. QED  BY <1>1 DEF HeardEach

LEMMA NothingHeard == \A n : HeardEach({}, n)
BY DEF HeardEach

\* The status RPC and, after the last one, the sum of the replies.
LEMMA QueryRecorded ==
  ASSUME IInv, HeardOnce, NEW H \in History, Recorded(H), NEW c \in Candidate, Query(c)
  PROVE  Recorded(H)' /\ HeardOnce'
<1> DEFINE v == VoterSeq[ix[c]]
<1>1. /\ pc[c] = "query" /\ ix[c] \in 1..Len(VoterSeq) /\ v \in Voter
      /\ view[c] \in SUBSET Report /\ HeardEach(view[c], ix[c])
      /\ UNCHANGED <<term, votedFor, ballot, grants, leaderTerm>>
  BY VoterSeqType
     DEF IInv, TypeOK, RoundTypeOK, Query, HeardOnce, voterVars, voteVars, leadVars
<1>2. PICK replies \in {view[c] \cup {StatusOf(v)}} \cup IF v # c THEN {view[c]} ELSE {} :
        IF ix[c] < Len(VoterSeq)
        THEN /\ view' = [view EXCEPT ![c] = replies]
             /\ ix' = [ix EXCEPT ![c] = @ + 1]
             /\ UNCHANGED <<pc, found>>
        ELSE /\ view' = [view EXCEPT ![c] = {}]
             /\ ix' = [ix EXCEPT ![c] = 1]
             /\ pc' = [pc EXCEPT ![c] = "decide"]
             /\ \E f \in Findings(replies) :
                  Sums(replies, f) /\ found' = [found EXCEPT ![c] = f]
  BY DEF Query
<1>3. StatusOf(v) \in Report /\ StatusOf(v).voter = v
  BY <1>1, StatusType DEF IInv, TypeOK, StatusOf
<1>4. replies \in SUBSET Report /\ HeardEach(replies, ix[c] + 1)
  <2>1. CASE replies = view[c] \cup {StatusOf(v)}
    BY <1>1, <1>3, <2>1, ReplyHeard
  <2>2. CASE replies = view[c]
    BY <1>1, <2>2, NoReplyHeard
  <2>3. QED  BY <1>2, <2>1, <2>2
<1>5. \A r \in replies : Told(H, r)
  BY <1>1, <1>2, StatusTold DEF Recorded, RoundRecorded
<1>6. VotesRecorded(H)'
  BY <1>1, SameVotesRecorded DEF Recorded
<1>7. /\ \A d \in Candidate \ {c} :
           pc'[d] = pc[d] /\ ix'[d] = ix[d] /\ view'[d] = view[d] /\ found'[d] = found[d]
  BY <1>2 DEF IInv, TypeOK, RoundTypeOK
<1>8. \A d \in Candidate \ {c} : RoundRecorded(H, d)'
  BY <1>1, <1>7 DEF Recorded, RoundRecorded
<1>9. CASE ix[c] < Len(VoterSeq)
  <2>1. /\ view'[c] = replies /\ ix'[c] = ix[c] + 1 /\ pc'[c] = pc[c]
        /\ found'[c] = found[c]
    BY <1>2, <1>9 DEF IInv, TypeOK, RoundTypeOK
  <2>2. RoundRecorded(H, c)'
    BY <1>1, <1>5, <2>1 DEF Recorded, RoundRecorded
  <2>3. HeardOnce'
    BY <1>1, <1>4, <1>7, <2>1 DEF HeardOnce
  <2>4. QED  BY <1>6, <1>8, <2>2, <2>3 DEF Recorded
<1>10. CASE ~(ix[c] < Len(VoterSeq))
  <2>1. PICK f : Sums(replies, f) /\ found' = [found EXCEPT ![c] = f]
    BY <1>2, <1>10
  <2>2. view'[c] = {} /\ found'[c] = f
    BY <1>2, <1>10, <2>1 DEF IInv, TypeOK, RoundTypeOK
  <2>3. f.holder # None => WonBy(H, f.holder, f.term)
    BY <1>4, <1>5, <2>1, MajorityWon DEF Sums, HeardEach
  <2>4. RoundRecorded(H, c)'
    BY <1>1, <2>2, <2>3 DEF Recorded, RoundRecorded
  <2>5. HeardOnce'
    BY <1>7, <2>2, NothingHeard DEF HeardOnce
  <2>6. QED  BY <1>6, <1>8, <2>4, <2>5 DEF Recorded
<1>11. QED  BY <1>9, <1>10

\* A step of one candidate that hears and asks nobody.
LEMMA QuietRecorded ==
  ASSUME IInv, HeardOnce, NEW H \in History, Recorded(H), NEW c \in Candidate,
         UNCHANGED <<term, votedFor>>,
         RoundRecorded(H, c)', view'[c] = {},
         \A d \in Candidate \ {c} :
            /\ pc'[d] = pc[d] /\ ix'[d] = ix[d] /\ view'[d] = view[d]
            /\ found'[d] = found[d] /\ ballot'[d] = ballot[d] /\ grants'[d] = grants[d]
            /\ leaderTerm'[d] = leaderTerm[d]
  PROVE  Recorded(H)' /\ HeardOnce'
<1>1. VotesRecorded(H)'
  BY SameVotesRecorded DEF Recorded
<1>2. \A d \in Candidate \ {c} : RoundRecorded(H, d)'
  BY DEF Recorded, RoundRecorded
<1>3. HeardOnce'
  BY NothingHeard DEF HeardOnce
<1>4. QED  BY <1>1, <1>2, <1>3 DEF Recorded

\* A round that ends, with the lease kept, given up or forgotten.
LEMMA EndedRecorded ==
  ASSUME IInv, HeardOnce, NEW H \in History, Recorded(H), NEW c \in Candidate,
         UNCHANGED <<term, votedFor>>, EndLoop(c),
         leaderTerm' = leaderTerm \/ leaderTerm' = [leaderTerm EXCEPT ![c] = 0]
  PROVE  Recorded(H)' /\ HeardOnce'
<1>1. RoundRecorded(H, c) /\ Keeps(H, H) /\ TypeOK
  BY DEF Recorded, Keeps, IInv
<1>2. /\ grants'[c] = {} /\ view'[c] = {} /\ found'[c] = NothingFound
      /\ leaderTerm'[c] = 0 \/ leaderTerm'[c] = leaderTerm[c]
      /\ \A d \in Candidate \ {c} :
            /\ pc'[d] = pc[d] /\ ix'[d] = ix[d] /\ view'[d] = view[d]
            /\ found'[d] = found[d] /\ ballot'[d] = ballot[d] /\ grants'[d] = grants[d]
            /\ leaderTerm'[d] = leaderTerm[d]
  BY <1>1 DEF EndLoop, TypeOK, RoundTypeOK, LeadTypeOK
<1>3. RoundRecorded(H, c)'
  BY <1>1, <1>2, RoundKept
<1>4. QED  BY <1>2, <1>3, QuietRecorded

\* The lease adopted is one that its candidate won.
LEMMA DecideRecorded ==
  ASSUME IInv, HeardOnce, NEW H \in History, Recorded(H), NEW c \in Candidate, Decide(c)
  PROVE  Recorded(H)' /\ HeardOnce'
<1>1. RoundRecorded(H, c) /\ Keeps(H, H) /\ TypeOK
  BY DEF Recorded, Keeps, IInv
<1>2. CASE YieldToHolder(c) \/ YieldToHigherTerm(c) \/ StandBy(c) \/ BecomeIneligible(c)
  <2>1. EndLoop(c) /\ Demote(c) /\ UNCHANGED voterVars
    BY <1>2 DEF YieldToHolder, YieldToHigherTerm, StandBy, BecomeIneligible, DemoteAndEnd
  <2>2. QED  BY <2>1, EndedRecorded DEF Demote, voterVars, voteVars
<1>3. CASE KeepLease(c) \/ AdoptLease(c) \/ BeginCampaign(c) \/ BeginRenew(c)
  <2>1. /\ pc[c] \in {"decide", "check"}
        /\ UNCHANGED <<term, votedFor, view, grants>>
        /\ \A d \in Candidate \ {c} :
            /\ pc'[d] = pc[d] /\ ix'[d] = ix[d] /\ found'[d] = found[d]
            /\ ballot'[d] = ballot[d] /\ leaderTerm'[d] = leaderTerm[d]
    BY <1>3 DEF KeepLease, AdoptLease, BeginCampaign, BeginRenew, NotYielding, IInv, TypeOK,
       RoundTypeOK, LeadTypeOK, voterVars, voteVars, leadVars
  <2>2. view'[c] = {} /\ grants'[c] = {}
    BY <2>1 DEF HeardOnce, IInv, RoundInv, GrantsInRounds
  <2>3. found'[c] = NothingFound \/ found'[c] = found[c]
    BY <1>3 DEF KeepLease, AdoptLease, BeginCampaign, BeginRenew, IInv, TypeOK, RoundTypeOK
  <2>4. CASE AdoptLease(c)
    <3>1. found[c].holder = c /\ leaderTerm'[c] = found[c].term /\ found'[c] = NothingFound
      BY <2>4 DEF AdoptLease, IInv, TypeOK, RoundTypeOK, LeadTypeOK
    <3>2. RoundRecorded(H, c)'
      BY <1>1, <2>2, <3>1, NoneAssumption DEF RoundRecorded, NothingFound
    <3>3. QED  BY <2>1, <2>2, <3>2, QuietRecorded
  <2>5. CASE ~AdoptLease(c)
    <3>1. leaderTerm'[c] = leaderTerm[c]
      BY <1>3, <2>5 DEF KeepLease, BeginCampaign, BeginRenew, leadVars
    <3>2. RoundRecorded(H, c)'
      BY <1>1, <2>2, <2>3, <3>1, RoundKept
    <3>3. QED  BY <2>1, <2>2, <3>2, QuietRecorded
  <2>6. QED  BY <2>4, <2>5
<1>4. QED  BY <1>2, <1>3 DEF Decide

\* The term of the lease is one in which a quorum granted its votes to the winner.
LEMMA FinishRecorded ==
  ASSUME IInv, HeardOnce, NEW H \in History, Recorded(H), NEW c \in Candidate, Finish(c)
  PROVE  Recorded(H)' /\ HeardOnce'
<1>1. RoundRecorded(H, c)
  BY DEF Recorded
<1>2. ASSUME Won(c)  PROVE WonBy(H, c, ballot[c])
  <2>1. IsQuorum(grants[c]) /\ grants[c] \subseteq {v \in Voter : H[v][ballot[c]] = c}
    BY <1>1, <1>2 DEF Won, RoundRecorded, IInv, TypeOK, RoundTypeOK
  <2>2. QED  BY <2>1, MoreIsQuorum DEF WonBy
<1>3. CASE Win(c)
  <2>1. /\ pc[c] = "ask" /\ UNCHANGED <<term, votedFor, view, found>>
        /\ leaderTerm'[c] = ballot[c] /\ grants'[c] = {}
        /\ \A d \in Candidate \ {c} :
            /\ pc'[d] = pc[d] /\ ix'[d] = ix[d] /\ ballot'[d] = ballot[d]
            /\ grants'[d] = grants[d] /\ leaderTerm'[d] = leaderTerm[d]
    BY <1>3 DEF Win, RoundDone, IInv, TypeOK, RoundTypeOK, LeadTypeOK, voterVars, voteVars
  <2>2. view'[c] = {}
    BY <2>1 DEF HeardOnce
  <2>3. RoundRecorded(H, c)'
    BY <1>1, <1>2, <1>3, <2>1, <2>2 DEF RoundRecorded, Win
  <2>4. QED  BY <2>1, <2>2, <2>3, QuietRecorded
<1>4. CASE GuardNotWritten(c)
  <2>1. /\ EndLoop(c) /\ Won(c) /\ leaderTerm' = [leaderTerm EXCEPT ![c] = ballot[c]]
        /\ UNCHANGED <<term, votedFor>>
    BY <1>4 DEF GuardNotWritten, voterVars, voteVars
  <2>2. /\ grants'[c] = {} /\ view'[c] = {} /\ found'[c] = NothingFound
        /\ leaderTerm'[c] = ballot[c]
        /\ \A d \in Candidate \ {c} :
            /\ pc'[d] = pc[d] /\ ix'[d] = ix[d] /\ view'[d] = view[d]
            /\ found'[d] = found[d] /\ ballot'[d] = ballot[d] /\ grants'[d] = grants[d]
            /\ leaderTerm'[d] = leaderTerm[d]
    BY <2>1 DEF EndLoop, IInv, TypeOK, RoundTypeOK, LeadTypeOK
  <2>3. RoundRecorded(H, c)'
    BY <1>2, <2>1, <2>2 DEF RoundRecorded, NothingFound
  <2>4. QED  BY <2>1, <2>2, <2>3, QuietRecorded
<1>5. CASE Finish(c) /\ ~Win(c) /\ ~GuardNotWritten(c)
  <2>1. /\ EndLoop(c) /\ UNCHANGED voterVars
        /\ leaderTerm' = leaderTerm \/ leaderTerm' = [leaderTerm EXCEPT ![c] = 0]
    BY <1>5 DEF Finish, LoseCampaign, LoseLease, MissRenewal, StartServices, StartTooLate,
       StartFails, DemoteAndEnd, Demote, leadVars
  <2>2. QED  BY <2>1, EndedRecorded DEF voterVars, voteVars
<1>6. QED  BY <1>3, <1>4, <1>5

\* A vote is added, or repeated, for the round that asked for it.
LEMMA AskRecorded ==
  ASSUME DiskMayFail = FALSE, IInv, HeardOnce, NEW H \in History, Recorded(H),
         NEW c \in Candidate, Ask(c)
  PROVE  \E H2 \in History : Keeps(H, H2) /\ Recorded(H2)' /\ HeardOnce'
<1>1. /\ Asks(c) /\ VoterTypeOK /\ TypeOK
      /\ UNCHANGED <<pc, view, found, ballot, leaderTerm>>
      /\ ix' = [ix EXCEPT ![c] = @ + 1]
  BY DEF Ask, AskGranted, AskRefused, AskNotSaved, AskUnanswered, leadVars, IInv, TypeOK
<1>2. PICK m \in Request : m = NextRequest(c)
  BY <1>1, NextRequestType DEF TypeOK
<1>3. /\ m.to = VoterSeq[ix[c]] /\ m.from = c /\ m.term = ballot[c]
  BY <1>2 DEF NextRequest
<1>4. \/ Granted(m) /\ grants' = [grants EXCEPT ![c] = @ \cup {m.to}]
      \/ (Refused(m) \/ UNCHANGED voterVars) /\ UNCHANGED grants
  BY <1>2, <1>3 DEF Ask, AskGranted, AskRefused, AskNotSaved, NotSaved, AskUnanswered
<1>5. \E H2 \in History : /\ Keeps(H, H2) /\ VotesRecorded(H2)'
                          /\ Granted(m) => H2[m.to][m.term] = m.from
  <2>1. CASE Granted(m) \/ Refused(m)
    BY <1>1, <2>1, RequestRecorded DEF Recorded
  <2>2. CASE UNCHANGED voterVars /\ ~Granted(m)
    BY <2>2, SameVotesRecorded DEF Recorded, Keeps, voterVars, voteVars
  <2>3. QED  BY <1>4, <2>1, <2>2
<1>6. PICK H2 \in History : /\ Keeps(H, H2) /\ VotesRecorded(H2)'
                            /\ Granted(m) => H2[m.to][m.term] = m.from
  BY <1>5
<1>7. ASSUME NEW d \in Candidate, grants'[d] = grants[d]
      PROVE  RoundRecorded(H2, d)'
  <2>1. RoundRecorded(H, d) /\ ballot'[d] = ballot[d] /\ view'[d] = view[d]
        /\ found'[d] = found[d] /\ leaderTerm'[d] = leaderTerm[d]
    BY <1>1 DEF Recorded
  <2>2. QED  BY <1>1, <1>6, <1>7, <2>1, RoundKept
<1>8. ASSUME Granted(m), grants' = [grants EXCEPT ![c] = @ \cup {m.to}]
      PROVE  RoundRecorded(H2, c)'
  <2>1. grants'[c] = grants[c] \cup {m.to} /\ grants[c] \subseteq Voter /\ ballot[c] \in Nat
    BY <1>1, <1>8 DEF TypeOK, RoundTypeOK
  <2>2. \A v \in grants[c] : H[v][ballot[c]] = c
    BY DEF Recorded, RoundRecorded
  <2>3. \A v \in grants'[c] : H2[v][ballot'[c]] = c
    BY <1>1, <1>3, <1>6, <1>8, <2>1, <2>2, NoneAssumption DEF Keeps
  <2>4. view[c] = {}
    BY <1>1 DEF Asks, HeardOnce
  <2>5. found[c] \in Finding /\ leaderTerm[c] \in Nat
    BY <1>1 DEF TypeOK, RoundTypeOK, LeadTypeOK
  <2>6. found[c].holder # None => WonBy(H2, found[c].holder, found[c].term)
    BY <1>6, <2>5, WonStays DEF Recorded, RoundRecorded, Finding, Holder
  <2>7. leaderTerm[c] > 0 => WonBy(H2, c, leaderTerm[c])
    BY <1>6, <2>5, WonStays DEF Recorded, RoundRecorded
  <2>8. QED  BY <1>1, <2>3, <2>4, <2>6, <2>7 DEF RoundRecorded
<1>9. \A d \in Candidate : RoundRecorded(H2, d)'
  BY <1>1, <1>4, <1>7, <1>8 DEF TypeOK, RoundTypeOK
<1>10. HeardOnce'
  <2>1. view[c] = {}
    BY <1>1 DEF Asks, HeardOnce
  <2>2. \A d \in Candidate \ {c} : ix'[d] = ix[d]
    BY <1>1 DEF TypeOK, RoundTypeOK
  <2>3. QED  BY <1>1, <2>1, <2>2, NothingHeard DEF HeardOnce
<1>11. QED  BY <1>6, <1>9, <1>10 DEF Recorded

LEMMA LateRecorded ==
  ASSUME DiskMayFail = FALSE, IInv, HeardOnce, NEW H \in History, Recorded(H), HandleLate
  PROVE  \E H2 \in History : Keeps(H, H2) /\ Recorded(H2)' /\ HeardOnce'
<1>1. PICK m \in late : /\ Granted(m) \/ Refused(m)
                        /\ UNCHANGED <<roundVars, leadVars>>
  BY DEF HandleLate, NotSaved
<1>2. m \in Request /\ TypeOK /\ VoterTypeOK
  BY DEF IInv, TypeOK
<1>3. PICK H2 \in History : Keeps(H, H2) /\ VotesRecorded(H2)'
  BY <1>1, <1>2, RequestRecorded DEF Recorded
<1>4. ASSUME NEW d \in Candidate  PROVE RoundRecorded(H2, d)'
  <2>1. RoundRecorded(H, d) /\ ballot'[d] = ballot[d] /\ view'[d] = view[d]
        /\ grants'[d] = grants[d] /\ found'[d] = found[d] /\ leaderTerm'[d] = leaderTerm[d]
    BY <1>1 DEF Recorded, roundVars, leadVars
  <2>2. QED  BY <1>2, <1>3, <2>1, RoundKept
<1>5. HeardOnce'
  BY <1>1 DEF HeardOnce, roundVars
<1>6. QED  BY <1>3, <1>4, <1>5 DEF Recorded

\* The vote in the file is the vote in memory.
LEMMA RestartRecorded ==
  ASSUME IInv, HeardOnce, NEW H \in History, Recorded(H), NEW n \in Node,
         RestartAgent(n) \/ Reboot(n)
  PROVE  Recorded(H)' /\ HeardOnce'
<1>1. UNCHANGED <<term, votedFor>>
  BY DEF RestartAgent, Reboot, VoterRestarts, voterVars, voteVars, IInv, VoterInv,
         VotesSaved, TypeOK, VoterTypeOK
<1>2. CandidateRestarts(n)
  BY DEF RestartAgent, Reboot
<1>3. CASE n \in Candidate
  BY <1>1, <1>2, <1>3, EndedRecorded DEF CandidateRestarts
<1>4. CASE n \notin Candidate
  <2>1. UNCHANGED <<roundVars, leaderTerm>>
    BY <1>2, <1>4 DEF CandidateRestarts
  <2>2. QED
    BY <1>1, <2>1, SameVotesRecorded DEF Recorded, RoundRecorded, HeardOnce, roundVars
<1>5. QED  BY <1>3, <1>4

\* Every step records what it adds.
LEMMA NextRecorded ==
  ASSUME DiskMayFail = FALSE, IInv, HeardOnce, [Next]_vars, NEW H \in History, Recorded(H)
  PROVE  \E H2 \in History : Keeps(H, H2) /\ Recorded(H2)' /\ HeardOnce'
<1>0. Keeps(H, H)
  BY DEF Keeps
<1>1. ASSUME NEW c \in Candidate, Query(c) \/ Decide(c) \/ Finish(c)
      PROVE  Recorded(H)' /\ HeardOnce'
  BY <1>1, QueryRecorded, DecideRecorded, FinishRecorded
<1>2. ASSUME NEW n \in Node, RestartAgent(n) \/ Reboot(n)
      PROVE  Recorded(H)' /\ HeardOnce'
  BY <1>2, RestartRecorded
<1>3. CASE Tick \/ (\E c \in Candidate : Watchdog(c)) \/ UNCHANGED vars
  <2>1. UNCHANGED <<term, votedFor, pc, ix, view, found, ballot, grants, leaderTerm>>
    BY <1>3 DEF Tick, Watchdog, vars, voterVars, voteVars, roundVars, leadVars
  <2>2. Recorded(H)' /\ HeardOnce'
    BY <2>1, SameVotesRecorded DEF Recorded, RoundRecorded, HeardOnce
  <2>3. QED  BY <1>0, <2>2
<1>4. ASSUME NEW c \in Candidate, Ask(c)
      PROVE  \E H2 \in History : Keeps(H, H2) /\ Recorded(H2)' /\ HeardOnce'
  BY <1>4, AskRecorded
<1>5. CASE HandleLate
  BY <1>5, LateRecorded
<1>6. QED
  BY <1>0, <1>1, <1>2, <1>3, <1>4, <1>5 DEF Next

-----------------------------------------------------------------------------
(* The theorem.                                                             *)

\* There is a history of the votes in which everything the candidates go by is
\* found.
HistoryKept == HeardOnce /\ \E H \in History : Recorded(H)

LEMMA InitRecorded ==
  ASSUME Init
  PROVE  HeardOnce /\ Recorded([v \in Voter |-> [t \in Nat |-> None]])
BY DEF Init, HeardOnce, HeardEach, Recorded, VotesRecorded, RoundRecorded, NothingFound

LEMMA InitHistory == Init => HistoryKept
<1>1. [v \in Voter |-> [t \in Nat |-> None]] \in History
  BY DEF History, Holder
<1>2. QED  BY <1>1, InitRecorded DEF HistoryKept

THEOREM HistoryIsKept ==
  ASSUME DiskMayFail = FALSE
  PROVE  Spec => []HistoryKept
<1>1. Init => HistoryKept
  BY InitHistory
<1>2. IInv /\ HistoryKept /\ [Next]_vars => HistoryKept'
  BY NextRecorded DEF HistoryKept
<1>3. QED  BY <1>1, <1>2, Inductive, PTL DEF Spec

\* No two candidates ever lead the same term, however long ago it was won: each
\* leadership rests on a quorum of votes in its term, counted in the round that
\* won it or told by the voters when it was adopted, and two quorums share a voter,
\* which voted once in that term (_campaign, _majority_view, PersistentVoteState).
THEOREM TermsHaveOneLeader ==
  ASSUME DiskMayFail = FALSE
  PROVE  Spec => []OneLeaderPerTerm
<1>1. IInv /\ HistoryKept => OneLeaderPerTerm
  <2> SUFFICES ASSUME IInv, NEW H \in History, Recorded(H),
                      NEW c \in Candidate, NEW d \in Candidate,
                      leaderTerm[c] = leaderTerm[d], leaderTerm[c] > 0
               PROVE  c = d
    BY DEF HistoryKept, OneLeaderPerTerm
  <2>1. WonBy(H, c, leaderTerm[c]) /\ WonBy(H, d, leaderTerm[c]) /\ leaderTerm[c] \in Nat
    BY DEF Recorded, RoundRecorded, IInv, TypeOK, LeadTypeOK
  <2>2. QED  BY <2>1, WonOnce
<1>2. QED  BY <1>1, Inductive, HistoryIsKept, PTL
=============================================================================
