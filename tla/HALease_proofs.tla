---------------------------- MODULE HALease_proofs ----------------------------
(***************************************************************************)
(* Type correctness and the exclusiveness of the lease, for any voters,    *)
(* candidates and durations and without any bound on terms, late requests  *)
(* and crashes (they are arbitrary constants here).                        *)
(***************************************************************************)
EXTENDS HALease, FiniteSetTheorems, SequenceTheorems, TLAPS

LEMMA VoterSeqType ==
  /\ Len(VoterSeq) \in Nat \ {0}
  /\ \A i \in 1..Len(VoterSeq) : VoterSeq[i] \in Voter
<1>1. VoterSeq \in Seq(Voter) /\ VoterSeq # <<>>
  BY VoterSeqAssumption
<1>2. Len(VoterSeq) \in Nat \ {0}
  BY <1>1, EmptySeq
<1>3. ASSUME NEW i \in 1..Len(VoterSeq)  PROVE VoterSeq[i] \in Voter
  BY <1>1, ElementOfSeq
<1>4. QED  BY <1>2, <1>3

LEMMA VoterCount == Len(VoterSeq) \in Nat \ {0}
BY VoterSeqType

-----------------------------------------------------------------------------
(* Type correctness.                                                        *)

LEMMA InitType == Init => TypeOK
BY LeaseAssumption, VoterSeqType
   DEF Init, TypeOK, VoterTypeOK, RoundTypeOK, LeadTypeOK, Holder, Finding,
       NothingFound

\* Whatever a voter does with a request keeps the types of its state.
LEMMA VoteType ==
  ASSUME VoterTypeOK, NEW m \in Request, Granted(m) \/ Refused(m) \/ NotSaved(m)
  PROVE  VoterTypeOK'
BY LeaseAssumption
   DEF VoterTypeOK, Request, Granted, Refused, NotSaved, voterVars, voteVars, Holder

LEMMA DemoteType ==
  ASSUME LeadTypeOK, NEW c \in Candidate, Demote(c)
  PROVE  LeadTypeOK'
BY LeaseAssumption DEF LeadTypeOK, Demote

LEMMA EndLoopType ==
  ASSUME RoundTypeOK, NEW c \in Candidate, EndLoop(c)
  PROVE  /\ RoundTypeOK'
         /\ pc'[c] # "ask" /\ ix'[c] = 1
         /\ \A d \in Candidate \ {c} : pc'[d] = pc[d] /\ ix'[d] = ix[d]
BY LeaseAssumption, VoterSeqType
   DEF RoundTypeOK, EndLoop, Finding, NothingFound, Holder

LEMMA NextRequestType ==
  ASSUME RoundTypeOK, NEW c \in Candidate, Asks(c)
  PROVE  NextRequest(c) \in Request
BY VoterSeqType DEF RoundTypeOK, Asks, NextRequest, Request

LEMMA StatusType ==
  ASSUME VoterTypeOK, NEW v \in Voter
  PROVE  StatusOf(v) \in Report
BY DEF VoterTypeOK, StatusOf, Report, Holder

LEMMA FindingsType ==
  ASSUME NEW V \in SUBSET Report, NEW f \in Findings(V)
  PROVE  f \in Finding
BY DEF Report, Findings, Finding, Holder

\* The next voter of the list, or the place behind the last.
LEMMA IxSteps ==
  ASSUME NEW n \in Nat, NEW f \in [Candidate -> 1..(n + 1)],
         NEW c \in Candidate, f[c] <= n
  PROVE  [f EXCEPT ![c] = @ + 1] \in [Candidate -> 1..(n + 1)]
OBVIOUS

\* One RPC of a round: the round stays where it is but for ix and grants.
LEMMA AskType ==
  ASSUME TypeOK, NEW c \in Candidate, Ask(c)
  PROVE  TypeOK'
<1> DEFINE m == NextRequest(c)
<1>1. m \in Request
  BY NextRequestType DEF TypeOK, Ask, AskGranted, AskRefused, AskNotSaved, AskUnanswered
<1>2. VoterTypeOK'
  <2>1. CASE UNCHANGED voterVars
    BY <2>1 DEF TypeOK, VoterTypeOK, voterVars, voteVars
  <2>2. CASE Granted(m) \/ Refused(m) \/ NotSaved(m)
    BY <1>1, <2>2, VoteType DEF TypeOK
  <2>3. QED
    BY <2>1, <2>2 DEF Ask, AskGranted, AskRefused, AskNotSaved, AskUnanswered, voterVars
<1>3. Asks(c) /\ ix' = [ix EXCEPT ![c] = @ + 1]
      /\ UNCHANGED <<pc, mode, view, found, ballot, budget, leadVars, crashes>>
      /\ grants' \in {grants, [grants EXCEPT ![c] = @ \cup {VoterSeq[ix[c]]}]}
      /\ late' \subseteq late \cup {m}
  BY DEF Ask, AskGranted, AskRefused, AskNotSaved, AskUnanswered
<1>4. RoundTypeOK'
  <2>1. ix' \in [Candidate -> 1..(Len(VoterSeq) + 1)]
    BY <1>3, VoterSeqType, IxSteps DEF TypeOK, RoundTypeOK, Asks
  <2>2. grants' \in [Candidate -> SUBSET Voter]
    <3>1. ix[c] \in 1..Len(VoterSeq)
      BY <1>3, VoterCount DEF TypeOK, RoundTypeOK, Asks
    <3>2. VoterSeq[ix[c]] \in Voter
      BY <3>1, VoterSeqType
    <3>3. grants \in [Candidate -> SUBSET Voter]
      BY DEF TypeOK, RoundTypeOK
    <3>4. [grants EXCEPT ![c] = @ \cup {VoterSeq[ix[c]]}] \in [Candidate -> SUBSET Voter]
      BY <3>2, <3>3
    <3>5. QED  BY <1>3, <3>3, <3>4
  <2>3. QED  BY <1>3, <2>1, <2>2 DEF TypeOK, RoundTypeOK
<1>5. LeadTypeOK'
  BY <1>3 DEF TypeOK, LeadTypeOK, leadVars
<1>6. \A d \in Candidate : pc'[d] # "ask" => ix'[d] <= Len(VoterSeq)
  BY <1>3 DEF TypeOK, RoundTypeOK, Asks
<1>7. late' \subseteq Request /\ crashes' \in Nat
  BY <1>1, <1>3 DEF TypeOK
<1>8. QED  BY <1>2, <1>4, <1>5, <1>6, <1>7 DEF TypeOK

\* A round that ends, whatever becomes of the lease.
LEMMA RoundEndType ==
  ASSUME TypeOK, NEW c \in Candidate, EndLoop(c), LeadTypeOK',
         UNCHANGED <<voterVars, late, crashes>>
  PROVE  TypeOK'
<1>1. VoterTypeOK'
  BY DEF TypeOK, VoterTypeOK, voterVars, voteVars
<1>2. RoundTypeOK' /\ \A d \in Candidate : pc'[d] # "ask" => ix'[d] <= Len(VoterSeq)
  BY EndLoopType, VoterSeqType DEF TypeOK
<1>3. QED  BY <1>1, <1>2 DEF TypeOK

LEMMA QueryType ==
  ASSUME TypeOK, NEW c \in Candidate, Query(c)
  PROVE  TypeOK'
<1> DEFINE v == VoterSeq[ix[c]]
<1>1. /\ VoterTypeOK' /\ LeadTypeOK' /\ late' \subseteq Request /\ crashes' \in Nat
      /\ UNCHANGED <<mode, ballot, grants, budget>>
  BY DEF TypeOK, Query, VoterTypeOK, LeadTypeOK, voterVars, voteVars, leadVars
<1>2. pc[c] = "query" /\ ix[c] \in 1..Len(VoterSeq) /\ v \in Voter
  BY VoterSeqType DEF TypeOK, RoundTypeOK, Query
<1>3. StatusOf(v) \in Report
  BY <1>2, StatusType DEF TypeOK
<1>4. PICK replies \in {view[c] \cup {StatusOf(v)}} \cup IF v # c THEN {view[c]} ELSE {} :
        IF ix[c] < Len(VoterSeq)
        THEN /\ view' = [view EXCEPT ![c] = replies]
             /\ ix' = [ix EXCEPT ![c] = @ + 1]
             /\ UNCHANGED <<pc, found>>
        ELSE /\ view' = [view EXCEPT ![c] = {}]
             /\ ix' = [ix EXCEPT ![c] = 1]
             /\ pc' = [pc EXCEPT ![c] = "decide"]
             /\ \E f \in Findings(replies) :
                  Sums(replies, f) /\ found' = [found EXCEPT ![c] = f]
  BY DEF Query
<1>5. replies \in SUBSET Report
  BY <1>3, <1>4 DEF TypeOK, RoundTypeOK
<1>6. CASE ix[c] < Len(VoterSeq)
  <2>1. RoundTypeOK'
    <3>1. ix' \in [Candidate -> 1..(Len(VoterSeq) + 1)]
      <4>1. ix' = [ix EXCEPT ![c] = @ + 1] /\ ix[c] <= Len(VoterSeq)
        BY <1>2, <1>4, <1>6
      <4>2. QED  BY <4>1, VoterCount, IxSteps DEF TypeOK, RoundTypeOK
    <3>2. view' \in [Candidate -> SUBSET Report]
      BY <1>4, <1>5, <1>6 DEF TypeOK, RoundTypeOK
    <3>3. QED  BY <1>1, <1>4, <1>6, <3>1, <3>2 DEF TypeOK, RoundTypeOK
  <2>2. \A d \in Candidate : pc'[d] # "ask" => ix'[d] <= Len(VoterSeq)
    <3>1. ix' = [ix EXCEPT ![c] = @ + 1] /\ pc' = pc
      BY <1>4, <1>6
    <3>2. ix \in [Candidate -> 1..(Len(VoterSeq) + 1)]
      BY DEF TypeOK, RoundTypeOK
    <3>3. \A d \in Candidate : pc[d] # "ask" => ix[d] <= Len(VoterSeq)
      BY DEF TypeOK
    <3>4. ix'[c] = ix[c] + 1 /\ ix'[c] <= Len(VoterSeq)
      BY <1>6, <3>1, <3>2, VoterSeqType
    <3>5. QED  BY <3>1, <3>2, <3>3, <3>4
  <2>3. QED  BY <1>1, <2>1, <2>2 DEF TypeOK
<1>7. CASE ~(ix[c] < Len(VoterSeq))
  <2>1. PICK f \in Findings(replies) : found' = [found EXCEPT ![c] = f]
    BY <1>4, <1>7
  <2>2. f \in Finding
    BY <1>5, FindingsType
  <2>3. RoundTypeOK'
    <3>1. ix' \in [Candidate -> 1..(Len(VoterSeq) + 1)]
      <4>1. ix' = [ix EXCEPT ![c] = 1]
        BY <1>4, <1>7
      <4>2. QED  BY <4>1, VoterCount DEF TypeOK, RoundTypeOK
    <3>2. pc' \in [Candidate -> {"query", "decide", "check", "ask", "start"}]
      BY <1>4, <1>7 DEF TypeOK, RoundTypeOK
    <3>3. view' \in [Candidate -> SUBSET Report] /\ found' \in [Candidate -> Finding]
      BY <1>4, <1>7, <2>1, <2>2 DEF TypeOK, RoundTypeOK
    <3>4. QED  BY <1>1, <3>1, <3>2, <3>3 DEF TypeOK, RoundTypeOK
  <2>4. \A d \in Candidate : pc'[d] # "ask" => ix'[d] <= Len(VoterSeq)
    <3>1. ix' = [ix EXCEPT ![c] = 1] /\ pc' = [pc EXCEPT ![c] = "decide"]
      BY <1>4, <1>7
    <3>2. ix \in [Candidate -> 1..(Len(VoterSeq) + 1)]
          /\ pc \in [Candidate -> {"query", "decide", "check", "ask", "start"}]
      BY DEF TypeOK, RoundTypeOK
    <3>3. \A d \in Candidate : pc[d] # "ask" => ix[d] <= Len(VoterSeq)
      BY DEF TypeOK
    <3>4. QED  BY <3>1, <3>2, <3>3, VoterSeqType
  <2>5. QED  BY <1>1, <2>3, <2>4 DEF TypeOK
<1>8. QED  BY <1>6, <1>7

\* The steps that lead a round on, or give the lease up.
LEMMA DecideType ==
  ASSUME TypeOK, NEW c \in Candidate, Decide(c)
  PROVE  TypeOK'
<1>1. CASE YieldToHolder(c) \/ YieldToHigherTerm(c) \/ StandBy(c) \/ BecomeIneligible(c)
  <2>1. DemoteAndEnd(c) /\ UNCHANGED <<voterVars, late, crashes>>
    BY <1>1 DEF YieldToHolder, YieldToHigherTerm, StandBy, BecomeIneligible
  <2>2. LeadTypeOK'
    BY <2>1, DemoteType DEF TypeOK, DemoteAndEnd
  <2>3. QED  BY <2>1, <2>2, RoundEndType DEF DemoteAndEnd
<1>2. CASE KeepLease(c)
  BY <1>2 DEF KeepLease, NotYielding, TypeOK, VoterTypeOK, RoundTypeOK, LeadTypeOK,
     voterVars, voteVars, leadVars, Finding, NothingFound, Holder
<1>3. CASE AdoptLease(c)
  <2>1. LeadTypeOK'
    BY <1>3, LeaseAssumption DEF TypeOK, LeadTypeOK, RoundTypeOK, AdoptLease, Finding
  <2>2. RoundTypeOK' /\ VoterTypeOK'
    BY <1>3 DEF AdoptLease, NotYielding, TypeOK, VoterTypeOK, RoundTypeOK,
                voterVars, voteVars, Finding, NothingFound, Holder
  <2>3. \A d \in Candidate : pc'[d] # "ask" => ix'[d] <= Len(VoterSeq)
    BY <1>3 DEF AdoptLease, NotYielding, TypeOK, RoundTypeOK
  <2>4. QED  BY <1>3, <2>1, <2>2, <2>3 DEF AdoptLease, TypeOK
<1>4. CASE BeginCampaign(c)
  <2>1. RoundTypeOK'
    BY <1>4, LeaseAssumption
       DEF BeginCampaign, TypeOK, RoundTypeOK, Finding, NothingFound, Holder
  <2>2. LeadTypeOK' /\ VoterTypeOK'
    BY <1>4 DEF BeginCampaign, TypeOK, VoterTypeOK, LeadTypeOK,
                voterVars, voteVars, leadVars
  <2>3. \A d \in Candidate : pc'[d] # "ask" => ix'[d] <= Len(VoterSeq)
    BY <1>4 DEF BeginCampaign, NotYielding, TypeOK, RoundTypeOK
  <2>4. QED  BY <1>4, <2>1, <2>2, <2>3 DEF BeginCampaign, TypeOK
<1>5. CASE BeginRenew(c)
  <2>1. /\ pc' = [pc EXCEPT ![c] = "ask"] /\ ix' = [ix EXCEPT ![c] = 1]
        /\ ballot' = [ballot EXCEPT ![c] = leaderTerm[c]]
        /\ budget' = [budget EXCEPT ![c] = Lease]
        /\ UNCHANGED <<voterVars, mode, view, found, grants, leaderTerm, leaderLeft,
                       guard, services, late, crashes>>
    BY <1>5 DEF BeginRenew
  <2>2. RoundTypeOK'
    BY <2>1, LeaseAssumption, VoterCount DEF TypeOK, RoundTypeOK, LeadTypeOK
  <2>3. VoterTypeOK' /\ LeadTypeOK'
    BY <2>1 DEF TypeOK, VoterTypeOK, LeadTypeOK, voterVars, voteVars
  <2>4. \A d \in Candidate : pc'[d] # "ask" => ix'[d] <= Len(VoterSeq)
    BY <2>1 DEF TypeOK, RoundTypeOK
  <2>5. QED  BY <2>1, <2>2, <2>3, <2>4 DEF TypeOK
<1>6. QED
  BY <1>1, <1>2, <1>3, <1>4, <1>5 DEF Decide

LEMMA FinishType ==
  ASSUME TypeOK, NEW c \in Candidate, Finish(c)
  PROVE  TypeOK'
<1>1. CASE Win(c)
  <2>1. RoundTypeOK'
    BY <1>1, VoterCount, LeaseAssumption DEF TypeOK, RoundTypeOK, Win
  <2>2. VoterTypeOK' /\ LeadTypeOK'
    BY <1>1 DEF TypeOK, VoterTypeOK, RoundTypeOK, LeadTypeOK, Win, voterVars, voteVars
  <2>3. \A d \in Candidate : pc'[d] # "ask" => ix'[d] <= Len(VoterSeq)
    BY <1>1, VoterCount DEF TypeOK, RoundTypeOK, Win
  <2>4. QED  BY <1>1, <2>1, <2>2, <2>3 DEF TypeOK, Win
<1>2. CASE LoseCampaign(c) \/ LoseLease(c) \/ StartTooLate(c)
  <2>1. LeadTypeOK'
    BY <1>2, DemoteType DEF TypeOK, LoseCampaign, LoseLease, StartTooLate, DemoteAndEnd
  <2>2. QED
    BY <1>2, <2>1, RoundEndType DEF LoseCampaign, LoseLease, StartTooLate, DemoteAndEnd
<1>3. CASE MissRenewal(c)
  <2>1. LeadTypeOK'
    BY <1>3 DEF TypeOK, LeadTypeOK, MissRenewal, leadVars
  <2>2. QED  BY <1>3, <2>1, RoundEndType DEF MissRenewal
<1>4. CASE GuardNotWritten(c)
  <2>1. LeadTypeOK'
    BY <1>4 DEF TypeOK, LeadTypeOK, RoundTypeOK, GuardNotWritten
  <2>2. QED  BY <1>4, <2>1, RoundEndType DEF GuardNotWritten
<1>5. CASE StartServices(c)
  <2>1. LeadTypeOK'
    BY <1>5 DEF TypeOK, LeadTypeOK, StartServices
  <2>2. QED  BY <1>5, <2>1, RoundEndType DEF StartServices
<1>6. CASE StartFails(c)
  <2>1. LeadTypeOK'
    BY <1>6, DemoteType DEF TypeOK, LeadTypeOK, StartFails
  <2>2. QED  BY <1>6, <2>1, RoundEndType DEF StartFails
<1>7. QED
  BY <1>1, <1>2, <1>3, <1>4, <1>5, <1>6 DEF Finish

LEMMA RestartType ==
  ASSUME TypeOK, NEW n \in Node, RestartAgent(n) \/ Reboot(n)
  PROVE  TypeOK'
<1>1. VoterRestarts(n) /\ CandidateRestarts(n)
      /\ crashes' = crashes + 1 /\ UNCHANGED late
      /\ \/ UNCHANGED <<guard, services>>
         \/ n \in Candidate /\ guard' = [guard EXCEPT ![n] = 0]
                            /\ services' = [services EXCEPT ![n] = {}]
  BY DEF RestartAgent, Reboot
<1>2. VoterTypeOK'
  <2>1. CASE n \in Voter
    <3>1. \E left \in 0..Lease : restartLeft' = [restartLeft EXCEPT ![n] = left]
      BY <1>1, <2>1, LeaseAssumption DEF VoterRestarts
    <3>2. /\ term' = [term EXCEPT ![n] = savedTerm[n]]
          /\ votedFor' = [votedFor EXCEPT ![n] = savedVote[n]]
          /\ holder' = [holder EXCEPT ![n] = None]
          /\ voterLeft' = [voterLeft EXCEPT ![n] = 0]
          /\ UNCHANGED <<savedTerm, savedVote>>
      BY <1>1, <2>1 DEF VoterRestarts
    <3>3. None \in Holder /\ 0 \in 0..Lease
      BY LeaseAssumption DEF Holder
    <3>4. restartLeft' \in [Voter -> 0..Lease] /\ voterLeft' \in [Voter -> 0..Lease]
      BY <3>1, <3>2, <3>3 DEF TypeOK, VoterTypeOK
    <3>5. QED  BY <2>1, <3>2, <3>3, <3>4 DEF TypeOK, VoterTypeOK
  <2>2. CASE n \notin Voter
    BY <1>1, <2>2 DEF TypeOK, VoterTypeOK, VoterRestarts, voterVars, voteVars
  <2>3. QED  BY <2>1, <2>2
<1>3. RoundTypeOK' /\ \A d \in Candidate : pc'[d] # "ask" => ix'[d] <= Len(VoterSeq)
  <2>1. CASE n \in Candidate
    BY <1>1, <2>1, EndLoopType, VoterCount DEF CandidateRestarts, TypeOK
  <2>2. CASE n \notin Candidate
    BY <1>1, <2>2 DEF CandidateRestarts, TypeOK, RoundTypeOK, roundVars
  <2>3. QED  BY <2>1, <2>2
<1>4. LeadTypeOK'
  <2>0. 0 \in 0..Lease
    BY LeaseAssumption
  <2>1. leaderTerm' \in [Candidate -> Nat] /\ leaderLeft' \in [Candidate -> 0..Lease]
    <3>1. CASE n \in Candidate
      <4>1. leaderTerm' = [leaderTerm EXCEPT ![n] = 0]
            /\ leaderLeft' = [leaderLeft EXCEPT ![n] = 0]
        BY <1>1, <3>1 DEF CandidateRestarts
      <4>2. QED  BY <2>0, <3>1, <4>1 DEF TypeOK, LeadTypeOK
    <3>2. CASE n \notin Candidate
      <4>1. UNCHANGED <<leaderTerm, leaderLeft>>
        BY <1>1, <3>2 DEF CandidateRestarts
      <4>2. QED  BY <4>1 DEF TypeOK, LeadTypeOK
    <3>3. QED  BY <3>1, <3>2
  <2>2. guard' \in [Candidate -> 0..Lease] /\ services' \in [Candidate -> SUBSET PrimaryService]
    <3>1. CASE UNCHANGED <<guard, services>>
      BY <3>1 DEF TypeOK, LeadTypeOK
    <3>2. CASE n \in Candidate /\ guard' = [guard EXCEPT ![n] = 0]
                             /\ services' = [services EXCEPT ![n] = {}]
      BY <2>0, <3>2 DEF TypeOK, LeadTypeOK
    <3>3. QED  BY <1>1, <3>1, <3>2
  <2>3. QED  BY <2>1, <2>2 DEF LeadTypeOK
<1>5. QED  BY <1>1, <1>2, <1>3, <1>4 DEF TypeOK

LEMMA OneLessType ==
  ASSUME NEW S, NEW f \in [S -> 0..Lease]
  PROVE  OneLess(f) \in [S -> 0..Lease]
BY LeaseAssumption DEF OneLess

LEMMA TickType ==
  ASSUME TypeOK, Tick
  PROVE  TypeOK'
<1>1. VoterTypeOK'
  BY OneLessType DEF TypeOK, VoterTypeOK, Tick, voteVars
<1>2. RoundTypeOK'
  BY OneLessType DEF TypeOK, RoundTypeOK, Tick
<1>3. LeadTypeOK'
  BY OneLessType DEF TypeOK, LeadTypeOK, Tick
<1>4. QED  BY <1>1, <1>2, <1>3 DEF TypeOK, Tick

LEMMA NextType ==
  ASSUME TypeOK, [Next]_vars
  PROVE  TypeOK'
<1>1. ASSUME NEW c \in Candidate, Query(c) \/ Decide(c) \/ Ask(c) \/ Finish(c) \/ Watchdog(c)
      PROVE  TypeOK'
  <2>1. CASE Watchdog(c)
    BY <2>1 DEF TypeOK, VoterTypeOK, RoundTypeOK, LeadTypeOK, Watchdog, roundVars,
                voterVars, voteVars
  <2>2. QED  BY <1>1, <2>1, QueryType, DecideType, AskType, FinishType
<1>2. ASSUME NEW n \in Node, RestartAgent(n) \/ Reboot(n)
      PROVE  TypeOK'
  BY <1>2, RestartType
<1>3. CASE HandleLate
  <2>1. PICK m \in late :
          /\ Granted(m) \/ Refused(m) \/ NotSaved(m)
          /\ late' = late \ {m}
          /\ UNCHANGED <<roundVars, leadVars, crashes>>
    BY <1>3 DEF HandleLate
  <2>2. VoterTypeOK'
    BY <2>1, VoteType DEF TypeOK
  <2>3. RoundTypeOK' /\ LeadTypeOK'
    BY <2>1 DEF TypeOK, RoundTypeOK, LeadTypeOK, roundVars, leadVars
  <2>4. QED  BY <2>1, <2>2, <2>3 DEF TypeOK, roundVars
<1>4. CASE Tick
  BY <1>4, TickType
<1>5. CASE UNCHANGED vars
  BY <1>5 DEF vars, TypeOK, VoterTypeOK, RoundTypeOK, LeadTypeOK, roundVars, leadVars,
              voterVars, voteVars
<1>6. QED
  BY <1>1, <1>2, <1>3, <1>4, <1>5 DEF Next

\* Every state the agents can reach has the types of TypeOK: in particular no
\* deadline exceeds one lease and no round runs past the list of voters.
THEOREM TypeCorrect == Spec => []TypeOK
<1>1. Init => TypeOK
  BY InitType
<1>2. TypeOK /\ [Next]_vars => TypeOK'
  BY NextType
<1>3. QED  BY <1>1, <1>2, PTL DEF Spec

-----------------------------------------------------------------------------
(* The exclusiveness of the guard file.                                     *)

\* The vote in memory is the vote in the file.
VotesSaved == savedTerm = term /\ savedVote = votedFor

\* A lease a voter has granted is one to the candidate it voted for, which is
\* why VoteDenied may look at the one and RenewDenied at the other.
LeasesVoted ==
  \A v \in Voter : voterLeft[v] > 0 => votedFor[v] # None /\ holder[v] = votedFor[v]

\* Nobody votes in term 0, so the restart guard of a voter that has voted is on.
VotesInTerms == \A v \in Voter : votedFor[v] # None => term[v] > 0
RequestsInTerms ==
  /\ \A c \in Candidate : pc[c] = "ask" /\ mode[c] = "campaign" => ballot[c] > 0
  /\ \A m \in late : m.kind = "vote" => m.term > 0

\* The grants a round has collected bind their voters for what is left of the
\* lease it may win, because the lease is counted from before the first of them.
GrantsKept == \A c \in Candidate : \A v \in grants[c] : Promise(v, c, budget[c])
GrantsInRounds == \A c \in Candidate : pc[c] # "ask" => grants[c] = {}

\* Only a renewal begins with an eligibility check of its own.
ChecksRenew == \A c \in Candidate : pc[c] = "check" => mode[c] # "campaign"

VoterInv == VotesSaved /\ LeasesVoted /\ VotesInTerms
RoundInv == RequestsInTerms /\ GrantsKept /\ GrantsInRounds /\ ChecksRenew

IInv == TypeOK /\ VoterInv /\ RoundInv /\ GuardBacked

LEMMA MoreIsQuorum ==
  ASSUME NEW S, NEW T \in SUBSET Voter, S \subseteq T, IsQuorum(S)
  PROVE  IsQuorum(T)
<1>1. IsFiniteSet(T) /\ Cardinality(T) \in Nat
  BY VotersFinite, FS_Subset, FS_CardinalityType
<1>2. Cardinality(S) <= Cardinality(T) /\ Cardinality(S) \in Nat
  BY <1>1, FS_Subset, FS_CardinalityType
<1>3. QuorumSize \in Nat
  BY VotersFinite, FS_CardinalityType DEF QuorumSize
<1>4. QED  BY <1>1, <1>2, <1>3 DEF IsQuorum

LEMMA QuorumsMeet ==
  ASSUME NEW S \in SUBSET Voter, NEW T \in SUBSET Voter, IsQuorum(S), IsQuorum(T)
  PROVE  \E v \in Voter : v \in S /\ v \in T
<1>1. Cardinality(Voter) \in Nat /\ Cardinality(S) \in Nat /\ Cardinality(T) \in Nat
  BY VotersFinite, FS_Subset, FS_CardinalityType
<1>2. Cardinality(S) + Cardinality(T) > Cardinality(Voter)
  BY <1>1 DEF IsQuorum, QuorumSize
<1>3. S \cap T # {}
  BY <1>2, VotersFinite, FS_MajoritiesIntersect
<1>4. QED  BY <1>3

\* Two candidates cannot both be backed: a voter of both quorums would have
\* voted for each.
LEMMA BackedExclusive == GuardBacked => GuardExclusive
<1> SUFFICES ASSUME GuardBacked,
                    NEW c \in Candidate, NEW d \in Candidate, guard[c] > 0, guard[d] > 0
             PROVE  c = d
  BY DEF GuardExclusive
<1> DEFINE S == {v \in Voter : Promise(v, c, guard[c])}
           T == {v \in Voter : Promise(v, d, guard[d])}
<1>1. IsQuorum(S) /\ IsQuorum(T)
  BY DEF GuardBacked
<1>2. PICK v \in Voter : v \in S /\ v \in T
  BY <1>1, QuorumsMeet
<1>3. QED  BY <1>2 DEF Promise

LEMMA InitInv == Init => IInv
<1> SUFFICES ASSUME Init PROVE IInv
  OBVIOUS
<1>1. TypeOK
  BY InitType
<1>2. VoterInv
  BY DEF Init, VoterInv, VotesSaved, LeasesVoted, VotesInTerms
<1>3. RoundInv
  BY DEF Init, RoundInv, RequestsInTerms, GrantsKept, GrantsInRounds, ChecksRenew
<1>4. GuardBacked
  BY DEF Init, GuardBacked
<1>5. QED  BY <1>1, <1>2, <1>3, <1>4 DEF IInv

\* A voter that is bound refuses everybody else, and a grant binds it.
LEMMA VoteKeepsPromises ==
  ASSUME VoterTypeOK, VoterInv, NEW m \in Request, m.kind = "vote" => m.term > 0,
         Granted(m) \/ Refused(m)
  PROVE  /\ VoterInv'
         /\ \A v \in Voter, c \in Candidate, k \in 0..Lease :
              Promise(v, c, k) => Promise(v, c, k)'
         /\ Granted(m) => \A k \in 0..Lease : Promise(m.to, m.from, k)'
<1>1. CASE Refused(m)
  BY <1>1 DEF Refused, Granted, VoterInv, VotesSaved, LeasesVoted, VotesInTerms, Promise,
              voterVars, voteVars
<1>2. CASE Granted(m)
  <2> DEFINE w == m.to
             d == m.from
  <2>1. w \in Voter /\ d \in Candidate /\ d # None /\ m.term \in Nat
    BY NoneAssumption DEF Request
  <2>2. /\ holder' = [holder EXCEPT ![w] = d]
        /\ voterLeft' = [voterLeft EXCEPT ![w] = Lease]
        /\ restartLeft' = restartLeft
        /\ \/ /\ term' = [term EXCEPT ![w] = m.term]
              /\ votedFor' = [votedFor EXCEPT ![w] = d]
              /\ savedTerm' = [savedTerm EXCEPT ![w] = m.term]
              /\ savedVote' = [savedVote EXCEPT ![w] = d]
              /\ m.term > 0
           \/ UNCHANGED voteVars /\ votedFor[w] = d
    BY <1>2, <2>1
       DEF Granted, Denied, VoteDenied, RenewDenied, Advances, Request, VoterTypeOK, Holder
  <2>3. votedFor'[w] = d
    BY <2>1, <2>2 DEF VoterTypeOK, voteVars
  <2>4. VotesSaved'
    BY <2>2 DEF VoterInv, VotesSaved, voteVars
  <2>5. LeasesVoted'
    BY <2>1, <2>2, <2>3 DEF VoterInv, LeasesVoted, VoterTypeOK, voteVars
  <2>6. VotesInTerms'
    BY <2>1, <2>2 DEF VoterInv, VotesInTerms, VoterTypeOK, voteVars
  <2>7. \A k \in 0..Lease : Promise(w, d, k)'
    BY <2>1, <2>2, <2>3, LeaseAssumption DEF Promise, VoterTypeOK
  <2>8. ASSUME NEW v \in Voter, NEW c \in Candidate, NEW k \in 0..Lease, Promise(v, c, k)
        PROVE  Promise(v, c, k)'
    <3>1. CASE v # w \/ k = 0
      BY <2>1, <2>2, <2>8, <3>1 DEF Promise, VoterTypeOK, voteVars
    <3>2. CASE v = w /\ c = d
      BY <2>7, <3>2
    <3>3. CASE v = w /\ c # d /\ k # 0
      <4>1. votedFor[w] = c /\ (voterLeft[w] > 0 \/ restartLeft[w] > 0) /\ c # None
        BY <2>8, <3>3, LeaseAssumption, NoneAssumption DEF Promise, VoterTypeOK
      <4>2. voterLeft[w] > 0 => holder[w] = c
        BY <2>1, <4>1 DEF VoterInv, LeasesVoted
      <4>3. Denied(m)
        BY <2>1, <3>3, <4>1, <4>2 DEF Denied, VoteDenied, RenewDenied
      <4>4. QED  BY <1>2, <4>3 DEF Granted
    <3>4. QED  BY <3>1, <3>2, <3>3
  <2>9. QED  BY <2>4, <2>5, <2>6, <2>7, <2>8 DEF VoterInv
<1>3. QED  BY <1>1, <1>2

\* A step of the voters only, which keeps every promise, takes no guarantee from
\* a guard file that lasts no longer than before.
LEMMA PromisesBack ==
  ASSUME TypeOK, TypeOK', GuardBacked,
         \A c \in Candidate : guard'[c] = guard[c] \/ guard'[c] = 0,
         \A v \in Voter, c \in Candidate, k \in 0..Lease :
            Promise(v, c, k) => Promise(v, c, k)'
  PROVE  GuardBacked'
<1> SUFFICES ASSUME NEW c \in Candidate, guard'[c] > 0
             PROVE  IsQuorum({v \in Voter : Promise(v, c, guard[c])'})
  BY DEF GuardBacked, IsQuorum, QuorumSize
<1> DEFINE k == guard[c]
<1>1. guard'[c] = k /\ k \in 0..Lease /\ k > 0
  BY DEF TypeOK, LeadTypeOK
<1>2. IsQuorum({v \in Voter : Promise(v, c, k)})
  BY <1>1 DEF GuardBacked
<1>3. {v \in Voter : Promise(v, c, k)} \subseteq {v \in Voter : Promise(v, c, guard[c])'}
  BY <1>1 DEF Promise
<1>4. QED  BY <1>2, <1>3, MoreIsQuorum

\* A step of one candidate that neither asks a voter nor wins.
LEMMA QuietStep ==
  ASSUME IInv, TypeOK', NEW c \in Candidate, UNCHANGED <<voterVars, late>>,
         pc'[c] = "ask" /\ mode'[c] = "campaign" => ballot'[c] > 0,
         pc'[c] = "check" => mode'[c] # "campaign",
         grants'[c] = {},
         guard'[c] = guard[c] \/ guard'[c] = 0,
         \A d \in Candidate \ {c} :
            /\ pc'[d] = pc[d] /\ mode'[d] = mode[d] /\ ballot'[d] = ballot[d]
            /\ grants'[d] = grants[d] /\ budget'[d] = budget[d] /\ guard'[d] = guard[d]
  PROVE  IInv'
<1>1. VoterInv'
  BY DEF IInv, VoterInv, VotesSaved, LeasesVoted, VotesInTerms, voterVars, voteVars
<1>2. \A v \in Voter, d \in Candidate, k \in 0..Lease : Promise(v, d, k) => Promise(v, d, k)'
  BY DEF Promise, voterVars, voteVars
<1>3. RequestsInTerms'
  BY DEF IInv, RoundInv, RequestsInTerms
<1>4. GrantsKept'
  BY DEF IInv, RoundInv, GrantsKept, Promise, voterVars, voteVars
<1>5. GrantsInRounds'
  BY DEF IInv, RoundInv, GrantsInRounds
<1>6. ChecksRenew'
  BY DEF IInv, RoundInv, ChecksRenew
<1>7. GuardBacked'
  BY <1>2, PromisesBack DEF IInv
<1>8. QED  BY <1>1, <1>3, <1>4, <1>5, <1>6, <1>7 DEF IInv, RoundInv

LEMMA EndLoopQuiet ==
  ASSUME TypeOK, NEW c \in Candidate, EndLoop(c)
  PROVE  /\ pc'[c] = "query" /\ grants'[c] = {}
         /\ \A d \in Candidate \ {c} :
              /\ pc'[d] = pc[d] /\ mode'[d] = mode[d] /\ ballot'[d] = ballot[d]
              /\ grants'[d] = grants[d] /\ budget'[d] = budget[d]
BY DEF TypeOK, RoundTypeOK, EndLoop

LEMMA DemoteQuiet ==
  ASSUME TypeOK, NEW c \in Candidate, Demote(c)
  PROVE  guard'[c] = 0 /\ \A d \in Candidate \ {c} : guard'[d] = guard[d]
BY DEF TypeOK, LeadTypeOK, Demote

LEMMA DecideInv ==
  ASSUME IInv, TypeOK', NEW c \in Candidate, Query(c) \/ Decide(c)
  PROVE  IInv'
<1>1. CASE Query(c)
  <2>1. /\ pc[c] = "query" /\ pc'[c] \in {"query", "decide"}
        /\ \A d \in Candidate \ {c} : pc'[d] = pc[d]
        /\ UNCHANGED <<voterVars, late, mode, ballot, grants, budget, guard>>
    BY <1>1 DEF Query, IInv, TypeOK, RoundTypeOK, leadVars
  <2>2. QED  BY <2>1, QuietStep DEF IInv, RoundInv, GrantsInRounds
<1>2. CASE YieldToHolder(c) \/ YieldToHigherTerm(c) \/ StandBy(c) \/ BecomeIneligible(c)
  <2>1. EndLoop(c) /\ Demote(c) /\ UNCHANGED <<voterVars, late>>
    BY <1>2 DEF YieldToHolder, YieldToHigherTerm, StandBy, BecomeIneligible, DemoteAndEnd
  <2>2. QED  BY <2>1, EndLoopQuiet, DemoteQuiet, QuietStep DEF IInv
<1>3. CASE KeepLease(c) \/ AdoptLease(c)
  <2>1. /\ pc[c] = "decide" /\ pc' = [pc EXCEPT ![c] = "check"]
        /\ \E m \in {"renew", "adopt"} : mode' = [mode EXCEPT ![c] = m]
        /\ UNCHANGED <<voterVars, late, ballot, grants, budget, guard>>
    BY <1>3 DEF KeepLease, AdoptLease, NotYielding, leadVars
  <2>2. pc'[c] = "check" /\ mode'[c] # "campaign"
        /\ \A d \in Candidate \ {c} : pc'[d] = pc[d] /\ mode'[d] = mode[d]
    BY <2>1 DEF IInv, TypeOK, RoundTypeOK
  <2>3. QED  BY <2>1, <2>2, QuietStep DEF IInv, RoundInv, GrantsInRounds
<1>4. CASE BeginCampaign(c)
  <2>1. /\ pc[c] = "decide" /\ pc' = [pc EXCEPT ![c] = "ask"]
        /\ mode' = [mode EXCEPT ![c] = "campaign"]
        /\ ballot' = [ballot EXCEPT ![c] = found[c].top + 1]
        /\ budget' = [budget EXCEPT ![c] = Lease]
        /\ UNCHANGED <<voterVars, late, grants, guard>>
    BY <1>4 DEF BeginCampaign, NotYielding, leadVars
  <2>2. ballot'[c] > 0
    BY <2>1 DEF IInv, TypeOK, RoundTypeOK, Finding
  <2>3. grants'[c] = {}
    BY <2>1 DEF IInv, RoundInv, GrantsInRounds
  <2>4. \A d \in Candidate \ {c} :
          /\ pc'[d] = pc[d] /\ mode'[d] = mode[d] /\ ballot'[d] = ballot[d]
          /\ budget'[d] = budget[d]
    BY <2>1 DEF IInv, TypeOK, RoundTypeOK
  <2>5. QED  BY <2>1, <2>2, <2>3, <2>4, QuietStep
<1>5. CASE BeginRenew(c)
  <2>1. /\ pc[c] = "check" /\ pc' = [pc EXCEPT ![c] = "ask"]
        /\ ballot' = [ballot EXCEPT ![c] = leaderTerm[c]]
        /\ budget' = [budget EXCEPT ![c] = Lease]
        /\ UNCHANGED <<voterVars, late, mode, grants, guard>>
    BY <1>5 DEF BeginRenew
  <2>2. mode[c] # "campaign"
    BY <2>1 DEF IInv, RoundInv, ChecksRenew
  <2>3. grants'[c] = {}
    BY <2>1 DEF IInv, RoundInv, GrantsInRounds
  <2>4. \A d \in Candidate \ {c} :
          /\ pc'[d] = pc[d] /\ ballot'[d] = ballot[d] /\ budget'[d] = budget[d]
    BY <2>1 DEF IInv, TypeOK, RoundTypeOK
  <2>5. QED  BY <2>1, <2>2, <2>3, <2>4, QuietStep
<1>6. QED  BY <1>1, <1>2, <1>3, <1>4, <1>5 DEF Decide

\* An answered RPC of c's round: what it grants is granted for longer than what
\* is left of the lease c may win.
LEMMA AskInv ==
  ASSUME DiskMayFail = FALSE, IInv, TypeOK', NEW c \in Candidate, Ask(c)
  PROVE  IInv'
<1>1. Asks(c) /\ ix[c] \in 1..Len(VoterSeq) /\ VoterSeq[ix[c]] \in Voter
  <2>1. Asks(c) /\ ix[c] \in 1..Len(VoterSeq)
    BY VoterCount DEF IInv, TypeOK, RoundTypeOK, Asks, Ask, AskGranted, AskRefused,
       AskNotSaved, AskUnanswered
  <2>2. QED  BY <2>1, VoterSeqType
<1>2. PICK m \in Request : m = NextRequest(c)
  BY <1>1, NextRequestType DEF IInv, TypeOK
<1>3. /\ pc[c] = "ask" /\ UNCHANGED <<pc, mode, ballot, budget, guard>>
      /\ m.to \in Voter /\ m.from = c /\ (m.kind = "vote" => m.term > 0)
      /\ \/ /\ Granted(m) /\ UNCHANGED late
            /\ grants' = [grants EXCEPT ![c] = @ \cup {m.to}]
         \/ Refused(m) /\ UNCHANGED <<late, grants>>
         \/ UNCHANGED <<voterVars, grants>> /\ late' \subseteq late \cup {m}
  <2>1. m.to = VoterSeq[ix[c]] /\ m.from = c /\ (m.kind = "vote" => m.term > 0)
    BY <1>1, <1>2 DEF IInv, TypeOK, RoundInv, RequestsInTerms, NextRequest, Asks
  <2>2. QED
    BY <1>1, <1>2, <2>1
       DEF Asks, Ask, AskGranted, AskRefused, AskNotSaved, NotSaved, AskUnanswered, leadVars
<1>4. /\ VoterInv'
      /\ \A v \in Voter, d \in Candidate, k \in 0..Lease :
           Promise(v, d, k) => Promise(v, d, k)'
      /\ Granted(m) => \A k \in 0..Lease : Promise(m.to, m.from, k)'
  <2>1. CASE Granted(m) \/ Refused(m)
    BY <1>3, <2>1, VoteKeepsPromises DEF IInv, TypeOK
  <2>2. CASE UNCHANGED voterVars /\ ~Granted(m)
    BY <2>2 DEF IInv, VoterInv, VotesSaved, LeasesVoted, VotesInTerms, Promise, voterVars,
                voteVars
  <2>3. QED  BY <1>3, <2>1, <2>2
<1>5. RequestsInTerms'
  BY <1>3 DEF IInv, RoundInv, RequestsInTerms
<1>6. GrantsKept'
  <2> SUFFICES ASSUME NEW d \in Candidate, NEW v \in grants'[d]
               PROVE  Promise(v, d, budget[d])'
    BY DEF GrantsKept
  <2>1. budget[d] \in 0..Lease /\ budget'[d] = budget[d]
    BY <1>3 DEF IInv, TypeOK, RoundTypeOK
  <2>2. CASE v \in grants[d]
    <3>1. Promise(v, d, budget[d]) /\ v \in Voter
      BY <2>2 DEF IInv, RoundInv, GrantsKept, TypeOK, RoundTypeOK
    <3>2. QED  BY <1>4, <2>1, <3>1 DEF Promise
  <2>3. CASE v \notin grants[d]
    <3>1. d = c /\ v = m.to /\ Granted(m)
      BY <1>3, <2>3 DEF IInv, TypeOK, RoundTypeOK
    <3>2. QED  BY <1>3, <1>4, <2>1, <3>1 DEF Promise
  <2>4. QED  BY <2>2, <2>3
<1>7. GrantsInRounds' /\ ChecksRenew'
  BY <1>3 DEF IInv, RoundInv, GrantsInRounds, ChecksRenew, TypeOK, RoundTypeOK
<1>8. GuardBacked'
  BY <1>3, <1>4, PromisesBack DEF IInv
<1>9. QED  BY <1>4, <1>5, <1>6, <1>7, <1>8 DEF IInv, RoundInv

LEMMA LateInv ==
  ASSUME DiskMayFail = FALSE, IInv, TypeOK', HandleLate
  PROVE  IInv'
<1>1. PICK m \in late : /\ Granted(m) \/ Refused(m)
                        /\ late' = late \ {m}
                        /\ UNCHANGED <<roundVars, leadVars, crashes>>
  BY DEF HandleLate, NotSaved
<1>2. m \in Request /\ (m.kind = "vote" => m.term > 0)
  BY DEF IInv, TypeOK, RoundInv, RequestsInTerms
<1>3. /\ VoterInv'
      /\ \A v \in Voter, d \in Candidate, k \in 0..Lease :
           Promise(v, d, k) => Promise(v, d, k)'
  BY <1>1, <1>2, VoteKeepsPromises DEF IInv, TypeOK
<1>4. RequestsInTerms' /\ GrantsInRounds' /\ ChecksRenew'
  BY <1>1 DEF IInv, RoundInv, RequestsInTerms, GrantsInRounds, ChecksRenew, roundVars
<1>5. GrantsKept'
  <2> SUFFICES ASSUME NEW d \in Candidate, NEW v \in grants[d]
               PROVE  Promise(v, d, budget[d])'
    BY <1>1 DEF GrantsKept, roundVars
  <2>1. budget[d] \in 0..Lease /\ budget'[d] = budget[d] /\ v \in Voter
    BY <1>1 DEF IInv, TypeOK, RoundTypeOK, roundVars
  <2>2. Promise(v, d, budget[d])
    BY DEF IInv, RoundInv, GrantsKept
  <2>3. QED  BY <1>3, <2>1, <2>2 DEF Promise
<1>6. GuardBacked'
  BY <1>1, <1>3, PromisesBack DEF IInv, leadVars
<1>7. QED  BY <1>3, <1>4, <1>5, <1>6 DEF IInv, RoundInv

\* The guard file is written for what is left of the lease counted from before
\* the first grant, and the grants are a quorum bound for that long.
LEMMA WinInv ==
  ASSUME IInv, TypeOK', NEW c \in Candidate, Win(c)
  PROVE  IInv'
<1>1. /\ IsQuorum(grants[c]) /\ UNCHANGED <<voterVars, late, mode>>
      /\ pc' = [pc EXCEPT ![c] = "start"]
      /\ guard' = [guard EXCEPT ![c] = budget[c]]
      /\ ballot' = [ballot EXCEPT ![c] = 0]
      /\ grants' = [grants EXCEPT ![c] = {}]
      /\ budget' = [budget EXCEPT ![c] = 0]
  BY DEF Win, Won
<1>2. VoterInv'
  BY <1>1 DEF IInv, VoterInv, VotesSaved, LeasesVoted, VotesInTerms, voterVars, voteVars
<1>3. \A v \in Voter, d \in Candidate, k \in 0..Lease : Promise(v, d, k) => Promise(v, d, k)'
  BY <1>1 DEF Promise, voterVars, voteVars
<1>4. RoundInv'
  BY <1>1 DEF IInv, RoundInv, RequestsInTerms, GrantsKept, GrantsInRounds, ChecksRenew,
              Promise, voterVars, voteVars, TypeOK, RoundTypeOK
<1>5. GuardBacked'
  <2> SUFFICES ASSUME NEW d \in Candidate, guard'[d] > 0
               PROVE  IsQuorum({v \in Voter : Promise(v, d, guard[d])'})
    BY DEF GuardBacked, IsQuorum, QuorumSize
  <2>1. CASE d = c
    <3>1. guard'[c] = budget[c] /\ budget[c] \in 0..Lease /\ grants[c] \subseteq Voter
      BY <1>1 DEF IInv, TypeOK, RoundTypeOK, LeadTypeOK
    <3>2. \A v \in grants[c] : Promise(v, c, budget[c])
      BY DEF IInv, RoundInv, GrantsKept
    <3>3. grants[c] \subseteq {v \in Voter : Promise(v, c, guard[c])'}
      BY <1>3, <3>1, <3>2 DEF Promise
    <3>4. QED  BY <1>1, <2>1, <3>3, MoreIsQuorum
  <2>2. CASE d # c
    <3>1. guard'[d] = guard[d] /\ guard[d] \in 0..Lease
      BY <1>1, <2>2 DEF IInv, TypeOK, LeadTypeOK
    <3>2. IsQuorum({v \in Voter : Promise(v, d, guard[d])})
      BY <3>1 DEF IInv, GuardBacked
    <3>3. {v \in Voter : Promise(v, d, guard[d])} \subseteq {v \in Voter : Promise(v, d, guard[d])'}
      BY <1>3, <3>1 DEF Promise
    <3>4. QED  BY <3>2, <3>3, MoreIsQuorum
  <2>3. QED  BY <2>1, <2>2
<1>6. QED  BY <1>2, <1>4, <1>5 DEF IInv

LEMMA FinishInv ==
  ASSUME IInv, TypeOK', NEW c \in Candidate, Finish(c)
  PROVE  IInv'
<1>1. CASE Win(c)
  BY <1>1, WinInv
<1>2. CASE ~Win(c)
  <2>1. EndLoop(c) /\ UNCHANGED <<voterVars, late>> /\ (Demote(c) \/ UNCHANGED guard)
    BY <1>2 DEF Finish, LoseCampaign, LoseLease, MissRenewal, GuardNotWritten, StartServices,
                StartTooLate, StartFails, DemoteAndEnd, leadVars
  <2>2. QED  BY <2>1, EndLoopQuiet, DemoteQuiet, QuietStep DEF IInv
<1>3. QED  BY <1>1, <1>2

\* A restarted voter is bound by the restart guard for as long as it may have been
\* bound by a lease it no longer remembers.
LEMMA RestartInv ==
  ASSUME IInv, TypeOK', NEW n \in Node, RestartAgent(n) \/ Reboot(n)
  PROVE  IInv'
<1>1. /\ VoterRestarts(n) /\ CandidateRestarts(n) /\ UNCHANGED late
      /\ guard' = guard \/ (n \in Candidate /\ guard' = [guard EXCEPT ![n] = 0])
  BY DEF RestartAgent, Reboot
<1>2. /\ VoterInv'
      /\ \A v \in Voter, c \in Candidate, k \in 0..Lease : Promise(v, c, k) => Promise(v, c, k)'
  <2>1. CASE n \in Voter
    <3>1. /\ term' = term /\ votedFor' = votedFor /\ UNCHANGED <<savedTerm, savedVote>>
          /\ holder' = [holder EXCEPT ![n] = None]
          /\ voterLeft' = [voterLeft EXCEPT ![n] = 0]
          /\ votedFor[n] # None => restartLeft' = [restartLeft EXCEPT ![n] = Lease]
          /\ \A v \in Voter \ {n} : restartLeft'[v] = restartLeft[v]
      BY <1>1, <2>1
         DEF VoterRestarts, IInv, VoterInv, VotesSaved, VotesInTerms, TypeOK, VoterTypeOK
    <3>2. VoterInv'
      BY <2>1, <3>1 DEF IInv, VoterInv, VotesSaved, LeasesVoted, VotesInTerms, TypeOK,
                        VoterTypeOK
    <3>3. ASSUME NEW v \in Voter, NEW c \in Candidate, NEW k \in 0..Lease, Promise(v, c, k)
          PROVE  Promise(v, c, k)'
      <4>1. CASE v = n /\ k > 0
        <5>1. votedFor[n] = c /\ c # None
          BY <3>3, <4>1, NoneAssumption DEF Promise
        <5>2. restartLeft'[n] = Lease /\ k <= Lease
          BY <2>1, <3>1, <5>1, LeaseAssumption DEF IInv, TypeOK, VoterTypeOK
        <5>3. QED  BY <3>1, <4>1, <5>1, <5>2, LeaseAssumption DEF Promise
      <4>2. CASE v # n /\ k > 0
        BY <3>1, <3>3, <4>2 DEF Promise, IInv, TypeOK, VoterTypeOK
      <4>3. CASE k = 0
        BY <4>3 DEF Promise
      <4>4. QED  BY <4>1, <4>2, <4>3
    <3>4. QED  BY <3>2, <3>3
  <2>2. CASE n \notin Voter
    <3>1. UNCHANGED voterVars
      BY <1>1, <2>2 DEF VoterRestarts
    <3>2. QED
      BY <3>1 DEF IInv, VoterInv, VotesSaved, LeasesVoted, VotesInTerms, Promise, voterVars,
                  voteVars
  <2>3. QED  BY <2>1, <2>2
<1>3. RequestsInTerms' /\ GrantsInRounds' /\ ChecksRenew'
  <2>1. CASE n \in Candidate
    BY <1>1, <2>1, EndLoopQuiet
       DEF CandidateRestarts, IInv, RoundInv, RequestsInTerms, GrantsInRounds, ChecksRenew
  <2>2. CASE n \notin Candidate
    BY <1>1, <2>2
       DEF CandidateRestarts, IInv, RoundInv, RequestsInTerms, GrantsInRounds, ChecksRenew,
           roundVars
  <2>3. QED  BY <2>1, <2>2
<1>4. GrantsKept'
  <2> SUFFICES ASSUME NEW d \in Candidate, NEW v \in grants'[d]
               PROVE  Promise(v, d, budget[d])'
    BY DEF GrantsKept
  <2>1. v \in grants[d] /\ budget'[d] = budget[d]
    <3>1. CASE n \in Candidate
      BY <1>1, <3>1, EndLoopQuiet DEF CandidateRestarts, IInv
    <3>2. CASE n \notin Candidate
      BY <1>1, <3>2 DEF CandidateRestarts, roundVars
    <3>3. QED  BY <3>1, <3>2
  <2>2. Promise(v, d, budget[d]) /\ v \in Voter /\ budget[d] \in 0..Lease
    BY <2>1 DEF IInv, RoundInv, GrantsKept, TypeOK, RoundTypeOK
  <2>3. QED  BY <1>2, <2>1, <2>2 DEF Promise
<1>5. GuardBacked'
  <2>1. \A c \in Candidate : guard'[c] = guard[c] \/ guard'[c] = 0
    BY <1>1 DEF IInv, TypeOK, LeadTypeOK
  <2>2. QED  BY <1>2, <2>1, PromisesBack DEF IInv
<1>6. QED  BY <1>2, <1>3, <1>4, <1>5 DEF IInv, RoundInv

\* Time runs for the promise and for what rests on it alike.
LEMMA TickInv ==
  ASSUME IInv, TypeOK', Tick
  PROVE  IInv'
<1>1. /\ \A v \in Voter :
           /\ voterLeft'[v] = IF voterLeft[v] > 0 THEN voterLeft[v] - 1 ELSE 0
           /\ restartLeft'[v] = IF restartLeft[v] > 0 THEN restartLeft[v] - 1 ELSE 0
      /\ \A c \in Candidate :
           /\ budget'[c] = IF budget[c] > 0 THEN budget[c] - 1 ELSE 0
           /\ guard'[c] = IF guard[c] > 0 THEN guard[c] - 1 ELSE 0
      /\ UNCHANGED <<voteVars, holder, pc, mode, ballot, grants, late>>
  BY DEF Tick, OneLess, IInv, TypeOK, VoterTypeOK, RoundTypeOK, LeadTypeOK
<1>2. VoterInv'
  BY <1>1 DEF IInv, VoterInv, VotesSaved, LeasesVoted, VotesInTerms, voteVars, TypeOK,
              VoterTypeOK
<1>3. ASSUME NEW v \in Voter, NEW c \in Candidate, NEW k \in 1..Lease, Promise(v, c, k)
      PROVE  Promise(v, c, k - 1)'
  BY <1>1, <1>3, LeaseAssumption DEF Promise, IInv, TypeOK, VoterTypeOK, voteVars
<1>4. GrantsKept'
  <2> SUFFICES ASSUME NEW d \in Candidate, NEW v \in grants[d]
               PROVE  Promise(v, d, budget[d])'
    BY <1>1 DEF GrantsKept
  <2>1. Promise(v, d, budget[d]) /\ v \in Voter /\ budget[d] \in 0..Lease
    BY DEF IInv, RoundInv, GrantsKept, TypeOK, RoundTypeOK
  <2>2. CASE budget[d] = 0
    BY <1>1, <2>2 DEF Promise
  <2>3. CASE budget[d] # 0
    <3>1. budget[d] \in 1..Lease /\ budget'[d] = budget[d] - 1
      BY <1>1, <2>1, <2>3, LeaseAssumption
    <3>2. QED  BY <1>3, <2>1, <3>1 DEF Promise
  <2>4. QED  BY <2>2, <2>3
<1>5. GuardBacked'
  <2> SUFFICES ASSUME NEW c \in Candidate, guard'[c] > 0
               PROVE  IsQuorum({v \in Voter : Promise(v, c, guard[c])'})
    BY DEF GuardBacked, IsQuorum, QuorumSize
  <2>1. guard[c] \in 1..Lease /\ guard'[c] = guard[c] - 1
    BY <1>1, LeaseAssumption DEF IInv, TypeOK, LeadTypeOK
  <2>2. IsQuorum({v \in Voter : Promise(v, c, guard[c])})
    BY <2>1 DEF IInv, GuardBacked
  <2>3. {v \in Voter : Promise(v, c, guard[c])} \subseteq {v \in Voter : Promise(v, c, guard[c])'}
    BY <1>3, <2>1 DEF Promise
  <2>4. QED  BY <2>2, <2>3, MoreIsQuorum
<1>6. RequestsInTerms' /\ GrantsInRounds' /\ ChecksRenew'
  BY <1>1 DEF IInv, RoundInv, RequestsInTerms, GrantsInRounds, ChecksRenew
<1>7. QED  BY <1>2, <1>4, <1>5, <1>6 DEF IInv, RoundInv

LEMMA NextInv ==
  ASSUME DiskMayFail = FALSE, IInv, [Next]_vars
  PROVE  IInv'
<1>1. TypeOK'
  BY NextType DEF IInv
<1>2. ASSUME NEW c \in Candidate, Query(c) \/ Decide(c) \/ Ask(c) \/ Finish(c) \/ Watchdog(c)
      PROVE  IInv'
  <2>1. CASE Watchdog(c)
    BY <1>1, <2>1
       DEF Watchdog, IInv, VoterInv, VotesSaved, LeasesVoted, VotesInTerms, RoundInv,
           RequestsInTerms, GrantsKept, GrantsInRounds, ChecksRenew, GuardBacked, Promise,
           roundVars, voterVars, voteVars, IsQuorum, QuorumSize
  <2>2. QED  BY <1>1, <1>2, <2>1, DecideInv, AskInv, FinishInv
<1>3. ASSUME NEW n \in Node, RestartAgent(n) \/ Reboot(n)
      PROVE  IInv'
  BY <1>1, <1>3, RestartInv
<1>4. CASE HandleLate
  BY <1>1, <1>4, LateInv
<1>5. CASE Tick
  BY <1>1, <1>5, TickInv
<1>6. CASE UNCHANGED vars
  BY <1>1, <1>6
     DEF vars, IInv, VoterInv, VotesSaved, LeasesVoted, VotesInTerms, RoundInv,
         RequestsInTerms, GrantsKept, GrantsInRounds, ChecksRenew, GuardBacked, Promise,
         roundVars, leadVars, voterVars, voteVars, IsQuorum, QuorumSize
<1>7. QED
  BY <1>2, <1>3, <1>4, <1>5, <1>6 DEF Next

\* The inductive invariant holds wherever vote and guard files can be written.
THEOREM Inductive ==
  ASSUME DiskMayFail = FALSE
  PROVE  Spec => []IInv
<1>1. Init => IInv
  BY InitInv
<1>2. IInv /\ [Next]_vars => IInv'
  BY NextInv
<1>3. QED  BY <1>1, <1>2, PTL DEF Spec

\* For any voters, candidates, lease, terms, crashes and late requests: while a
\* guard file lasts, a quorum of voters is bound to its candidate for as long.
THEOREM GuardIsBacked ==
  ASSUME DiskMayFail = FALSE
  PROVE  Spec => []GuardBacked
<1>1. IInv => GuardBacked
  BY DEF IInv
<1>2. QED  BY <1>1, Inductive, PTL

\* And therefore no two nodes hold a guard file that lasts, at any time: at most
\* one node may run the primary services by its watchdog's leave.
THEOREM GuardIsExclusive ==
  ASSUME DiskMayFail = FALSE
  PROVE  Spec => []GuardExclusive
<1>1. IInv => GuardExclusive
  BY BackedExclusive DEF IInv
<1>2. QED  BY <1>1, Inductive, PTL

-----------------------------------------------------------------------------
(* Votes.                                                                   *)

LEMMA UnchangedVotesKept ==
  ASSUME TypeOK, UNCHANGED <<term, votedFor>>
  PROVE  \A v \in Voter : VoteKept(v)
BY DEF VoteKept, TypeOK, VoterTypeOK

LEMMA RequestKeepsVotes ==
  ASSUME TypeOK, NEW m \in Request, Granted(m) \/ Refused(m)
  PROVE  \A v \in Voter : VoteKept(v)
<1>1. CASE Refused(m) \/ (Granted(m) /\ ~Advances(m))
  BY <1>1, UnchangedVotesKept DEF Refused, Granted, voterVars, voteVars
<1>2. CASE Granted(m) /\ Advances(m)
  <2>1. /\ term' = [term EXCEPT ![m.to] = m.term]
        /\ votedFor' = [votedFor EXCEPT ![m.to] = m.from]
        /\ m.term >= term[m.to] /\ m.to \in Voter
        /\ m.term = term[m.to] => votedFor[m.to] \in {None, m.from}
    BY <1>2 DEF Granted, Advances, Denied, VoteDenied, Request, TypeOK, VoterTypeOK
  <2>2. QED  BY <2>1 DEF VoteKept, TypeOK, VoterTypeOK
<1>3. QED  BY <1>1, <1>2

LEMMA NextKeepsVotes ==
  ASSUME DiskMayFail = FALSE, IInv, Next
  PROVE  \A v \in Voter : VoteKept(v)
<1>1. ASSUME NEW c \in Candidate, Ask(c)
      PROVE  \A v \in Voter : VoteKept(v)
  <2>1. NextRequest(c) \in Request
    BY <1>1, NextRequestType DEF IInv, TypeOK, Ask, AskGranted, AskRefused, AskNotSaved,
       AskUnanswered
  <2>2. PICK m \in Request : m = NextRequest(c)
    BY <2>1
  <2>3. Granted(m) \/ Refused(m) \/ UNCHANGED <<term, votedFor>>
    BY <1>1, <2>2 DEF Ask, AskGranted, AskRefused, AskNotSaved, NotSaved, AskUnanswered,
                      voterVars, voteVars
  <2>4. QED  BY <2>3, RequestKeepsVotes, UnchangedVotesKept DEF IInv
<1>2. CASE HandleLate
  BY <1>2, RequestKeepsVotes DEF HandleLate, NotSaved, IInv, TypeOK
<1>3. ASSUME NEW n \in Node, RestartAgent(n) \/ Reboot(n)
      PROVE  \A v \in Voter : VoteKept(v)
  <2>1. UNCHANGED <<term, votedFor>>
    BY <1>3 DEF RestartAgent, Reboot, VoterRestarts, voterVars, voteVars, IInv, VoterInv,
                VotesSaved, TypeOK, VoterTypeOK
  <2>2. QED  BY <2>1, UnchangedVotesKept DEF IInv
<1>4. ASSUME NEW c \in Candidate, Query(c) \/ Decide(c) \/ Finish(c) \/ Watchdog(c)
      PROVE  UNCHANGED <<term, votedFor>>
  BY <1>4
     DEF Query, Decide, YieldToHolder, YieldToHigherTerm, KeepLease, StandBy, AdoptLease,
         BeginCampaign, BeginRenew, BecomeIneligible, Finish, Win, GuardNotWritten,
         LoseCampaign, LoseLease, MissRenewal, StartServices, StartTooLate, StartFails,
         Watchdog, voterVars, voteVars
<1>5. CASE Tick
  BY <1>5, UnchangedVotesKept DEF Tick, voteVars, IInv
<1>6. QED
  BY <1>1, <1>2, <1>3, <1>4, <1>5, UnchangedVotesKept DEF Next, IInv

\* A vote, once cast, is never changed in its term, and no term is ever left for
\* a lower one, whatever restarts.
THEOREM VotesAreFinal ==
  ASSUME DiskMayFail = FALSE
  PROVE  Spec => VoteIsFinal
<1>1. IInv /\ [Next]_vars => [\A v \in Voter : VoteKept(v)]_vars
  BY NextKeepsVotes
<1>2. QED  BY <1>1, Inductive, PTL DEF Spec, VoteIsFinal

-----------------------------------------------------------------------------
(* The quorum lease implements one lock with a time to live.                *)

LEMMA OwnerUnique ==
  ASSUME NEW g, NEW c \in Candidate, g[c] > 0,
         \A d \in Candidate : g[d] > 0 => d = c
  PROVE  OwnerOf(g) = c
BY DEF OwnerOf

LEMMA OwnerType ==
  ASSUME NEW g \in [Candidate -> 0..Lease]
  PROVE  OwnerOf(g) # None => OwnerOf(g) \in Candidate /\ g[OwnerOf(g)] > 0
<1>1. CASE \E c \in Candidate : g[c] > 0
  BY <1>1 DEF OwnerOf
<1>2. CASE ~\E c \in Candidate : g[c] > 0
  BY <1>2 DEF OwnerOf
<1>3. QED  BY <1>1, <1>2

\* What a step may do to the guard files.
LEMMA GuardSteps ==
  ASSUME IInv, [Next]_vars
  PROVE  \/ guard' = guard
         \/ \E c \in Candidate : guard' = [guard EXCEPT ![c] = 0]
         \/ \E c \in Candidate, k \in 1..Lease : guard' = [guard EXCEPT ![c] = k]
         \/ guard' = OneLess(guard)
<1>1. ASSUME NEW c \in Candidate, Win(c)
      PROVE  \E k \in 1..Lease : guard' = [guard EXCEPT ![c] = k]
  <2>1. budget[c] \in 1..Lease
    BY <1>1, LeaseAssumption DEF Win, Won, IInv, TypeOK, RoundTypeOK
  <2>2. guard' = [guard EXCEPT ![c] = budget[c]]
    BY <1>1 DEF Win
  <2>3. QED  BY <2>1, <2>2
<1>2. ASSUME NEW c \in Candidate, Finish(c), ~Win(c)
      PROVE  guard' = guard \/ guard' = [guard EXCEPT ![c] = 0]
  BY <1>2 DEF Finish, GuardNotWritten, LoseCampaign, LoseLease, MissRenewal, StartServices,
              StartTooLate, StartFails, DemoteAndEnd, Demote, leadVars
<1>3. ASSUME NEW c \in Candidate, Query(c) \/ Decide(c) \/ Ask(c) \/ Watchdog(c)
      PROVE  guard' = guard \/ guard' = [guard EXCEPT ![c] = 0]
  BY <1>3 DEF Query, Decide, YieldToHolder, YieldToHigherTerm, KeepLease, StandBy,
              AdoptLease, BeginCampaign, BeginRenew, BecomeIneligible, Ask, AskGranted,
              AskRefused, AskNotSaved, AskUnanswered, Watchdog, DemoteAndEnd, Demote, leadVars
<1>4. ASSUME NEW n \in Node, RestartAgent(n) \/ Reboot(n)
      PROVE  guard' = guard \/ \E c \in Candidate : guard' = [guard EXCEPT ![c] = 0]
  BY <1>4 DEF RestartAgent, Reboot
<1>5. QED
  BY <1>1, <1>2, <1>3, <1>4 DEF Next, HandleLate, Tick, leadVars, vars

LEMMA LockStep ==
  ASSUME DiskMayFail = FALSE, IInv, [Next]_vars
  PROVE  [Lock!LockNext]_(Lock!lockVars)
<1>1. guard \in [Candidate -> 0..Lease] /\ guard' \in [Candidate -> 0..Lease]
  BY NextType DEF IInv, TypeOK, LeadTypeOK
<1>2. GuardExclusive /\ GuardExclusive'
  <2>1. IInv'
    BY NextInv
  <2>2. (GuardBacked => GuardExclusive) /\ (GuardBacked' => GuardExclusive')
    BY BackedExclusive, PTL
  <2>3. QED  BY <2>1, <2>2 DEF IInv
<1>3. \A c \in Candidate : guard[c] > 0 => Owner = c /\ OwnerLeft = guard[c]
  BY <1>2, OwnerUnique, NoneAssumption DEF GuardExclusive, Owner, OwnerLeft
<1>4. \A c \in Candidate : guard'[c] > 0 => Owner' = c /\ OwnerLeft' = guard'[c]
  BY <1>2, OwnerUnique, NoneAssumption DEF GuardExclusive, Owner, OwnerLeft
<1>5. /\ Owner # None => Owner \in Candidate /\ guard[Owner] > 0
      /\ Owner = None => OwnerLeft = 0
  BY <1>1, OwnerType DEF Owner, OwnerLeft
<1>6. /\ Owner' # None => Owner' \in Candidate /\ guard'[Owner'] > 0
      /\ Owner' = None => OwnerLeft' = 0
  BY <1>1, OwnerType DEF Owner, OwnerLeft
<1> USE DEF Lock!LockNext, Lock!Acquire, Lock!Release, Lock!Elapse, Lock!lockVars
<1>7. CASE guard' = guard
  BY <1>7 DEF Owner, OwnerLeft
<1>8. ASSUME NEW c \in Candidate, guard' = [guard EXCEPT ![c] = 0]
      PROVE  [Lock!LockNext]_(Lock!lockVars)
  <2>1. guard'[c] = 0 /\ \A d \in Candidate \ {c} : guard'[d] = guard[d]
    BY <1>1, <1>8
  <2>2. CASE Owner = None
    <3>1. Owner' = None
      BY <1>3, <1>6, <2>1, <2>2, NoneAssumption
    <3>2. QED  BY <1>5, <1>6, <2>2, <3>1
  <2>3. CASE Owner = c
    <3>1. Owner' = None
      BY <1>3, <1>6, <2>1, <2>3, NoneAssumption
    <3>2. QED  BY <1>6, <2>3, <3>1, NoneAssumption
  <2>4. CASE Owner # None /\ Owner # c
    <3>1. guard'[Owner] = guard[Owner] /\ guard[Owner] > 0 /\ Owner \in Candidate
      BY <1>5, <2>1, <2>4
    <3>2. Owner' = Owner /\ OwnerLeft' = OwnerLeft
      BY <1>3, <1>4, <3>1
    <3>3. QED  BY <3>2
  <2>5. QED  BY <2>2, <2>3, <2>4
<1>9. ASSUME NEW c \in Candidate, NEW k \in 1..Lease, guard' = [guard EXCEPT ![c] = k]
      PROVE  [Lock!LockNext]_(Lock!lockVars)
  <2>1. guard'[c] = k /\ k > 0 /\ \A d \in Candidate \ {c} : guard'[d] = guard[d]
    BY <1>1, <1>9, LeaseAssumption
  <2>2. Owner' = c /\ OwnerLeft' = k
    BY <1>4, <2>1
  <2>3. Owner \in {None, c}
    <3> SUFFICES ASSUME Owner # None, Owner # c  PROVE FALSE
      OBVIOUS
    <3>1. Owner \in Candidate /\ guard'[Owner] > 0
      BY <1>5, <2>1
    <3>2. QED  BY <1>4, <2>2, <3>1
  <2>4. QED  BY <2>2, <2>3
<1>10. CASE guard' = OneLess(guard)
  <2>1. \A c \in Candidate : guard'[c] = IF guard[c] > 0 THEN guard[c] - 1 ELSE 0
    BY <1>1, <1>10 DEF OneLess
  <2>2. CASE Owner = None
    <3>1. Owner' = None
      BY <1>3, <1>6, <2>1, <2>2, NoneAssumption
    <3>2. QED  BY <1>5, <1>6, <2>2, <3>1
  <2>3. CASE Owner # None
    <3>1. PICK c \in Candidate : Owner = c /\ guard[c] > 0 /\ OwnerLeft = guard[c]
      BY <1>3, <1>5, <2>3
    <3>2. guard'[c] = guard[c] - 1 /\ guard[c] \in 1..Lease
      BY <1>1, <2>1, <3>1, LeaseAssumption
    <3>3. CASE guard[c] = 1
      <4>1. Owner' = None
        BY <1>3, <1>6, <2>1, <3>1, <3>2, <3>3, NoneAssumption
      <4>2. QED  BY <1>6, <2>3, <3>1, <3>3, <4>1
    <3>4. CASE guard[c] # 1
      <4>1. Owner' = c /\ OwnerLeft' = guard[c] - 1
        BY <1>4, <3>2, <3>4, LeaseAssumption
      <4>2. QED  BY <2>3, <3>1, <3>4, <4>1
    <3>5. QED  BY <3>3, <3>4
  <2>4. QED  BY <2>2, <2>3
<1>11. QED
  BY <1>7, <1>8, <1>9, <1>10, GuardSteps

\* Every step of voters, candidates, watchdogs, restarts and clocks is a step of
\* one lock with a time to live, or leaves the lock as it is.
THEOREM LeaseIsOneLock ==
  ASSUME DiskMayFail = FALSE
  PROVE  Spec => ImplementsPrimaryLease
<1>1. Init => Lock!LockInit
  BY DEF Init, Lock!LockInit, Owner, OwnerOf, OwnerLeft
<1>2. IInv /\ [Next]_vars => [Lock!LockNext]_(Lock!lockVars)
  BY LockStep
<1>3. QED
  BY <1>1, <1>2, Inductive, PTL DEF Spec, ImplementsPrimaryLease, Lock!LockSpec
=============================================================================
