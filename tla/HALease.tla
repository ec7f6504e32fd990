------------------------------- MODULE HALease -------------------------------
(***************************************************************************)
(* The quorum lease of TEP-HA, as the deployed agent runs it:              *)
(* ha/hashburst_ha_agent_v220.py (the subclass the systemd unit starts) on *)
(* top of ha/hashburst_ha_agent.py.                                        *)
(*                                                                         *)
(* A node may be a voter, a candidate or both; both roles live in one      *)
(* agent process and crash together.  A voter answers vote_request, renew  *)
(* and status.  A candidate runs run_once in a loop: it asks every voter   *)
(* for its status, one RPC after the other, decides, and then campaigns or *)
(* renews, again one RPC after the other.  A separate watchdog process     *)
(* stops the primary-only services when the guard file has run out.        *)
(*                                                                         *)
(* Time.  The code compares deadlines on CLOCK_BOOTTIME with now and never *)
(* sends a deadline to another host, so every deadline is kept here as the *)
(* number of ticks left (0: reached), which Tick decrements everywhere at  *)
(* once: the hosts' clocks are assumed to run at the same rate.            *)
(* Everything between two ticks takes any number of steps, so an RPC, a    *)
(* pause of the process or a slow systemctl call takes any time.           *)
(*                                                                         *)
(* RPCs.  A request that is answered takes effect and is answered in one   *)
(* step (the caller is blocked until then).  A request that is not         *)
(* answered in time may still arrive later: it stays in late, from where   *)
(* it is handled at any later moment or never.                             *)
(*                                                                         *)
(* Left out: an eligibility check may come out either way each time it is  *)
(* made; candidates are armed; set_primary starts the primary services in  *)
(* one step.                                                               *)
(***************************************************************************)
EXTENDS Naturals, FiniteSets, Sequences

CONSTANTS
  Voter,        \* nodes with the role voter
  Candidate,    \* nodes with the role candidate
  VoterSeq,     \* the voters in the order of the configuration
  Priority,     \* candidate -> priority, the smaller number goes first
  PrimaryService, \* primary_services: the units only the primary may run
  None,         \* no candidate: the empty string of the code
  Lease,        \* lease_seconds, in ticks
  MaxTerm,      \* bound: no campaign beyond this term
  MaxLate,      \* bound: unanswered requests that may still arrive
  MaxCrashes,   \* bound: agent restarts and reboots
  DiskMayFail   \* may writing the vote file or the guard file fail?

ASSUME VoterSeqAssumption ==
  /\ VoterSeq \in Seq(Voter) /\ VoterSeq # <<>>
  /\ Voter = {VoterSeq[i] : i \in 1..Len(VoterSeq)}
  /\ Cardinality(Voter) = Len(VoterSeq)
ASSUME VotersFinite == IsFiniteSet(Voter)
ASSUME NoneAssumption == None \notin Candidate
ASSUME PriorityAssumption == Priority \in [Candidate -> Nat]
ASSUME LeaseAssumption == Lease \in Nat \ {0}
ASSUME BoundsAssumption == {MaxTerm, MaxLate, MaxCrashes} \subseteq Nat
ASSUME DiskAssumption == DiskMayFail \in BOOLEAN

VARIABLES
  \* voters
  term, votedFor,           \* the vote in memory
  savedTerm, savedVote,     \* the vote in the state file
  holder, voterLeft,        \* the lease granted last (memory only)
  restartLeft,              \* what is left of the restart guard
  \* candidates: run_once
  pc, mode, ix, view, found, ballot, grants, budget,
  \* candidates: the lease as the candidate sees it, and what it controls
  leaderTerm, leaderLeft, guard, services,
  \* the network
  late,
  \* the number of restarts so far, for MaxCrashes
  crashes

voteVars  == <<term, votedFor, savedTerm, savedVote>>
voterVars == <<voteVars, holder, voterLeft, restartLeft>>
roundVars == <<pc, mode, ix, view, found, ballot, grants, budget>>
leadVars  == <<leaderTerm, leaderLeft, guard, services>>
vars == <<voterVars, roundVars, leadVars, late, crashes>>

Node == Voter \cup Candidate
Holder == Candidate \cup {None}

\* What a voter's status reply tells: who replied, its term and whose lease
\* it holds to be live.
Report == [voter : Voter, term : Nat, holder : Holder]

\* What run_once keeps of the replies: whether there were enough, max_term,
\* and the majority holder with its term.
Finding == [quorate : BOOLEAN, top : Nat, holder : Holder, term : Nat]
NothingFound == [quorate |-> FALSE, top |-> 0, holder |-> None, term |-> 0]

Request == [kind : {"vote", "renew"}, from : Candidate, to : Voter, term : Nat]

\* Mutant: half of the voters are enough.
HalfOfVoters == Cardinality(Voter) \div 2

QuorumSize == Cardinality(Voter) \div 2 + 1
IsQuorum(S) == Cardinality(S) >= QuorumSize

VoterTypeOK ==
  /\ term \in [Voter -> Nat] /\ savedTerm \in [Voter -> Nat]
  /\ votedFor \in [Voter -> Holder] /\ savedVote \in [Voter -> Holder]
  /\ holder \in [Voter -> Holder]
  /\ voterLeft \in [Voter -> 0..Lease] /\ restartLeft \in [Voter -> 0..Lease]

RoundTypeOK ==
  /\ pc \in [Candidate -> {"query", "decide", "check", "ask", "start"}]
  /\ mode \in [Candidate -> {"none", "renew", "adopt", "campaign"}]
  /\ ix \in [Candidate -> 1..(Len(VoterSeq) + 1)]
  /\ view \in [Candidate -> SUBSET Report]
  /\ found \in [Candidate -> Finding]
  /\ ballot \in [Candidate -> Nat]
  /\ grants \in [Candidate -> SUBSET Voter]
  /\ budget \in [Candidate -> 0..Lease]

LeadTypeOK ==
  /\ leaderTerm \in [Candidate -> Nat]
  /\ leaderLeft \in [Candidate -> 0..Lease]
  /\ guard \in [Candidate -> 0..Lease]
  /\ services \in [Candidate -> SUBSET PrimaryService]

\* A round that asks for status, or has ended, stands at a voter of the list.
TypeOK ==
  /\ VoterTypeOK /\ RoundTypeOK /\ LeadTypeOK
  /\ \A c \in Candidate : pc[c] # "ask" => ix[c] <= Len(VoterSeq)
  /\ late \subseteq Request
  /\ crashes \in Nat

Init ==
  /\ term = [v \in Voter |-> 0] /\ savedTerm = term
  /\ votedFor = [v \in Voter |-> None] /\ savedVote = votedFor
  /\ holder = [v \in Voter |-> None]
  /\ voterLeft = [v \in Voter |-> 0] /\ restartLeft = voterLeft
  /\ pc = [c \in Candidate |-> "query"]
  /\ mode = [c \in Candidate |-> "none"]
  /\ ix = [c \in Candidate |-> 1]
  /\ view = [c \in Candidate |-> {}]
  /\ found = [c \in Candidate |-> NothingFound]
  /\ ballot = [c \in Candidate |-> 0]
  /\ grants = [c \in Candidate |-> {}]
  /\ budget = ballot
  /\ leaderTerm = ballot /\ leaderLeft = ballot
  /\ guard = ballot
  /\ services = [c \in Candidate |-> {}]
  /\ late = {}
  /\ crashes = 0

-----------------------------------------------------------------------------
(* The voter: handle_tep.                                                   *)

\* _voter_status: the lease is reported only while it runs.
StatusOf(v) ==
  [voter |-> v, term |-> term[v],
   holder |-> IF voterLeft[v] > 0 THEN holder[v] ELSE None]

\* Mutant: a voter may vote again in its term once its lease has run out.
VoteDeniedUnlessLeased(v, c, t) ==
  \/ restartLeft[v] > 0 /\ votedFor[v] \notin {None, c}
  \/ voterLeft[v] > 0 /\ holder[v] \notin {None, c}
  \/ t < term[v]

\* The four reasons to refuse a vote: restart_lease_guard, active_lease,
\* stale_term and already_voted.
VoteDenied(v, c, t) ==
  \/ restartLeft[v] > 0 /\ votedFor[v] \notin {None, c}
  \/ voterLeft[v] > 0 /\ holder[v] \notin {None, c}
  \/ t < term[v]
  \/ t = term[v] /\ votedFor[v] \notin {None, c}

RenewDenied(v, c, t) == t # term[v] \/ votedFor[v] # c

Denied(m) == IF m.kind = "vote" THEN VoteDenied(m.to, m.from, m.term)
                                ELSE RenewDenied(m.to, m.from, m.term)

\* PersistentVoteState.advance is called: a new term, or no vote in this one.
Advances(m) == /\ m.kind = "vote"
               /\ m.term > term[m.to] \/ votedFor[m.to] = None

\* Mutant: a repeated grant leaves the deadline of the first.
GrantedOnce(m) ==
  /\ ~Denied(m)
  /\ IF Advances(m)
     THEN /\ term' = [term EXCEPT ![m.to] = m.term]
          /\ votedFor' = [votedFor EXCEPT ![m.to] = m.from]
          /\ savedTerm' = [savedTerm EXCEPT ![m.to] = m.term]
          /\ savedVote' = [savedVote EXCEPT ![m.to] = m.from]
          /\ voterLeft' = [voterLeft EXCEPT ![m.to] = Lease]
     ELSE UNCHANGED <<voteVars, voterLeft>>
  /\ holder' = [holder EXCEPT ![m.to] = m.from]
  /\ UNCHANGED restartLeft

\* Mutant: the file gets the term without the vote.
GrantedUnsaved(m) ==
  /\ ~Denied(m)
  /\ IF Advances(m)
     THEN /\ term' = [term EXCEPT ![m.to] = m.term]
          /\ votedFor' = [votedFor EXCEPT ![m.to] = m.from]
          /\ savedTerm' = [savedTerm EXCEPT ![m.to] = m.term]
          /\ UNCHANGED savedVote
     ELSE UNCHANGED voteVars
  /\ holder' = [holder EXCEPT ![m.to] = m.from]
  /\ voterLeft' = [voterLeft EXCEPT ![m.to] = Lease]
  /\ UNCHANGED restartLeft

Granted(m) ==
  /\ ~Denied(m)
  /\ IF Advances(m)
     THEN /\ term' = [term EXCEPT ![m.to] = m.term]
          /\ votedFor' = [votedFor EXCEPT ![m.to] = m.from]
          /\ savedTerm' = [savedTerm EXCEPT ![m.to] = m.term]
          /\ savedVote' = [savedVote EXCEPT ![m.to] = m.from]
     ELSE UNCHANGED voteVars
  /\ holder' = [holder EXCEPT ![m.to] = m.from]
  /\ voterLeft' = [voterLeft EXCEPT ![m.to] = Lease]
  /\ UNCHANGED restartLeft

Refused(m) == Denied(m) /\ UNCHANGED voterVars

\* advance sets term and voted_for before it writes the file: when the write
\* raises, the request ends in an error and the vote stays in memory.
NotSaved(m) ==
  /\ DiskMayFail /\ ~Denied(m) /\ Advances(m)
  /\ term' = [term EXCEPT ![m.to] = m.term]
  /\ votedFor' = [votedFor EXCEPT ![m.to] = m.from]
  /\ UNCHANGED <<savedTerm, savedVote, holder, voterLeft, restartLeft>>

\* A request whose caller has given up arrives after all.
HandleLate ==
  \E m \in late :
    /\ Granted(m) \/ Refused(m) \/ NotSaved(m)
    /\ late' = late \ {m}
    /\ UNCHANGED <<roundVars, leadVars, crashes>>

-----------------------------------------------------------------------------
(* The candidate: run_once, from the status round to the end of the loop.   *)

\* _demote: the lease and the guard file are given up; stopping the services
\* may fail, which is logged and left to the watchdog.  leader_term is read
\* only while the lease lasts and set whenever a lease begins, so what the
\* code stores there for a standby (the highest term met) is not kept.
Demote(c) ==
  /\ leaderTerm' = [leaderTerm EXCEPT ![c] = 0]
  /\ leaderLeft' = [leaderLeft EXCEPT ![c] = 0]
  /\ guard' = [guard EXCEPT ![c] = 0]
  /\ \E running \in SUBSET services[c] :
       services' = [services EXCEPT ![c] = running]

\* run_once returns: nothing of the round is kept, and after loop_seconds (any
\* time here) the next loop queries the first voter.
EndLoop(c) ==
  /\ pc' = [pc EXCEPT ![c] = "query"]
  /\ mode' = [mode EXCEPT ![c] = "none"]
  /\ ix' = [ix EXCEPT ![c] = 1]
  /\ view' = [view EXCEPT ![c] = {}]
  /\ found' = [found EXCEPT ![c] = NothingFound]
  /\ ballot' = [ballot EXCEPT ![c] = 0]
  /\ grants' = [grants EXCEPT ![c] = {}]
  /\ budget' = [budget EXCEPT ![c] = 0]

DemoteAndEnd(c) == Demote(c) /\ EndLoop(c)

\* _majority_view.  HighestTerm(V, t): t is max_term.  MajorityHolds(V, t, h):
\* a quorum of the replies V names h as the holder in term t.
HighestTerm(V, t) == /\ \A r \in V : r.term <= t
                     /\ t = 0 \/ \E r \in V : r.term = t
MajorityHolds(V, t, h) ==
  h # None /\ IsQuorum({r \in V : r.term = t /\ r.holder = h})

Sums(V, f) ==
  /\ f.quorate = IsQuorum(V)
  /\ HighestTerm(V, f.top)
  /\ \/ MajorityHolds(V, f.term, f.holder)
     \/ /\ \A r \in V : ~MajorityHolds(V, r.term, r.holder)
        /\ f.term = 0 /\ f.holder = None

\* What V can amount to.
Findings(V) ==
  LET terms == {0} \cup {r.term : r \in V} IN
  [quorate : BOOLEAN, top : terms, term : terms,
   holder : {None} \cup {r.holder : r \in V}]

\* _query_voters, one voter: it answers, or (unless it is this process) it
\* cannot be reached.  The last one completes the round.
Query(c) ==
  /\ pc[c] = "query"
  /\ LET v == VoterSeq[ix[c]] IN
     \E replies \in {view[c] \cup {StatusOf(v)}} \cup IF v # c THEN {view[c]} ELSE {} :
       IF ix[c] < Len(VoterSeq)
       THEN /\ view' = [view EXCEPT ![c] = replies]
            /\ ix' = [ix EXCEPT ![c] = @ + 1]
            /\ UNCHANGED <<pc, found>>
       ELSE /\ view' = [view EXCEPT ![c] = {}]
            /\ ix' = [ix EXCEPT ![c] = 1]
            /\ pc' = [pc EXCEPT ![c] = "decide"]
            /\ \E f \in Findings(replies) :
                 Sums(replies, f) /\ found' = [found EXCEPT ![c] = f]
  /\ UNCHANGED <<voterVars, mode, ballot, grants, budget, leadVars, late, crashes>>

\* The majority view names no holder, or this candidate itself.
NotYielding(c) == pc[c] = "decide" /\ found[c].holder \in {None, c}

\* A majority of the voters reports the lease of another candidate.
YieldToHolder(c) ==
  /\ pc[c] = "decide" /\ found[c].holder \notin {None, c}
  /\ DemoteAndEnd(c)
  /\ UNCHANGED <<voterVars, late, crashes>>

\* A holder that meets a higher term anywhere gives its lease up.
YieldToHigherTerm(c) ==
  /\ NotYielding(c) /\ leaderLeft[c] > 0 /\ found[c].top > leaderTerm[c]
  /\ DemoteAndEnd(c)
  /\ UNCHANGED <<voterVars, late, crashes>>

\* A holder goes on to renew.
KeepLease(c) ==
  /\ NotYielding(c) /\ leaderLeft[c] > 0 /\ found[c].top <= leaderTerm[c]
  /\ pc' = [pc EXCEPT ![c] = "check"]
  /\ mode' = [mode EXCEPT ![c] = "renew"]
  /\ found' = [found EXCEPT ![c] = NothingFound]
  /\ UNCHANGED <<voterVars, ix, view, ballot, grants, budget, leadVars, late, crashes>>

\* The candidates this one defers to.
Rivals(c) == {d \in Candidate : Priority[d] < Priority[c]}

\* Without a lease a candidate gives up when it is not eligible, or when too
\* few voters answered, or (unless the lease is its own) when a rival answers
\* that its last eligibility check was positive.
StandBy(c) ==
  /\ NotYielding(c) /\ leaderLeft[c] = 0
  /\ \E eligible, ready \in BOOLEAN :
       \/ ~eligible
       \/ ~found[c].quorate
       \/ found[c].holder # c /\ Rivals(c) # {} /\ ready
  /\ DemoteAndEnd(c)
  /\ UNCHANGED <<voterVars, late, crashes>>

\* The voters hold this candidate's own lease (it restarted or stepped down):
\* it takes the lease to be its own again, before any voter has renewed it.
AdoptLease(c) ==
  /\ NotYielding(c) /\ leaderLeft[c] = 0 /\ found[c].quorate
  /\ found[c].holder = c /\ found[c].term > 0
  /\ leaderTerm' = [leaderTerm EXCEPT ![c] = found[c].term]
  /\ leaderLeft' = [leaderLeft EXCEPT ![c] = Lease]
  /\ pc' = [pc EXCEPT ![c] = "check"]
  /\ mode' = [mode EXCEPT ![c] = "adopt"]
  /\ found' = [found EXCEPT ![c] = NothingFound]
  /\ UNCHANGED <<voterVars, ix, view, ballot, grants, budget, guard, services,
                 late, crashes>>

\* Nobody holds a majority and no rival is ready, or those that are do not
\* answer: the round of vote requests begins in the next term, and the lease
\* it may win is counted from here.
BeginCampaign(c) ==
  /\ NotYielding(c) /\ leaderLeft[c] = 0 /\ found[c].quorate
  /\ found[c].holder = None
  /\ found[c].top < MaxTerm
  /\ ballot' = [ballot EXCEPT ![c] = found[c].top + 1]
  /\ pc' = [pc EXCEPT ![c] = "ask"]
  /\ mode' = [mode EXCEPT ![c] = "campaign"]
  /\ found' = [found EXCEPT ![c] = NothingFound]
  /\ budget' = [budget EXCEPT ![c] = Lease]
  /\ UNCHANGED <<voterVars, ix, view, grants, leadVars, late, crashes>>

\* _renew begins with the eligibility check; the lease it may win is counted
\* from here.
BeginRenew(c) ==
  /\ pc[c] = "check"
  /\ pc' = [pc EXCEPT ![c] = "ask"]
  /\ ix' = [ix EXCEPT ![c] = 1]
  /\ ballot' = [ballot EXCEPT ![c] = leaderTerm[c]]
  /\ budget' = [budget EXCEPT ![c] = Lease]
  /\ UNCHANGED <<voterVars, mode, view, found, grants, leaderTerm, leaderLeft,
                 guard, services, late, crashes>>

BecomeIneligible(c) ==
  /\ pc[c] = "check"
  /\ DemoteAndEnd(c)
  /\ UNCHANGED <<voterVars, late, crashes>>

-----------------------------------------------------------------------------
(* The candidate: _campaign and _renew, one RPC after the other.            *)

NextRequest(c) ==
  [kind |-> IF mode[c] = "campaign" THEN "vote" ELSE "renew",
   from |-> c, to |-> VoterSeq[ix[c]], term |-> ballot[c]]

Asks(c) == pc[c] = "ask" /\ ix[c] <= Len(VoterSeq)

AskGranted(c) ==
  /\ Asks(c) /\ Granted(NextRequest(c))
  /\ grants' = [grants EXCEPT ![c] = @ \cup {VoterSeq[ix[c]]}]
  /\ ix' = [ix EXCEPT ![c] = @ + 1]
  /\ UNCHANGED <<pc, mode, view, found, ballot, budget, leadVars, late, crashes>>

AskRefused(c) ==
  /\ Asks(c) /\ Refused(NextRequest(c))
  /\ ix' = [ix EXCEPT ![c] = @ + 1]
  /\ UNCHANGED <<pc, mode, view, found, ballot, grants, budget, leadVars, late, crashes>>

AskNotSaved(c) ==
  /\ Asks(c) /\ NotSaved(NextRequest(c))
  /\ ix' = [ix EXCEPT ![c] = @ + 1]
  /\ UNCHANGED <<pc, mode, view, found, ballot, grants, budget, leadVars, late, crashes>>

\* The RPC fails or times out; the request may still arrive.
AskUnanswered(c) ==
  /\ Asks(c) /\ VoterSeq[ix[c]] # c
  /\ \/ UNCHANGED late
     \/ Cardinality(late) < MaxLate /\ late' = late \cup {NextRequest(c)}
  /\ ix' = [ix EXCEPT ![c] = @ + 1]
  /\ UNCHANGED <<voterVars, pc, mode, view, found, ballot, grants, budget,
                 leadVars, crashes>>

RoundDone(c) == pc[c] = "ask" /\ ix[c] > Len(VoterSeq)
Won(c) == IsQuorum(grants[c]) /\ budget[c] > 0

\* Mutant: the lease is counted from the last answer on, as it was in
\* ha/hashburst_ha_agent.py before v2.2.0.
WinCountedFromEnd(c) ==
  /\ RoundDone(c) /\ Won(c)
  /\ leaderTerm' = [leaderTerm EXCEPT ![c] = ballot[c]]
  /\ leaderLeft' = [leaderLeft EXCEPT ![c] = Lease]
  /\ guard' = [guard EXCEPT ![c] = Lease]
  /\ pc' = [pc EXCEPT ![c] = "start"]
  /\ ix' = [ix EXCEPT ![c] = 1]
  /\ ballot' = [ballot EXCEPT ![c] = 0]
  /\ grants' = [grants EXCEPT ![c] = {}]
  /\ budget' = [budget EXCEPT ![c] = 0]
  /\ UNCHANGED <<voterVars, mode, view, found, services, late, crashes>>

\* Enough grants while the lease counted from the start of the round still
\* runs: the guard file is written, and the services are started next.  Of the
\* round only mode is looked at again.
Win(c) ==
  /\ RoundDone(c) /\ Won(c)
  /\ leaderTerm' = [leaderTerm EXCEPT ![c] = ballot[c]]
  /\ leaderLeft' = [leaderLeft EXCEPT ![c] = budget[c]]
  /\ guard' = [guard EXCEPT ![c] = budget[c]]
  /\ pc' = [pc EXCEPT ![c] = "start"]
  /\ ix' = [ix EXCEPT ![c] = 1]
  /\ ballot' = [ballot EXCEPT ![c] = 0]
  /\ grants' = [grants EXCEPT ![c] = {}]
  /\ budget' = [budget EXCEPT ![c] = 0]
  /\ UNCHANGED <<voterVars, mode, view, found, services, late, crashes>>

\* The guard file cannot be written: the exception ends the loop, the lease is
\* kept in memory while it runs, and the guard file says what it said before.
GuardNotWritten(c) ==
  /\ DiskMayFail /\ RoundDone(c) /\ Won(c)
  /\ leaderTerm' = [leaderTerm EXCEPT ![c] = ballot[c]]
  /\ leaderLeft' = [leaderLeft EXCEPT ![c] = budget[c]]
  /\ EndLoop(c)
  /\ UNCHANGED <<voterVars, guard, services, late, crashes>>

LoseCampaign(c) ==
  /\ RoundDone(c) /\ ~Won(c) /\ mode[c] = "campaign"
  /\ DemoteAndEnd(c)
  /\ UNCHANGED <<voterVars, late, crashes>>

\* A failed renewal demotes only a holder whose lease has run out; one that
\* was adopting its lease returns without looking.
LoseLease(c) ==
  /\ RoundDone(c) /\ ~Won(c) /\ mode[c] = "renew" /\ leaderLeft[c] = 0
  /\ DemoteAndEnd(c)
  /\ UNCHANGED <<voterVars, late, crashes>>

MissRenewal(c) ==
  /\ RoundDone(c) /\ ~Won(c)
  /\ \/ mode[c] = "adopt"
     \/ mode[c] = "renew" /\ leaderLeft[c] > 0
  /\ EndLoop(c)
  /\ UNCHANGED <<voterVars, leadVars, late, crashes>>

\* set_primary.  Afterwards only a campaign looks at the lease again.
StartServices(c) ==
  /\ pc[c] = "start"
  /\ mode[c] = "campaign" => leaderLeft[c] > 0
  /\ services' = [services EXCEPT ![c] = PrimaryService]
  /\ EndLoop(c)
  /\ UNCHANGED <<voterVars, leaderTerm, leaderLeft, guard, late, crashes>>

StartTooLate(c) ==
  /\ pc[c] = "start" /\ mode[c] = "campaign" /\ leaderLeft[c] = 0
  /\ DemoteAndEnd(c)
  /\ UNCHANGED <<voterVars, late, crashes>>

\* systemctl start fails: the exception ends the loop, and the lease is kept
\* while it runs.
StartFails(c) ==
  /\ pc[c] = "start"
  /\ IF leaderLeft[c] = 0
     THEN Demote(c)
     ELSE /\ \E started \in SUBSET PrimaryService :
               services' = [services EXCEPT ![c] = @ \cup started]
          /\ UNCHANGED <<leaderTerm, leaderLeft, guard>>
  /\ EndLoop(c)
  /\ UNCHANGED <<voterVars, late, crashes>>

-----------------------------------------------------------------------------
(* The watchdog, crashes and time.                                          *)

\* Mutant: the watchdog believes an agent that has not stepped down.
WatchdogTrustsAgent(c) ==
  /\ services[c] # {} /\ guard[c] = 0 /\ leaderTerm[c] = 0
  /\ services' = [services EXCEPT ![c] = {}]
  /\ UNCHANGED <<voterVars, roundVars, leaderTerm, leaderLeft,
                 guard, late, crashes>>

\* The guard file is missing, somebody else's or past its deadline: whatever
\* still runs of the services is stopped.
Watchdog(c) ==
  /\ services[c] # {} /\ guard[c] = 0
  /\ services' = [services EXCEPT ![c] = {}]
  /\ UNCHANGED <<voterVars, roundVars, leaderTerm, leaderLeft,
                 guard, late, crashes>>

\* Mutant: no restart guard.
VoterRestartsUnguarded(n) ==
  IF n \in Voter
  THEN /\ term' = [term EXCEPT ![n] = savedTerm[n]]
       /\ votedFor' = [votedFor EXCEPT ![n] = savedVote[n]]
       /\ holder' = [holder EXCEPT ![n] = None]
       /\ voterLeft' = [voterLeft EXCEPT ![n] = 0]
       /\ UNCHANGED <<savedTerm, savedVote, restartLeft>>
  ELSE UNCHANGED voterVars

\* A voter comes back with the vote in its file, no lease in memory, and a
\* restart guard of one lease when it had voted.
VoterRestarts(n) ==
  IF n \in Voter
  THEN /\ term' = [term EXCEPT ![n] = savedTerm[n]]
       /\ votedFor' = [votedFor EXCEPT ![n] = savedVote[n]]
       /\ holder' = [holder EXCEPT ![n] = None]
       /\ voterLeft' = [voterLeft EXCEPT ![n] = 0]
       /\ restartLeft' = [restartLeft EXCEPT ![n] =
            IF savedTerm[n] > 0 /\ savedVote[n] # None THEN Lease ELSE 0]
       /\ UNCHANGED <<savedTerm, savedVote>>
  ELSE UNCHANGED voterVars

\* A candidate comes back without a lease and without having been checked.
CandidateRestarts(n) ==
  IF n \in Candidate
  THEN /\ EndLoop(n)
       /\ leaderTerm' = [leaderTerm EXCEPT ![n] = 0]
       /\ leaderLeft' = [leaderLeft EXCEPT ![n] = 0]
  ELSE UNCHANGED <<roundVars, leaderTerm, leaderLeft>>

\* The agent process dies and is restarted; guard file and services remain.
RestartAgent(n) ==
  /\ VoterRestarts(n) /\ CandidateRestarts(n)
  /\ crashes < MaxCrashes /\ crashes' = crashes + 1
  /\ UNCHANGED <<guard, services, late>>

\* The host reboots: /run is empty, the services are disabled at boot.
Reboot(n) ==
  /\ VoterRestarts(n) /\ CandidateRestarts(n)
  /\ IF n \in Candidate
     THEN /\ guard' = [guard EXCEPT ![n] = 0]
          /\ services' = [services EXCEPT ![n] = {}]
     ELSE UNCHANGED <<guard, services>>
  /\ crashes < MaxCrashes /\ crashes' = crashes + 1
  /\ UNCHANGED late

\* Mutant: a deadline in the past counts as negative time left.
OneLessUnbounded(f) == [x \in DOMAIN f |-> f[x] - 1]

\* max(0, deadline - now) after one tick.
OneLess(f) == [x \in DOMAIN f |-> IF f[x] > 0 THEN f[x] - 1 ELSE 0]

Tick ==
  /\ voterLeft' = OneLess(voterLeft) /\ restartLeft' = OneLess(restartLeft)
  /\ budget' = OneLess(budget)
  /\ leaderLeft' = OneLess(leaderLeft) /\ guard' = OneLess(guard)
  /\ UNCHANGED <<voteVars, holder, pc, mode, ix, view, found, ballot, grants,
                 leaderTerm, services, late, crashes>>

Decide(c) ==
  \/ YieldToHolder(c) \/ YieldToHigherTerm(c) \/ KeepLease(c) \/ StandBy(c)
  \/ AdoptLease(c) \/ BeginCampaign(c)
  \/ BeginRenew(c) \/ BecomeIneligible(c)

Ask(c) == AskGranted(c) \/ AskRefused(c) \/ AskNotSaved(c) \/ AskUnanswered(c)

Finish(c) ==
  \/ Win(c) \/ GuardNotWritten(c)
  \/ LoseCampaign(c) \/ LoseLease(c) \/ MissRenewal(c)
  \/ StartServices(c) \/ StartTooLate(c) \/ StartFails(c)

Next ==
  \/ \E c \in Candidate :
       \/ Query(c) \/ Decide(c) \/ Ask(c) \/ Finish(c)
       \/ Watchdog(c)
  \/ \E n \in Node : RestartAgent(n) \/ Reboot(n)
  \/ HandleLate
  \/ Tick

Spec == Init /\ [][Next]_vars

\* Time passes, and the watchdog (a service of its own, Restart=always) goes on
\* polling and stopping.  Nothing is assumed of the agent: it may stall.
Fairness == WF_vars(Tick) /\ \A c \in Candidate : WF_vars(Watchdog(c))
FairSpec == Spec /\ Fairness

-----------------------------------------------------------------------------
(* Properties.                                                              *)

\* At any moment at most one candidate has a guard file that has not run out:
\* the primary lease is exclusive across lost and late RPCs, agent restarts,
\* reboots and rounds of any duration (_campaign, _renew, handle_tep and the
\* restart guard together).
GuardExclusive ==
  \A c, d \in Candidate : guard[c] > 0 /\ guard[d] > 0 => c = d

\* v will not help another candidate than c for another k ticks.
Promise(v, c, k) ==
  k > 0 => votedFor[v] = c /\ (voterLeft[v] >= k \/ restartLeft[v] >= k)

\* Why it is: as long as a guard file lasts, a quorum of voters is bound to its
\* candidate for at least as long, by a lease in memory or by the restart
\* guard, although the voters' clocks started later than the candidate's.
GuardBacked ==
  \A c \in Candidate : guard[c] > 0 =>
    IsQuorum({v \in Voter : Promise(v, c, guard[c])})

\* No two candidates ever hold the leadership of the same term, at whatever
\* time: a vote is cast once per term, and a lease is adopted only by the
\* candidate a quorum of that very term names (_campaign, _majority_view).
OneLeaderPerTerm ==
  \A c, d \in Candidate : leaderTerm[c] = leaderTerm[d] /\ leaderTerm[c] > 0 => c = d

\* A voter's term never falls, and its vote in a term never changes once cast,
\* restarts included (PersistentVoteState, handle_tep).
VoteKept(v) ==
  /\ term'[v] >= term[v]
  /\ term'[v] = term[v] /\ votedFor[v] # None => votedFor'[v] = votedFor[v]
VoteIsFinal == [][\A v \in Voter : VoteKept(v)]_vars

\* The guard files behave as one lock with a time to live (PrimaryLease).
OwnerOf(g) == IF \E c \in Candidate : g[c] > 0
              THEN CHOOSE c \in Candidate : g[c] > 0
              ELSE None
Owner == OwnerOf(guard)
OwnerLeft == IF Owner = None THEN 0 ELSE guard[Owner]

Lock == INSTANCE PrimaryLease WITH owner <- Owner, left <- OwnerLeft
ImplementsPrimaryLease == Lock!LockSpec

\* An agent that stalls, dies or lost its quorum does not keep its services:
\* they are found stopped again and again, unless the node goes on winning
\* leases (watchdog, ha/README.md on hashburst-ha-watchdog.service).
ServicesNeedLeases ==
  \A c \in Candidate : []<>(services[c] = {}) \/ []<><<Win(c)>>_vars

=============================================================================
