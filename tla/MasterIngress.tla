---------------------------- MODULE MasterIngress ----------------------------
(***************************************************************************)
(* The public entry to whichever node is the primary                       *)
(* (ha/hashburst_master_ingress.py), beside the agent of a voter that is   *)
(* not a candidate, on top of HALease.                                     *)
(*                                                                         *)
(* For each request the resolver reads two local states: what this voter   *)
(* has granted, and the majority the agent's own loop found in its last    *)
(* status round, which may be long over.  It names a node when the two     *)
(* agree; the caller is sent there, or the ingress asks the node for its   *)
(* status by TEP (see TepRpc) and passes that on under the node's name.    *)
(*                                                                         *)
(* Requests share nothing, so that one at a time is modelled per ingress.  *)
(* What the TEP daemon knows of the node (see PeerTable) and whether the   *)
(* node answers is left open: a request may fail at any point, and then it *)
(* changes nothing.                                                        *)
(***************************************************************************)
EXTENDS HALease

CONSTANTS
  Ingress,   \* voters with an ingress
  MinLeft    \* MIN_LEASE_REMAINING_MS, in ticks

ASSUME IngressAssumption == Ingress \subseteq Voter \ Candidate
ASSUME MinLeftAssumption == MinLeft \in Nat \ {0}

VARIABLES
  asking, replies,  \* the status round of the agent beside the ingress
  clusterView,      \* _cluster_view: the holder its last one found, and its term
  awaited,          \* the node whose status the ingress has asked for
  route             \* the node and term it last named

viewVars == <<asking, replies, clusterView>>
ingressVars == <<viewVars, awaited, route>>

Nobody == [node |-> None, term |-> 0]

\* run_once of a voter: one status RPC of _query_voters; the last one completes
\* the view, and there is nothing else to do.
Look(n) ==
  LET v == VoterSeq[asking[n]] IN
  \E known \in {replies[n] \cup {StatusOf(v)}} \cup IF v # n THEN {replies[n]} ELSE {} :
    IF asking[n] < Len(VoterSeq)
    THEN /\ replies' = [replies EXCEPT ![n] = known]
         /\ asking' = [asking EXCEPT ![n] = @ + 1]
         /\ UNCHANGED clusterView
    ELSE /\ replies' = [replies EXCEPT ![n] = {}]
         /\ asking' = [asking EXCEPT ![n] = 1]
         /\ \E f \in Findings(known) :
              /\ Sums(known, f)
              /\ clusterView' = [clusterView EXCEPT ![n] = [node |-> f.holder, term |-> f.term]]

\* ha_status: what the local agent says of its own voter (local_status) and of the
\* last round.
HaStatus(n) ==
  [holder |-> StatusOf(n).holder, term |-> term[n], left |-> voterLeft[n],
   view |-> clusterView[n]]

\* Mutant: the local voter's word is enough.
AgreedByVoterOnly(n) ==
  LET s == HaStatus(n) IN s.holder # None /\ s.left >= MinLeft

\* resolve, the part of it that is about the lease: the voter's own grant, the
\* majority's holder and the terms of both agree, and the lease is not about to
\* end.  That enough voters were reached follows from the majority.
Agreed(n) ==
  LET s == HaStatus(n) IN
  /\ s.holder # None /\ s.view.node = s.holder
  /\ s.term >= 1 /\ s.view.term = s.term
  /\ s.left >= MinLeft

Resolved(n) == [node |-> HaStatus(n).holder, term |-> HaStatus(n).term]

\* discovery
Discover(n) ==
  /\ Agreed(n)
  /\ route' = [route EXCEPT ![n] = Resolved(n)]
  /\ UNCHANGED awaited

\* master_status: the node is asked, and named when its answer arrives; nothing is
\* looked at again in between.
AskMaster(n) ==
  /\ awaited[n] = Nobody /\ Agreed(n)
  /\ awaited' = [awaited EXCEPT ![n] = Resolved(n)]
  /\ UNCHANGED route

MasterAnswers(n) ==
  /\ awaited[n] # Nobody
  /\ awaited' = [awaited EXCEPT ![n] = Nobody]
  /\ \/ route' = [route EXCEPT ![n] = awaited[n]]
     \/ UNCHANGED route   \* no answer, or the master is not live

\* The requests of do_GET.
Serve(n) == Discover(n) \/ AskMaster(n) \/ MasterAnswers(n)

\* The agent beside the ingress starts again with an empty view.
ForgetView(n) ==
  IF n \in Ingress
  THEN /\ asking' = [asking EXCEPT ![n] = 1]
       /\ replies' = [replies EXCEPT ![n] = {}]
       /\ clusterView' = [clusterView EXCEPT ![n] = Nobody]
  ELSE UNCHANGED viewVars

IngressInit ==
  /\ Init
  /\ asking = [n \in Ingress |-> 1] /\ replies = [n \in Ingress |-> {}]
  /\ clusterView = [n \in Ingress |-> Nobody]
  /\ awaited = [n \in Ingress |-> Nobody] /\ route = [n \in Ingress |-> Nobody]

LeaseStep ==
  \/ \E c \in Candidate :
       Query(c) \/ Decide(c) \/ Ask(c) \/ Finish(c) \/ Watchdog(c)
  \/ HandleLate
  \/ Tick

IngressNext ==
  \/ LeaseStep /\ UNCHANGED ingressVars
  \/ \E n \in Node :
       /\ RestartAgent(n) \/ Reboot(n)
       /\ ForgetView(n)
       /\ UNCHANGED <<awaited, route>>
  \/ \E n \in Ingress :
       \/ Look(n) /\ UNCHANGED <<vars, awaited, route>>
       \/ Serve(n) /\ UNCHANGED <<vars, viewVars>>

IngressSpec == IngressInit /\ [][IngressNext]_<<vars, ingressVars>>

-----------------------------------------------------------------------------
(* Properties.                                                             *)

\* The ingress is never a reason to believe in a primary nobody elected: the
\* node it names won its term, since a quorum voted for it then (and may have
\* moved on).  Neither a vote of the local voter that came to nothing, nor a view
\* from before the last election is enough.
RouteWasElected ==
  \A n \in Ingress : route[n] # Nobody =>
    IsQuorum({v \in Voter : \/ term[v] > route[n].term
                            \/ term[v] = route[n].term /\ votedFor[v] = route[n].node})
=============================================================================
