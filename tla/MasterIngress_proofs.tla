------------------------- MODULE MasterIngress_proofs -------------------------
(***************************************************************************)
(* The ingress names only nodes that won their term, for any voters,       *)
(* candidates, ingresses and durations.  What it reads may be over when it *)
(* is read, and the vote of its own voter may have come to nothing; but    *)
(* the majority it wants to agree with is one of votes that were cast,     *)
(* which the history of HATerms_proofs holds.                              *)
(***************************************************************************)
EXTENDS MasterIngress, HATerms_proofs

-----------------------------------------------------------------------------
(* The ingress does not interfere.                                          *)

LEMMA IngressStep ==
  ASSUME [IngressNext]_<<vars, ingressVars>>
  PROVE  [Next]_vars
BY DEF IngressNext, LeaseStep, Next, vars

\* Whatever the agents do beside an ingress they may do without one: the theorems
\* about Spec hold here.
THEOREM IngressOnlyReads == IngressSpec => Spec
<1>1. IngressInit => Init
  BY DEF IngressInit
<1>2. [IngressNext]_<<vars, ingressVars>> => [Next]_vars
  BY IngressStep
<1>3. QED  BY <1>1, <1>2, PTL DEF IngressSpec, Spec

-----------------------------------------------------------------------------
(* What the ingress goes by is in the history.                              *)

\* r names nobody, or the winner of a term.
Elected(H, r) ==
  r # Nobody => /\ r \in [node : Candidate, term : Nat]
                /\ WonBy(H, r.node, r.term)

IngressRecorded(H) ==
  \A n \in Ingress :
    /\ asking[n] \in 1..Len(VoterSeq) /\ replies[n] \subseteq Report
    /\ HeardEach(replies[n], asking[n])
    /\ \A r \in replies[n] : Told(H, r)
    /\ Elected(H, clusterView[n]) /\ Elected(H, awaited[n]) /\ Elected(H, route[n])

\* The state of the ingresses is functions on them.
IngressTypeOK ==
  /\ asking = [n \in Ingress |-> asking[n]]
  /\ replies = [n \in Ingress |-> replies[n]]
  /\ clusterView = [n \in Ingress |-> clusterView[n]]
  /\ awaited = [n \in Ingress |-> awaited[n]]
  /\ route = [n \in Ingress |-> route[n]]

IngressInv ==
  /\ IngressTypeOK /\ HeardOnce
  /\ \E H \in History : Recorded(H) /\ IngressRecorded(H)

LEMMA ElectedStays ==
  ASSUME NEW H \in History, NEW H2 \in History, Keeps(H, H2), NEW r, Elected(H, r)
  PROVE  Elected(H2, r)
BY WonStays DEF Elected

LEMMA ToldStays ==
  ASSUME NEW H, NEW H2, Keeps(H, H2), NEW r \in Report, Told(H, r)
  PROVE  Told(H2, r)
BY DEF Told, Keeps, Report

\* As the history grows.
LEMMA IngressStays ==
  ASSUME NEW H \in History, NEW H2 \in History, Keeps(H, H2), IngressRecorded(H)
  PROVE  IngressRecorded(H2)
BY ElectedStays, ToldStays DEF IngressRecorded

\* One status RPC, and after the last one the sum of the replies.
LEMMA LookRecorded ==
  ASSUME IInv, NEW H \in History, VotesRecorded(H), IngressTypeOK, IngressRecorded(H),
         NEW n \in Ingress, Look(n), UNCHANGED <<vars, awaited, route>>
  PROVE  IngressTypeOK' /\ IngressRecorded(H)'
<1> DEFINE v == VoterSeq[asking[n]]
<1>1. /\ asking[n] \in 1..Len(VoterSeq) /\ v \in Voter /\ replies[n] \in SUBSET Report
      /\ HeardEach(replies[n], asking[n]) /\ \A r \in replies[n] : Told(H, r)
  BY VoterSeqType DEF IngressRecorded
<1>2. PICK known \in {replies[n] \cup {StatusOf(v)}} \cup IF v # n THEN {replies[n]} ELSE {} :
        IF asking[n] < Len(VoterSeq)
        THEN /\ replies' = [replies EXCEPT ![n] = known]
             /\ asking' = [asking EXCEPT ![n] = @ + 1]
             /\ UNCHANGED clusterView
        ELSE /\ replies' = [replies EXCEPT ![n] = {}]
             /\ asking' = [asking EXCEPT ![n] = 1]
             /\ \E f \in Findings(known) :
                  /\ Sums(known, f)
                  /\ clusterView' =
                       [clusterView EXCEPT ![n] = [node |-> f.holder, term |-> f.term]]
  BY DEF Look
<1>3. StatusOf(v) \in Report /\ StatusOf(v).voter = v /\ Told(H, StatusOf(v))
  BY <1>1, StatusType, StatusTold DEF IInv, TypeOK, StatusOf
<1>4. replies[n] \cup {StatusOf(v)} \in SUBSET Report
  BY <1>1, <1>3
<1>5. known \in SUBSET Report /\ HeardEach(known, asking[n] + 1)
  <2>1. CASE known = replies[n] \cup {StatusOf(v)}
    BY <1>1, <1>3, <1>4, <2>1, ReplyHeard
  <2>2. CASE known = replies[n]
    BY <1>1, <2>2, NoReplyHeard
  <2>3. QED  BY <1>2, <2>1, <2>2
<1>6. \A r \in known : Told(H, r)
  BY <1>1, <1>2, <1>3
<1>7. IngressTypeOK'
  BY <1>2 DEF IngressTypeOK
<1>8. \A m \in Ingress \ {n} :
        asking'[m] = asking[m] /\ replies'[m] = replies[m] /\ clusterView'[m] = clusterView[m]
  BY <1>2 DEF IngressTypeOK
<1>9. CASE asking[n] < Len(VoterSeq)
  <2>1. /\ asking'[n] = asking[n] + 1 /\ replies'[n] = known
        /\ clusterView'[n] = clusterView[n]
    BY <1>2, <1>9 DEF IngressTypeOK
  <2>2. asking'[n] \in 1..Len(VoterSeq)
    BY <1>1, <1>9, <2>1, VoterCount
  <2>3. QED  BY <1>5, <1>6, <1>7, <1>8, <2>1, <2>2 DEF IngressRecorded
<1>10. CASE ~(asking[n] < Len(VoterSeq))
  <2>1. PICK f \in Findings(known) :
          /\ Sums(known, f)
          /\ clusterView' = [clusterView EXCEPT ![n] = [node |-> f.holder, term |-> f.term]]
    BY <1>2, <1>10
  <2>2. f \in Finding
    BY <1>5, FindingsType
  <2>3. Elected(H, [node |-> f.holder, term |-> f.term])
    <3>1. CASE MajorityHolds(known, f.term, f.holder)
      <4>1. f.holder \in Candidate /\ f.term \in Nat
        BY <2>2, <3>1 DEF MajorityHolds, Finding, Holder
      <4>2. WonBy(H, f.holder, f.term)
        BY <1>5, <1>6, <3>1, MajorityWon DEF HeardEach
      <4>3. QED  BY <4>1, <4>2 DEF Elected
    <3>2. CASE f.term = 0 /\ f.holder = None
      BY <3>2 DEF Elected, Nobody
    <3>3. QED  BY <2>1, <3>1, <3>2 DEF Sums
  <2>4. /\ asking'[n] = 1 /\ replies'[n] = {}
        /\ clusterView'[n] = [node |-> f.holder, term |-> f.term]
    BY <1>2, <1>10, <2>1 DEF IngressTypeOK
  <2>5. /\ asking'[n] \in 1..Len(VoterSeq) /\ replies'[n] \subseteq Report
        /\ HeardEach(replies'[n], asking'[n]) /\ \A r \in replies'[n] : Told(H, r)
        /\ Elected(H, clusterView'[n])
    BY <2>3, <2>4, VoterCount, NothingHeard
  <2>6. QED  BY <1>7, <1>8, <2>5 DEF IngressRecorded
<1>11. QED  BY <1>9, <1>10

\* Where the voter and the view agree, the view's holder is named.
LEMMA AgreedElected ==
  ASSUME NEW H, IngressRecorded(H), NEW n \in Ingress, Agreed(n)
  PROVE  Elected(H, Resolved(n))
<1>1. /\ clusterView[n].node = StatusOf(n).holder /\ StatusOf(n).holder # None
      /\ clusterView[n].term = term[n]
  BY DEF Agreed, HaStatus
<1>2. clusterView[n] # Nobody
  BY <1>1 DEF Nobody
<1>3. /\ clusterView[n] \in [node : Candidate, term : Nat]
      /\ WonBy(H, clusterView[n].node, clusterView[n].term)
  BY <1>2 DEF IngressRecorded, Elected
<1>4. Resolved(n) = [node |-> clusterView[n].node, term |-> clusterView[n].term]
  BY <1>1 DEF Resolved, HaStatus
<1>5. QED  BY <1>3, <1>4 DEF Elected

LEMMA ServeRecorded ==
  ASSUME NEW H, IngressTypeOK, IngressRecorded(H),
         NEW n \in Ingress, Serve(n), UNCHANGED <<vars, viewVars>>
  PROVE  IngressTypeOK' /\ IngressRecorded(H)'
<1>1. Elected(H, awaited[n]) /\ Elected(H, route[n]) /\ Elected(H, Nobody)
  BY DEF IngressRecorded, Elected
<1>2. \E r : Elected(H, r) /\ route' = [route EXCEPT ![n] = r]
  <2>1. CASE Discover(n)
    BY <2>1, AgreedElected DEF Discover
  <2>2. CASE AskMaster(n)
    <3>1. route' = [route EXCEPT ![n] = route[n]]
      BY <2>2 DEF AskMaster, IngressTypeOK
    <3>2. QED  BY <1>1, <3>1
  <2>3. CASE MasterAnswers(n)
    <3>1. route' = [route EXCEPT ![n] = route[n]] \/ route' = [route EXCEPT ![n] = awaited[n]]
      BY <2>3 DEF MasterAnswers, IngressTypeOK
    <3>2. QED  BY <1>1, <3>1
  <2>4. QED  BY <2>1, <2>2, <2>3 DEF Serve
<1>3. \E r : Elected(H, r) /\ awaited' = [awaited EXCEPT ![n] = r]
  <2>1. CASE Discover(n)
    <3>1. awaited' = [awaited EXCEPT ![n] = awaited[n]]
      BY <2>1 DEF Discover, IngressTypeOK
    <3>2. QED  BY <1>1, <3>1
  <2>2. CASE AskMaster(n)
    BY <2>2, AgreedElected DEF AskMaster
  <2>3. CASE MasterAnswers(n)
    BY <1>1, <2>3 DEF MasterAnswers
  <2>4. QED  BY <2>1, <2>2, <2>3 DEF Serve
<1>4. IngressTypeOK'
  <2>1. PICK r : route' = [route EXCEPT ![n] = r]
    BY <1>2
  <2>2. PICK a : awaited' = [awaited EXCEPT ![n] = a]
    BY <1>3
  <2>3. QED  BY <2>1, <2>2 DEF IngressTypeOK, viewVars
<1>5. ASSUME NEW m \in Ingress
      PROVE  Elected(H, awaited'[m]) /\ Elected(H, route'[m])
  BY <1>2, <1>3 DEF IngressRecorded, IngressTypeOK
<1>6. QED  BY <1>4, <1>5 DEF IngressRecorded, viewVars

LEMMA ForgetRecorded ==
  ASSUME NEW H, IngressTypeOK, IngressRecorded(H), NEW n, ForgetView(n),
         UNCHANGED <<awaited, route>>
  PROVE  IngressTypeOK' /\ IngressRecorded(H)'
<1>1. CASE n \in Ingress
  <2>1. /\ asking' = [asking EXCEPT ![n] = 1] /\ replies' = [replies EXCEPT ![n] = {}]
        /\ clusterView' = [clusterView EXCEPT ![n] = Nobody]
    BY <1>1 DEF ForgetView
  <2>2. IngressTypeOK'
    BY <2>1 DEF IngressTypeOK
  <2>3. Elected(H, Nobody) /\ 1 \in 1..Len(VoterSeq)
    BY VoterCount DEF Elected
  <2>4. QED  BY <2>1, <2>2, <2>3, NothingHeard DEF IngressRecorded, IngressTypeOK
<1>2. CASE n \notin Ingress
  BY <1>2 DEF ForgetView, viewVars, IngressTypeOK, IngressRecorded
<1>3. QED  BY <1>1, <1>2

LEMMA IngressNextInv ==
  ASSUME DiskMayFail = FALSE, IInv, IngressInv, [IngressNext]_<<vars, ingressVars>>
  PROVE  IngressInv'
<1>1. PICK H \in History : Recorded(H) /\ IngressRecorded(H)
  BY DEF IngressInv
<1>2. PICK H2 \in History : Keeps(H, H2) /\ Recorded(H2)' /\ HeardOnce'
  BY <1>1, IngressStep, NextRecorded DEF IngressInv
<1>3. IngressRecorded(H2) /\ IngressTypeOK
  BY <1>1, <1>2, IngressStays DEF IngressInv
<1>4. CASE UNCHANGED ingressVars
  BY <1>2, <1>3, <1>4 DEF IngressInv, IngressTypeOK, IngressRecorded, ingressVars, viewVars
<1>5. ASSUME NEW n \in Node, ForgetView(n), UNCHANGED <<awaited, route>>
      PROVE  IngressInv'
  BY <1>2, <1>3, <1>5, ForgetRecorded DEF IngressInv
<1>6. ASSUME NEW n \in Ingress, Look(n), UNCHANGED <<vars, awaited, route>>
      PROVE  IngressInv'
  <2>1. IngressTypeOK' /\ IngressRecorded(H)' /\ Recorded(H)' /\ HeardOnce'
    <3>1. IngressTypeOK' /\ IngressRecorded(H)'
      BY <1>1, <1>6, LookRecorded DEF IngressInv, Recorded
    <3>2. Recorded(H)' /\ HeardOnce'
      BY <1>1, <1>6 DEF IngressInv, Recorded, VotesRecorded, RoundRecorded, HeardOnce, vars,
                        voterVars, voteVars, roundVars, leadVars
    <3>3. QED  BY <3>1, <3>2
  <2>2. QED  BY <2>1 DEF IngressInv
<1>7. ASSUME NEW n \in Ingress, Serve(n), UNCHANGED <<vars, viewVars>>
      PROVE  IngressInv'
  BY <1>2, <1>3, <1>7, ServeRecorded DEF IngressInv
<1>8. QED
  BY <1>4, <1>5, <1>6, <1>7 DEF IngressNext

LEMMA IngressInitInv == IngressInit => IngressInv
<1> SUFFICES ASSUME IngressInit  PROVE IngressInv
  OBVIOUS
<1> DEFINE H == [v \in Voter |-> [t \in Nat |-> None]]
<1>1. H \in History
  BY DEF History, Holder
<1>2. Recorded(H) /\ HeardOnce
  BY InitRecorded DEF IngressInit
<1>3. IngressTypeOK
  BY DEF IngressInit, IngressTypeOK
<1>4. 1 \in 1..Len(VoterSeq)
  BY VoterCount
<1>5. IngressRecorded(H)
  BY <1>4, NothingHeard DEF IngressInit, IngressRecorded, Elected
<1>6. QED  BY <1>1, <1>2, <1>3, <1>5 DEF IngressInv

\* A node the ingress sends its callers to, or whose status it passes on under
\* that node's name, won the term it is named with: resolve wants the majority of
\* the last round to agree, and a majority of replies tells of votes that were
\* cast, whatever has changed since.
THEOREM RoutesWereElected ==
  ASSUME DiskMayFail = FALSE
  PROVE  IngressSpec => []RouteWasElected
<1>1. IngressInit => IngressInv
  BY IngressInitInv
<1>2. IInv /\ IngressInv /\ [IngressNext]_<<vars, ingressVars>> => IngressInv'
  BY IngressNextInv
<1>3. IInv /\ IngressInv => RouteWasElected
  <2> SUFFICES ASSUME IInv, NEW H \in History, Recorded(H), IngressRecorded(H),
                      NEW n \in Ingress, route[n] # Nobody
               PROVE  IsQuorum({v \in Voter :
                                  \/ term[v] > route[n].term
                                  \/ term[v] = route[n].term /\ votedFor[v] = route[n].node})
    BY DEF IngressInv, RouteWasElected
  <2> DEFINE c == route[n].node
             t == route[n].term
             T == {v \in Voter : term[v] > t \/ (term[v] = t /\ votedFor[v] = c)}
  <2>1. c \in Candidate /\ t \in Nat /\ WonBy(H, c, t)
    BY DEF IngressRecorded, Elected
  <2>2. ASSUME NEW v \in Voter, H[v][t] = c
        PROVE  v \in T
    <3>1. term[v] \in Nat /\ ~(t > term[v])
      BY <2>1, <2>2, NoneAssumption DEF Recorded, VotesRecorded, IInv, TypeOK, VoterTypeOK
    <3>2. term[v] = t => votedFor[v] = c
      BY <2>2 DEF Recorded, VotesRecorded
    <3>3. QED  BY <2>1, <3>1, <3>2
  <2>3. {v \in Voter : H[v][t] = c} \subseteq T
    BY <2>2
  <2>4. IsQuorum(T)
    BY <2>1, <2>3, MoreIsQuorum DEF WonBy
  <2>5. QED  BY <2>4
<1>4. QED
  BY <1>1, <1>2, <1>3, IngressOnlyReads, Inductive, PTL DEF IngressSpec
=============================================================================
