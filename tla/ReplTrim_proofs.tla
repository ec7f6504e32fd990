--------------------------- MODULE ReplTrim_proofs ---------------------------
(****************************************************************************)
(* What becomes of the copies, for any nodes, references and threads, with  *)
(* restarts, lost and late requests and silent nodes.                       *)
(*                                                                          *)
(* Mode full: what trimming keeps of a content in its first life, when Kubo *)
(* may refuse or be down but is not cut off in the middle of a removal, no  *)
(* recovery meets an authorised trim (with one the promise is broken, see   *)
(* repl_overtrim) and every registration is recorded while the copy it      *)
(* names is still pinned (a copy may be trimmed between the upload, or a    *)
(* registration that is sent again, and its record).  Users may repeat      *)
(* registrations, and upload several files to one node.                     *)
(*                                                                          *)
(* Mode pin-only: repair removes nothing and what it counts is there,       *)
(* without any restriction.                                                 *)
(****************************************************************************)
EXTENDS ReplLifecycle_proofs

\* The settings and faults the theorems of mode full are about.
TrimOnly ==
  Modes = {"full"} /\ KuboFaults \subseteq {"refuses", "down"} /\ Trim \notin Recovered

\* When a registration is recorded, the copy it names is pinned.
CopyIsThere == \A r \in Ref : RegisterInsert(r) => pin[Source[r]]

Late(n) == {m \in late : m.node = n}

IsGoing(n) == \E j \in At(n) : j.state = "authorized"
Going == {n \in Node : IsGoing(n)}

\* At most one job, a trim.
JobsAt(n) ==
  /\ \A j \in At(n) : j.op = "UNPIN" /\ j.reason = Trim /\ j.gen = 1
  /\ \A j, k \in At(n) : j = k

\* A task carries the lease of its job, and nothing said before answers it.
TasksAt(n) ==
  /\ \A t \in agent[n].todo :
       /\ t.op = "UNPIN"
       /\ \A u \in agent[n].todo : t.id = u.id => t = u
       /\ \A m \in Values(agent[n].reports) : m.id # t.id
       /\ \A m \in Late(n) : m.id = t.id => m.lease # t.lease
       /\ \A j \in At(n) :
            t.id = j.id => j.lease = t.lease /\ (Waiting(j) \/ agent[n].grant = t.id)
  /\ agent[n].grant # 0 =>
       /\ \E t \in agent[n].todo : t.id = agent[n].grant
       /\ \E j \in At(n) : j.id = agent[n].grant /\ j.state = "authorized"

\* A late request is about a job that still waits, and a failure that will be
\* believed is one that left the copy.
AnswersAt(n) ==
  /\ \A m \in Late(n) : \A j \in At(n) :
       m.result = "authorize" /\ m.id = j.id => Waiting(j) /\ j.lease = m.lease
  /\ \A m \in Messages(n) : \A j \in At(n) :
       /\ m.result = "failed" /\ m.id = j.id /\ m.lease = j.lease
       /\ j.state = "authorized"
       => pin[n]

\* ConfirmedIsReal, of one node and of replicas in grace, too.
CopyAt(n) ==
  desired[n] /\ rstate[n] \in {"pinned", "grace"} => pin[n] \/ IsGoing(n)

NodeInv(n) == JobsAt(n) /\ TasksAt(n) /\ AnswersAt(n) /\ CopyAt(n)

\* Without the copies that may go at any moment the floor is kept.
Thinned == Going # {} \/ \E r \in Live : ~pin[Source[r]]
Floor == Thinned => Enough(Pins \ Going)

NoPlacement == \A p \in Planner : plan[p].kind # "place"

TrimParts == (\A n \in Node : NodeInv(n)) /\ Floor
TrimInv == LifeInv /\ NoPlacement /\ (gen = 1 => TrimParts)

\* What a step in the first life may rest on.
First == TrimOnly /\ TrimInv /\ gen = 1

LEMMA FirstParts ==
  ASSUME First
  PROVE  /\ TypeInv /\ NoPlacement /\ Floor /\ mode = "full"
         /\ \A n \in Node : JobsAt(n) /\ TasksAt(n) /\ AnswersAt(n) /\ CopyAt(n)
BY DEF First, TrimInv, TrimParts, TrimOnly, LifeInv, TypeInv, CtlType, NodeInv

-----------------------------------------------------------------------------
(* What a step leaves alone.                                               *)

LEMMA EnoughGrows ==
  ASSUME NEW S \in SUBSET Node, NEW T \in SUBSET Node, S \subseteq T, Enough(S)
  PROVE  Enough(T)
<1>1. /\ IsFiniteSet(T) /\ IsFiniteSet(T \cap Committable)
      /\ S \cap Committable \subseteq T \cap Committable
  BY NodeSets
<1>2. /\ Cardinality(S) <= Cardinality(T)
      /\ Cardinality(S \cap Committable) <= Cardinality(T \cap Committable)
  BY <1>1, FS_Subset
<1>3. /\ Cardinality(S) \in Nat /\ Cardinality(T) \in Nat
      /\ Cardinality(S \cap Committable) \in Nat /\ Cardinality(T \cap Committable) \in Nat
  BY NodeSets
<1>4. QED  BY <1>2, <1>3, PolicyAssumption DEF Enough

\* Nothing that concerns n changes, or only for the better.
LEMMA OtherNode ==
  ASSUME NEW n \in Node, NodeInv(n), At(n)' = At(n), agent'[n] = agent[n],
         Late(n)' \subseteq Late(n), pin[n] => pin'[n],
         desired'[n] = desired[n],
         rstate'[n] \in {"pinned", "grace"} => rstate[n] \in {"pinned", "grace"}
  PROVE  NodeInv(n)'
<1>1. JobsAt(n)'
  BY DEF NodeInv, JobsAt
<1>2. TasksAt(n)'
  BY DEF NodeInv, TasksAt, Waiting
<1>3. Messages(n)' \subseteq Messages(n)
  BY DEF Messages, Late
<1>4. AnswersAt(n)'
  BY <1>3 DEF NodeInv, AnswersAt, Waiting
<1>5. CopyAt(n)'
  BY DEF NodeInv, CopyAt, IsGoing
<1>6. QED  BY <1>1, <1>2, <1>4, <1>5 DEF NodeInv

LEMMA FloorKept ==
  ASSUME Floor, Thinned' => Thinned, Pins \ Going \subseteq (Pins \ Going)'
  PROVE  Floor'
<1>1. CASE Thinned'
  <2>1. Enough(Pins \ Going)
    BY <1>1 DEF Floor
  <2>2. Pins \ Going \in SUBSET Node /\ (Pins \ Going)' \in SUBSET Node
    BY DEF Pins
  <2>3. Enough((Pins \ Going)')
    BY <2>1, <2>2, EnoughGrows
  <2>4. QED  BY <2>3 DEF Floor, Enough
<1>2. QED  BY <1>1 DEF Floor

\* The step of one node, seen from the others.
LEMMA OneNode ==
  ASSUME First, NEW n \in Node, NodeInv(n)',
         UNCHANGED <<reg, refs>>,
         \A k \in Node \ {n} :
           /\ At(k)' = At(k) /\ agent'[k] = agent[k] /\ Late(k)' \subseteq Late(k)
           /\ pin'[k] = pin[k] /\ desired'[k] = desired[k] /\ rstate'[k] = rstate[k],
         pin[n] => pin'[n] \/ (IsGoing(n) /\ IsGoing(n)'),
         IsGoing(n)' => IsGoing(n)
  PROVE  TrimParts'
<1>1. ASSUME NEW k \in Node  PROVE NodeInv(k)'
  <2>1. CASE k = n
    BY <2>1
  <2>2. CASE k # n
    <3>1. NodeInv(k)
      BY FirstParts DEF NodeInv
    <3>2. QED  BY <2>2, <3>1, OtherNode
  <2>3. QED  BY <2>1, <2>2
<1>2. \A k \in Node : IsGoing(k)' => IsGoing(k)
  BY DEF IsGoing
<1>4. Thinned' => Thinned
  <2>1. CASE Going' # {}
    BY <1>2, <2>1 DEF Thinned, Going
  <2>2. CASE \E r \in Live' : ~pin'[Source[r]]
    <3>1. PICK r \in Live : ~pin'[Source[r]]
      BY <2>2 DEF Live
    <3>2. Source[r] \in Node
      BY RefsFinite DEF Live
    <3>3. CASE pin[Source[r]]
      <4>1. IsGoing(n)
        BY <3>1, <3>2, <3>3
      <4>2. QED  BY <4>1 DEF Thinned, Going
    <3>4. QED  BY <3>1, <3>3 DEF Thinned
  <2>3. QED  BY <2>1, <2>2 DEF Thinned
<1>5. Pins \ Going \subseteq (Pins \ Going)'
  BY <1>2 DEF Pins, Going
<1>6. Floor'
  BY <1>4, <1>5, FirstParts, FloorKept
<1>7. QED  BY <1>1, <1>6 DEF TrimParts

-----------------------------------------------------------------------------
(* References.                                                             *)

\* A step of a registration or a release that is not the last.
LEMMA ReferencesKeep ==
  ASSUME First, TypeInv', NEW r \in Ref, Users(r) \/ Registering(r), gen' = 1,
         RegisterInsert(r) => pin[Source[r]]
  PROVE  TrimParts'
<1> DEFINE s == Source[r]
<1>1. s \in Node /\ gen \in Nat
  BY RefsFinite, FirstParts DEF TypeInv, DbType
<1>2. ~ReleaseLast(r)
  BY <1>1 DEF ReleaseLast, First
<1>3. ~released
  BY DEF First, TrimInv, LifeInv, OneLife
<1>4. UNCHANGED <<jobs, agent, late>>
  BY <1>2, <1>3 DEF Users, Registering, RegisterCheck, RegisterRejected, RegisterInsert,
         RegisterFence, ReleaseOne, dbVars, nodeVars
<1>5. /\ refs \in [Ref -> {"unknown", "live", "released"}] /\ pin \in [Node -> BOOLEAN]
      /\ reg \in [Ref -> {"idle", "insert", "fence"}]
      /\ desired \in [Node -> BOOLEAN] /\ rstate \in [Node -> ReplicaState]
  BY FirstParts DEF TypeInv, DbType, RefsType, NodeType, CtlType
<1>6. \A k \in Node : /\ At(k)' = At(k) /\ agent'[k] = agent[k] /\ Late(k)' = Late(k)
                      /\ IsGoing(k)' = IsGoing(k)
  BY <1>4 DEF At, Late, IsGoing
<1>7. Going' = Going
  BY <1>6 DEF Going
<1>8. \A k \in Node : NodeInv(k)
  BY FirstParts DEF NodeInv
<1>9. CASE RegisterCheck(r) \/ RegisterRejected(r)
  <2>1. UNCHANGED <<refs, desired, rstate>> /\ Uploaded(r)
    BY <1>9 DEF RegisterCheck, RegisterRejected, dbVars
  <2>2. \A k \in Node : pin[k] => pin'[k]
    BY <1>5, <2>1 DEF Uploaded
  <2>3. \A k \in Node : NodeInv(k)'
    BY <1>6, <1>8, <2>1, <2>2, OtherNode
  <2>5. Floor'
    <3>1. Thinned' => Thinned
      BY <1>7, <2>1, <2>2, RefsFinite DEF Thinned, Live
    <3>2. Pins \ Going \subseteq (Pins \ Going)'
      BY <1>7, <2>2 DEF Pins
    <3>3. QED  BY <3>1, <3>2, FirstParts, FloorKept
  <2>6. QED  BY <2>3, <2>5 DEF TrimParts
<1>10. CASE RegisterInsert(r)
  <2>1. pin[s]
    BY <1>10
  <2>2. /\ UNCHANGED refs \/ refs' = [refs EXCEPT ![r] = "live"]
        /\ desired' = [desired EXCEPT ![s] = TRUE]
        /\ rstate' = [rstate EXCEPT ![s] = "pinned"] /\ UNCHANGED pin
    BY <1>10 DEF RegisterInsert, nodeVars
  <2>4. \A k \in Node \ {s} : NodeInv(k)'
    <3>1. \A k \in Node \ {s} : desired'[k] = desired[k] /\ rstate'[k] = rstate[k]
      BY <1>5, <2>2
    <3> HIDE DEF s
    <3>2. QED  BY <1>6, <1>8, <2>2, <3>1, OtherNode
  <2>5. NodeInv(s)'
    <3>2. JobsAt(s)'
      BY <1>1, <1>6, <1>8 DEF NodeInv, JobsAt
    <3>3. TasksAt(s)'
      BY <1>1, <1>6, <1>8 DEF NodeInv, TasksAt, Waiting
    <3>4. Messages(s)' = Messages(s)
      BY <1>4 DEF Messages
    <3>5. AnswersAt(s)'
      BY <1>1, <1>6, <1>8, <2>2, <3>4 DEF NodeInv, AnswersAt, Waiting
    <3>6. CopyAt(s)'
      BY <2>1, <2>2 DEF CopyAt
    <3>7. QED  BY <3>2, <3>3, <3>5, <3>6 DEF NodeInv
  <2>7. Floor'
    <3>1. Thinned' => Thinned
      BY <1>5, <1>7, <2>1, <2>2 DEF Thinned, Live
    <3>2. Pins \ Going \subseteq (Pins \ Going)'
      BY <1>7, <2>2 DEF Pins
    <3>3. QED  BY <3>1, <3>2, FirstParts, FloorKept
  <2>8. QED  BY <2>4, <2>5, <2>7 DEF TrimParts
<1>11. CASE RegisterFence(r) \/ ReleaseOne(r)
  <2>1. UNCHANGED <<desired, rstate, pin>>
    BY <1>3, <1>11 DEF RegisterFence, ReleaseOne, nodeVars
  <2>2. \/ UNCHANGED refs
        \/ refs[r] = "live" /\ refs' = [refs EXCEPT ![r] = "released"]
    BY <1>11 DEF RegisterFence, ReleaseOne
  <2>3. Live' \subseteq Live
    BY <1>5, <2>2 DEF Live
  <2>4. \A k \in Node : NodeInv(k)'
    BY <1>6, <1>8, <2>1, <2>3, OtherNode
  <2>6. Floor'
    <3>1. Thinned' => Thinned
      BY <1>7, <2>1, <2>3 DEF Thinned
    <3>2. Pins \ Going \subseteq (Pins \ Going)'
      BY <1>7, <2>1 DEF Pins
    <3>3. QED  BY <3>1, <3>2, FirstParts, FloorKept
  <2>7. QED  BY <2>4, <2>6 DEF TrimParts
<1>12. QED  BY <1>2, <1>9, <1>10, <1>11 DEF Users, Registering

-----------------------------------------------------------------------------
(* Reconciliation.                                                         *)

LEMMA PlanKinds ==
  ASSUME TrimOnly, TrimInv, NEW p \in Planner, Planning(p)
  PROVE  NoPlacement'
<1>1. /\ TypeInv /\ mode = "full" /\ plan \in [Planner -> Plan]
      /\ \A q \in Planner : plan[q].kind # "place"
  BY DEF TrimOnly, TrimInv, LifeInv, TypeInv, CtlType, NoPlacement
<1>2. ASSUME NEW pl, pl.kind # "place"  PROVE Rest(pl).kind # "place"
  BY <1>2 DEF Rest, NoPlan
<1>3. \E pl : plan' = [plan EXCEPT ![p] = pl] /\ pl.kind # "place"
  <2>1. CASE ReconcileReleased(p)
    <3> DEFINE left == {n \in Node : rstate[n] \notin {"none", "unpinned"}}
               pl == [NoPlan EXCEPT !.kind = "final", !.cands = left, !.gen = gen]
    <3>1. pl.kind # "place"
      BY DEF NoPlan
    <3>2. plan' = [plan EXCEPT ![p] = pl]
      BY <2>1 DEF ReconcileReleased
    <3> HIDE DEF pl
    <3>3. QED  BY <3>1, <3>2
  <2>2. CASE Reconcile(p)
    <3> DEFINE state == [n \in Node |-> Observed(n)]
    <3>1. plan' = [plan EXCEPT ![p] = Rest(TrimPlan(state))]
      BY <1>1, <2>2 DEF Reconcile
    <3>2. TrimPlan(state).kind = "trim"
      BY DEF TrimPlan, NoPlan
    <3> HIDE DEF state
    <3>3. QED  BY <1>2, <3>1, <3>2
  <2>3. ASSUME NEW n \in Node, PlanTrim(p, n) \/ PlanFinal(p, n)
        PROVE  \E pl : plan' = [plan EXCEPT ![p] = pl] /\ pl.kind # "place"
    <3> DEFINE new == [Drop(p, n) EXCEPT !.remove = @ - 1,
                         !.comm = IF n \in Committable THEN @ - 1 ELSE @]
    <3>1. Drop(p, n).kind # "place" /\ new.kind # "place"
      BY <1>1 DEF Drop, Plan
    <3>2. Advance(p, Drop(p, n)) \/ Advance(p, new)
      BY <2>3 DEF PlanTrim, PlanFinal
    <3> HIDE DEF new
    <3>3. QED  BY <1>2, <3>1, <3>2 DEF Advance
  <2>4. ASSUME NEW n \in Node  PROVE ~PlanPin(p, n) /\ ~PlanVerify(p, n)
    BY <1>1 DEF PlanPin, PlanVerify
  <2>5. QED  BY <2>1, <2>2, <2>3, <2>4 DEF Planning
<1>4. QED  BY <1>1, <1>3 DEF NoPlacement

LEMMA PlansKeep ==
  ASSUME First, NEW p \in Planner, Planning(p)
  PROVE  TrimParts'
<1>1. /\ mode = "full" /\ refcount \in Nat
      /\ \A n \in Node : ~PlanPin(p, n) /\ ~PlanVerify(p, n) /\ ~PlanFinal(p, n)
      /\ ~ReconcileReleased(p)
  BY FirstParts DEF PlanPin, PlanVerify, PlanFinal, ReconcileReleased, NoPlacement, First,
                    TrimInv, LifeInv, OneLife, TypeInv, DbType
<1>2. CASE Reconcile(p)
  <2>1. /\ UNCHANGED <<refs, desired, jobs, reg, pin, agent, late>>
        /\ rstate' = [n \in Node |-> Observed(n)]
    BY <1>2 DEF Reconcile, nodeVars
  <2>2. \A n \in Node : rstate'[n] \in {"pinned", "grace"} => rstate[n] \in {"pinned", "grace"}
    BY <2>1 DEF Observed
  <2>3. \A n \in Node : NodeInv(n)'
    BY <2>1, <2>2, OtherNode DEF First, TrimInv, TrimParts, At, Late
  <2>4. QED
    BY <2>1, <2>3, FirstParts
       DEF TrimParts, Floor, Thinned, Going, IsGoing, At, Live, Pins, Enough
<1>3. ASSUME NEW n \in Node, PlanTrim(p, n)  PROVE TrimParts'
  <2>1. UNCHANGED <<gen, refs, desired, rstate, reg, pin, agent, late>>
    BY <1>3 DEF PlanTrim, nodeVars
  <2>2. CASE UNCHANGED jobs
    <3>1. \A k \in Node : NodeInv(k)'
      BY <2>1, <2>2, OtherNode DEF First, TrimInv, TrimParts, At, Late
    <3>2. QED
      BY <2>1, <2>2, <3>1, FirstParts
         DEF TrimParts, Floor, Thinned, Going, IsGoing, At, Live, Pins, Enough
  <2>3. CASE MayPlanTrim(n, plan[p].gen) /\ Create(n, "UNPIN", gen, Trim)
    <3>1. desired[n] /\ rstate[n] = "pinned" /\ At(n) = {}
      <4>1. n \in Confirmed /\ ~UnpinActive(n, gen)
        BY <2>3 DEF MayPlanTrim, TrimCapacity
      <4>2. QED  BY <4>1, FirstParts DEF Confirmed, UnpinActive, JobsAt, First
    <3>2. PICK i \in JobId : /\ i \notin UsedIds(n)
                             /\ jobs' = jobs \cup {NewJob(n, "UNPIN", gen, Trim, i)}
      BY <2>3 DEF Create, Least
    <3> DEFINE new == NewJob(n, "UNPIN", gen, Trim, i)
    <3>3. /\ new.node = n /\ new.id = i /\ new.op = "UNPIN" /\ new.reason = Trim
          /\ new.gen = 1 /\ new.state = "waiting"
      BY DEF NewJob, First
    <3>4. jobs' = jobs \cup {new}
      BY <3>2
    <3> HIDE DEF new
    <3>5. At(n)' = {new} /\ \A k \in Node \ {n} : At(k)' = At(k)
      BY <3>1, <3>3, <3>4 DEF At
    <3>6. /\ \A t \in agent[n].todo : t.id # i
          /\ \A m \in Messages(n) : m.id # i
      BY <3>2 DEF UsedIds, Messages, Values
    <3>7. pin[n] /\ ~IsGoing(n) /\ ~IsGoing(n)'
      BY <3>1, <3>3, <3>5, FirstParts DEF CopyAt, IsGoing
    <3>8. JobsAt(n)'
      BY <2>1, <3>1, <3>3, <3>5, FirstParts DEF JobsAt
    <3>9. TasksAt(n)'
      <4>1. agent[n].grant = 0
        BY <3>1, FirstParts DEF TasksAt
      <4>2. Late(n)' = Late(n)
        BY <2>1 DEF Late
      <4>3. QED  BY <2>1, <3>3, <3>5, <3>6, <4>1, <4>2, FirstParts DEF TasksAt
    <3>10. AnswersAt(n)'
      <4>1. Messages(n)' = Messages(n) /\ Late(n)' \subseteq Messages(n)
        BY <2>1 DEF Messages, Late
      <4>2. QED  BY <3>3, <3>5, <3>6, <4>1 DEF AnswersAt
    <3>11. CopyAt(n)'
      BY <2>1, <3>7 DEF CopyAt
    <3>12. NodeInv(n)'
      BY <3>8, <3>9, <3>10, <3>11 DEF NodeInv
    <3>13. QED  BY <2>1, <3>5, <3>7, <3>12, OneNode DEF Late
  <2>4. QED  BY <1>3, <2>2, <2>3 DEF PlanTrim
<1>4. QED  BY <1>1, <1>2, <1>3 DEF Planning

\* The start of a controller finds nothing to recover.
LEMMA RestartKeeps ==
  ASSUME First, Recover \/ RestartController
  PROVE  TrimParts'
<1>1. Authorized = {} /\ RestartController
  <2>1. \A j \in Authorized : j.node \in Node /\ j \in At(j.node)
    BY FirstParts DEF Authorized, At, TypeInv, Job
  <2>2. \A j \in Authorized : j.reason = Trim
    BY <2>1, FirstParts DEF JobsAt
  <2>5. RecoverJobs
    BY DEF Recover, RestartController
  <2>6. \A j \in Authorized : j.reason \in Recovered
    BY <2>5 DEF RecoverJobs
  <2>3. Authorized = {}
    BY <2>2, <2>6 DEF First, TrimOnly
  <2>4. QED  BY <2>3 DEF Recover
<1>2. Questions = {}
  BY <1>1 DEF Questions
<1>3. UNCHANGED jobs
  BY <1>1, <1>2 DEF RestartController, RecoverJobs
<1>4. /\ UNCHANGED <<refs, desired, rstate, pin, agent, late>>
      /\ reg' = [r \in Ref |-> "idle"]
  BY <1>1 DEF RestartController, nodeVars
<1>5. \A n \in Node : NodeInv(n)'
  BY <1>3, <1>4, OtherNode DEF First, TrimInv, TrimParts, At, Late
<1>6. QED
  BY <1>3, <1>4, <1>5, FirstParts
     DEF TrimParts, Floor, Thinned, Going, IsGoing, At, Live, Pins, Enough

-----------------------------------------------------------------------------
(* The agents: their polls and their work.                                 *)

LEMMA AgentFacts ==
  ASSUME First, NEW n \in Node
  PROVE  /\ agent \in [Node -> Agent] /\ pin \in [Node -> BOOLEAN]
         /\ agent[n].todo \subseteq Task /\ agent[n].reports \in Seq(Answer)
         /\ At(n) \subseteq Job /\ 0 \notin JobId /\ 0 \notin Token
         /\ \A t \in agent[n].todo : t.id \in JobId /\ t.lease \in Token
         /\ \A j \in At(n) : j \in jobs /\ j.node = n /\ j.id \in JobId
                             /\ j.state \in {"waiting", "authorized"}
<1>1. TypeInv
  BY FirstParts
<1>2. /\ agent[n] \in Agent /\ agent[n].reports \in Seq(Answer)
      /\ agent[n].todo \subseteq Task /\ agent \in [Node -> Agent] /\ pin \in [Node -> BOOLEAN]
  BY <1>1, AgentParts DEF TypeInv, NodeType
<1>3. At(n) \subseteq Job
  BY <1>1 DEF TypeInv, At
<1>4. 0 \notin JobId /\ 0 \notin Token
  BY NumbersAssumption
<1>5. QED  BY <1>2, <1>3, <1>4 DEF Task, Job, At

LEMMA PollKeeps ==
  ASSUME First, NEW n \in Node, Poll(n) \/ PollUnanswered(n)
  PROVE  TrimParts'
<1>1. /\ UNCHANGED <<refs, desired, rstate, reg, pin, late>>
      /\ agent[n].todo = {} /\ agent[n].reports = <<>>
  BY DEF Poll, PollUnanswered, Idle, ctlVars
<1>2. PICK due \in SUBSET Deliverable(n), t \in Token :
        /\ Lease(n, due, t)
        /\ \/ UNCHANGED agent
           \/ agent' = [agent EXCEPT ![n].todo =
                {[id |-> j.id, lease |-> t, op |-> j.op] : j \in {k \in due : k.op \in Allowed}}]
  BY DEF Poll, PollUnanswered
<1> DEFINE new == {[id |-> j.id, lease |-> t, op |-> j.op] : j \in {k \in due : k.op \in Allowed}}
           Leased(j) == [j EXCEPT !.lease = t]
<1>3. /\ JobsAt(n) /\ TasksAt(n) /\ AnswersAt(n) /\ CopyAt(n)
      /\ agent[n].grant = 0 /\ TypeInv
  BY <1>1, FirstParts DEF TasksAt
<1>4. /\ due \subseteq At(n)
      /\ \A j \in due : /\ j.state = "waiting"
                        /\ \A m \in Late(n) : m.id = j.id => m.lease # j.lease
      /\ \A m \in Late(n) : m.lease # t
  BY <1>2 DEF Deliverable, Waiting, Late, Lease, Least
<1>5. \A j \in due : /\ Leased(j).node = n /\ Leased(j).id = j.id /\ Leased(j).op = j.op
                     /\ Leased(j).gen = j.gen /\ Leased(j).reason = j.reason
                     /\ Leased(j).state = "waiting" /\ Leased(j).lease = t
  <2>1. \A j \in due : j \in Job /\ j.state = "waiting" /\ j.node = n
    BY <1>4, AgentFacts
  <2>2. QED  BY <2>1 DEF Job
<1>6. jobs' = (jobs \ due) \cup {Leased(j) : j \in due}
  BY <1>2 DEF Lease
<1> HIDE DEF Leased
<1>7. At(n)' = (At(n) \ due) \cup {Leased(j) : j \in due}
      /\ \A k \in Node \ {n} : At(k)' = At(k)
  BY <1>4, <1>5, <1>6 DEF At
<1>8. IsGoing(n)' <=> IsGoing(n)
  BY <1>4, <1>5, <1>7 DEF IsGoing
<1>9. JobsAt(n)'
  BY <1>1, <1>3, <1>4, <1>5, <1>7 DEF JobsAt
<1>10. /\ agent'[n].grant = 0 /\ agent'[n].reports = <<>>
       /\ \A k \in Node \ {n} : agent'[k] = agent[k]
       /\ agent'[n].todo = {} \/ agent'[n].todo = new
  <2>1. agent \in [Node -> Agent] /\ agent[n] \in Agent
    BY AgentFacts
  <2> HIDE DEF new
  <2>2. UNCHANGED agent \/ agent' = [agent EXCEPT ![n].todo = new]
    BY <1>2 DEF new
  <2>3. QED  BY <1>1, <1>3, <2>1, <2>2 DEF Agent
<1>11. TasksAt(n)'
  <2>1. ASSUME NEW u \in new
        PROVE  \E j \in due : u.id = j.id /\ u.lease = t /\ u.op = j.op
    OBVIOUS
  <2>2. \A u, v \in new : u.id = v.id => u = v
    <3>1. \A i, j \in due : i = j
      BY <1>3, <1>4 DEF JobsAt
    <3>2. QED  BY <3>1
  <2> HIDE DEF new
  <2>3. \A u \in new : u.op = "UNPIN" /\ u.lease = t
    BY <1>3, <1>4, <2>1 DEF JobsAt
  <2>4. \A u \in new, k \in At(n)' : u.id = k.id => k.lease = t /\ k.state = "waiting"
    BY <1>3, <1>4, <1>5, <1>7, <2>1 DEF JobsAt
  <2>5. Values(agent'[n].reports) = {}
    BY <1>10 DEF Values
  <2>6. Late(n)' = Late(n)
    BY <1>1 DEF Late
  <2>7. QED  BY <1>4, <1>10, <2>2, <2>3, <2>4, <2>5, <2>6 DEF TasksAt, Waiting
<1>12. AnswersAt(n)'
  <2>1. Late(n)' = Late(n) /\ Messages(n)' = Messages(n)
    BY <1>1, <1>10 DEF Late, Messages
  <2>2. \A m \in Late(n), k \in At(n)' :
          m.result = "authorize" /\ m.id = k.id => k.state = "waiting" /\ k.lease = m.lease
    BY <1>3, <1>4, <1>5, <1>7 DEF AnswersAt, Waiting
  <2>3. \A k \in At(n)' : k.state = "authorized" => k \in At(n)
    BY <1>5, <1>7
  <2>4. QED  BY <1>1, <1>3, <2>1, <2>2, <2>3 DEF AnswersAt, Waiting
<1>13. CopyAt(n)'
  BY <1>1, <1>3, <1>8 DEF CopyAt
<1>14. NodeInv(n)'
  BY <1>9, <1>11, <1>12, <1>13 DEF NodeInv
<1>15. \A k \in Node : Late(k)' = Late(k)
  BY <1>1 DEF Late
<1>16. QED  BY <1>1, <1>7, <1>8, <1>10, <1>14, <1>15, OneNode

\* What is run has been permitted, and a failure leaves the copy.
LEMMA ExecuteKeeps ==
  ASSUME First, NEW n \in Node, Execute(n) \/ ExecuteBadly(n)
  PROVE  TrimParts'
<1>1. UNCHANGED <<refs, desired, rstate, jobs, reg, late>>
  BY DEF Execute, ExecuteBadly, dbVars, ctlVars
<1>2. JobsAt(n) /\ TasksAt(n) /\ AnswersAt(n) /\ CopyAt(n) /\ TypeInv
  BY FirstParts
<1>3. PICK t \in agent[n].todo :
        /\ t.op = "UNPIN" /\ agent[n].grant = t.id
        /\ \/ Ends(n, t, Outcome(t.op, pin[n]))
           \/ \E fault \in KuboFaults : Ends(n, t, FaultyOutcome(t.op, pin[n], fault))
  BY <1>2 DEF Execute, ExecuteBadly, Runnable, TasksAt
<1>4. \E result \in {"unpinned", "failed"}, pinned \in BOOLEAN :
        /\ Done(n, t, result) /\ pin' = [pin EXCEPT ![n] = pinned]
        /\ result = "failed" => pinned
  <2>1. CASE Ends(n, t, Outcome(t.op, pin[n]))
    <3>1. Outcome(t.op, pin[n])[1] = "unpinned" /\ Outcome(t.op, pin[n])[2] = FALSE
      BY <1>3 DEF Outcome
    <3>2. QED  BY <2>1, <3>1 DEF Ends
  <2>2. ASSUME NEW fault \in KuboFaults, Ends(n, t, FaultyOutcome(t.op, pin[n], fault))
        PROVE  \E result \in {"unpinned", "failed"}, pinned \in BOOLEAN :
                 /\ Done(n, t, result) /\ pin' = [pin EXCEPT ![n] = pinned]
                 /\ result = "failed" => pinned
    <3> DEFINE out == FaultyOutcome(t.op, pin[n], fault)
    <3>1. fault \in {"refuses", "down"} /\ pin[n] \in BOOLEAN
      BY AgentFacts DEF First, TrimOnly
    <3>2. /\ out[1] \in {"unpinned", "failed"} /\ out[2] \in BOOLEAN
          /\ out[1] = "failed" => out[2]
      BY <1>3, <3>1 DEF FaultyOutcome
    <3>3. QED  BY <2>2, <3>2 DEF Ends
  <2>3. QED  BY <1>3, <2>1, <2>2
<1>5. PICK result \in {"unpinned", "failed"}, pinned \in BOOLEAN :
        /\ Done(n, t, result) /\ pin' = [pin EXCEPT ![n] = pinned]
        /\ result = "failed" => pinned
  BY <1>4
<1> DEFINE answer == [id |-> t.id, lease |-> t.lease, result |-> result]
<1>6. /\ \A k \in Node \ {n} : agent'[k] = agent[k]
      /\ agent'[n].todo = agent[n].todo \ {t} /\ agent'[n].grant = 0
      /\ Values(agent'[n].reports) = Values(agent[n].reports) \cup {answer}
  BY <1>2, <1>5, DoneEffect DEF Result
<1>7. /\ pin'[n] = pinned /\ \A k \in Node \ {n} : pin'[k] = pin[k]
  BY <1>5, AgentFacts
<1>8. t.id # 0
  BY AgentFacts
<1>9. PICK j \in At(n) : At(n) = {j} /\ j.id = t.id /\ j.state = "authorized" /\ j.lease = t.lease
  BY <1>2, <1>3, <1>8 DEF TasksAt, JobsAt
<1>10. /\ \A k \in Node : At(k)' = At(k) /\ Late(k)' = Late(k)
       /\ IsGoing(n) /\ IsGoing(n)'
  BY <1>1, <1>9 DEF At, Late, IsGoing
<1>11. answer.id = t.id /\ answer.lease = t.lease /\ answer.result = result
  OBVIOUS
<1> HIDE DEF answer
<1>12. JobsAt(n)'
  BY <1>1, <1>2, <1>10 DEF JobsAt
<1>13. TasksAt(n)'
  BY <1>2, <1>6, <1>9, <1>10, <1>11 DEF TasksAt, Waiting
<1>14. AnswersAt(n)'
  <2>1. \A m \in Late(n) : m.result = "authorize" /\ m.id = j.id => Waiting(j) /\ j.lease = m.lease
    BY <1>2, <1>9 DEF AnswersAt
  <2>2. \A m \in Messages(n) : ~(m.id = t.id /\ m.lease = t.lease)
    BY <1>2 DEF TasksAt, Messages, Late
  <2>3. Messages(n)' = Messages(n) \cup {answer}
    BY <1>1, <1>6 DEF Messages
  <2>4. QED  BY <1>5, <1>7, <1>9, <1>10, <1>11, <2>1, <2>2, <2>3 DEF AnswersAt, Waiting
<1>15. CopyAt(n)'
  BY <1>10 DEF CopyAt
<1>16. NodeInv(n)'
  BY <1>12, <1>13, <1>14, <1>15 DEF NodeInv
<1>17. QED  BY <1>1, <1>6, <1>7, <1>10, <1>16, OneNode

-----------------------------------------------------------------------------
(* Permissions.                                                            *)

\* On a node there is one job, so permitted trims are counted by their nodes.
LEMMA GoingCounted ==
  ASSUME First, NEW S \in SUBSET Node
  PROVE  LET T == {j \in Authorized : j.node \in S}
         IN  IsFiniteSet(T) /\ Cardinality(T) = Cardinality(Going \cap S)
<1> DEFINE G == Going \cap S
           T == {j \in Authorized : j.node \in S}
           TheJob(k) == CHOOSE j \in Authorized : j.node = k
           f == [k \in G |-> TheJob(k)]
<1>1. \A j \in Authorized : j.node \in Node /\ j \in At(j.node) /\ j.state = "authorized"
  BY FirstParts DEF Authorized, At, TypeInv, Job
<1>2. \A i, j \in Authorized : i.node = j.node => i = j
  BY <1>1, FirstParts DEF JobsAt, At
<1>3. \A k \in G : TheJob(k) \in Authorized /\ TheJob(k).node = k
  BY DEF Going, IsGoing, Authorized, At
<1>4. \A j \in T : j.node \in G /\ TheJob(j.node) = j
  <2>1. \A j \in T : j.node \in G
    BY <1>1 DEF Going, IsGoing
  <2>2. QED  BY <1>2, <1>3, <2>1
<1>5. IsFiniteSet(G)
  BY NodeSets DEF Going
<1> HIDE DEF TheJob
<1>6. f \in [G -> T]
  BY <1>3
<1>7. \A j \in T : \E k \in G : f[k] = j
  BY <1>4
<1>8. \A a, b \in G : f[a] = f[b] => a = b
  BY <1>3
<1> HIDE DEF f, T, G
<1>9. f \in Surjection(G, T) /\ f \in Injection(G, T)
  BY <1>6, <1>7, <1>8 DEF Surjection, Injection, IsInjective
<1>10. IsFiniteSet(T) /\ Cardinality(T) = Cardinality(G)
  BY <1>5, <1>9, FS_Surjection
<1>11. QED  BY <1>10 DEF T, G

\* The copies that are left are enough when one more may go.
LEMMA GrantFloor ==
  ASSUME First, NEW n \in Node, ~IsGoing(n),
         TrimCapacity(n, gen, OtherTrims(n))
  PROVE  Enough(Pins \ (Going \cup {n}))
<1> DEFINE G == Going \cup {n}
           C == Confirmed \ G
           O == OtherTrims(n)
<1>1. /\ n \in Confirmed /\ n \notin Going /\ Confirmed \in SUBSET Node
      /\ Going \in SUBSET Node /\ Committable \in SUBSET Node
  BY NodesFinite DEF TrimCapacity, Going, Confirmed
<1>2. O = Authorized
  <2>1. \A j \in Authorized : j.node \in Node /\ j \in At(j.node) /\ j \in jobs
                              /\ j.state = "authorized"
    BY FirstParts DEF Authorized, At, TypeInv, Job
  <2>2. \A j \in Authorized : j.op = "UNPIN" /\ j.reason = Trim /\ j.node # n
    BY <2>1, FirstParts DEF JobsAt, IsGoing
  <2>3. QED  BY <2>1, <2>2 DEF OtherTrims, Active
<1>3. /\ Cardinality(O) = Cardinality(Going)
      /\ Cardinality({j \in O : j.node \in Committable}) = Cardinality(Going \cap Committable)
  <2>1. {j \in Authorized : j.node \in Node} = Authorized /\ Going \cap Node = Going
    BY <1>1, FirstParts DEF Authorized, TypeInv, Job
  <2>2. Cardinality({j \in Authorized : j.node \in Node}) = Cardinality(Going \cap Node)
    BY GoingCounted
  <2>3. Cardinality({j \in Authorized : j.node \in Committable})
          = Cardinality(Going \cap Committable)
    BY <1>1, GoingCounted
  <2>4. QED  BY <1>2, <2>1, <2>2, <2>3
<1>4. /\ Cardinality(Confirmed) >= N + 1 + Cardinality(Going)
      /\ Cardinality(Confirmed \cap Committable)
           >= M + Cardinality({n} \cap Committable) + Cardinality(Going \cap Committable)
  BY <1>3 DEF TrimCapacity
<1>5. /\ Cardinality(G) = Cardinality(Going) + 1
      /\ Cardinality(G \cap Committable)
           = Cardinality({n} \cap Committable) + Cardinality(Going \cap Committable)
  <2>1. IsFiniteSet(Going) /\ IsFiniteSet(Going \cap Committable)
    BY <1>1, NodeSets
  <2>2. Cardinality(G) = Cardinality(Going) + 1
    BY <1>1, <2>1, FS_AddElement
  <2>3. CASE n \in Committable
    <3>1. G \cap Committable = (Going \cap Committable) \cup {n} /\ {n} \cap Committable = {n}
      BY <2>3
    <3>2. Cardinality((Going \cap Committable) \cup {n}) = Cardinality(Going \cap Committable) + 1
      BY <1>1, <2>1, FS_AddElement
    <3>3. Cardinality({n}) = 1
      BY FS_Singleton
    <3>4. Cardinality(Going \cap Committable) \in Nat
      BY <2>1, FS_CardinalityType
    <3>5. Cardinality(G \cap Committable) = Cardinality(Going \cap Committable) + 1
      BY <3>1, <3>2, Zenon
    <3>6. Cardinality({n} \cap Committable) = 1
      BY <3>1, <3>3, Zenon
    <3> DEFINE a == Cardinality(G \cap Committable)
               b == Cardinality(Going \cap Committable)
               c == Cardinality({n} \cap Committable)
    <3> HIDE DEF a, b, c
    <3>7. a = b + 1 /\ c = 1 /\ b \in Nat
      BY <3>4, <3>5, <3>6 DEF a, b, c
    <3>8. a = c + b
      BY <3>7
    <3>9. QED  BY <2>2, <3>8, Zenon DEF a, b, c
  <2>4. CASE n \notin Committable
    <3>1. G \cap Committable = Going \cap Committable /\ {n} \cap Committable = {}
      BY <2>4
    <3>2. Cardinality(Going \cap Committable) \in Nat /\ Cardinality({}) = 0
      BY <2>1, FS_CardinalityType, FS_EmptySet
    <3> DEFINE a == Cardinality(G \cap Committable)
               b == Cardinality(Going \cap Committable)
               c == Cardinality({n} \cap Committable)
    <3>3. a = b /\ c = 0 /\ b \in Nat
      BY <3>1, <3>2, Zenon
    <3> HIDE DEF a, b, c
    <3>4. a = c + b
      BY <3>3
    <3>5. QED  BY <2>2, <3>4, Zenon DEF a, b, c
  <2>5. QED  BY <2>3, <2>4
<1> HIDE DEF O
<1>6. /\ Cardinality(C) >= N /\ Cardinality(C \cap Committable) >= M
  <2>1. ASSUME NEW S \in SUBSET Node, NEW T \in SUBSET Node
        PROVE  /\ Cardinality(S \ T) >= Cardinality(S) - Cardinality(T)
               /\ Cardinality(S) \in Nat /\ Cardinality(T) \in Nat /\ Cardinality(S \ T) \in Nat
    <3>1. IsFiniteSet(S) /\ IsFiniteSet(T) /\ IsFiniteSet(S \ T)
      BY NodeSets
    <3>2. Cardinality(S \ T) = Cardinality(S) - Cardinality(S \cap T)
      BY <3>1, FS_Difference
    <3>3. Cardinality(S \cap T) <= Cardinality(T)
      BY <3>1, FS_Subset
    <3>4. /\ Cardinality(S) \in Nat /\ Cardinality(T) \in Nat /\ Cardinality(S \ T) \in Nat
          /\ Cardinality(S \cap T) \in Nat
      BY NodeSets
    <3>5. QED  BY <3>2, <3>3, <3>4
  <2>2. G \in SUBSET Node /\ G \cap Committable \in SUBSET Node
        /\ Confirmed \cap Committable \in SUBSET Node /\ {n} \cap Committable \in SUBSET Node
        /\ Going \cap Committable \in SUBSET Node
    BY <1>1
  <2>3. C \cap Committable = (Confirmed \cap Committable) \ (G \cap Committable)
    OBVIOUS
  <2>4. /\ Cardinality(C) >= Cardinality(Confirmed) - Cardinality(G)
        /\ Cardinality(Confirmed) \in Nat /\ Cardinality(G) \in Nat /\ Cardinality(C) \in Nat
    BY <1>1, <2>1, <2>2
  <2>5. /\ Cardinality(C \cap Committable)
             >= Cardinality(Confirmed \cap Committable) - Cardinality(G \cap Committable)
        /\ Cardinality(Confirmed \cap Committable) \in Nat
        /\ Cardinality(G \cap Committable) \in Nat
        /\ Cardinality(C \cap Committable) \in Nat
    BY <2>1, <2>2, <2>3
  <2>6. Cardinality(Going) \in Nat /\ Cardinality(Going \cap Committable) \in Nat
        /\ Cardinality({n} \cap Committable) \in Nat
    BY <1>1, <2>2, NodeSets
  <2> HIDE DEF G, C
  <2>7. QED  BY <1>4, <1>5, <2>4, <2>5, <2>6, PolicyAssumption
<1>7. C \subseteq Pins \ G
  BY <1>1, FirstParts DEF Confirmed, CopyAt, Pins, Going
<1>8. C \in SUBSET Node /\ Pins \ G \in SUBSET Node
  BY <1>1 DEF Pins
<1>9. Enough(C)
  BY <1>6 DEF Enough
<1>10. Enough(Pins \ G)
  BY <1>7, <1>8, <1>9, EnoughGrows
<1>11. QED  BY <1>10

\* A permission is given for a copy that is there, and to one more node.
LEMMA GrantNode ==
  ASSUME First, NEW n \in Node, NEW id, NEW lease, Granted(n, id, lease),
         UNCHANGED <<refcount, gen, refs, desired, rstate, reg, pin>>
  PROVE  /\ \E j, k : /\ At(n) = {j} /\ j.id = id /\ j.lease = lease /\ j.state = "waiting"
                      /\ At(n)' = {k} /\ k.id = id /\ k.lease = lease /\ k.state = "authorized"
         /\ \A m \in Node \ {n} : At(m)' = At(m)
         /\ pin[n] /\ JobsAt(n)' /\ CopyAt(n)' /\ Floor'
<1> DEFINE Auth(j) == [j EXCEPT !.state = "authorized"]
<1>1. PICK j \in Named(n, id) : MayUnpin(j, lease) /\ jobs' = (jobs \ {j}) \cup {Auth(j)}
  BY GrantEffect, FirstParts
<1>2. j \in At(n) /\ At(n) = {j} /\ j.id = id /\ j.op = "UNPIN" /\ j \in Job /\ j.node = n
      /\ j.reason = Trim /\ j.gen = 1
  <2>1. j \in At(n) /\ j.id = id /\ j.op = "UNPIN" /\ JobsAt(n)
    BY FirstParts DEF Named
  <2>2. j \in Job /\ j.node = n
    BY <2>1, AgentFacts DEF At
  <2>3. QED  BY <2>1, <2>2 DEF JobsAt
<1>3. j.lease = lease /\ j.state = "waiting" /\ TrimCapacity(n, gen, OtherTrims(n))
  BY <1>1, <1>2 DEF MayUnpin, Waiting, First
<1>4. /\ Auth(j).node = n /\ Auth(j).id = id /\ Auth(j).op = "UNPIN" /\ Auth(j).gen = 1
      /\ Auth(j).reason = Trim /\ Auth(j).state = "authorized" /\ Auth(j).lease = lease
  BY <1>2, <1>3 DEF Job
<1> HIDE DEF Auth
<1>5. At(n)' = {Auth(j)} /\ \A m \in Node \ {n} : At(m)' = At(m)
  BY <1>1, <1>2, <1>4 DEF At
<1>6. ~IsGoing(n) /\ IsGoing(n)' /\ \A m \in Node \ {n} : IsGoing(m)' = IsGoing(m)
  BY <1>2, <1>3, <1>4, <1>5 DEF IsGoing
<1>7. pin[n]
  BY <1>3, <1>6, FirstParts DEF TrimCapacity, Confirmed, CopyAt
<1>8. JobsAt(n)'
  BY <1>2, <1>4, <1>5, FirstParts DEF JobsAt
<1>9. CopyAt(n)'
  BY <1>6, FirstParts DEF CopyAt
<1>10. Floor'
  <2>1. Enough(Pins \ (Going \cup {n}))
    BY <1>3, <1>6, GrantFloor
  <2>2. Going' = Going \cup {n} /\ Pins' = Pins
    BY <1>6 DEF Going, Pins
  <2>3. QED  BY <2>1, <2>2 DEF Floor, Enough
<1>11. QED  BY <1>2, <1>3, <1>4, <1>5, <1>7, <1>8, <1>9, <1>10

\* The rest of a node's step that ends with a permission.
LEMMA GrantParts ==
  ASSUME First, NEW n \in Node, NEW id, NEW lease, Granted(n, id, lease),
         UNCHANGED <<refcount, gen, refs, desired, rstate, reg, pin>>,
         \A k \in Node \ {n} : agent'[k] = agent[k] /\ Late(k)' \subseteq Late(k),
         TasksAt(n)', AnswersAt(n)'
  PROVE  TrimParts'
<1>1. /\ \A k \in Node \ {n} : At(k)' = At(k)
      /\ JobsAt(n)' /\ CopyAt(n)' /\ Floor'
  BY GrantNode
<1>2. ASSUME NEW k \in Node  PROVE NodeInv(k)'
  <2>1. CASE k = n
    BY <1>1, <2>1 DEF NodeInv
  <2>2. CASE k # n
    <3>1. NodeInv(k)
      BY FirstParts DEF NodeInv
    <3>2. QED  BY <1>1, <2>2, <3>1, OtherNode
  <2>3. QED  BY <2>1, <2>2
<1>3. QED  BY <1>1, <1>2 DEF TrimParts

\* A refusal closes jobs that wait and no other.
LEMMA DenyNode ==
  ASSUME First, NEW n \in Node, NEW id, NEW lease, Denied(n, id, lease),
         \A j \in At(n) : j.id = id => Waiting(j)
  PROVE  /\ At(n)' \subseteq At(n) /\ \A k \in Node \ {n} : At(k)' = At(k)
         /\ \A j \in At(n) : j.state = "authorized" => j \in At(n)'
<1>1. jobs' = jobs \ Named(n, id)
  BY FirstParts DEF Denied
<1>2. Named(n, id) \subseteq At(n) /\ \A j \in Named(n, id) : j.state = "waiting"
  BY DEF Named, Waiting
<1>3. QED  BY <1>1, <1>2 DEF At

LEMMA AuthorizeKeeps ==
  ASSUME First, NEW n \in Node,
         \/ AuthorizeGranted(n) \/ AuthorizeUnanswered(n)
         \/ AuthorizeDenied(n) \/ AuthorizeDelayed(n)
  PROVE  TrimParts'
<1>1. UNCHANGED <<refcount, gen, refs, desired, rstate, reg, pin>>
  BY DEF AuthorizeGranted, AuthorizeUnanswered, AuthorizeDenied, AuthorizeDelayed, dbVars,
         ctlVars
<1>2. JobsAt(n) /\ TasksAt(n) /\ AnswersAt(n) /\ CopyAt(n) /\ TypeInv
  BY FirstParts
<1>3. PICK t \in agent[n].todo :
        /\ agent[n].grant = 0
        /\ \/ /\ Granted(n, t.id, t.lease) /\ UNCHANGED late
              /\ agent' = [agent EXCEPT ![n].grant = t.id]
           \/ Granted(n, t.id, t.lease) /\ UNCHANGED late /\ Done(n, t, "failed")
           \/ Denied(n, t.id, t.lease) /\ UNCHANGED late /\ Done(n, t, "failed")
           \/ /\ UNCHANGED jobs /\ Done(n, t, "failed")
              /\ late' = late \cup {[node |-> n, id |-> t.id, lease |-> t.lease,
                                      result |-> "authorize"]}
  BY DEF AuthorizeGranted, AuthorizeUnanswered, AuthorizeDenied, AuthorizeDelayed, Asking,
         dbVars
<1> DEFINE answer == [id |-> t.id, lease |-> t.lease, result |-> "failed"]
           request == [node |-> n, id |-> t.id, lease |-> t.lease, result |-> "authorize"]
<1>4. /\ answer.id = t.id /\ answer.lease = t.lease /\ answer.result = "failed"
      /\ request.node = n /\ request.id = t.id /\ request.lease = t.lease
      /\ request.result = "authorize"
  OBVIOUS
<1> HIDE DEF answer, request
<1>5. t.id # 0 /\ t.id \in JobId
  BY AgentFacts
<1>6. \A j \in At(n) : j.id = t.id => j.lease = t.lease /\ j.state = "waiting"
  BY <1>2, <1>3, <1>5 DEF TasksAt, Waiting
<1>7. \A m \in Messages(n) : ~(m.id = t.id /\ m.lease = t.lease)
  BY <1>2 DEF TasksAt, Messages, Late
<1>8. \A u \in agent[n].todo : u.id = t.id => u = t
  BY <1>2 DEF TasksAt
<1>9. Done(n, t, "failed") =>
        /\ \A k \in Node \ {n} : agent'[k] = agent[k]
        /\ agent'[n].todo = agent[n].todo \ {t} /\ agent'[n].grant = 0
        /\ Values(agent'[n].reports) = Values(agent[n].reports) \cup {answer}
  BY <1>2, DoneEffect DEF Result, answer
<1>10. CASE /\ Granted(n, t.id, t.lease) /\ UNCHANGED late
            /\ \/ agent' = [agent EXCEPT ![n].grant = t.id]
               \/ Done(n, t, "failed")
  <2>1. PICK j, k : /\ At(n) = {j} /\ j.id = t.id /\ j.lease = t.lease /\ j.state = "waiting"
                    /\ At(n)' = {k} /\ k.id = t.id /\ k.lease = t.lease
                    /\ k.state = "authorized"
    BY <1>1, <1>10, GrantNode
  <2>2. pin[n]
    BY <1>1, <1>10, GrantNode
  <2>3. \A i \in Node : Late(i)' = Late(i)
    BY <1>10 DEF Late
  <2>4. /\ \A i \in Node \ {n} : agent'[i] = agent[i]
        /\ \/ /\ agent'[n].todo = agent[n].todo /\ agent'[n].grant = t.id
              /\ agent'[n].reports = agent[n].reports
           \/ /\ agent'[n].todo = agent[n].todo \ {t} /\ agent'[n].grant = 0
              /\ Values(agent'[n].reports) = Values(agent[n].reports) \cup {answer}
    <3>1. CASE agent' = [agent EXCEPT ![n].grant = t.id]
      <4>1. agent[n] \in Agent /\ agent \in [Node -> Agent]
        BY AgentFacts
      <4>2. QED  BY <3>1, <4>1 DEF Agent
    <3>2. QED  BY <1>9, <1>10, <3>1
  <2>5. TasksAt(n)'
    BY <1>2, <1>4, <1>5, <1>8, <2>1, <2>3, <2>4 DEF TasksAt, Waiting
  <2>6. AnswersAt(n)'
    <3>1. \A m \in Late(n) : m.result = "authorize" /\ m.id = j.id => j.lease = m.lease
      BY <1>2, <2>1 DEF AnswersAt
    <3>2. Late(n) \subseteq Messages(n)
      BY DEF Messages, Late
    <3>3. \A m \in Late(n) : ~(m.result = "authorize" /\ m.id = k.id)
      BY <1>7, <2>1, <3>1, <3>2
    <3>4. QED  BY <1>1, <2>1, <2>2, <2>3, <3>3 DEF AnswersAt
  <2>7. QED  BY <1>1, <1>10, <2>3, <2>4, <2>5, <2>6, GrantParts
<1>11. CASE /\ Done(n, t, "failed")
            /\ Denied(n, t.id, t.lease) \/ UNCHANGED jobs
            /\ UNCHANGED late \/ late' = late \cup {request}
  <2>1. /\ At(n)' \subseteq At(n) /\ \A k \in Node \ {n} : At(k)' = At(k)
        /\ \A j \in At(n) : j.state = "authorized" => j \in At(n)'
    <3>1. CASE UNCHANGED jobs
      BY <3>1 DEF At
    <3>2. CASE Denied(n, t.id, t.lease)
      BY <1>6, <3>2, DenyNode DEF Waiting
    <3>3. QED  BY <1>11, <3>1, <3>2
  <2>2. /\ Late(n)' \subseteq Late(n) \cup {request}
        /\ \A k \in Node \ {n} : Late(k)' = Late(k)
    BY <1>4, <1>11 DEF Late
  <2>3. Messages(n)' \subseteq Messages(n) \cup {answer, request}
    BY <1>4, <1>9, <1>11 DEF Messages
  <2>4. IsGoing(n)' <=> IsGoing(n)
    BY <2>1 DEF IsGoing
  <2>5. JobsAt(n)'
    BY <1>1, <1>2, <2>1 DEF JobsAt
  <2>6. TasksAt(n)'
    <3>1. agent'[n].grant = 0 /\ agent'[n].todo = agent[n].todo \ {t}
          /\ Values(agent'[n].reports) = Values(agent[n].reports) \cup {answer}
      BY <1>9, <1>11
    <3>2. \A u \in agent'[n].todo : u \in agent[n].todo /\ u.id # t.id
      BY <1>8, <3>1
    <3>3. \A u \in agent'[n].todo, j \in At(n)' :
            u.id = j.id => j.lease = u.lease /\ (Waiting(j) \/ agent'[n].grant = u.id)
      <4>1. \A u \in agent[n].todo : u.id # 0
        BY AgentFacts
      <4>2. \A u \in agent[n].todo, j \in At(n) :
              u.id = j.id => j.lease = u.lease /\ Waiting(j)
        BY <1>2, <1>3, <4>1 DEF TasksAt
      <4>3. QED  BY <2>1, <3>2, <4>2
    <3>4. \A u \in agent'[n].todo : /\ \A m \in Values(agent'[n].reports) : m.id # u.id
                                    /\ \A m \in Late(n)' : m.id = u.id => m.lease # u.lease
      BY <1>2, <1>4, <2>2, <3>1, <3>2 DEF TasksAt
    <3>5. \A u, v \in agent'[n].todo : u.op = "UNPIN" /\ (u.id = v.id => u = v)
      BY <1>2, <3>2 DEF TasksAt
    <3>6. QED  BY <3>1, <3>3, <3>4, <3>5 DEF TasksAt, Waiting
  <2>7. AnswersAt(n)'
    BY <1>1, <1>2, <1>4, <1>6, <2>1, <2>2, <2>3 DEF AnswersAt, Waiting
  <2>8. CopyAt(n)'
    BY <1>1, <1>2, <2>4 DEF CopyAt
  <2>9. NodeInv(n)'
    BY <2>5, <2>6, <2>7, <2>8 DEF NodeInv
  <2>10. QED  BY <1>1, <1>9, <1>11, <2>1, <2>2, <2>4, <2>9, OneNode
<1>12. QED  BY <1>3, <1>10, <1>11 DEF request

-----------------------------------------------------------------------------
(* Reports.                                                                *)

\* A report that is believed is about the trim that was permitted.
LEMMA HandleNode ==
  ASSUME First, NEW n \in Node, NEW m \in Messages(n), Handle(n, m),
         m.result # "authorize", \A t \in agent[n].todo : t.id = m.id => t.lease # m.lease,
         UNCHANGED <<refs, pin>>
  PROVE  /\ \A k \in Node \ {n} : /\ At(k)' = At(k)
                                  /\ desired'[k] = desired[k] /\ rstate'[k] = rstate[k]
         /\ JobsAt(n)' /\ CopyAt(n)' /\ (IsGoing(n)' => IsGoing(n))
         /\ \/ At(n)' = At(n)
            \/ /\ agent[n].grant = 0
               /\ \A k \in At(n)' : k.state = "waiting"
               /\ \A k \in At(n)' : /\ \A t \in agent[n].todo : t.id # k.id
                                    /\ \A l \in Late(n) : l.result = "authorize" => l.id # k.id
<1>1. JobsAt(n) /\ TasksAt(n) /\ AnswersAt(n) /\ CopyAt(n) /\ TypeInv
  BY FirstParts
<1>2. /\ desired \in [Node -> BOOLEAN] /\ rstate \in [Node -> ReplicaState] /\ gen = 1
      /\ \A j \in At(n) : Fits(m.result, j.op) \/ m.id # j.id
  BY <1>1 DEF TypeInv, DbType, First, AboutTheirJobs
<1>3. \A j \in At(n) : Current(j)
  BY <1>1, <1>2 DEF Current, JobsAt, Trim, Final
<1>4. CASE \E j \in At(n) : j.id = m.id /\ Answers(j, m)
  <2>1. PICK j \in At(n) : j.id = m.id /\ Answers(j, m) /\ Settle(n, j, m.result)
    BY <1>4 DEF Handle
  <2>2. /\ At(n) = {j} /\ j.op = "UNPIN" /\ j.lease = m.lease /\ j.state = "authorized"
        /\ j \in Job /\ j.node = n /\ j \in jobs
    BY <1>1, <2>1, AgentFacts DEF JobsAt, Answers
  <2>3. IsGoing(n)
    BY <2>2 DEF IsGoing
  <2>4. \A t \in agent[n].todo : t.id # j.id
    BY <1>1, <2>1, <2>2 DEF TasksAt
  <2>5. agent[n].grant = 0
    BY <1>1, <2>2, <2>4 DEF TasksAt
  <2>6. \A l \in Late(n) : l.result = "authorize" => l.id # j.id
    BY <1>1, <2>2 DEF AnswersAt, Waiting
  <2>7. CASE m.result = "failed"
    <3> DEFINE k == [j EXCEPT !.state = "waiting", !.lease = 0]
    <3>1. jobs' = (jobs \ {j}) \cup {k} /\ UNCHANGED <<rstate, desired>>
      BY <2>1, <2>2, <2>7 DEF Settle, Retry, Replace
    <3>2. /\ k.node = n /\ k.id = j.id /\ k.op = "UNPIN" /\ k.reason = j.reason
          /\ k.gen = j.gen /\ k.state = "waiting"
      BY <2>2 DEF Job
    <3> HIDE DEF k
    <3>3. At(n)' = {k} /\ \A i \in Node \ {n} : At(i)' = At(i)
      BY <2>2, <3>1, <3>2 DEF At
    <3>4. pin[n]
      BY <1>1, <2>1, <2>2, <2>7 DEF AnswersAt
    <3>5. JobsAt(n)'
      BY <1>1, <2>2, <3>1, <3>2, <3>3 DEF JobsAt
    <3>6. CopyAt(n)'
      BY <3>4 DEF CopyAt
    <3>7. QED  BY <2>3, <2>4, <2>5, <2>6, <3>1, <3>2, <3>3, <3>5, <3>6
  <2>8. CASE m.result # "failed"
    <3>1. jobs' = jobs \ {j} /\ SetReplica(n, "unpinned", FALSE)
      BY <1>2, <2>1, <2>2, <2>8 DEF Settle, Close, Fits
    <3>2. At(n)' = {} /\ \A i \in Node \ {n} : At(i)' = At(i)
      BY <2>2, <3>1 DEF At
    <3>3. /\ desired'[n] = FALSE
          /\ \A i \in Node \ {n} : desired'[i] = desired[i] /\ rstate'[i] = rstate[i]
      BY <1>2, <3>1 DEF SetReplica
    <3>4. JobsAt(n)' /\ CopyAt(n)'
      BY <3>2, <3>3 DEF JobsAt, CopyAt
    <3>5. QED  BY <2>3, <2>5, <3>2, <3>3, <3>4
  <2>9. QED  BY <2>7, <2>8
<1>5. CASE ~\E j \in At(n) : j.id = m.id /\ Answers(j, m)
  <2>1. UNCHANGED <<jobs, rstate, desired>>
    <3>1. {j \in {i \in At(n) : i.id = m.id} : ~Current(j)} = {}
      BY <1>3
    <3>2. QED  BY <1>5, <3>1 DEF Handle
  <2>2. QED  BY <1>1, <2>1 DEF JobsAt, CopyAt, IsGoing, At
<1>6. QED  BY <1>4, <1>5

LEMMA ReportKeeps ==
  ASSUME First, NEW n \in Node, Report(n) \/ ReportUnanswered(n) \/ ReportDelayed(n)
  PROVE  TrimParts'
<1> DEFINE m == Head(agent[n].reports)
<1>1. /\ UNCHANGED <<gen, refs, reg, pin>>
      /\ agent[n].todo = {} /\ agent[n].reports # <<>>
  BY DEF Report, ReportUnanswered, ReportDelayed, dbVars, ctlVars, nodeVars
<1>2. /\ JobsAt(n) /\ TasksAt(n) /\ AnswersAt(n) /\ CopyAt(n) /\ TypeInv
      /\ agent[n].grant = 0
  BY <1>1, FirstParts DEF TasksAt
<1>3. /\ agent[n].reports \in Seq(Answer) /\ agent \in [Node -> Agent]
      /\ m \in Values(agent[n].reports) /\ m \in Answer
      /\ Values(Tail(agent[n].reports)) \subseteq Values(agent[n].reports)
  BY <1>1, AgentFacts, TailValues
<1> HIDE DEF m
<1>4. m \in Messages(n) /\ m.result # "authorize"
  BY <1>3 DEF Messages, Answer, Result
<1>5. CASE Report(n) \/ ReportUnanswered(n)
  <2>1. Handle(n, m) /\ UNCHANGED late
    BY <1>5 DEF Report, ReportUnanswered, m
  <2>2. UNCHANGED agent \/ agent' = [agent EXCEPT ![n].reports = Tail(agent[n].reports)]
    BY <1>5 DEF Report, ReportUnanswered
  <2>3. /\ \A k \in Node \ {n} : agent'[k] = agent[k]
        /\ agent'[n].todo = {} /\ agent'[n].grant = 0
        /\ Values(agent'[n].reports) \subseteq Values(agent[n].reports)
    <3>1. CASE UNCHANGED agent
      BY <1>1, <1>2, <3>1
    <3>2. CASE agent' = [agent EXCEPT ![n].reports = Tail(agent[n].reports)]
      <4>1. agent[n] \in Agent
        BY <1>3
      <4>2. /\ agent'[n].todo = agent[n].todo /\ agent'[n].grant = agent[n].grant
            /\ agent'[n].reports = Tail(agent[n].reports)
            /\ \A k \in Node \ {n} : agent'[k] = agent[k]
        BY <1>3, <3>2, <4>1 DEF Agent
      <4>3. QED  BY <1>1, <1>2, <1>3, <4>2
    <3>3. QED  BY <2>2, <3>1, <3>2
  <2>4. /\ \A k \in Node \ {n} : /\ At(k)' = At(k)
                                 /\ desired'[k] = desired[k] /\ rstate'[k] = rstate[k]
        /\ JobsAt(n)' /\ CopyAt(n)' /\ (IsGoing(n)' => IsGoing(n))
        /\ \/ At(n)' = At(n)
           \/ \A k \in At(n)' : /\ k.state = "waiting"
                                /\ \A l \in Late(n) : l.result = "authorize" => l.id # k.id
    BY <1>1, <1>4, <2>1, HandleNode
  <2>5. \A k \in Node : Late(k)' = Late(k)
    BY <2>1 DEF Late
  <2>6. TasksAt(n)'
    BY <2>3 DEF TasksAt
  <2>7. AnswersAt(n)'
    <3>1. Messages(n)' \subseteq Messages(n)
      BY <2>3, <2>5 DEF Messages, Late
    <3>2. CASE At(n)' = At(n)
      BY <1>1, <1>2, <2>5, <3>1, <3>2 DEF AnswersAt, Waiting
    <3>3. CASE \A k \in At(n)' : /\ k.state = "waiting"
                                 /\ \A l \in Late(n) : l.result = "authorize" => l.id # k.id
      BY <2>5, <3>3 DEF AnswersAt
    <3>4. QED  BY <2>4, <3>2, <3>3
  <2>8. NodeInv(n)'
    BY <2>4, <2>6, <2>7 DEF NodeInv
  <2>9. QED  BY <1>1, <2>3, <2>4, <2>5, <2>8, OneNode
<1>6. CASE ReportDelayed(n)
  <2> DEFINE l == [node |-> n, id |-> m.id, lease |-> m.lease, result |-> m.result]
  <2>1. UNCHANGED <<dbVars, nodeVars>> /\ late' = late \cup {l}
    BY <1>6 DEF ReportDelayed, m
  <2>2. l.node = n /\ l.id = m.id /\ l.lease = m.lease /\ l.result = m.result
    OBVIOUS
  <2> HIDE DEF l
  <2>3. /\ UNCHANGED <<desired, rstate, jobs, agent>>
        /\ \A k \in Node : At(k)' = At(k) /\ IsGoing(k)' = IsGoing(k)
    BY <2>1 DEF dbVars, nodeVars, At, IsGoing
  <2>4. Late(n)' = Late(n) \cup {l} /\ \A k \in Node \ {n} : Late(k)' = Late(k)
    BY <2>1, <2>2 DEF Late
  <2>5. Messages(n)' = Messages(n) \cup {l}
    BY <2>1, <2>2, <2>3 DEF Messages
  <2>6. JobsAt(n)' /\ CopyAt(n)'
    BY <1>1, <1>2, <2>3 DEF JobsAt, CopyAt
  <2>7. TasksAt(n)'
    BY <1>1, <1>2, <2>3 DEF TasksAt
  <2>8. AnswersAt(n)'
    <3>1. \A j \in At(n) :
            /\ m.result = "failed" /\ m.id = j.id /\ m.lease = j.lease
            /\ j.state = "authorized"
            => pin[n]
      BY <1>2, <1>4 DEF AnswersAt
    <3>2. QED  BY <1>1, <1>2, <1>4, <2>2, <2>3, <2>4, <2>5, <3>1 DEF AnswersAt, Waiting
  <2>9. NodeInv(n)'
    BY <2>6, <2>7, <2>8 DEF NodeInv
  <2>10. QED  BY <1>1, <2>3, <2>4, <2>9, OneNode
<1>7. QED  BY <1>5, <1>6

LEMMA LateKeeps ==
  ASSUME First, NEW m \in late, HandleLate(m)
  PROVE  TrimParts'
<1> DEFINE n == m.node
<1>1. /\ UNCHANGED <<refcount, gen, refs, reg, pin, agent>>
      /\ late' = late \ {m}
  BY DEF HandleLate, ctlVars
<1>2. TypeInv
  BY FirstParts
<1>3. n \in Node /\ m \in Late(n) /\ m \in Messages(n)
  BY <1>2 DEF TypeInv, NetType, Request, Messages, Late
<1>4. JobsAt(n) /\ TasksAt(n) /\ AnswersAt(n) /\ CopyAt(n)
  BY <1>3, FirstParts
<1>5. Late(n)' = Late(n) \ {m} /\ \A k \in Node \ {n} : Late(k)' = Late(k)
  BY <1>1 DEF Late
<1>6. Messages(n)' \subseteq Messages(n)
  BY <1>1 DEF Messages
<1>7. \A t \in agent[n].todo : t.id = m.id => t.lease # m.lease
  BY <1>3, <1>4 DEF TasksAt
<1>8. CASE m.result = "authorize" /\ Granted(n, m.id, m.lease)
  <2>1. UNCHANGED <<desired, rstate>>
    BY <1>8 DEF HandleLate
  <2>2. PICK j, k : /\ At(n) = {j} /\ j.id = m.id /\ j.lease = m.lease /\ j.state = "waiting"
                    /\ At(n)' = {k} /\ k.id = m.id /\ k.lease = m.lease
                    /\ k.state = "authorized"
    BY <1>1, <1>3, <1>8, <2>1, GrantNode
  <2>3. pin[n]
    BY <1>1, <1>3, <1>8, <2>1, GrantNode
  <2>4. TasksAt(n)'
    <3>1. agent[n].grant = 0 /\ \A t \in agent[n].todo : t.id # m.id
      BY <1>4, <1>7, <2>2 DEF TasksAt
    <3>2. QED  BY <1>1, <1>4, <1>5, <2>2, <3>1 DEF TasksAt
  <2>5. AnswersAt(n)'
    <3>1. ASSUME NEW l \in Late(n), l.result = "authorize", l.id = m.id  PROVE l = m
      <4>1. l.lease = m.lease
        BY <1>4, <2>2, <3>1 DEF AnswersAt
      <4>2. l \in Request /\ m \in Request /\ l.node = m.node
        BY <1>2, <3>1 DEF Late, TypeInv, NetType
      <4>3. QED  BY <1>8, <3>1, <4>1, <4>2 DEF Request
    <3>2. QED  BY <1>1, <1>5, <2>2, <2>3, <3>1 DEF AnswersAt
  <2>6. QED  BY <1>1, <1>3, <1>5, <1>8, <2>1, <2>4, <2>5, GrantParts
<1>9. CASE m.result = "authorize" /\ Denied(n, m.id, m.lease)
  <2>1. UNCHANGED <<desired, rstate>>
    BY <1>9 DEF HandleLate
  <2>2. /\ At(n)' \subseteq At(n) /\ \A k \in Node \ {n} : At(k)' = At(k)
        /\ \A j \in At(n) : j.state = "authorized" => j \in At(n)'
    BY <1>3, <1>4, <1>9, DenyNode DEF AnswersAt
  <2>3. IsGoing(n)' <=> IsGoing(n)
    BY <2>2 DEF IsGoing
  <2>4. JobsAt(n)' /\ CopyAt(n)'
    BY <1>1, <1>4, <2>1, <2>2, <2>3 DEF JobsAt, CopyAt
  <2>5. TasksAt(n)'
    BY <1>1, <1>4, <1>5, <2>2 DEF TasksAt, Waiting
  <2>6. AnswersAt(n)'
    BY <1>1, <1>4, <1>5, <1>6, <2>2 DEF AnswersAt, Waiting
  <2>7. NodeInv(n)'
    BY <2>4, <2>5, <2>6 DEF NodeInv
  <2>8. QED  BY <1>1, <1>3, <1>5, <2>1, <2>2, <2>3, <2>7, OneNode
<1>10. CASE m.result # "authorize"
  <2>1. Handle(n, m)
    BY <1>10 DEF HandleLate
  <2>2. /\ \A k \in Node \ {n} : /\ At(k)' = At(k)
                                 /\ desired'[k] = desired[k] /\ rstate'[k] = rstate[k]
        /\ JobsAt(n)' /\ CopyAt(n)' /\ (IsGoing(n)' => IsGoing(n))
        /\ \/ At(n)' = At(n)
           \/ /\ agent[n].grant = 0
              /\ \A k \in At(n)' : k.state = "waiting"
              /\ \A k \in At(n)' : /\ \A t \in agent[n].todo : t.id # k.id
                                   /\ \A l \in Late(n) : l.result = "authorize" => l.id # k.id
    BY <1>1, <1>3, <1>7, <1>10, <2>1, HandleNode
  <2>3. TasksAt(n)' /\ AnswersAt(n)'
    <3>1. CASE At(n)' = At(n)
      BY <1>1, <1>4, <1>5, <1>6, <3>1 DEF TasksAt, AnswersAt, Waiting
    <3>2. CASE /\ agent[n].grant = 0
               /\ \A k \in At(n)' : k.state = "waiting"
               /\ \A k \in At(n)' : /\ \A t \in agent[n].todo : t.id # k.id
                                    /\ \A l \in Late(n) : l.result = "authorize" => l.id # k.id
      <4>1. TasksAt(n)'
        BY <1>1, <1>4, <1>5, <3>2 DEF TasksAt
      <4>2. AnswersAt(n)'
        BY <1>5, <3>2 DEF AnswersAt
      <4>3. QED  BY <4>1, <4>2
    <3>3. QED  BY <2>2, <3>1, <3>2
  <2>4. NodeInv(n)'
    BY <2>2, <2>3 DEF NodeInv
  <2>5. QED  BY <1>1, <1>3, <1>5, <2>2, <2>4, OneNode
<1>11. QED  BY <1>8, <1>9, <1>10 DEF HandleLate

LEMMA AgentFaultsKeep ==
  ASSUME First, NEW n \in Node, RestartAgent(n) \/ FallSilent(n)
  PROVE  TrimParts'
<1>1. UNCHANGED <<dbVars, ctlVars, pin, late>>
  BY DEF RestartAgent, FallSilent
<1>2. \A k \in Node : At(k)' = At(k) /\ Late(k)' = Late(k) /\ IsGoing(k)' = IsGoing(k)
  BY <1>1 DEF dbVars, At, Late, IsGoing
<1>3. UNCHANGED <<refs, reg, desired, rstate>>
  BY <1>1 DEF dbVars, ctlVars
<1>4. JobsAt(n) /\ TasksAt(n) /\ AnswersAt(n) /\ CopyAt(n)
  BY FirstParts
<1>5. /\ \A k \in Node \ {n} : agent'[k] = agent[k]
      /\ agent'[n] = agent[n]
         \/ (agent'[n].todo = {} /\ agent'[n].grant = 0 /\ Values(agent'[n].reports) = {})
  BY AgentFacts DEF RestartAgent, FallSilent, Values
<1>6. TasksAt(n)'
  BY <1>2, <1>4, <1>5 DEF TasksAt, Waiting
<1>7. Messages(n)' \subseteq Messages(n)
  BY <1>1, <1>5 DEF Messages
<1>8. JobsAt(n)' /\ AnswersAt(n)' /\ CopyAt(n)'
  BY <1>1, <1>2, <1>3, <1>4, <1>7 DEF JobsAt, AnswersAt, CopyAt, Waiting
<1>9. NodeInv(n)'
  BY <1>6, <1>8 DEF NodeInv
<1>10. QED  BY <1>1, <1>2, <1>3, <1>5, <1>9, OneNode

-----------------------------------------------------------------------------
(* The theorems.                                                           *)

LEMMA NextKeeps ==
  ASSUME TrimOnly, TrimInv, CountInv', FirstLife', [Next]_vars, [CopyIsThere]_vars
  PROVE  TrimInv'
<1>1. LifeInv'
  BY NextStands DEF TrimInv
<1>2. NoPlacement'
  <2>1. CASE \E p \in Planner : Planning(p)
    BY <2>1, PlanKinds
  <2>2. CASE RestartController
    BY <2>2 DEF RestartController, NoPlacement, NoPlan
  <2>3. CASE UNCHANGED plan
    BY <2>3 DEF TrimInv, NoPlacement
  <2>4. ASSUME NEW r \in Ref, Users(r) \/ Registering(r)  PROVE UNCHANGED plan
    BY <2>4 DEF Users, Registering, RegisterCheck, RegisterRejected, RegisterInsert,
                RegisterFence, ReleaseOne, ReleaseLast, ctlVars
  <2>5. ASSUME NEW n \in Node, AgentLoop(n) \/ GoesWrong(n)  PROVE UNCHANGED plan
    BY <2>5 DEF AgentLoop, GoesWrong, Poll, PollUnanswered, Execute, ExecuteBadly,
         AuthorizeGranted, AuthorizeDenied, AuthorizeUnanswered, AuthorizeDelayed,
         Report, ReportUnanswered, ReportDelayed, RestartAgent, FallSilent, ctlVars
  <2>6. ASSUME NEW m \in late, HandleLate(m)  PROVE UNCHANGED plan
    BY <2>6 DEF HandleLate, ctlVars
  <2>7. CASE Recover
    BY <2>3, <2>7 DEF Recover, ctlVars
  <2>8. QED  BY <2>1, <2>2, <2>3, <2>4, <2>5, <2>6, <2>7 DEF Next, vars, ctlVars
<1>3. ASSUME gen' = 1  PROVE TrimParts'
  <2>1. gen = 1
    <3>1. gen \in Nat /\ gen >= 1
      BY DEF TrimInv, LifeInv, TypeInv, DbType, OneLife
    <3>2. UNCHANGED gen \/ gen' = gen + 1
      BY DEF Next, Users, Registering, RegisterCheck, RegisterRejected, RegisterInsert,
         RegisterFence, Resurrect, ReleaseOne, ReleaseLast, Planning, Reconcile,
         ReconcileReleased, PlanPin, PlanVerify, PlanTrim, PlanFinal, AgentLoop, GoesWrong,
         Poll, PollUnanswered, Execute, ExecuteBadly, AuthorizeGranted, AuthorizeDenied,
         AuthorizeUnanswered, AuthorizeDelayed, Report, ReportUnanswered, ReportDelayed,
         RestartAgent, FallSilent, HandleLate, Recover, RestartController, vars, dbVars
    <3>3. QED  BY <1>3, <3>1, <3>2
  <2>2. First
    BY <2>1 DEF First
  <2>3. TypeInv'
    BY <1>1 DEF LifeInv
  <2>4. CASE UNCHANGED vars
    BY <2>1, <2>4
       DEF TrimInv, vars, dbVars, ctlVars, nodeVars, TrimParts, NodeInv, JobsAt, TasksAt,
           AnswersAt, CopyAt, Floor, Thinned, Going, IsGoing, Live, Pins, Enough,
           At, Late, Messages, Waiting
  <2>5. ASSUME NEW r \in Ref, Users(r) \/ Registering(r)  PROVE TrimParts'
    <3>1. CASE UNCHANGED vars
      BY <2>4, <3>1
    <3>2. CASE ~UNCHANGED vars
      BY <1>3, <2>2, <2>3, <2>5, <3>2, ReferencesKeep DEF CopyIsThere
    <3>3. QED  BY <3>1, <3>2
  <2>6. ASSUME NEW n \in Node, AgentLoop(n) \/ GoesWrong(n)  PROVE TrimParts'
    BY <2>2, <2>6, PollKeeps, ExecuteKeeps, AuthorizeKeeps, ReportKeeps, AgentFaultsKeep
       DEF AgentLoop, GoesWrong
  <2>7. QED
    BY <2>2, <2>4, <2>5, <2>6, PlansKeep, LateKeeps, RestartKeeps DEF Next
<1>4. QED  BY <1>1, <1>2, <1>3 DEF TrimInv

LEMMA InitTrim == Init => TrimInv /\ CountInv
<1> SUFFICES ASSUME Init PROVE TrimInv
  BY InitCount
<1>1. OneLife /\ JobReasons /\ Standing /\ NoPlacement
  BY DEF Init, OneLife, JobReasons, Standing, Authorized, NoPlan, NoPlacement
<1>2. \A n \in Node : At(n) = {} /\ Late(n) = {} /\ Messages(n) = {}
  BY DEF Init, At, Late, Messages, Values
<1>3. \A n \in Node : NodeInv(n)
  BY <1>2 DEF Init, NodeInv, JobsAt, TasksAt, AnswersAt, CopyAt
<1>5. Floor
  BY <1>2 DEF Init, Floor, Thinned, Going, IsGoing, Live
<1>6. QED  BY <1>1, <1>3, <1>5, InitTypes DEF TrimInv, TrimParts, LifeInv

\* Trimming in the first life of a content whose registrations are recorded in
\* time.
TrimSpec == Spec /\ []FirstLife /\ [][CopyIsThere]_vars

LEMMA TrimInvKept == ASSUME TrimOnly PROVE TrimSpec => [](TrimInv /\ CountInv)
<1>1. Init => TrimInv /\ CountInv
  BY InitTrim
<1>2. TrimInv /\ CountInv /\ FirstLife' /\ [Next]_vars /\ [CopyIsThere]_vars
        => TrimInv' /\ CountInv'
  BY NextKeeps, NextCount
<1>3. QED  BY <1>1, <1>2, PTL DEF TrimSpec, Spec

LEMMA GivenUp ==
  ASSUME TrimInv, CountInv, gen # 1
  PROVE  refcount = 0 /\ Live = {}
<1>1. refcount = 0
  BY DEF TrimInv, LifeInv, OneLife
<1>2. IsFiniteSet(Live) /\ Cardinality(Live) = 0
  BY <1>1, LiveFinite DEF CountInv, RefcountIsLiveRefs
<1>3. QED  BY <1>1, <1>2, FS_EmptySet

\* When the copy of a live reference was trimmed, N copies are left, M of them
\* committable (_trim_capacity_locked and authorize_unpin, with every request,
\* report and restart in between).  In mode full, for a content that is not
\* registered again after its final release, whose registrations are recorded while
\* their copies are pinned, with no authorised trim recovered and Kubo not cut off.
THEOREM TrimsKeepFloor == ASSUME TrimOnly PROVE TrimSpec => []TrimKeepsFloor
<1>1. ASSUME TrimInv, CountInv  PROVE TrimKeepsFloor
  <2>1. CASE gen = 1
    <3>1. SUFFICES ASSUME \E r \in Live : ~pin[Source[r]]  PROVE Enough(Pins)
      BY DEF TrimKeepsFloor
    <3>2. Enough(Pins \ Going)
      BY <1>1, <2>1, <3>1 DEF TrimInv, TrimParts, Floor, Thinned
    <3>3. QED  BY <3>2, EnoughGrows DEF Pins
  <2>2. CASE gen # 1
    BY <1>1, <2>2, GivenUp DEF TrimKeepsFloor
  <2>3. QED  BY <2>1, <2>2
<1>2. QED  BY <1>1, TrimInvKept, PTL

\* What the controller counts on is there, or on its way out with permission
\* (apply_job_report, authorize_unpin).  In mode full, for a content that is not
\* registered again after its final release, whose registrations are recorded while
\* their copies are pinned, with no authorised trim recovered and Kubo not cut off.
THEOREM ConfirmedCopiesExist == ASSUME TrimOnly PROVE TrimSpec => []ConfirmedIsReal
<1>1. ASSUME TrimInv, CountInv  PROVE ConfirmedIsReal
  <2>1. CASE gen = 1
    <3>1. \A n \in Confirmed : n \in Node /\ (pin[n] \/ IsGoing(n))
      BY <1>1, <2>1 DEF TrimInv, TrimParts, NodeInv, CopyAt, Confirmed
    <3>2. \A n \in Node : IsGoing(n) => \E j \in Authorized : j.node = n
      BY DEF IsGoing, At, Authorized
    <3>3. QED  BY <3>1, <3>2 DEF ConfirmedIsReal
  <2>2. CASE gen # 1
    <3>1. refcount = 0
      BY <1>1, <2>2, GivenUp
    <3>2. QED  BY <3>1 DEF ConfirmedIsReal
  <2>3. QED  BY <2>1, <2>2
<1>2. QED  BY <1>1, TrimInvKept, PTL

-----------------------------------------------------------------------------
(* Every step refers to, drops, keeps or gives up, or changes neither the  *)
(* live references nor the pins.                                           *)

Promise == Content!ContentNext \/ UNCHANGED <<Live, Pins>>

LEMMA ReferencesRefine ==
  ASSUME TypeInv, NEW r \in Ref, Users(r) \/ Registering(r)
  PROVE  Promise
<1> DEFINE s == Source[r]
<1>1. /\ refs \in [Ref -> {"unknown", "live", "released"}] /\ pin \in [Node -> BOOLEAN]
      /\ s \in Node
  BY RefsFinite DEF TypeInv, DbType, RefsType, NodeType
<1>2. CASE RegisterCheck(r) \/ RegisterRejected(r)
  <2>1. UNCHANGED Live /\ Uploaded(r)
    BY <1>2 DEF RegisterCheck, RegisterRejected, dbVars, Live
  <2>2. UNCHANGED Pins \/ Pins' = Pins \cup {s}
    BY <1>1, <2>1 DEF Uploaded, Pins
  <2>3. UNCHANGED <<Live, Pins>> \/ Content!Keep(s)
    BY <2>1, <2>2 DEF Content!Keep
  <2>4. QED  BY <1>1, <2>3 DEF Promise, Content!ContentNext
<1>3. CASE ~(RegisterCheck(r) \/ RegisterRejected(r))
  <2>1. UNCHANGED pin
    BY <1>3 DEF Users, Registering, RegisterInsert, RegisterFence, ReleaseOne, ReleaseLast,
                nodeVars
  <2>2. \/ UNCHANGED refs
        \/ refs[r] # "live" /\ refs' = [refs EXCEPT ![r] = "live"]
        \/ refs[r] = "live" /\ refs' = [refs EXCEPT ![r] = "released"]
    BY <1>3 DEF Users, Registering, RegisterInsert, RegisterFence, ReleaseOne, ReleaseLast
  <2>3. \/ UNCHANGED Live
        \/ r \notin Live /\ Live' = Live \cup {r}
        \/ r \in Live /\ Live' = Live \ {r}
    BY <1>1, <2>2 DEF Live
  <2>4. UNCHANGED Pins
    BY <2>1 DEF Pins
  <2>5. UNCHANGED <<Live, Pins>> \/ Content!Refer(r) \/ Content!Drop(r)
    BY <2>3, <2>4 DEF Content!Refer, Content!Drop
  <2>6. QED  BY <2>5 DEF Promise, Content!ContentNext
<1>4. QED  BY <1>2, <1>3

LEMMA ExecuteRefines ==
  ASSUME TrimOnly, TrimInv, CountInv, NEW n \in Node, Execute(n) \/ ExecuteBadly(n)
  PROVE  Promise
<1>1. UNCHANGED Live
  BY DEF Execute, ExecuteBadly, dbVars, Live
<1>2. pin \in [Node -> BOOLEAN]
  BY DEF TrimInv, LifeInv, TypeInv, NodeType
<1>3. PICK pinned : pin' = [pin EXCEPT ![n] = pinned]
  BY DEF Execute, ExecuteBadly, Ends
<1>4. CASE pinned
  <2>1. Pins' = Pins \cup {n}
    BY <1>2, <1>3, <1>4 DEF Pins
  <2>2. Content!Keep(n)
    BY <1>1, <2>1 DEF Content!Keep
  <2>3. QED  BY <2>2 DEF Promise, Content!ContentNext
<1>5. CASE ~pinned
  <2>1. Pins' = Pins \ {n}
    BY <1>2, <1>3, <1>5 DEF Pins
  <2>2. CASE n \notin Pins
    BY <1>1, <2>1, <2>2 DEF Promise
  <2>3. CASE n \in Pins
    <3>1. Live = {} \/ Enough(Pins \ {n})
      <4>1. CASE gen = 1
        <5>1. First /\ TypeInv
          BY <4>1 DEF First, TrimInv, LifeInv
        <5>2. PICK t \in agent[n].todo : t.op = "UNPIN" /\ agent[n].grant = t.id /\ t.id # 0
          BY <5>1, FirstParts, AgentFacts DEF Execute, ExecuteBadly, Runnable, TasksAt
        <5>3. n \in Going
          BY <5>1, <5>2, FirstParts DEF TasksAt, Going, IsGoing
        <5>4. Enough(Pins \ Going)
          BY <5>1, <5>3, FirstParts DEF Floor, Thinned
        <5>5. Pins \ Going \subseteq Pins \ {n} /\ Pins \in SUBSET Node
          BY <5>3 DEF Pins
        <5>6. QED  BY <5>4, <5>5, EnoughGrows
      <4>2. CASE gen # 1
        BY <4>2, GivenUp
      <4>3. QED  BY <4>1, <4>2
    <3>2. Live = {} \/ Content!Enough(Pins \ {n})
      <4>1. ASSUME NEW S, Enough(S)  PROVE Content!Enough(S)
        BY <4>1, Zenon DEF Enough, Content!Enough, Cardinality, Content!Cardinality
      <4>2. QED  BY <3>1, <4>1
    <3>3. Content!GiveUp(n)
      BY <1>1, <2>1, <2>3, <3>2 DEF Content!GiveUp
    <3>4. QED  BY <3>3 DEF Promise, Content!ContentNext
  <2>4. QED  BY <2>2, <2>3
<1>6. QED  BY <1>4, <1>5

LEMMA OthersRefine ==
  ASSUME UNCHANGED <<refs, pin>>
  PROVE  Promise
BY DEF Promise, Live, Pins

\* A copy is given up only when no reference is left or when enough others
\* remain: the whole of register, release, reconcile, authorize, report and the
\* agents does what PinnedContent promises.  In mode full, for a content that is not
\* registered again after its final release, whose registrations are recorded while
\* their copies are pinned, with no authorised trim recovered and Kubo not cut off.
THEOREM TrimImplementsContent == ASSUME TrimOnly PROVE TrimSpec => ImplementsPinnedContent
<1>1. Init => Content!ContentInit
  BY DEF Init, Content!ContentInit, Live, Pins
<1>2. ASSUME TrimInv, CountInv, [Next]_vars  PROVE Promise
  <2>1. ASSUME NEW r \in Ref, Users(r) \/ Registering(r)  PROVE Promise
    BY <1>2, <2>1, ReferencesRefine DEF TrimInv, LifeInv
  <2>2. ASSUME NEW p \in Planner, Planning(p)  PROVE Promise
    <3>1. UNCHANGED <<refs, pin>>
      BY <2>2 DEF Planning, Reconcile, ReconcileReleased, PlanPin, PlanVerify, PlanTrim,
                  PlanFinal, dbVars, nodeVars
    <3>2. QED  BY <3>1, OthersRefine
  <2>3. ASSUME NEW n \in Node, AgentLoop(n) \/ GoesWrong(n)  PROVE Promise
    <3>1. CASE Execute(n) \/ ExecuteBadly(n)
      BY <1>2, <3>1, ExecuteRefines
    <3>2. CASE ~(Execute(n) \/ ExecuteBadly(n))
      <4>1. UNCHANGED <<refs, pin>>
        BY <2>3, <3>2 DEF AgentLoop, GoesWrong, Poll, PollUnanswered, AuthorizeGranted,
             AuthorizeDenied, AuthorizeUnanswered, AuthorizeDelayed, Report,
             ReportUnanswered, ReportDelayed, RestartAgent, FallSilent, dbVars, nodeVars
      <4>2. QED  BY <4>1, OthersRefine
    <3>3. QED  BY <3>1, <3>2
  <2>4. CASE \/ \E m \in late : HandleLate(m)
             \/ Recover \/ RestartController \/ UNCHANGED vars
    <3>1. UNCHANGED <<refs, pin>>
      BY <2>4 DEF HandleLate, Recover, RestartController, vars, dbVars, nodeVars
    <3>2. QED  BY <3>1, OthersRefine
  <2>5. QED  BY <1>2, <2>1, <2>2, <2>3, <2>4 DEF Next
<1>3. ASSUME TrimInv, CountInv, [Next]_vars  PROVE [Content!ContentNext]_<<Live, Pins>>
  BY <1>2, <1>3 DEF Promise
<1>4. QED
  BY <1>1, <1>3, TrimInvKept, PTL DEF TrimSpec, Spec, ImplementsPinnedContent, Content!ContentSpec

-----------------------------------------------------------------------------
(* Mode pin-only: repair is additive, whatever is repeated, returns, is    *)
(* recovered or goes wrong in between.                                     *)

Additive == {"PIN", "VERIFY"}

\* Nothing is planned, handed out or permitted that could remove a copy.
OnlyAdditions ==
  /\ \A j \in jobs : j.op \in Additive /\ j.state = "waiting"
  /\ \A n \in Node : \A t \in agent[n].todo : t.op \in Additive
  /\ \A p \in Planner : plan[p].kind \in {"none", "place"}

\* A replica that counts is there, and so is one that a node reports.
ReplicaIsThere(n) ==
  /\ rstate[n] \in {"pinned", "grace"} => pin[n]
  /\ \A m \in Messages(n) : m.result # "failed" => pin[n]

\* So is the copy a reference came with.
UploadIsThere(r) == reg[r] = "insert" \/ refs[r] # "unknown" => pin[Source[r]]

RepairInv ==
  /\ TypeInv /\ OnlyAdditions
  /\ \A n \in Node : ReplicaIsThere(n)
  /\ \A r \in Ref : UploadIsThere(r)

\* What holds of a step in which no pin is lost and no reference comes.
LEMMA RepairKeeps ==
  ASSUME RepairInv, TypeInv', OnlyAdditions', UNCHANGED <<reg, refs>>,
         \A n \in Node : pin[n] => pin'[n],
         \A n \in Node : rstate'[n] \in {"pinned", "grace"} =>
                           rstate[n] \in {"pinned", "grace"} \/ pin'[n],
         \A n \in Node : \A m \in Messages(n)' :
           \/ m.result = "failed" \/ pin'[n]
           \/ \E l \in Messages(n) : l.result = m.result
  PROVE  RepairInv'
<1>1. ASSUME NEW n \in Node  PROVE ReplicaIsThere(n)'
  BY DEF RepairInv, ReplicaIsThere
<1>2. ASSUME NEW r \in Ref  PROVE UploadIsThere(r)'
  BY RefsFinite DEF RepairInv, UploadIsThere
<1>3. QED  BY <1>1, <1>2 DEF RepairInv

LEMMA ReferenceRepairs ==
  ASSUME RepairInv, TypeInv', NEW r \in Ref, Users(r) \/ Registering(r)
  PROVE  RepairInv' /\ \A n \in Node : pin[n] => pin'[n]
<1> DEFINE s == Source[r]
<1>1. /\ s \in Node /\ pin \in [Node -> BOOLEAN] /\ rstate \in [Node -> ReplicaState]
      /\ refs \in [Ref -> {"unknown", "live", "released"}]
      /\ reg \in [Ref -> {"idle", "insert", "fence"}]
  BY RefsFinite DEF RepairInv, TypeInv, DbType, RefsType, NodeType, CtlType
<1>2. UNCHANGED <<plan, agent, late>> /\ jobs' \subseteq jobs
  BY DEF Users, Registering, RegisterCheck, RegisterRejected, RegisterInsert, RegisterFence,
         Resurrect, ReleaseOne, ReleaseLast, dbVars, ctlVars, nodeVars
<1>3. OnlyAdditions'
  BY <1>2 DEF RepairInv, OnlyAdditions
<1>4. \A n \in Node : Messages(n)' = Messages(n)
  BY <1>2 DEF Messages
<1>5. \A n \in Node : pin[n] => pin'[n]
  BY <1>1 DEF Users, Registering, RegisterCheck, RegisterRejected, RegisterInsert,
         RegisterFence, ReleaseOne, ReleaseLast, Uploaded, nodeVars
<1>6. (reg[r] = "insert" \/ refs[r] # "unknown" => pin[s]) /\ (refs[r] = "unknown" => UNCHANGED pin \/ pin'[s])
  BY <1>1 DEF RepairInv, UploadIsThere, Users, Registering, RegisterCheck, RegisterRejected,
         RegisterInsert, RegisterFence, ReleaseOne, ReleaseLast, Uploaded, nodeVars
<1>7. \A n \in Node \ {s} : rstate'[n] = rstate[n]
  BY <1>1 DEF Users, Registering, RegisterCheck, RegisterRejected, RegisterInsert,
         RegisterFence, ReleaseOne, ReleaseLast, dbVars
<1>8. \A q \in Ref \ {r} : reg'[q] = reg[q] /\ refs'[q] = refs[q]
  BY <1>1 DEF Users, Registering, RegisterCheck, RegisterRejected, RegisterInsert,
         RegisterFence, ReleaseOne, ReleaseLast, dbVars, ctlVars
<1>9. reg'[r] = "insert" \/ refs'[r] # "unknown" => pin'[s]
  <2>1. CASE RegisterCheck(r)
    <3>1. pin' = IF refs[r] = "unknown" THEN [pin EXCEPT ![s] = TRUE] ELSE pin
      BY <2>1 DEF RegisterCheck, Uploaded
    <3>2. QED  BY <1>1, <1>6, <3>1
  <2>2. CASE ~RegisterCheck(r)
    <3>1. reg'[r] = "insert" \/ refs'[r] # "unknown" => reg[r] = "insert" \/ refs[r] # "unknown"
      BY <1>1, <2>2 DEF Users, Registering, RegisterRejected, RegisterInsert, RegisterFence,
             ReleaseOne, ReleaseLast, dbVars, ctlVars
    <3>2. QED  BY <1>1, <1>5, <1>6, <3>1
  <2>3. QED  BY <2>1, <2>2
<1>10. rstate'[s] = rstate[s] \/ pin'[s]
  <2>1. CASE RegisterInsert(r)
    BY <1>1, <1>5, <1>6, <2>1 DEF RegisterInsert
  <2>2. CASE ~RegisterInsert(r)
    BY <2>2 DEF Users, Registering, RegisterCheck, RegisterRejected, RegisterFence,
           ReleaseOne, ReleaseLast, dbVars
  <2>3. QED  BY <2>1, <2>2
<1>11. ASSUME NEW n \in Node  PROVE ReplicaIsThere(n)'
  <2>1. rstate'[n] = rstate[n] \/ pin'[n]
    BY <1>7, <1>10
  <2>2. ReplicaIsThere(n)
    BY DEF RepairInv
  <2>3. QED  BY <1>4, <1>5, <2>1, <2>2 DEF ReplicaIsThere
<1>12. ASSUME NEW q \in Ref  PROVE UploadIsThere(q)'
  <2>1. CASE q = r
    BY <1>9, <2>1 DEF UploadIsThere
  <2>2. CASE q # r
    <3>1. UploadIsThere(q) /\ Source[q] \in Node
      BY RefsFinite DEF RepairInv
    <3>2. QED  BY <1>5, <1>8, <2>2, <3>1 DEF UploadIsThere
  <2>3. QED  BY <2>1, <2>2
<1>13. QED  BY <1>3, <1>5, <1>11, <1>12 DEF RepairInv

LEMMA PlanRepairs ==
  ASSUME Modes = {"pin-only"}, RepairInv, TypeInv', NEW p \in Planner, Planning(p)
  PROVE  RepairInv' /\ UNCHANGED pin
<1>1. /\ mode # "full" /\ plan \in [Planner -> Plan] /\ rstate \in [Node -> ReplicaState]
      /\ plan[p].kind \in {"none", "place"}
  BY DEF RepairInv, TypeInv, DbType, CtlType, OnlyAdditions
<1>2. UNCHANGED <<reg, refs, pin, agent, late>>
  BY DEF Planning, Reconcile, ReconcileReleased, PlanPin, PlanVerify, PlanTrim, PlanFinal,
         dbVars, nodeVars
<1>3. ~ReconcileReleased(p) /\ \A n \in Node : ~PlanTrim(p, n) /\ ~PlanFinal(p, n)
  BY <1>1 DEF ReconcileReleased, PlanTrim, PlanFinal
<1>4. \A n \in Node : rstate'[n] \in {"pinned", "grace"} => rstate[n] \in {"pinned", "grace"}
  <2>1. CASE Reconcile(p)
    BY <2>1 DEF Reconcile, Observed
  <2>2. ASSUME NEW n \in Node, PlanPin(p, n) \/ PlanVerify(p, n)
        PROVE  UNCHANGED rstate \/ rstate' = [rstate EXCEPT ![n] = "assigned"]
    BY <2>2 DEF PlanPin, PlanVerify
  <2>3. QED  BY <1>1, <1>3, <2>1, <2>2 DEF Planning
<1>5. ASSUME NEW pl, pl.kind \in {"none", "place"}  PROVE Rest(pl).kind \in {"none", "place"}
  BY <1>5 DEF Rest, NoPlan
<1>6. \E pl : plan' = [plan EXCEPT ![p] = pl] /\ pl.kind \in {"none", "place"}
  <2>1. CASE Reconcile(p)
    <3> DEFINE state == [n \in Node |-> Observed(n)]
    <3>1. PICK pl \in PlacementPlans(state) : plan' = [plan EXCEPT ![p] = Rest(pl)]
      BY <1>1, <2>1 DEF Reconcile
    <3> HIDE DEF state
    <3> DEFINE due == {n \in Verifiable : /\ desired[n] /\ state[n] = "pinned"
                                          /\ presence[n] = "online"}
               Place(S, V) == [NoPlan EXCEPT !.kind = "place", !.cands = S, !.verify = V,
                                             !.gen = gen]
               plans(S) == {Place(S, V) : V \in SUBSET due}
    <3>2. PlacementPlans(state) = UNION {plans(S) : S \in Placements(state)}
      BY DEF PlacementPlans
    <3>3. PICK S \in Placements(state) : pl \in plans(S)
      <4> HIDE DEF plans
      <4>1. QED  BY <3>1, <3>2
    <3>4. \A V : Place(S, V).kind = "place"
      BY DEF NoPlan
    <3> HIDE DEF Place, due
    <3>5. pl.kind = "place"
      BY <3>3, <3>4
    <3>6. Rest(pl).kind \in {"none", "place"}
      BY <1>5, <3>5
    <3>7. QED  BY <3>1, <3>6, Zenon
  <2>2. ASSUME NEW n \in Node, PlanPin(p, n) \/ PlanVerify(p, n)
        PROVE  \E pl : plan' = [plan EXCEPT ![p] = pl] /\ pl.kind \in {"none", "place"}
    <3> DEFINE left == [plan[p] EXCEPT !.verify = @ \ {n}]
    <3>1. Drop(p, n).kind \in {"none", "place"} /\ left.kind \in {"none", "place"}
      BY <1>1 DEF Drop, Plan
    <3>2. Advance(p, Drop(p, n)) \/ Advance(p, left)
      BY <2>2 DEF PlanPin, PlanVerify
    <3> HIDE DEF left
    <3>3. QED  BY <1>5, <3>1, <3>2 DEF Advance
  <2>3. QED  BY <1>3, <2>1, <2>2 DEF Planning
<1>7. \A j \in jobs' : j \in jobs \/ (j.op \in Additive /\ j.state = "waiting")
  <2>1. CASE UNCHANGED jobs
    BY <2>1
  <2>2. ASSUME NEW n \in Node, NEW op \in Additive, NEW g, Create(n, op, g, "")
        PROVE  \A j \in jobs' : j \in jobs \/ (j.op \in Additive /\ j.state = "waiting")
    <3>1. PICK i : jobs' = jobs \cup {NewJob(n, op, g, "", i)}
      BY <2>2 DEF Create
    <3>2. NewJob(n, op, g, "", i).op = op /\ NewJob(n, op, g, "", i).state = "waiting"
      BY DEF NewJob
    <3>3. QED  BY <3>1, <3>2
  <2>3. UNCHANGED jobs \/ \E n \in Node, op \in Additive, g \in {gen, plan[p].gen} : Create(n, op, g, "")
    BY <1>3 DEF Planning, Reconcile, PlanPin, PlanVerify, Additive
  <2>4. QED  BY <2>1, <2>2, <2>3
<1>8. OnlyAdditions'
  BY <1>1, <1>2, <1>6, <1>7 DEF RepairInv, OnlyAdditions
<1>9. \A n \in Node : Messages(n)' = Messages(n)
  BY <1>2 DEF Messages
<1>10. QED  BY <1>2, <1>4, <1>8, <1>9, RepairKeeps

LEMMA PollRepairs ==
  ASSUME RepairInv, TypeInv', NEW n \in Node, Poll(n) \/ PollUnanswered(n)
  PROVE  RepairInv' /\ UNCHANGED pin
<1>1. UNCHANGED <<reg, refs, rstate, plan, pin, late>>
  BY DEF Poll, PollUnanswered, ctlVars
<1>2. PICK due \in SUBSET Deliverable(n), t \in Token :
        /\ Lease(n, due, t)
        /\ \/ UNCHANGED agent
           \/ agent' = [agent EXCEPT ![n].todo =
                {[id |-> j.id, lease |-> t, op |-> j.op] : j \in {k \in due : k.op \in Allowed}}]
  BY DEF Poll, PollUnanswered
<1>3. due \subseteq jobs
  BY DEF Deliverable, At
<1>4. \A j \in jobs' : j.op \in Additive /\ j.state = "waiting"
  <2>1. Calm
    BY <1>2, LeaseJobs DEF RepairInv
  <2>2. QED  BY <2>1 DEF RepairInv, OnlyAdditions, Calm, Descends, Same
<1> DEFINE new == {[id |-> j.id, lease |-> t, op |-> j.op] : j \in {k \in due : k.op \in Allowed}}
<1>5. \A u \in new : u.op \in Additive
  BY <1>3 DEF RepairInv, OnlyAdditions
<1> HIDE DEF new
<1>6. \A k \in Node : /\ agent'[k].todo = agent[k].todo \/ agent'[k].todo = new
                      /\ agent'[k].reports = agent[k].reports
  <2>1. CASE UNCHANGED agent
    BY <2>1
  <2>2. CASE agent' = [agent EXCEPT ![n].todo = new]
    BY <2>2 DEF RepairInv, TypeInv, NodeType, Agent
  <2>3. QED  BY <1>2, <2>1, <2>2 DEF new
<1>7. OnlyAdditions'
  BY <1>1, <1>4, <1>5, <1>6 DEF RepairInv, OnlyAdditions
<1>8. \A k \in Node : Messages(k)' = Messages(k)
  BY <1>1, <1>6 DEF Messages
<1>9. QED  BY <1>1, <1>7, <1>8, RepairKeeps

\* A fault may fail a PIN or a VERIFY; neither of them takes the copy away.
LEMMA ExecuteRepairs ==
  ASSUME RepairInv, TypeInv', NEW n \in Node, Execute(n) \/ ExecuteBadly(n)
  PROVE  RepairInv' /\ \A k \in Node : pin[k] => pin'[k]
<1>1. UNCHANGED <<reg, refs, rstate, jobs, plan, late>>
  BY DEF Execute, ExecuteBadly, dbVars, ctlVars
<1>2. pin \in [Node -> BOOLEAN]
  BY DEF RepairInv, TypeInv, NodeType
<1>3. PICK t \in agent[n].todo, result \in Result, pinned \in BOOLEAN :
        /\ Done(n, t, result) /\ pin' = [pin EXCEPT ![n] = pinned]
        /\ pin[n] => pinned
        /\ result # "failed" => pinned
  <2>1. PICK t \in agent[n].todo :
          \E out : /\ Ends(n, t, out)
                   /\ \/ out = Outcome(t.op, pin[n])
                      \/ \E fault \in KuboFaults : out = FaultyOutcome(t.op, pin[n], fault)
    BY DEF Execute, ExecuteBadly, Runnable
  <2>2. PICK out : /\ Ends(n, t, out)
                   /\ \/ out = Outcome(t.op, pin[n])
                      \/ \E fault \in KuboFaults : out = FaultyOutcome(t.op, pin[n], fault)
    BY <2>1
  <2>3. t.op \in {"PIN", "VERIFY"} /\ pin[n] \in BOOLEAN
    BY <1>2 DEF RepairInv, OnlyAdditions, Additive
  <2>4. /\ out[1] \in Result /\ out[2] \in BOOLEAN
        /\ pin[n] => out[2]
        /\ out[1] # "failed" => out[2]
    <3>1. CASE out = Outcome(t.op, pin[n])
      BY <2>3, <3>1 DEF Outcome, Result
    <3>2. ASSUME NEW fault, out = FaultyOutcome(t.op, pin[n], fault)
          PROVE  /\ out[1] = "failed" /\ out[2] \in BOOLEAN
                 /\ pin[n] => out[2]
      BY <2>3, <3>2 DEF FaultyOutcome
    <3>3. QED  BY <2>2, <3>1, <3>2 DEF Result
  <2>5. QED  BY <2>2, <2>4 DEF Ends
<1>4. \A k \in Node : pin[k] => pin'[k]
  BY <1>2, <1>3
<1>5. /\ \A k \in Node \ {n} : agent'[k] = agent[k]
      /\ agent'[n].todo = agent[n].todo \ {t}
      /\ Values(agent'[n].reports) = Values(agent[n].reports)
              \cup {[id |-> t.id, lease |-> t.lease, result |-> result]}
  BY <1>3, DoneEffect DEF RepairInv
<1>6. OnlyAdditions'
  BY <1>1, <1>5 DEF RepairInv, OnlyAdditions
<1>7. ASSUME NEW k \in Node, NEW m \in Messages(k)'
      PROVE  m \in Messages(k) \/ m.result = "failed" \/ pin'[k]
  <2>1. CASE k = n
    <3>1. \/ m \in Messages(n)
          \/ m = [id |-> t.id, lease |-> t.lease, result |-> result]
      BY <1>1, <1>5, <1>7, <2>1 DEF Messages
    <3>2. result # "failed" => pin'[n]
      BY <1>2, <1>3
    <3>3. QED  BY <2>1, <3>1, <3>2
  <2>2. CASE k # n
    BY <1>1, <1>5, <1>7, <2>2 DEF Messages
  <2>3. QED  BY <2>1, <2>2
<1>8. QED  BY <1>1, <1>4, <1>6, <1>7, RepairKeeps

\* No agent asks for permission.
LEMMA NobodyAsks ==
  ASSUME RepairInv, NEW n \in Node
  PROVE  /\ ~AuthorizeGranted(n) /\ ~AuthorizeUnanswered(n)
         /\ ~AuthorizeDenied(n) /\ ~AuthorizeDelayed(n)
<1>1. Asking(n) = {}
  BY DEF RepairInv, OnlyAdditions, Additive, Asking
<1>2. QED
  BY <1>1 DEF AuthorizeGranted, AuthorizeUnanswered, AuthorizeDenied, AuthorizeDelayed

\* A report of success makes a replica count whose copy is there.
LEMMA HandleRepairs ==
  ASSUME RepairInv, NEW n \in Node, NEW m, Handle(n, m), m.result # "failed" => pin[n]
  PROVE  /\ \A j \in jobs' : j.op \in Additive /\ j.state = "waiting"
         /\ \A k \in Node : rstate'[k] \in {"pinned", "grace"} =>
                              rstate[k] \in {"pinned", "grace"} \/ pin[k]
<1>1. CASE \E j \in At(n) : j.id = m.id /\ Answers(j, m)
  <2>1. PICK j \in At(n) : Settle(n, j, m.result)
    BY <1>1 DEF Handle
  <2>2. j \in jobs /\ j.op \in {"PIN", "VERIFY"}
    BY DEF At, RepairInv, OnlyAdditions, Additive
  <2>3. Retry(j) \/ Close(j)
    BY <2>1, <2>2 DEF Settle
  <2>4. Calm
    BY <2>2, <2>3, RetryJob, FewerJobs DEF Close, RepairInv
  <2>5. \A k \in jobs' : k.op \in Additive /\ k.state = "waiting"
    BY <2>4 DEF RepairInv, OnlyAdditions, Calm, Descends, Same
  <2>6. \/ rstate' = [rstate EXCEPT ![n] = "failed"]
        \/ rstate' = [rstate EXCEPT ![n] = "pinned"] /\ pin[n]
    BY <2>1, <2>2 DEF Settle, SetReplica
  <2>7. rstate \in [Node -> ReplicaState]
    BY DEF RepairInv, TypeInv, DbType
  <2>8. QED  BY <2>5, <2>6, <2>7
<1>2. CASE ~\E j \in At(n) : j.id = m.id /\ Answers(j, m)
  <2>1. jobs' \subseteq jobs /\ UNCHANGED rstate
    BY <1>2 DEF Handle
  <2>2. QED  BY <2>1 DEF RepairInv, OnlyAdditions
<1>3. QED  BY <1>1, <1>2

LEMMA ReportRepairs ==
  ASSUME RepairInv, TypeInv', NEW n \in Node,
         Report(n) \/ ReportUnanswered(n) \/ ReportDelayed(n)
  PROVE  RepairInv' /\ UNCHANGED pin
<1> DEFINE m == Head(agent[n].reports)
<1>1. UNCHANGED <<reg, refs, plan, pin>>
  BY DEF Report, ReportUnanswered, ReportDelayed, dbVars, ctlVars, nodeVars
<1>2. /\ agent[n].reports \in Seq(Answer) /\ agent[n].reports # <<>>
      /\ m \in Values(agent[n].reports)
      /\ Values(Tail(agent[n].reports)) \subseteq Values(agent[n].reports)
  BY AgentParts, TailValues DEF Report, ReportUnanswered, ReportDelayed, RepairInv
<1> HIDE DEF m
<1>3. m \in Messages(n) /\ (m.result # "failed" => pin[n])
  BY <1>2 DEF Messages, RepairInv, ReplicaIsThere
<1>4. \A k \in Node : /\ agent'[k].todo = agent[k].todo
                      /\ Values(agent'[k].reports) \subseteq Values(agent[k].reports)
  <2>1. UNCHANGED agent \/ agent' = [agent EXCEPT ![n].reports = Tail(agent[n].reports)]
    BY DEF Report, ReportUnanswered, ReportDelayed, nodeVars
  <2>2. agent \in [Node -> Agent]
    BY DEF RepairInv, TypeInv, NodeType
  <2>3. QED  BY <1>2, <2>1, <2>2 DEF Agent
<1>5. CASE Report(n) \/ ReportUnanswered(n)
  <2>1. Handle(n, m) /\ UNCHANGED late
    BY <1>5 DEF Report, ReportUnanswered, m
  <2>2. /\ \A j \in jobs' : j.op \in Additive /\ j.state = "waiting"
        /\ \A k \in Node : rstate'[k] \in {"pinned", "grace"} =>
                             rstate[k] \in {"pinned", "grace"} \/ pin[k]
    BY <1>3, <2>1, HandleRepairs
  <2>3. OnlyAdditions'
    BY <1>1, <1>4, <2>2 DEF RepairInv, OnlyAdditions
  <2>4. \A k \in Node : Messages(k)' \subseteq Messages(k)
    BY <1>4, <2>1 DEF Messages
  <2>5. QED  BY <1>1, <2>2, <2>3, <2>4, RepairKeeps
<1>6. CASE ReportDelayed(n)
  <2> DEFINE l == [node |-> n, id |-> m.id, lease |-> m.lease, result |-> m.result]
  <2>1. UNCHANGED <<jobs, rstate, agent>> /\ late' = late \cup {l}
    BY <1>6 DEF ReportDelayed, dbVars, nodeVars, m
  <2>2. l.result = m.result /\ l.node = n
    OBVIOUS
  <2> HIDE DEF l
  <2>3. OnlyAdditions'
    BY <1>1, <2>1 DEF RepairInv, OnlyAdditions
  <2>4. ASSUME NEW k \in Node, NEW x \in Messages(k)'
        PROVE  \E y \in Messages(k) : y.result = x.result
    BY <1>3, <2>1, <2>2 DEF Messages
  <2>5. QED  BY <1>1, <2>1, <2>3, <2>4, RepairKeeps
<1>7. QED  BY <1>5, <1>6

LEMMA LateRepairs ==
  ASSUME RepairInv, TypeInv', NEW m \in late, HandleLate(m)
  PROVE  RepairInv' /\ UNCHANGED pin
<1> DEFINE n == m.node
<1>1. UNCHANGED <<reg, refs, plan, pin, agent>> /\ late' = late \ {m}
  BY DEF HandleLate, ctlVars
<1>2. n \in Node /\ m \in Messages(n)
  BY DEF RepairInv, TypeInv, NetType, Request, Messages
<1>3. m.result # "failed" => pin[n]
  BY <1>2 DEF RepairInv, ReplicaIsThere
<1>4. /\ \A j \in jobs' : j.op \in Additive /\ j.state = "waiting"
      /\ \A k \in Node : rstate'[k] \in {"pinned", "grace"} =>
                           rstate[k] \in {"pinned", "grace"} \/ pin[k]
  <2>1. CASE m.result = "authorize"
    <3>1. Named(n, m.id) = {}
      BY DEF Named, At, RepairInv, OnlyAdditions, Additive
    <3>2. UNCHANGED <<jobs, rstate>>
      BY <2>1, <3>1 DEF HandleLate, Granted, Denied
    <3>3. QED  BY <3>2 DEF RepairInv, OnlyAdditions
  <2>2. CASE m.result # "authorize"
    BY <1>2, <1>3, <2>2, HandleRepairs DEF HandleLate
  <2>3. QED  BY <2>1, <2>2
<1>5. OnlyAdditions'
  BY <1>1, <1>4 DEF RepairInv, OnlyAdditions
<1>6. \A k \in Node : Messages(k)' \subseteq Messages(k)
  BY <1>1 DEF Messages
<1>7. QED  BY <1>1, <1>4, <1>5, <1>6, RepairKeeps

\* Nothing is authorised, so that a recovery finds nothing to ask.
LEMMA RestartRepairs ==
  ASSUME RepairInv, TypeInv', Recover \/ RestartController
  PROVE  RepairInv' /\ UNCHANGED pin
<1>1. Authorized = {}
  BY DEF RepairInv, OnlyAdditions, Authorized
<1>2. RestartController
  BY <1>1 DEF Recover
<1>3. UNCHANGED <<refs, rstate, pin, agent, late>>
  BY <1>2 DEF RestartController, nodeVars
<1>4. UNCHANGED jobs
  <2>1. Questions = {}
    BY <1>1 DEF Questions
  <2>2. QED  BY <1>1, <1>2, <2>1 DEF RestartController, RecoverJobs
<1>5. reg' = [r \in Ref |-> "idle"] /\ plan' = [p \in Planner |-> NoPlan]
  BY <1>2 DEF RestartController
<1>6. OnlyAdditions'
  BY <1>3, <1>4, <1>5 DEF RepairInv, OnlyAdditions, NoPlan
<1>7. \A n \in Node : Messages(n)' = Messages(n)
  BY <1>3 DEF Messages
<1>8. \A n \in Node : ReplicaIsThere(n)'
  BY <1>3, <1>7 DEF RepairInv, ReplicaIsThere
<1>9. \A r \in Ref : UploadIsThere(r)'
  BY <1>3, <1>5 DEF RepairInv, UploadIsThere
<1>10. QED  BY <1>3, <1>6, <1>8, <1>9 DEF RepairInv

LEMMA AgentFaultRepairs ==
  ASSUME RepairInv, TypeInv', NEW n \in Node, RestartAgent(n) \/ FallSilent(n)
  PROVE  RepairInv' /\ UNCHANGED pin
<1>1. UNCHANGED <<reg, refs, rstate, jobs, plan, pin, late>>
  BY DEF RestartAgent, FallSilent, dbVars, ctlVars
<1>2. \A k \in Node : \/ agent'[k] = agent[k]
                      \/ agent'[k].todo = {} /\ Values(agent'[k].reports) = {}
  BY DEF RestartAgent, FallSilent, Values, RepairInv, TypeInv, NodeType
<1>3. OnlyAdditions'
  BY <1>1, <1>2 DEF RepairInv, OnlyAdditions
<1>4. \A k \in Node : Messages(k)' \subseteq Messages(k)
  BY <1>1, <1>2 DEF Messages
<1>5. QED  BY <1>1, <1>3, <1>4, RepairKeeps

LEMMA InitRepairs == Init => RepairInv
<1> SUFFICES ASSUME Init PROVE RepairInv
  OBVIOUS
<1>1. OnlyAdditions
  BY DEF Init, OnlyAdditions, NoPlan
<1>2. \A n \in Node : Messages(n) = {}
  BY DEF Init, Messages, Values
<1>3. \A n \in Node : ReplicaIsThere(n)
  BY <1>2 DEF Init, ReplicaIsThere
<1>4. \A r \in Ref : UploadIsThere(r)
  BY DEF Init, UploadIsThere
<1>5. QED  BY <1>1, <1>3, <1>4, InitTypes DEF RepairInv

LEMMA NextRepairs ==
  ASSUME Modes = {"pin-only"}, RepairInv, TypeInv', [Next]_vars
  PROVE  RepairInv' /\ \A n \in Node : pin[n] => pin'[n]
<1>1. ASSUME NEW r \in Ref, Users(r) \/ Registering(r)
      PROVE  RepairInv' /\ \A n \in Node : pin[n] => pin'[n]
  BY <1>1, ReferenceRepairs
<1>2. ASSUME NEW p \in Planner, Planning(p)  PROVE RepairInv' /\ UNCHANGED pin
  BY <1>2, PlanRepairs
<1>3. ASSUME NEW n \in Node, AgentLoop(n) \/ GoesWrong(n)
      PROVE  RepairInv' /\ \A k \in Node : pin[k] => pin'[k]
  <2>1. CASE Execute(n) \/ ExecuteBadly(n)
    BY <2>1, ExecuteRepairs
  <2>2. CASE ~(Execute(n) \/ ExecuteBadly(n))
    BY <1>3, <2>2, PollRepairs, NobodyAsks, ReportRepairs, AgentFaultRepairs
       DEF AgentLoop, GoesWrong
  <2>3. QED  BY <2>1, <2>2
<1>4. ASSUME NEW m \in late, HandleLate(m)  PROVE RepairInv' /\ UNCHANGED pin
  BY <1>4, LateRepairs
<1>5. CASE Recover \/ RestartController
  BY <1>5, RestartRepairs
<1>6. CASE UNCHANGED vars
  BY <1>6 DEF vars, dbVars, ctlVars, nodeVars, RepairInv, OnlyAdditions, ReplicaIsThere,
              UploadIsThere, Messages
<1>7. QED  BY <1>1, <1>2, <1>3, <1>4, <1>5, <1>6 DEF Next

LEMMA RepairInvKept ==
  ASSUME Modes = {"pin-only"}
  PROVE  Spec => [](RepairInv /\ CountInv)
<1>1. Init => RepairInv /\ CountInv
  BY InitRepairs, InitCount
<1>2. RepairInv /\ CountInv /\ [Next]_vars => RepairInv' /\ CountInv'
  BY NextRepairs, NextTypes, NextCount DEF RepairInv
<1>3. QED  BY <1>1, <1>2, PTL DEF Spec

\* Mode pin-only permits "additive repair" (docs/REPLICATION_CONTROLLER.md:49): no
\* step takes a copy away, through any restarts, repeated or delayed requests and
\* faults of Kubo.
THEOREM RepairIsAdditive ==
  ASSUME Modes = {"pin-only"}
  PROVE  Spec => NoCopyIsRemoved
<1>1. ASSUME RepairInv, CountInv, [Next]_vars  PROVE Pins \subseteq Pins'
  <2>1. TypeInv'
    BY <1>1, NextTypes, NextCount DEF RepairInv
  <2>2. \A n \in Node : pin[n] => pin'[n]
    BY <1>1, <2>1, NextRepairs
  <2>3. QED  BY <2>2 DEF Pins
<1>2. RepairInv /\ CountInv /\ [Next]_vars => [Pins \subseteq Pins']_vars
  BY <1>1
<1>3. QED  BY <1>2, RepairInvKept, PTL DEF Spec, NoCopyIsRemoved

\* In mode pin-only every copy the controller counts on exists, and the one a
\* reference came with is never given up (apply_job_report, register_object).
THEOREM RepairedCopiesExist ==
  ASSUME Modes = {"pin-only"}
  PROVE  Spec => []ConfirmedIsReal /\ []TrimKeepsFloor
<1>1. RepairInv => ConfirmedIsReal /\ TrimKeepsFloor
  BY DEF RepairInv, ReplicaIsThere, UploadIsThere, ConfirmedIsReal, Confirmed,
         TrimKeepsFloor, Live
<1>2. QED  BY <1>1, RepairInvKept, PTL

LEMMA ExecuteAdds ==
  ASSUME RepairInv, TypeInv', NEW n \in Node, Execute(n) \/ ExecuteBadly(n)
  PROVE  Promise
<1>1. UNCHANGED Live
  BY DEF Execute, ExecuteBadly, dbVars, Live
<1>2. \A k \in Node : pin[k] => pin'[k]
  BY ExecuteRepairs
<1>3. pin \in [Node -> BOOLEAN]
  BY DEF RepairInv, TypeInv, NodeType
<1>4. PICK pinned : pin' = [pin EXCEPT ![n] = pinned]
  BY DEF Execute, ExecuteBadly, Ends
<1>5. Pins' = Pins \/ Pins' = Pins \cup {n}
  BY <1>2, <1>3, <1>4 DEF Pins
<1>6. QED  BY <1>1, <1>5 DEF Promise, Content!ContentNext, Content!Keep

\* Repair refers, drops and keeps; it gives nothing up, so that the promise of
\* PinnedContent holds with uploads to one node, repetitions and recoveries, too.
THEOREM RepairImplementsContent ==
  ASSUME Modes = {"pin-only"}
  PROVE  Spec => ImplementsPinnedContent
<1>1. Init => Content!ContentInit
  BY DEF Init, Content!ContentInit, Live, Pins
<1>2. ASSUME RepairInv, CountInv, [Next]_vars  PROVE Promise
  <2>1. TypeInv' /\ TypeInv
    BY <1>2, NextTypes, NextCount DEF RepairInv
  <2>2. ASSUME NEW r \in Ref, Users(r) \/ Registering(r)  PROVE Promise
    BY <2>1, <2>2, ReferencesRefine
  <2>3. ASSUME NEW p \in Planner, Planning(p)  PROVE Promise
    <3>1. UNCHANGED <<refs, pin>>
      BY <2>3 DEF Planning, Reconcile, ReconcileReleased, PlanPin, PlanVerify, PlanTrim,
                  PlanFinal, dbVars, nodeVars
    <3>2. QED  BY <3>1, OthersRefine
  <2>4. ASSUME NEW n \in Node, AgentLoop(n) \/ GoesWrong(n)  PROVE Promise
    <3>1. CASE Execute(n) \/ ExecuteBadly(n)
      BY <1>2, <2>1, <3>1, ExecuteAdds
    <3>2. CASE ~(Execute(n) \/ ExecuteBadly(n))
      <4>1. UNCHANGED <<refs, pin>>
        BY <1>2, <2>4, <3>2, NobodyAsks DEF AgentLoop, GoesWrong, Poll, PollUnanswered,
             Report, ReportUnanswered, ReportDelayed, RestartAgent, FallSilent, dbVars,
             nodeVars
      <4>2. QED  BY <4>1, OthersRefine
    <3>3. QED  BY <3>1, <3>2
  <2>5. CASE \/ \E m \in late : HandleLate(m)
             \/ Recover \/ RestartController \/ UNCHANGED vars
    <3>1. UNCHANGED <<refs, pin>>
      BY <2>5 DEF HandleLate, Recover, RestartController, vars, dbVars, nodeVars
    <3>2. QED  BY <3>1, OthersRefine
  <2>6. QED  BY <1>2, <2>2, <2>3, <2>4, <2>5 DEF Next
<1>3. ASSUME RepairInv, CountInv, [Next]_vars
      PROVE  [Content!ContentNext]_<<Live, Pins>>
  BY <1>2, <1>3 DEF Promise
<1>4. QED
  BY <1>1, <1>3, RepairInvKept, PTL DEF Spec, ImplementsPinnedContent, Content!ContentSpec

=============================================================================
