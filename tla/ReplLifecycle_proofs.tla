------------------------- MODULE ReplLifecycle_proofs -------------------------
(***************************************************************************)
(* The reference count, the types of the state, what an authorisation      *)
(* rests on and which placements are chosen, for any nodes, references,    *)
(* threads, modes and faults and without any bound on what goes wrong.     *)
(***************************************************************************)
EXTENDS ReplLifecycle, FiniteSetTheorems, TLAPS

RefsType == refs \in [Ref -> {"unknown", "live", "released"}]

\* The references are known one by one and counted.
CountInv == RefsType /\ RefcountIsLiveRefs

LEMMA LiveFinite == IsFiniteSet(Live) /\ Cardinality(Live) \in Nat
<1>1. Live \in SUBSET Ref
  BY DEF Live
<1>2. IsFiniteSet(Live)
  BY <1>1, RefsFinite, FS_Subset
<1>3. QED  BY <1>2, FS_CardinalityType

LEMMA InitCount == Init => CountInv
<1> SUFFICES ASSUME Init PROVE CountInv
  OBVIOUS
<1>1. RefsType
  BY DEF Init, RefsType
<1>2. Live = {}
  BY DEF Init, Live
<1>3. refcount = 0
  BY DEF Init
<1>4. RefcountIsLiveRefs
  BY <1>2, <1>3, FS_EmptySet DEF RefcountIsLiveRefs
<1>5. QED  BY <1>1, <1>4 DEF CountInv

\* A step that writes neither the references nor their number.
LEMMA SameCount ==
  ASSUME CountInv, UNCHANGED <<refcount, refs>>
  PROVE  CountInv'
BY DEF CountInv, RefsType, RefcountIsLiveRefs, Live

\* A registration is counted when its reference becomes live and only then.
LEMMA InsertCount ==
  ASSUME CountInv, NEW r \in Ref, RegisterInsert(r)
  PROVE  CountInv'
<1>1. CASE refs[r] = "unknown"
  <2>1. refs' = [refs EXCEPT ![r] = "live"] /\ refcount' = refcount + 1
    BY <1>1 DEF RegisterInsert
  <2>2. RefsType'
    BY <2>1 DEF CountInv, RefsType
  <2>3. Live' = Live \cup {r} /\ r \notin Live
    BY <1>1, <2>1 DEF CountInv, RefsType, Live
  <2>4. Cardinality(Live') = Cardinality(Live) + 1
    BY <2>3, LiveFinite, FS_AddElement
  <2>5. RefcountIsLiveRefs'
    BY <2>1, <2>4 DEF CountInv, RefcountIsLiveRefs
  <2>6. QED  BY <2>2, <2>5 DEF CountInv
<1>2. CASE refs[r] # "unknown"
  <2>1. UNCHANGED <<refcount, refs>>
    BY <1>2 DEF RegisterInsert
  <2>2. QED  BY <2>1, SameCount
<1>3. QED  BY <1>1, <1>2

\* A released reference leaves a tombstone and one reference less.
LEMMA TombstoneCount ==
  ASSUME CountInv, NEW r \in Ref, refs[r] = "live",
         refs' = [refs EXCEPT ![r] = "released"]
  PROVE  RefsType' /\ refcount \in Nat \ {0} /\ Cardinality(Live') = refcount - 1
<1>1. RefsType'
  BY DEF CountInv, RefsType
<1>2. Live' = Live \ {r} /\ r \in Live
  BY DEF CountInv, RefsType, Live
<1>3. Cardinality(Live') = Cardinality(Live) - 1
  BY <1>2, LiveFinite, FS_RemoveElement
<1>4. Cardinality(Live) # 0
  BY <1>2, LiveFinite, FS_EmptySet
<1>5. QED  BY <1>1, <1>3, <1>4, LiveFinite DEF CountInv, RefcountIsLiveRefs

LEMMA ReleaseCount ==
  ASSUME CountInv, NEW r \in Ref, ReleaseOne(r) \/ ReleaseLast(r)
  PROVE  CountInv'
<1>1. refs[r] = "live" /\ refs' = [refs EXCEPT ![r] = "released"]
  BY DEF ReleaseOne, ReleaseLast
<1>2. RefsType' /\ refcount \in Nat \ {0} /\ Cardinality(Live') = refcount - 1
  BY <1>1, TombstoneCount
<1>3. CASE ReleaseOne(r)
  BY <1>2, <1>3 DEF ReleaseOne, CountInv, RefcountIsLiveRefs
<1>4. CASE ReleaseLast(r)
  <2>1. refcount <= 1 /\ refcount' = 0
    BY <1>4 DEF ReleaseLast
  <2>2. Cardinality(Live') = 0
    BY <1>2, <2>1
  <2>3. QED  BY <1>2, <2>1, <2>2 DEF CountInv, RefcountIsLiveRefs
<1>5. QED  BY <1>3, <1>4

LEMMA NextCount ==
  ASSUME CountInv, [Next]_vars
  PROVE  CountInv'
<1>1. CASE UNCHANGED vars
  BY <1>1, SameCount DEF vars, dbVars
<1>2. ASSUME NEW r \in Ref, Users(r)  PROVE CountInv'
  <2>1. CASE RegisterCheck(r) \/ RegisterRejected(r)
    BY <2>1, SameCount DEF RegisterCheck, RegisterRejected, dbVars
  <2>2. CASE ReleaseOne(r) \/ ReleaseLast(r)
    BY <2>2, ReleaseCount
  <2>3. QED  BY <1>2, <2>1, <2>2 DEF Users
<1>3. ASSUME NEW r \in Ref, Registering(r)  PROVE CountInv'
  <2>1. CASE RegisterInsert(r)
    BY <2>1, InsertCount
  <2>2. CASE RegisterFence(r)
    BY <2>2, SameCount DEF RegisterFence
  <2>3. QED  BY <1>3, <2>1, <2>2 DEF Registering
<1>4. ASSUME NEW p \in Planner, Planning(p)  PROVE CountInv'
  <2>1. CASE Reconcile(p) \/ ReconcileReleased(p)
    BY <2>1, SameCount DEF Reconcile, ReconcileReleased, dbVars
  <2>2. ASSUME NEW n \in Node,
               PlanPin(p, n) \/ PlanVerify(p, n) \/ PlanTrim(p, n) \/ PlanFinal(p, n)
        PROVE CountInv'
    BY <2>2, SameCount DEF PlanPin, PlanVerify, PlanTrim, PlanFinal
  <2>3. QED  BY <1>4, <2>1, <2>2 DEF Planning
<1>5. ASSUME NEW n \in Node, AgentLoop(n)  PROVE CountInv'
  <2>1. UNCHANGED <<refcount, refs>>
    BY <1>5 DEF AgentLoop, Poll, Execute, AuthorizeGranted, AuthorizeDenied,
                Report, dbVars
  <2>2. QED  BY <2>1, SameCount
<1>6. ASSUME NEW n \in Node, GoesWrong(n)  PROVE CountInv'
  <2>1. UNCHANGED <<refcount, refs>>
    BY <1>6 DEF GoesWrong, PollUnanswered, ExecuteBadly, AuthorizeUnanswered,
                AuthorizeDelayed, ReportUnanswered, ReportDelayed, RestartAgent,
                FallSilent, dbVars
  <2>2. QED  BY <2>1, SameCount
<1>7. ASSUME NEW m \in late, HandleLate(m)  PROVE CountInv'
  BY <1>7, SameCount DEF HandleLate
<1>8. CASE Recover \/ RestartController
  BY <1>8, SameCount DEF Recover, RestartController
<1>9. QED
  BY <1>1, <1>2, <1>3, <1>4, <1>5, <1>6, <1>7, <1>8 DEF Next

\* register_object and release_object count every live reference once and no
\* other, whatever is repeated, released, registered again or interrupted.
THEOREM ReferencesAreCounted == Spec => []RefcountIsLiveRefs
<1>1. Init => CountInv
  BY InitCount
<1>2. CountInv /\ [Next]_vars => CountInv'
  BY NextCount
<1>3. CountInv => RefcountIsLiveRefs
  BY DEF CountInv
<1>4. QED  BY <1>1, <1>2, <1>3, PTL DEF Spec

-----------------------------------------------------------------------------
(* Types.  An answer is only ever taken for the job it is about, which is  *)
(* why ids must not be reused too early.                                   *)

Op == {"PIN", "VERIFY", "UNPIN", "UNPIN_VERIFY"}
Result == {"pinned", "verified", "unpinned", "failed"}
ReplicaState == {"none", "assigned", "pinned", "grace", "missing", "failed", "unpinned"}

Job == [node : Node, id : JobId, op : Op, gen : Nat, reason : {"", Trim, Final},
        state : {"waiting", "authorized"}, lease : Token \cup {0}]
Plan == [kind : {"none", "place", "trim", "final"}, cands : SUBSET Node,
         verify : SUBSET Node, remove : Nat, comm : Nat, gen : Nat]
Task == [id : JobId, lease : Token, op : Op]
Answer == [id : JobId, lease : Token, result : Result]
Agent == [todo : SUBSET Task, grant : JobId \cup {0}, reports : Seq(Answer)]
Request == [node : Node, id : JobId, lease : Token, result : Result \cup {"authorize"}]

\* The database, the controller and the nodes.
DbType ==
  /\ refcount \in Nat /\ gen \in Nat /\ released \in BOOLEAN /\ RefsType
  /\ desired \in [Node -> BOOLEAN] /\ rstate \in [Node -> ReplicaState]
CtlType ==
  /\ mode \in Modes /\ reg \in [Ref -> {"idle", "insert", "fence"}]
  /\ plan \in [Planner -> Plan]
NodeType ==
  /\ pin \in [Node -> BOOLEAN] /\ presence \in [Node -> {"online", "away", "gone"}]
  /\ agent \in [Node -> Agent]
NetType == late \subseteq Request /\ mishaps \in 0..MaxMishaps

LEMMA TypeParts ==
  TypeOK <=> DbType /\ jobs \subseteq Job /\ CtlType /\ NodeType /\ NetType
BY DEF TypeOK, DbType, CtlType, NodeType, NetType, RefsType, ReplicaState, Job, Plan,
       Task, Answer, Agent, Request, Op, Result

\* A plan to trim that removes nothing more is over.
TrimPlans ==
  \A p \in Planner : plan[p].kind = "trim" => plan[p].remove # 0 /\ plan[p].verify = {}

\* What the reports and late requests of a node say.
Values(s) == {s[i] : i \in DOMAIN s}
Messages(n) == Values(agent[n].reports) \cup {m \in late : m.node = n}

\* What may come of an operation.
Fits(result, op) ==
  \/ result = "failed"
  \/ op = "PIN" /\ result = "pinned"
  \/ op = "VERIFY" /\ result = "verified"
  \/ op = "UNPIN" /\ result = "unpinned"
  \/ op = "UNPIN_VERIFY" /\ result \in {"verified", "unpinned"}

IdsAreUnique == \A j, k \in jobs : j.node = k.node /\ j.id = k.id => j = k

AboutTheirJobs ==
  \A n \in Node : \A j \in At(n) :
    /\ \A t \in agent[n].todo : t.id = j.id => t.op = j.op
    /\ \A m \in Messages(n) :
         m.id = j.id => m.result = "authorize" \/ Fits(m.result, j.op)

TypeInv ==
  /\ DbType /\ jobs \subseteq Job /\ CtlType /\ NodeType /\ NetType
  /\ TrimPlans /\ IdsAreUnique /\ AboutTheirJobs

-----------------------------------------------------------------------------
(* Sequences, sets and records.                                            *)

LEMMA AppendValues ==
  ASSUME NEW S, NEW s \in Seq(S), NEW x \in S
  PROVE  Append(s, x) \in Seq(S) /\ Values(Append(s, x)) = Values(s) \cup {x}
<1>1. /\ Append(s, x) \in Seq(S) /\ Len(s) \in Nat
      /\ DOMAIN s = 1..Len(s) /\ DOMAIN Append(s, x) = 1..Len(s) + 1
      /\ \A i \in 1..Len(s) : Append(s, x)[i] = s[i]
      /\ Append(s, x)[Len(s) + 1] = x
  OBVIOUS
<1> HIDE DEF Values
<1>2. ASSUME NEW v \in Values(Append(s, x))  PROVE v \in Values(s) \cup {x}
  <2>1. PICK i \in 1..Len(s) + 1 : v = Append(s, x)[i]
    BY <1>1 DEF Values
  <2>2. i \in 1..Len(s) \/ i = Len(s) + 1
    BY <1>1
  <2>3. QED  BY <1>1, <2>1, <2>2 DEF Values
<1>3. ASSUME NEW v \in Values(s)  PROVE v \in Values(Append(s, x))
  <2>1. PICK i \in 1..Len(s) : v = s[i]
    BY <1>1 DEF Values
  <2>2. i \in 1..Len(s) + 1
    BY <1>1
  <2>3. QED  BY <1>1, <2>1, <2>2 DEF Values
<1>4. x \in Values(Append(s, x))
  <2>1. Len(s) + 1 \in 1..Len(s) + 1
    BY <1>1
  <2>2. QED  BY <1>1, <2>1 DEF Values
<1>5. QED  BY <1>1, <1>2, <1>3, <1>4

LEMMA TailValues ==
  ASSUME NEW S, NEW s \in Seq(S), s # <<>>
  PROVE  /\ Tail(s) \in Seq(S) /\ Head(s) \in Values(s) /\ Head(s) \in S
         /\ Values(Tail(s)) \subseteq Values(s)
<1>1. /\ Len(s) \in Nat \ {0} /\ DOMAIN s = 1..Len(s) /\ Head(s) = s[1]
      /\ Tail(s) \in Seq(S) /\ DOMAIN Tail(s) = 1..Len(s) - 1
      /\ \A i \in 1..Len(s) - 1 : Tail(s)[i] = s[i + 1]
      /\ \A i \in 1..Len(s) : s[i] \in S
  OBVIOUS
<1>2. 1 \in 1..Len(s)
  BY <1>1
<1>3. ASSUME NEW v \in Values(Tail(s))  PROVE v \in Values(s)
  <2>1. PICK i \in 1..Len(s) - 1 : v = Tail(s)[i]
    BY <1>1 DEF Values
  <2>2. i + 1 \in 1..Len(s)
    BY <1>1
  <2>3. QED  BY <1>1, <2>1, <2>2 DEF Values
<1>4. QED  BY <1>1, <1>2, <1>3 DEF Values

LEMMA NodeSets ==
  ASSUME NEW S, S \subseteq Node
  PROVE  IsFiniteSet(S) /\ Cardinality(S) \in Nat
BY NodesFinite, FS_Subset, FS_CardinalityType

LEMMA MishapCounts ==
  ASSUME NetType, Mishap
  PROVE  mishaps' \in 0..MaxMishaps
BY NumbersAssumption DEF NetType, Mishap

LEMMA MissingType ==
  ASSUME NEW a \in Nat, NEW b \in Nat
  PROVE  Missing(a, b) \in Nat
BY DEF Missing

-----------------------------------------------------------------------------
(* How the jobs of a step relate to those before it.                       *)

\* The same job in another state or delivery.
Same(j, k) ==
  /\ j.node = k.node /\ j.id = k.id /\ j.op = k.op
  /\ j.gen = k.gen /\ j.reason = k.reason

\* No new jobs.
Descends ==
  /\ jobs' \subseteq Job
  /\ \A k \in jobs' : \E j \in jobs : Same(j, k)
  /\ \A j, k \in jobs' : j.node = k.node /\ j.id = k.id => j = k

\* Nor a new authorisation.
Calm ==
  /\ Descends
  /\ \A k \in jobs' : k \in jobs \/ k.state = "waiting"

LEMMA FewerJobs ==
  ASSUME TypeInv, jobs' \subseteq jobs
  PROVE  Calm
BY DEF TypeInv, Calm, Descends, Same, IdsAreUnique

LEMMA ReplaceJob ==
  ASSUME TypeInv, NEW j \in jobs, NEW k \in Job, Same(j, k), Replace(j, k)
  PROVE  Descends /\ \A l \in jobs' : l \in jobs \/ l = k
BY DEF TypeInv, Descends, Same, IdsAreUnique, Replace

LEMMA RetryJob ==
  ASSUME TypeInv, NEW j \in jobs, Retry(j)
  PROVE  Calm
<1> DEFINE k == [j EXCEPT !.state = "waiting", !.lease = 0]
<1>1. k \in Job /\ Same(j, k) /\ k.state = "waiting"
  BY DEF TypeInv, Job, Same
<1>2. Replace(j, k)
  BY DEF Retry
<1>3. QED  BY <1>1, <1>2, ReplaceJob DEF Calm

LEMMA LeaseJobs ==
  ASSUME TypeInv, NEW n \in Node, NEW due \in SUBSET Deliverable(n), NEW t \in Token,
         Lease(n, due, t)
  PROVE  Calm
<1> DEFINE Leased(j) == [j EXCEPT !.lease = t]
           Now(j) == IF j \in due THEN Leased(j) ELSE j
<1>1. due \subseteq jobs /\ \A j \in due : j.state = "waiting"
  BY DEF Deliverable, At, Waiting
<1>2. \A j \in due : Leased(j) \in Job /\ Same(j, Leased(j)) /\ Leased(j).state = "waiting"
  BY <1>1 DEF TypeInv, Job, Same
<1>3. jobs' = (jobs \ due) \cup {Leased(j) : j \in due}
  BY DEF Lease
<1> HIDE DEF Leased
<1>4. \A k \in jobs' : \E j \in jobs : k = Now(j)
  BY <1>1, <1>3
<1>5. \A j \in jobs : /\ Now(j) \in Job /\ Same(j, Now(j))
                      /\ Now(j) = j \/ Now(j).state = "waiting"
  BY <1>2 DEF TypeInv, Same
<1> HIDE DEF Now
<1>6. \A j, k \in jobs' : j.node = k.node /\ j.id = k.id => j = k
  BY <1>4, <1>5 DEF TypeInv, IdsAreUnique, Same
<1>7. QED  BY <1>4, <1>5, <1>6 DEF Calm, Descends

\* Jobs, tasks and messages go on being about each other.
LEMMA StillAbout ==
  ASSUME TypeInv, Descends,
         \A n \in Node : \A t \in agent'[n].todo :
           t \in agent[n].todo \/ \E j \in At(n) : t.id = j.id /\ t.op = j.op,
         \A n \in Node : \A m \in Messages(n)' :
           \/ \E l \in Messages(n) : m.id = l.id /\ m.result = l.result
           \/ \E t \in agent[n].todo : /\ m.id = t.id
                                       /\ m.result = "authorize" \/ Fits(m.result, t.op)
  PROVE  IdsAreUnique' /\ AboutTheirJobs'
<1>1. IdsAreUnique'
  BY DEF Descends, IdsAreUnique
<1>2. ASSUME NEW n \in Node, NEW k \in At(n)'
      PROVE  /\ \A t \in agent'[n].todo : t.id = k.id => t.op = k.op
             /\ \A m \in Messages(n)' :
                  m.id = k.id => m.result = "authorize" \/ Fits(m.result, k.op)
  <2>1. PICK j \in At(n) : j.id = k.id /\ j.op = k.op
    BY DEF At, Descends, Same
  <2>2. /\ \A t \in agent[n].todo : t.id = j.id => t.op = j.op
        /\ \A m \in Messages(n) :
             m.id = j.id => m.result = "authorize" \/ Fits(m.result, j.op)
    BY DEF TypeInv, AboutTheirJobs
  <2>3. \A i \in At(n) : i.id = j.id => i = j
    BY DEF TypeInv, IdsAreUnique, At
  <2>4. QED  BY <2>1, <2>2, <2>3
<1>3. QED  BY <1>1, <1>2 DEF AboutTheirJobs

\* A new job has an id that nothing names.
LEMMA NewJobAbout ==
  ASSUME TypeInv, UNCHANGED <<agent, late>>,
         \A k \in jobs' : k \in jobs \/ (k.node \in Node /\ k.id \notin UsedIds(k.node)),
         \A j, k \in jobs' : /\ j.node = k.node /\ j.id = k.id
                             /\ j \notin jobs /\ k \notin jobs
                             => j = k
  PROVE  IdsAreUnique' /\ AboutTheirJobs'
<1>1. ASSUME NEW k \in jobs' \ jobs
      PROVE  /\ \A j \in jobs : j.node = k.node => j.id # k.id
             /\ \A t \in agent[k.node].todo : t.id # k.id
             /\ \A m \in Messages(k.node) : m.id # k.id
  <2>1. k.node \in Node /\ k.id \notin UsedIds(k.node)
    OBVIOUS
  <2>2. QED  BY <2>1 DEF UsedIds, At, Messages, Values
<1>2. IdsAreUnique'
  BY <1>1 DEF TypeInv, IdsAreUnique
<1>3. \A n \in Node : Messages(n)' = Messages(n)
  BY DEF Messages
<1>4. ASSUME NEW n \in Node, NEW k \in At(n)'
      PROVE  /\ \A t \in agent[n].todo : t.id = k.id => t.op = k.op
             /\ \A m \in Messages(n) :
                  m.id = k.id => m.result = "authorize" \/ Fits(m.result, k.op)
  <2>1. CASE k \in jobs
    BY <2>1 DEF TypeInv, AboutTheirJobs, At
  <2>2. CASE k \notin jobs
    BY <1>1, <2>2 DEF At
  <2>3. QED  BY <2>1, <2>2
<1>5. QED  BY <1>2, <1>3, <1>4 DEF AboutTheirJobs

-----------------------------------------------------------------------------
(* References.                                                             *)

LEMMA ReferenceTypes ==
  ASSUME TypeInv, CountInv', NEW r \in Ref, Users(r) \/ Registering(r)
  PROVE  TypeInv'
<1> DEFINE n == Source[r]
<1>1. n \in Node
  BY RefsFinite
<1>2. UNCHANGED <<plan, presence, agent, late, mishaps, mode>>
  BY DEF Users, Registering, RegisterCheck, RegisterRejected, RegisterInsert,
         RegisterFence, ReleaseOne, ReleaseLast, ctlVars, nodeVars
<1>3. refcount' \in Nat /\ RefsType'
  <2>1. IsFiniteSet(Live') /\ refcount' = Cardinality(Live')
    <3>1. Live' \subseteq Ref
      BY DEF Live
    <3>2. QED  BY <3>1, RefsFinite, FS_Subset DEF CountInv, RefcountIsLiveRefs
  <2>2. QED  BY <2>1, FS_CardinalityType DEF CountInv
<1>4. gen' \in Nat /\ released' \in BOOLEAN
  <2>1. CASE RegisterCheck(r) \/ RegisterRejected(r) \/ RegisterInsert(r) \/ ReleaseOne(r)
    <3>1. UNCHANGED <<gen, released>>
      BY <2>1 DEF RegisterCheck, RegisterRejected, RegisterInsert, ReleaseOne, dbVars
    <3>2. QED  BY <3>1 DEF TypeInv, DbType
  <2>2. CASE RegisterFence(r)
    <3>1. CASE UNCHANGED <<gen, released>>
      BY <3>1 DEF TypeInv, DbType
    <3>2. CASE Resurrect
      <4>1. gen' = gen + 1 /\ released' = FALSE
        BY <3>2 DEF Resurrect
      <4>2. gen \in Nat
        BY DEF TypeInv, DbType
      <4>3. gen' \in Nat
        BY <4>1, <4>2
      <4>4. QED  BY <4>1, <4>3, Zenon
    <3>3. QED  BY <2>2, <3>1, <3>2 DEF RegisterFence
  <2>3. CASE ReleaseLast(r)
    BY <2>3 DEF TypeInv, DbType, ReleaseLast
  <2>4. QED  BY <2>1, <2>2, <2>3 DEF Users, Registering
<1>5. desired' \in [Node -> BOOLEAN] /\ rstate' \in [Node -> ReplicaState]
  BY <1>1 DEF TypeInv, DbType, ReplicaState, Users, Registering, RegisterCheck,
         RegisterRejected, RegisterInsert, RegisterFence, Resurrect, ReleaseOne,
         ReleaseLast, dbVars
<1>6. pin' \in [Node -> BOOLEAN] /\ reg' \in [Ref -> {"idle", "insert", "fence"}]
  BY <1>1 DEF TypeInv, CtlType, NodeType, Uploaded, Users, Registering, RegisterCheck,
         RegisterRejected, RegisterInsert, RegisterFence, ReleaseOne, ReleaseLast,
         ctlVars, nodeVars
<1>7. jobs' \subseteq jobs
  BY DEF Users, Registering, RegisterCheck, RegisterRejected, RegisterInsert,
         RegisterFence, Resurrect, ReleaseOne, ReleaseLast, dbVars
<1>8. jobs' \subseteq Job /\ Descends
  BY <1>7, FewerJobs DEF Calm, Descends
<1>9. IdsAreUnique' /\ AboutTheirJobs'
  BY <1>2, <1>8, StillAbout DEF Messages
<1>10. QED
  BY <1>2, <1>3, <1>4, <1>5, <1>6, <1>8, <1>9
     DEF TypeInv, DbType, CtlType, NodeType, NetType, TrimPlans

-----------------------------------------------------------------------------
(* Reconciliation.                                                         *)

LEMMA RestType ==
  ASSUME NEW pl \in Plan, pl.kind = "trim" => pl.verify = {}
  PROVE  /\ NoPlan \in Plan /\ Rest(pl) \in Plan
         /\ Rest(pl) = pl \/ Rest(pl) = NoPlan
         /\ Rest(pl).kind = "trim" => Rest(pl).remove # 0 /\ Rest(pl).verify = {}
<1>1. NoPlan \in Plan
  BY DEF NoPlan, Plan
<1>2. Rest(pl) = pl \/ Rest(pl) = NoPlan
  BY DEF Rest
<1>3. ASSUME Rest(pl).kind = "trim"  PROVE Rest(pl).remove # 0 /\ Rest(pl).verify = {}
  <2>1. Rest(pl) # NoPlan
    BY <1>3 DEF NoPlan
  <2>2. Rest(pl) = pl
    BY <1>2, <2>1
  <2>3. CASE pl.verify = {} /\ (pl.cands = {} \/ (pl.kind = "trim" /\ pl.remove = 0))
    BY <2>1, <2>3 DEF Rest
  <2>4. CASE ~(pl.verify = {} /\ (pl.cands = {} \/ (pl.kind = "trim" /\ pl.remove = 0)))
    <3>1. pl.kind = "trim"
      BY <1>3, <2>2
    <3>2. QED  BY <2>2, <2>4, <3>1
  <2>5. QED  BY <2>3, <2>4
<1>4. QED  BY <1>1, <1>2, <1>3

LEMMA ReconcileTypes ==
  ASSUME TypeInv, NEW p \in Planner, Reconcile(p) \/ ReconcileReleased(p)
  PROVE  TypeInv'
<1>1. UNCHANGED <<refcount, gen, released, refs, desired, jobs, mode, reg, nodeVars, late, mishaps>>
  BY DEF Reconcile, ReconcileReleased, dbVars
<1>2. IdsAreUnique' /\ AboutTheirJobs'
  BY <1>1 DEF TypeInv, IdsAreUnique, AboutTheirJobs, At, Messages, nodeVars
<1>3. rstate' \in [Node -> ReplicaState]
  BY DEF TypeInv, DbType, ReplicaState, Reconcile, ReconcileReleased, Observed, dbVars
<1>4. \E new \in Plan : /\ plan' = [plan EXCEPT ![p] = new]
                        /\ new.kind = "trim" => new.remove # 0 /\ new.verify = {}
  <2>0. gen \in Nat /\ 0 \in Nat /\ N \in Nat
    BY PolicyAssumption DEF TypeInv, DbType
  <2>1. CASE ReconcileReleased(p)
    <3> DEFINE left == {n \in Node : rstate[n] \notin {"none", "unpinned"}}
               pl == [NoPlan EXCEPT !.kind = "final", !.cands = left, !.gen = gen]
    <3>1. pl \in Plan /\ pl.kind = "final"
      BY <2>0 DEF Plan, NoPlan
    <3>2. plan' = [plan EXCEPT ![p] = pl]
      BY <2>1 DEF ReconcileReleased
    <3> HIDE DEF pl
    <3>3. QED  BY <3>1, <3>2
  <2>2. CASE Reconcile(p)
    <3> DEFINE state == [n \in Node |-> Observed(n)]
    <3>1. PICK pl \in IF mode = "full" THEN {TrimPlan(state)} ELSE PlacementPlans(state) :
            plan' = [plan EXCEPT ![p] = Rest(pl)]
      BY <2>2 DEF Reconcile
    <3> HIDE DEF state
    <3>2. CASE pl = TrimPlan(state)
      <4> DEFINE pinned == {n \in Node : desired[n] /\ state[n] = "pinned"}
                 active == {j.node : j \in Active(Trim)}
                 left == pinned \ active
      <4>1. active \subseteq Node
        BY DEF Active, TypeInv, Job
      <4>2. /\ Cardinality(pinned) \in Nat /\ Cardinality(active) \in Nat
            /\ Cardinality(left \cap Committable) \in Nat
        BY <4>1, NodeSets
      <4>3. Missing(N + Cardinality(active), Cardinality(pinned)) \in Nat
        <5>1. N + Cardinality(active) \in Nat
          BY <2>0, <4>2
        <5>2. QED  BY <4>2, <5>1, MissingType
      <4>4. pl = [NoPlan EXCEPT !.kind = "trim", !.cands = left, !.gen = gen,
                    !.remove = Missing(N + Cardinality(active), Cardinality(pinned)),
                    !.comm = Cardinality(left \cap Committable)]
        BY <3>2 DEF TrimPlan
      <4>5. left \subseteq Node
        OBVIOUS
      <4> HIDE DEF pinned, active, left
      <4>6. pl \in Plan /\ pl.verify = {} /\ pl.kind = "trim"
        BY <2>0, <4>2, <4>3, <4>4, <4>5 DEF Plan, NoPlan
      <4>7. QED  BY <3>1, <4>6, RestType
    <3>3. CASE pl \in PlacementPlans(state)
      <4> DEFINE due == {n \in Verifiable : /\ desired[n] /\ state[n] = "pinned"
                                            /\ presence[n] = "online"}
                 Place(S, V) == [NoPlan EXCEPT !.kind = "place", !.cands = S, !.verify = V,
                                               !.gen = gen]
                 plans(S) == {Place(S, V) : V \in SUBSET due}
      <4>0. PlacementPlans(state) = UNION {plans(S) : S \in Placements(state)}
        BY DEF PlacementPlans
      <4>1. PICK S \in Placements(state), V \in SUBSET due : pl = Place(S, V)
        <5> HIDE DEF Place, due
        <5>1. PICK S \in Placements(state) : pl \in plans(S)
          BY <3>3, <4>0
        <5>2. QED  BY <5>1
      <4>2. S \subseteq Node /\ V \subseteq Node
        BY FaultsAssumption DEF Placements
      <4>3. pl \in Plan /\ pl.kind = "place"
        BY <2>0, <4>1, <4>2 DEF Plan, NoPlan
      <4>4. QED  BY <3>1, <4>3, RestType
    <3>4. QED  BY <3>1, <3>2, <3>3
  <2>3. QED  BY <2>1, <2>2
<1>5. plan' \in [Planner -> Plan] /\ TrimPlans'
  BY <1>4 DEF TypeInv, CtlType, TrimPlans
<1>6. QED
  BY <1>1, <1>2, <1>3, <1>5
     DEF TypeInv, DbType, RefsType, CtlType, NodeType, NetType, nodeVars

\* A plan goes on with one node less and perhaps a new job.
LEMMA PlannedType ==
  ASSUME TypeInv, NEW p \in Planner, NEW pl \in Plan, Advance(p, pl),
         pl.kind = "trim" => pl.verify = {}
  PROVE  plan' \in [Planner -> Plan] /\ TrimPlans'
BY RestType DEF TypeInv, CtlType, TrimPlans, Advance

LEMMA CreateType ==
  ASSUME TypeInv, NEW n \in Node, NEW op \in Op, NEW g \in Nat,
         NEW reason \in {"", Trim, Final},
         Create(n, op, g, reason) \/ UNCHANGED jobs, UNCHANGED <<agent, late>>
  PROVE  jobs' \subseteq Job /\ IdsAreUnique' /\ AboutTheirJobs'
<1>1. CASE UNCHANGED jobs
  <2>1. Descends /\ jobs' \subseteq Job
    BY <1>1, FewerJobs DEF Calm, Descends
  <2>2. QED  BY <2>1, StillAbout DEF Messages
<1>2. CASE Create(n, op, g, reason)
  <2>1. PICK i \in JobId : /\ i \notin UsedIds(n)
                           /\ jobs' = jobs \cup {NewJob(n, op, g, reason, i)}
    BY <1>2 DEF Create, Least
  <2>2. /\ NewJob(n, op, g, reason, i) \in Job
        /\ NewJob(n, op, g, reason, i).node = n /\ NewJob(n, op, g, reason, i).id = i
    BY DEF NewJob, Job
  <2>3. \A k \in jobs' : k \in jobs \/ k = NewJob(n, op, g, reason, i)
    BY <2>1
  <2>4. IdsAreUnique' /\ AboutTheirJobs'
    BY <2>1, <2>2, <2>3, NewJobAbout
  <2>5. QED  BY <2>1, <2>2, <2>4 DEF TypeInv
<1>3. QED  BY <1>1, <1>2

LEMMA PlanningTypes ==
  ASSUME TypeInv, NEW p \in Planner, NEW n \in Node,
         PlanPin(p, n) \/ PlanVerify(p, n) \/ PlanTrim(p, n) \/ PlanFinal(p, n)
  PROVE  TypeInv'
<1>1. /\ UNCHANGED <<refcount, gen, released, refs, mode, reg, late, mishaps>>
      /\ UNCHANGED <<pin, presence, agent>>
  BY DEF PlanPin, PlanVerify, PlanTrim, PlanFinal, nodeVars
<1>2. desired' \in [Node -> BOOLEAN] /\ rstate' \in [Node -> ReplicaState]
  <2>1. CASE UNCHANGED <<desired, rstate>>
    BY <2>1 DEF TypeInv, DbType
  <2>2. CASE /\ desired' = [desired EXCEPT ![n] = TRUE]
             /\ rstate' = [rstate EXCEPT ![n] = "assigned"]
    BY <2>2 DEF TypeInv, DbType, ReplicaState
  <2>3. QED  BY <2>1, <2>2 DEF PlanPin, PlanVerify, PlanTrim, PlanFinal
<1>3. plan[p] \in Plan /\ gen \in Nat /\ plan[p].gen \in Nat
  BY DEF TypeInv, DbType, CtlType, Plan
<1>4. Drop(p, n) \in Plan /\ Drop(p, n).kind = plan[p].kind
      /\ Drop(p, n).verify = plan[p].verify /\ Drop(p, n).remove = plan[p].remove
      /\ Drop(p, n).comm = plan[p].comm
  BY <1>3 DEF Drop, Plan
<1>5. plan[p].kind = "trim" => plan[p].remove # 0 /\ plan[p].verify = {}
  BY DEF TypeInv, TrimPlans
<1>6. \E pl \in Plan : Advance(p, pl) /\ (pl.kind = "trim" => pl.verify = {})
  <2>1. CASE PlanPin(p, n) \/ PlanFinal(p, n)
    BY <1>4, <1>5, <2>1 DEF PlanPin, PlanFinal
  <2>2. CASE PlanVerify(p, n)
    <3> DEFINE pl == [plan[p] EXCEPT !.verify = @ \ {n}]
    <3>1. pl \in Plan /\ pl.kind = "place"
      BY <1>3, <2>2 DEF PlanVerify, Plan
    <3>2. Advance(p, pl)
      BY <2>2 DEF PlanVerify
    <3> HIDE DEF pl
    <3>3. QED  BY <3>1, <3>2
  <2>3. CASE PlanTrim(p, n)
    <3>1. CASE Advance(p, Drop(p, n))
      BY <1>4, <1>5, <3>1
    <3>2. CASE ~Advance(p, Drop(p, n))
      <4> DEFINE pl == [Drop(p, n) EXCEPT !.remove = @ - 1,
                          !.comm = IF n \in Committable THEN @ - 1 ELSE @]
      <4>2. plan[p].remove \in Nat \ {0} /\ plan[p].comm \in Nat
        BY <1>3, <1>5, <2>3 DEF PlanTrim, Plan
      <4>1. Advance(p, pl) /\ (n \in Committable => plan[p].comm > M)
        <5>1. Advance(p, pl)
          BY <2>3, <3>2 DEF PlanTrim
        <5>2. ~(n \in Committable /\ plan[p].comm <= M)
          BY <2>3, <3>2 DEF PlanTrim
        <5>3. QED  BY <4>2, <5>1, <5>2, PolicyAssumption
      <4>3. /\ (IF n \in Committable THEN Drop(p, n).comm - 1 ELSE Drop(p, n).comm) \in Nat
            /\ Drop(p, n).remove - 1 \in Nat
        BY <1>4, <4>1, <4>2, PolicyAssumption
      <4>4. pl \in Plan /\ pl.verify = Drop(p, n).verify
        BY <1>4, <4>3 DEF Plan
      <4> HIDE DEF pl
      <4>5. plan[p].kind = "trim"
        BY <2>3 DEF PlanTrim
      <4>6. QED  BY <1>4, <1>5, <4>1, <4>4, <4>5
    <3>3. QED  BY <3>1, <3>2
  <2>4. QED  BY <2>1, <2>2, <2>3
<1>7. plan' \in [Planner -> Plan] /\ TrimPlans'
  BY <1>6, PlannedType
<1>8. jobs' \subseteq Job /\ IdsAreUnique' /\ AboutTheirJobs'
  <2>1. \E op \in Op, g \in Nat, reason \in {"", Trim, Final} :
          Create(n, op, g, reason) \/ UNCHANGED jobs
    BY <1>3 DEF PlanPin, PlanVerify, PlanTrim, PlanFinal, Op
  <2>2. QED  BY <1>1, <2>1, CreateType
<1>9. QED
  BY <1>1, <1>2, <1>7, <1>8 DEF TypeInv, DbType, RefsType, CtlType, NodeType, NetType

LEMMA RecoverTypes ==
  ASSUME TypeInv, Recover \/ RestartController
  PROVE  TypeInv'
<1>1. /\ UNCHANGED <<refcount, gen, released, refs, desired, rstate, late>>
      /\ UNCHANGED <<pin, presence, agent>>
  BY DEF Recover, RestartController, nodeVars
<1>2. PICK id \in [Questions -> JobId] :
        /\ \A x \in Questions :
             /\ id[x] \notin UsedIds(x[1])
             /\ \A y \in Questions : y # x /\ y[1] = x[1] => id[y] # id[x]
             /\ \A i \in JobId \ UsedIds(x[1]) :
                  i < id[x] => \E y \in Questions : y[1] = x[1] /\ id[y] = i
        /\ jobs' = (jobs \ Authorized) \cup
             {NewJob(x[1], "UNPIN_VERIFY", x[2], "", id[x]) : x \in Questions}
  BY DEF Recover, RestartController, RecoverJobs
<1> DEFINE New(x) == NewJob(x[1], "UNPIN_VERIFY", x[2], "", id[x])
<1>12. /\ \A x \in Questions : id[x] \notin UsedIds(x[1])
       /\ \A x, y \in Questions : y # x /\ y[1] = x[1] => id[y] # id[x]
  BY <1>2
<1>3. \A x \in Questions : x[1] \in Node /\ x[2] \in Nat /\ id[x] \in JobId
  <2>1. \A a \in Authorized : a.node \in Node /\ a.gen \in Nat
    BY DEF TypeInv, Authorized, Job
  <2>2. QED  BY <2>1 DEF Questions
<1>4. \A k \in jobs' : k \in jobs \/ \E x \in Questions : k = New(x)
  BY <1>2
<1>5. \A x \in Questions : New(x) \in Job /\ New(x).node = x[1] /\ New(x).id = id[x]
  BY <1>3 DEF NewJob, Job, Op
<1> HIDE DEF New
<1>6. jobs' \subseteq Job
  BY <1>4, <1>5 DEF TypeInv
<1>7. \A k \in jobs' : k \in jobs \/ (k.node \in Node /\ k.id \notin UsedIds(k.node))
  BY <1>3, <1>4, <1>5, <1>12
<1>8. \A j, k \in jobs' : /\ j.node = k.node /\ j.id = k.id
                           /\ j \notin jobs /\ k \notin jobs
                           => j = k
  BY <1>4, <1>5, <1>12
<1>9. IdsAreUnique' /\ AboutTheirJobs'
  BY <1>1, <1>7, <1>8, NewJobAbout
<1>10. CtlType' /\ TrimPlans' /\ mishaps' \in 0..MaxMishaps
  <2>1. CASE Recover
    BY <2>1 DEF Recover, ctlVars, TypeInv, CtlType, TrimPlans, NetType
  <2>2. CASE RestartController
    <3>1. NoPlan \in Plan /\ NoPlan.kind = "none"
      BY DEF NoPlan, Plan
    <3>2. mishaps' \in 0..MaxMishaps
      BY <2>2, MishapCounts DEF RestartController, TypeInv
    <3>3. QED  BY <2>2, <3>1, <3>2 DEF RestartController, CtlType, TrimPlans
  <2>3. QED  BY <2>1, <2>2
<1>11. QED
  BY <1>1, <1>6, <1>9, <1>10 DEF TypeInv, DbType, RefsType, NodeType, NetType

-----------------------------------------------------------------------------
(* The agents.                                                             *)

LEMMA AgentParts ==
  ASSUME TypeInv, NEW n \in Node
  PROVE  /\ agent[n] \in Agent /\ agent[n].reports \in Seq(Answer)
         /\ agent[n].todo \subseteq Task /\ agent[n].grant \in JobId \cup {0}
BY DEF TypeInv, NodeType, Agent

\* A task is over: it is reported.
LEMMA DoneEffect ==
  ASSUME TypeInv, NEW n \in Node, NEW t \in agent[n].todo, NEW result \in Result,
         Done(n, t, result)
  PROVE  /\ agent' \in [Node -> Agent]
         /\ \A k \in Node \ {n} : agent'[k] = agent[k]
         /\ agent'[n].todo = agent[n].todo \ {t} /\ agent'[n].grant = 0
         /\ Values(agent'[n].reports) = Values(agent[n].reports)
              \cup {[id |-> t.id, lease |-> t.lease, result |-> result]}
<1> DEFINE answer == [id |-> t.id, lease |-> t.lease, result |-> result]
           after == [todo |-> agent[n].todo \ {t}, grant |-> 0,
                     reports |-> Append(agent[n].reports, answer)]
<1>1. t \in Task
  BY AgentParts
<1>2. answer \in Answer
  BY <1>1 DEF Task, Answer
<1>3. /\ Append(agent[n].reports, answer) \in Seq(Answer)
      /\ Values(Append(agent[n].reports, answer)) = Values(agent[n].reports) \cup {answer}
  BY <1>2, AgentParts, AppendValues
<1>4. agent' = [agent EXCEPT ![n] = after]
  BY DEF Done
<1>5. after \in Agent /\ after.todo = agent[n].todo \ {t} /\ after.grant = 0
      /\ after.reports = Append(agent[n].reports, answer)
  BY <1>3, AgentParts DEF Agent
<1> HIDE DEF after
<1>6. agent' \in [Node -> Agent] /\ agent'[n] = after
      /\ \A k \in Node \ {n} : agent'[k] = agent[k]
  BY <1>4, <1>5 DEF TypeInv, NodeType
<1>7. QED  BY <1>3, <1>5, <1>6

\* Besides its answer a step may leave a late request about the same task.
LEMMA DoneAbout ==
  ASSUME TypeInv, NEW n \in Node, NEW t \in agent[n].todo, NEW result \in Result,
         Done(n, t, result), Fits(result, t.op), Descends,
         \A m \in late' : m \in late \/ (m.node = n /\ m.id = t.id /\ m.result = "authorize")
  PROVE  IdsAreUnique' /\ AboutTheirJobs'
<1>1. /\ \A k \in Node \ {n} : agent'[k] = agent[k]
      /\ agent'[n].todo = agent[n].todo \ {t}
      /\ Values(agent'[n].reports) = Values(agent[n].reports)
              \cup {[id |-> t.id, lease |-> t.lease, result |-> result]}
  BY DoneEffect
<1>2. \A k \in Node : agent'[k].todo \subseteq agent[k].todo
  BY <1>1
<1>3. ASSUME NEW k \in Node, NEW m \in Messages(k)'
      PROVE  \/ \E l \in Messages(k) : m.id = l.id /\ m.result = l.result
             \/ \E u \in agent[k].todo : /\ m.id = u.id
                                         /\ m.result = "authorize" \/ Fits(m.result, u.op)
  <2>1. CASE m \in Messages(k)
    BY <2>1
  <2>2. CASE m \in late' /\ m \notin late /\ m.node = k
    BY <2>2
  <2>3. CASE m \in Values(agent'[k].reports) /\ m \notin Messages(k)
    <3>1. k = n /\ m = [id |-> t.id, lease |-> t.lease, result |-> result]
      BY <1>1, <2>3 DEF Messages
    <3>2. QED  BY <3>1
  <2>4. QED  BY <2>1, <2>2, <2>3 DEF Messages
<1>4. QED  BY <1>2, <1>3, StillAbout

LEMMA ExecuteTypes ==
  ASSUME TypeInv, NEW n \in Node, Execute(n) \/ ExecuteBadly(n)
  PROVE  TypeInv'
<1>1. /\ UNCHANGED <<dbVars, ctlVars, presence, late>>
      /\ UNCHANGED mishaps \/ Mishap
  BY DEF Execute, ExecuteBadly
<1>2. PICK t \in agent[n].todo :
        \/ Ends(n, t, Outcome(t.op, pin[n]))
        \/ /\ Mishap
           /\ \E fault \in KuboFaults :
                /\ t.op \in {"VERIFY", "UNPIN_VERIFY"} => fault # "refuses"
                /\ Ends(n, t, FaultyOutcome(t.op, pin[n], fault))
  BY DEF Execute, ExecuteBadly, Runnable
<1>3. t.op \in Op /\ pin[n] \in BOOLEAN
  BY AgentParts DEF Task, TypeInv, NodeType
<1>4. \E result \in Result, pinned \in BOOLEAN :
        /\ Fits(result, t.op) /\ Done(n, t, result)
        /\ pin' = [pin EXCEPT ![n] = pinned]
  <2>1. CASE Ends(n, t, Outcome(t.op, pin[n]))
    <3>1. /\ Outcome(t.op, pin[n])[1] \in Result /\ Outcome(t.op, pin[n])[2] \in BOOLEAN
          /\ Fits(Outcome(t.op, pin[n])[1], t.op)
      BY <1>3 DEF Outcome, Op, Result, Fits
    <3>2. QED  BY <2>1, <3>1 DEF Ends
  <2>2. ASSUME NEW fault \in KuboFaults, Ends(n, t, FaultyOutcome(t.op, pin[n], fault))
        PROVE  \E result \in Result, pinned \in BOOLEAN :
                 /\ Fits(result, t.op) /\ Done(n, t, result)
                 /\ pin' = [pin EXCEPT ![n] = pinned]
    <3>1. fault \in {"refuses", "down", "hangs"}
      BY FaultsAssumption
    <3>2. /\ FaultyOutcome(t.op, pin[n], fault)[1] \in Result
          /\ FaultyOutcome(t.op, pin[n], fault)[2] \in BOOLEAN
          /\ Fits(FaultyOutcome(t.op, pin[n], fault)[1], t.op)
      BY <1>3, <3>1 DEF FaultyOutcome, Op, Result, Fits
    <3>3. QED  BY <2>2, <3>2 DEF Ends
  <2>3. QED  BY <1>2, <2>1, <2>2
<1>5. Descends
  BY <1>1, FewerJobs DEF Calm, Descends, dbVars
<1>6. agent' \in [Node -> Agent] /\ IdsAreUnique' /\ AboutTheirJobs'
  BY <1>1, <1>4, <1>5, DoneEffect, DoneAbout
<1>7. pin' \in [Node -> BOOLEAN]
  BY <1>4 DEF TypeInv, NodeType
<1>8. mishaps' \in 0..MaxMishaps
  BY <1>1, MishapCounts DEF TypeInv, NetType
<1>9. QED
  BY <1>1, <1>6, <1>7, <1>8
     DEF TypeInv, DbType, RefsType, CtlType, NodeType, NetType, TrimPlans, dbVars, ctlVars

LEMMA PollTypes ==
  ASSUME TypeInv, NEW n \in Node, Poll(n) \/ PollUnanswered(n)
  PROVE  TypeInv'
<1>1. /\ UNCHANGED <<refcount, gen, released, refs, desired, rstate, ctlVars, pin, late>>
      /\ UNCHANGED mishaps \/ Mishap
      /\ presence' = [presence EXCEPT ![n] = "online"]
  BY DEF Poll, PollUnanswered
<1>2. PICK due \in SUBSET Deliverable(n), t \in Token :
        /\ Lease(n, due, t)
        /\ \/ UNCHANGED agent
           \/ agent' = [agent EXCEPT ![n].todo =
                {[id |-> j.id, lease |-> t, op |-> j.op] : j \in {k \in due : k.op \in Allowed}}]
  BY DEF Poll, PollUnanswered
<1>3. Calm
  BY <1>2, LeaseJobs
<1>4. due \subseteq At(n) /\ due \subseteq Job
  BY DEF Deliverable, At, TypeInv
<1> DEFINE new == {[id |-> j.id, lease |-> t, op |-> j.op] : j \in {k \in due : k.op \in Allowed}}
<1>5. ASSUME NEW u \in new
      PROVE  u \in Task /\ \E j \in At(n) : u.id = j.id /\ u.op = j.op
  <2>1. PICK j \in due : u = [id |-> j.id, lease |-> t, op |-> j.op]
    OBVIOUS
  <2>2. j \in Job /\ j \in At(n)
    BY <1>4
  <2>3. QED  BY <2>1, <2>2 DEF Job, Task
<1>6. /\ agent' \in [Node -> Agent]
      /\ \A k \in Node : agent'[k].reports = agent[k].reports
      /\ \A k \in Node : agent'[k].todo = agent[k].todo \/ (k = n /\ agent'[k].todo = new)
  <2>1. CASE UNCHANGED agent
    BY <2>1 DEF TypeInv, NodeType
  <2>2. CASE agent' = [agent EXCEPT ![n].todo = new]
    <3> HIDE DEF new
    <3>1. new \subseteq Task
      BY <1>5
    <3>2. [agent[n] EXCEPT !.todo = new] \in Agent
      BY <3>1, AgentParts DEF Agent
    <3>3. QED  BY <2>2, <3>2 DEF TypeInv, NodeType, Agent
  <2>3. QED  BY <1>2, <2>1, <2>2
<1> HIDE DEF new
<1>7. \A k \in Node : Messages(k)' = Messages(k)
  BY <1>1, <1>6 DEF Messages
<1>8. IdsAreUnique' /\ AboutTheirJobs' /\ jobs' \subseteq Job
  BY <1>3, <1>5, <1>6, <1>7, StillAbout DEF Calm, Descends
<1>9. presence' \in [Node -> {"online", "away", "gone"}]
  BY <1>1 DEF TypeInv, NodeType
<1>10. mishaps' \in 0..MaxMishaps
  BY <1>1, MishapCounts DEF TypeInv, NetType
<1>11. QED
  BY <1>1, <1>6, <1>8, <1>9, <1>10
     DEF TypeInv, DbType, RefsType, CtlType, NodeType, NetType, TrimPlans, ctlVars

\* A permission makes a job authorised, a refusal closes it or changes nothing.
LEMMA GrantEffect ==
  ASSUME TypeInv, NEW n \in Node, NEW id, NEW lease, Granted(n, id, lease)
  PROVE  /\ Descends
         /\ \E j \in Named(n, id) :
              /\ MayUnpin(j, lease)
              /\ jobs' = (jobs \ {j}) \cup {[j EXCEPT !.state = "authorized"]}
<1>1. PICK j \in Named(n, id) :
        MayUnpin(j, lease) /\ Replace(j, [j EXCEPT !.state = "authorized"])
  BY DEF Granted
<1>2. j \in jobs
  BY DEF Named, At
<1>3. [j EXCEPT !.state = "authorized"] \in Job /\ Same(j, [j EXCEPT !.state = "authorized"])
  BY <1>2 DEF TypeInv, Job, Same
<1>4. Descends
  BY <1>1, <1>2, <1>3, ReplaceJob
<1>5. QED  BY <1>1, <1>4 DEF Replace

LEMMA DenyEffect ==
  ASSUME TypeInv, NEW n, NEW id, NEW lease, Denied(n, id, lease)
  PROVE  jobs' \subseteq jobs /\ Calm
BY FewerJobs DEF Denied

LEMMA AuthorizeTypes ==
  ASSUME TypeInv, NEW n \in Node,
         \/ AuthorizeGranted(n) \/ AuthorizeUnanswered(n)
         \/ AuthorizeDenied(n) \/ AuthorizeDelayed(n)
  PROVE  TypeInv'
<1>1. /\ UNCHANGED <<refcount, gen, released, refs, desired, rstate, ctlVars, pin, presence>>
      /\ UNCHANGED mishaps \/ Mishap
  BY DEF AuthorizeGranted, AuthorizeUnanswered, AuthorizeDenied, AuthorizeDelayed, dbVars
<1>2. mishaps' \in 0..MaxMishaps
  BY <1>1, MishapCounts DEF TypeInv, NetType
<1>3. CASE AuthorizeGranted(n)
  <2>1. PICK t \in agent[n].todo :
          Granted(n, t.id, t.lease) /\ agent' = [agent EXCEPT ![n].grant = t.id]
    BY <1>3 DEF AuthorizeGranted, Asking
  <2>2. Descends
    BY <2>1, GrantEffect
  <2>3. t.id \in JobId
    BY AgentParts DEF Task
  <2>4. [agent[n] EXCEPT !.grant = t.id] \in Agent
    BY <2>3, AgentParts DEF Agent
  <2>5. /\ agent' \in [Node -> Agent]
        /\ \A k \in Node : agent'[k].todo = agent[k].todo /\ agent'[k].reports = agent[k].reports
    BY <2>1, <2>4 DEF TypeInv, NodeType, Agent
  <2>6. UNCHANGED late
    BY <1>3 DEF AuthorizeGranted
  <2>7. \A k \in Node : Messages(k)' = Messages(k)
    BY <2>5, <2>6 DEF Messages
  <2>8. IdsAreUnique' /\ AboutTheirJobs' /\ jobs' \subseteq Job
    BY <2>2, <2>5, <2>7, StillAbout DEF Descends
  <2>9. QED
    BY <1>1, <1>2, <2>5, <2>6, <2>8
       DEF TypeInv, DbType, RefsType, CtlType, NodeType, NetType, TrimPlans, ctlVars
<1>4. CASE AuthorizeUnanswered(n) \/ AuthorizeDenied(n) \/ AuthorizeDelayed(n)
  <2>1. PICK t \in agent[n].todo :
          /\ Done(n, t, "failed")
          /\ Granted(n, t.id, t.lease) \/ Denied(n, t.id, t.lease) \/ UNCHANGED jobs
          /\ \/ UNCHANGED late
             \/ late' = late \cup {[node |-> n, id |-> t.id, lease |-> t.lease,
                                     result |-> "authorize"]}
    BY <1>4 DEF AuthorizeUnanswered, AuthorizeDenied, AuthorizeDelayed, Asking, dbVars
  <2>2. Descends
    BY <2>1, GrantEffect, DenyEffect, FewerJobs DEF Calm
  <2>3. t \in Task /\ "failed" \in Result /\ Fits("failed", t.op)
    BY AgentParts DEF Result, Fits
  <2>4. /\ late' \subseteq Request
        /\ \A m \in late' : m \in late \/ (m.node = n /\ m.id = t.id /\ m.result = "authorize")
    BY <2>1, <2>3 DEF TypeInv, NetType, Request, Task
  <2>5. agent' \in [Node -> Agent]
    BY <2>1, <2>3, DoneEffect
  <2>6. IdsAreUnique' /\ AboutTheirJobs' /\ jobs' \subseteq Job
    BY <2>1, <2>2, <2>3, <2>4, DoneAbout DEF Descends
  <2>7. QED
    BY <1>1, <1>2, <2>4, <2>5, <2>6
       DEF TypeInv, DbType, RefsType, CtlType, NodeType, NetType, TrimPlans, ctlVars
<1>5. QED  BY <1>3, <1>4

\* A report settles the job it answers, closes those it shows to be over, or
\* changes nothing.
LEMMA HandleEffect ==
  ASSUME TypeInv, NEW n \in Node, NEW m, Handle(n, m), m.result \in Result,
         \A j \in At(n) : m.id = j.id => Fits(m.result, j.op)
  PROVE  /\ Calm
         /\ \/ UNCHANGED <<rstate, desired>>
            \/ \E state \in ReplicaState, want \in BOOLEAN : SetReplica(n, state, want)
<1>1. CASE \E j \in At(n) : j.id = m.id /\ Answers(j, m)
  <2>1. PICK j \in At(n) : j.id = m.id /\ Settle(n, j, m.result)
    BY <1>1 DEF Handle
  <2>2. j \in jobs /\ j.op \in Op /\ Fits(m.result, j.op)
    BY <2>1 DEF At, TypeInv, Job
  <2>3. Retry(j) \/ Close(j)
    BY <2>1, <2>2 DEF Settle, Op, Result, Fits
  <2>4. Calm
    BY <2>2, <2>3, RetryJob, FewerJobs DEF Close
  <2>5. desired[n] \in BOOLEAN
    BY DEF TypeInv, DbType
  <2>6. \/ UNCHANGED <<rstate, desired>>
        \/ \E state \in ReplicaState, want \in {TRUE, FALSE, desired[n]} : SetReplica(n, state, want)
    BY <2>1, <2>2 DEF Settle, Op, Result, Fits, ReplicaState
  <2>7. QED  BY <2>4, <2>5, <2>6
<1>2. CASE ~\E j \in At(n) : j.id = m.id /\ Answers(j, m)
  <2>1. jobs' \subseteq jobs /\ UNCHANGED <<rstate, desired>>
    BY <1>2 DEF Handle
  <2>2. QED  BY <2>1, FewerJobs
<1>3. QED  BY <1>1, <1>2

LEMMA HandleTypes ==
  ASSUME TypeInv, NEW n \in Node, NEW m, Handle(n, m), m.result \in Result,
         \A j \in At(n) : m.id = j.id => Fits(m.result, j.op)
  PROVE  /\ Descends
         /\ desired' \in [Node -> BOOLEAN] /\ rstate' \in [Node -> ReplicaState]
<1>1. Descends
  BY HandleEffect DEF Calm
<1>2. CASE UNCHANGED <<rstate, desired>>
  BY <1>1, <1>2 DEF TypeInv, DbType
<1>3. CASE \E state \in ReplicaState, want \in BOOLEAN : SetReplica(n, state, want)
  BY <1>1, <1>3 DEF SetReplica, TypeInv, DbType
<1>4. QED  BY <1>2, <1>3, HandleEffect

LEMMA ReportTypes ==
  ASSUME TypeInv, NEW n \in Node, Report(n) \/ ReportUnanswered(n) \/ ReportDelayed(n)
  PROVE  TypeInv'
<1> DEFINE m == Head(agent[n].reports)
<1>1. /\ UNCHANGED <<refcount, gen, released, refs, ctlVars, pin>>
      /\ UNCHANGED mishaps \/ Mishap
  BY DEF Report, ReportUnanswered, ReportDelayed, dbVars, nodeVars
<1>2. mishaps' \in 0..MaxMishaps
  BY <1>1, MishapCounts DEF TypeInv, NetType
<1>3. /\ agent[n].reports \in Seq(Answer) /\ agent[n].reports # <<>>
      /\ m \in Values(agent[n].reports) /\ m \in Answer
      /\ Tail(agent[n].reports) \in Seq(Answer)
      /\ Values(Tail(agent[n].reports)) \subseteq Values(agent[n].reports)
  BY AgentParts, TailValues DEF Report, ReportUnanswered, ReportDelayed
<1> HIDE DEF m
<1>4. m.result \in Result /\ m.result # "authorize" /\ m.id \in JobId /\ m.lease \in Token
  BY <1>3 DEF Answer, Result
<1>5. \A j \in At(n) : m.id = j.id => Fits(m.result, j.op)
  BY <1>3, <1>4 DEF TypeInv, AboutTheirJobs, Messages
<1>6. CASE Report(n) \/ ReportUnanswered(n)
  <2>1. Handle(n, m) /\ UNCHANGED late /\ presence' = [presence EXCEPT ![n] = "online"]
    BY <1>6 DEF Report, ReportUnanswered, m
  <2>2. /\ Descends
        /\ desired' \in [Node -> BOOLEAN] /\ rstate' \in [Node -> ReplicaState]
    BY <1>4, <1>5, <2>1, HandleTypes
  <2>3. UNCHANGED agent \/ agent' = [agent EXCEPT ![n].reports = Tail(agent[n].reports)]
    BY <1>6 DEF Report, ReportUnanswered
  <2>4. /\ agent' \in [Node -> Agent]
        /\ \A k \in Node : /\ agent'[k].todo = agent[k].todo
                           /\ Values(agent'[k].reports) \subseteq Values(agent[k].reports)
    <3>1. CASE UNCHANGED agent
      BY <3>1 DEF TypeInv, NodeType
    <3>2. CASE agent' = [agent EXCEPT ![n].reports = Tail(agent[n].reports)]
      <4>1. [agent[n] EXCEPT !.reports = Tail(agent[n].reports)] \in Agent
        BY <1>3, AgentParts DEF Agent
      <4>2. QED  BY <1>3, <3>2, <4>1 DEF TypeInv, NodeType, Agent
    <3>3. QED  BY <2>3, <3>1, <3>2
  <2>5. \A k \in Node : Messages(k)' \subseteq Messages(k)
    BY <2>1, <2>4 DEF Messages
  <2>6. IdsAreUnique' /\ AboutTheirJobs' /\ jobs' \subseteq Job
    BY <2>2, <2>4, <2>5, StillAbout DEF Descends
  <2>7. presence' \in [Node -> {"online", "away", "gone"}]
    BY <2>1 DEF TypeInv, NodeType
  <2>8. QED
    BY <1>1, <1>2, <2>1, <2>2, <2>4, <2>6, <2>7
       DEF TypeInv, DbType, RefsType, CtlType, NodeType, NetType, TrimPlans, ctlVars
<1>7. CASE ReportDelayed(n)
  <2> DEFINE l == [node |-> n, id |-> m.id, lease |-> m.lease, result |-> m.result]
  <2>1. UNCHANGED <<dbVars, nodeVars>> /\ late' = late \cup {l}
    BY <1>7 DEF ReportDelayed, m
  <2>2. l \in Request /\ l.id = m.id /\ l.result = m.result /\ l.node = n
    BY <1>4 DEF Request
  <2> HIDE DEF l
  <2>3. ASSUME NEW k \in Node, NEW x \in Messages(k)'
        PROVE  \E y \in Messages(k) : x.id = y.id /\ x.result = y.result
    BY <1>3, <2>1, <2>2 DEF Messages, nodeVars
  <2>4. Descends
    BY <2>1, FewerJobs DEF Calm, dbVars
  <2>5. \A k \in Node : agent'[k].todo = agent[k].todo
    BY <2>1 DEF nodeVars
  <2>6. IdsAreUnique' /\ AboutTheirJobs'
    BY <2>3, <2>4, <2>5, StillAbout
  <2>7. late' \subseteq Request
    BY <2>1, <2>2 DEF TypeInv, NetType
  <2>8. QED
    BY <1>1, <1>2, <2>1, <2>6, <2>7
       DEF TypeInv, DbType, RefsType, CtlType, NodeType, NetType, TrimPlans, dbVars,
           ctlVars, nodeVars
<1>8. QED  BY <1>6, <1>7

LEMMA LateTypes ==
  ASSUME TypeInv, NEW m \in late, HandleLate(m)
  PROVE  TypeInv'
<1>1. /\ UNCHANGED <<refcount, gen, released, refs, ctlVars, pin, agent, mishaps>>
      /\ late' = late \ {m}
  BY DEF HandleLate
<1>2. /\ m.node \in Node /\ m.result \in Result \cup {"authorize"}
      /\ m \in Messages(m.node)
  BY DEF TypeInv, NetType, Request, Messages
<1>3. /\ Descends
      /\ desired' \in [Node -> BOOLEAN] /\ rstate' \in [Node -> ReplicaState]
      /\ presence' \in [Node -> {"online", "away", "gone"}]
  <2>1. CASE m.result = "authorize"
    <3>1. /\ Granted(m.node, m.id, m.lease) \/ Denied(m.node, m.id, m.lease)
          /\ UNCHANGED <<rstate, desired, presence>>
      BY <2>1 DEF HandleLate
    <3>2. Descends
      BY <1>2, <3>1, GrantEffect, DenyEffect DEF Calm
    <3>3. QED  BY <3>1, <3>2 DEF TypeInv, DbType, NodeType
  <2>2. CASE m.result # "authorize"
    <3>1. Handle(m.node, m) /\ presence' = [presence EXCEPT ![m.node] = "online"]
      BY <2>2 DEF HandleLate
    <3>2. m.result \in Result /\ \A j \in At(m.node) : m.id = j.id => Fits(m.result, j.op)
      BY <1>2, <2>2 DEF TypeInv, AboutTheirJobs
    <3>3. presence' \in [Node -> {"online", "away", "gone"}]
      BY <1>2, <3>1 DEF TypeInv, NodeType
    <3>4. QED  BY <1>2, <3>1, <3>2, <3>3, HandleTypes
  <2>3. QED  BY <2>1, <2>2
<1>4. \A k \in Node : Messages(k)' \subseteq Messages(k)
  BY <1>1 DEF Messages
<1>5. IdsAreUnique' /\ AboutTheirJobs' /\ jobs' \subseteq Job
  BY <1>1, <1>3, <1>4, StillAbout DEF Descends
<1>6. QED
  BY <1>1, <1>3, <1>5
     DEF TypeInv, DbType, RefsType, CtlType, NodeType, NetType, TrimPlans, ctlVars

LEMMA AgentFaultTypes ==
  ASSUME TypeInv, NEW n \in Node, RestartAgent(n) \/ FallSilent(n)
  PROVE  TypeInv'
<1>1. UNCHANGED <<dbVars, ctlVars, pin, late>> /\ (Mishap \/ UNCHANGED mishaps)
  BY DEF RestartAgent, FallSilent
<1>2. mishaps' \in 0..MaxMishaps
  BY <1>1, MishapCounts DEF TypeInv, NetType
<1>3. /\ agent' \in [Node -> Agent]
      /\ \A k \in Node : /\ agent'[k].todo \subseteq agent[k].todo
                         /\ Values(agent'[k].reports) \subseteq Values(agent[k].reports)
  <2>1. CASE RestartAgent(n)
    <3> DEFINE fresh == [todo |-> {}, grant |-> 0, reports |-> <<>>]
    <3>1. fresh \in Agent /\ fresh.todo = {} /\ Values(fresh.reports) = {}
      BY DEF Agent, Values
    <3>2. agent' = [agent EXCEPT ![n] = fresh]
      BY <2>1 DEF RestartAgent
    <3> HIDE DEF fresh
    <3>3. QED  BY <3>1, <3>2 DEF TypeInv, NodeType
  <2>2. CASE FallSilent(n)
    BY <2>2 DEF FallSilent, TypeInv, NodeType
  <2>3. QED  BY <2>1, <2>2
<1>4. presence' \in [Node -> {"online", "away", "gone"}]
  BY DEF RestartAgent, FallSilent, TypeInv, NodeType
<1>5. Descends
  BY <1>1, FewerJobs DEF Calm, dbVars
<1>6. \A k \in Node : Messages(k)' \subseteq Messages(k)
  BY <1>1, <1>3 DEF Messages
<1>7. IdsAreUnique' /\ AboutTheirJobs'
  BY <1>3, <1>5, <1>6, StillAbout
<1>8. QED
  BY <1>1, <1>2, <1>3, <1>4, <1>7
     DEF TypeInv, DbType, RefsType, CtlType, NodeType, NetType, TrimPlans, dbVars, ctlVars

-----------------------------------------------------------------------------
LEMMA InitTypes == Init => TypeInv
<1> SUFFICES ASSUME Init PROVE TypeInv
  OBVIOUS
<1>1. NoPlan \in Plan /\ NoPlan.kind = "none"
  BY DEF NoPlan, Plan
<1>2. [todo |-> {}, grant |-> 0, reports |-> <<>>] \in Agent
  BY DEF Agent
<1>3. 0 \in 0..MaxMishaps
  BY NumbersAssumption
<1>4. DbType
  BY DEF Init, DbType, RefsType, ReplicaState
<1>5. CtlType /\ TrimPlans
  BY <1>1 DEF Init, CtlType, TrimPlans
<1>6. NodeType /\ NetType
  BY <1>2, <1>3 DEF Init, NodeType, NetType
<1>7. IdsAreUnique /\ AboutTheirJobs /\ jobs \subseteq Job
  BY DEF Init, IdsAreUnique, AboutTheirJobs, At
<1>8. QED  BY <1>4, <1>5, <1>6, <1>7 DEF TypeInv

LEMMA NextTypes ==
  ASSUME TypeInv, CountInv', [Next]_vars
  PROVE  TypeInv'
<1>1. ASSUME NEW r \in Ref, Users(r) \/ Registering(r)  PROVE TypeInv'
  BY <1>1, ReferenceTypes
<1>2. ASSUME NEW p \in Planner, Planning(p)  PROVE TypeInv'
  BY <1>2, ReconcileTypes, PlanningTypes DEF Planning
<1>3. ASSUME NEW n \in Node, AgentLoop(n) \/ GoesWrong(n)  PROVE TypeInv'
  BY <1>3, PollTypes, ExecuteTypes, AuthorizeTypes, ReportTypes, AgentFaultTypes
     DEF AgentLoop, GoesWrong
<1>4. ASSUME NEW m \in late, HandleLate(m)  PROVE TypeInv'
  BY <1>4, LateTypes
<1>5. CASE Recover \/ RestartController
  BY <1>5, RecoverTypes
<1>6. CASE UNCHANGED vars
  BY <1>6 DEF vars, dbVars, ctlVars, nodeVars, TypeInv, DbType, RefsType, CtlType,
              NodeType, NetType, TrimPlans, IdsAreUnique, AboutTheirJobs, At, Messages
<1>7. QED  BY <1>1, <1>2, <1>3, <1>4, <1>5, <1>6 DEF Next

\* The ids of apply_job_report and authorize_unpin name the job that was handed
\* out, a plan never removes more than it found, and every row has its type.
THEOREM ReplTypeCorrect == Spec => []TypeOK
<1>1. Init => TypeInv /\ CountInv
  BY InitTypes, InitCount
<1>2. TypeInv /\ CountInv /\ [Next]_vars => TypeInv' /\ CountInv'
  BY NextTypes, NextCount
<1>3. TypeInv => TypeOK
  BY TypeParts DEF TypeInv
<1>4. QED  BY <1>1, <1>2, <1>3, PTL DEF Spec

-----------------------------------------------------------------------------
(* What a reconciling thread plans and which jobs come of it.              *)

\* A new plan is of the current generation; it is final when the content is
\* released.  A plan that is carried on stays of its kind.
LEMMA PlanSteps ==
  ASSUME TypeInv, NEW p \in Planner, Planning(p)
  PROVE  \E pl : /\ plan' = [plan EXCEPT ![p] = pl]
                 /\ \/ pl = NoPlan
                    \/ pl.gen = gen /\ (pl.kind = "final" => released)
                    \/ pl.gen = plan[p].gen /\ pl.kind = plan[p].kind
<1>1. \A pl : Rest(pl) \in {pl, NoPlan}
  BY DEF Rest
<1>2. CASE ReconcileReleased(p)
  <2> DEFINE left == {n \in Node : rstate[n] \notin {"none", "unpinned"}}
             new == [NoPlan EXCEPT !.kind = "final", !.cands = left, !.gen = gen]
  <2>1. released /\ plan' = [plan EXCEPT ![p] = new]
    BY <1>2 DEF ReconcileReleased
  <2>2. new.gen = gen
    BY DEF NoPlan
  <2> HIDE DEF new
  <2>3. QED  BY <2>1, <2>2
<1>3. CASE Reconcile(p)
  <2> DEFINE state == [n \in Node |-> Observed(n)]
  <2>1. PICK pl \in IF mode = "full" THEN {TrimPlan(state)} ELSE PlacementPlans(state) :
          plan' = [plan EXCEPT ![p] = Rest(pl)]
    BY <1>3 DEF Reconcile
  <2> HIDE DEF state
  <2>2. CASE pl = TrimPlan(state)
    <3>1. pl.kind = "trim" /\ pl.gen = gen
      BY <2>2 DEF TrimPlan, NoPlan
    <3>2. QED  BY <1>1, <2>1, <3>1
  <2>3. CASE pl \in PlacementPlans(state)
    <3> DEFINE due == {n \in Verifiable : /\ desired[n] /\ state[n] = "pinned"
                                          /\ presence[n] = "online"}
               Place(S, V) == [NoPlan EXCEPT !.kind = "place", !.cands = S, !.verify = V,
                                             !.gen = gen]
               plans(S) == {Place(S, V) : V \in SUBSET due}
    <3>1. PlacementPlans(state) = UNION {plans(S) : S \in Placements(state)}
      BY DEF PlacementPlans
    <3>2. \A S, V : Place(S, V).kind = "place" /\ Place(S, V).gen = gen
      BY DEF NoPlan
    <3> HIDE DEF Place, due
    <3>3. PICK S \in Placements(state) : pl \in plans(S)
      BY <2>3, <3>1
    <3>4. pl.kind = "place" /\ pl.gen = gen
      BY <3>2, <3>3
    <3>5. QED  BY <1>1, <2>1, <3>4
  <2>4. QED  BY <2>1, <2>2, <2>3
<1>4. ASSUME NEW n \in Node,
             PlanPin(p, n) \/ PlanVerify(p, n) \/ PlanTrim(p, n) \/ PlanFinal(p, n)
      PROVE  \E pl : /\ plan' = [plan EXCEPT ![p] = pl]
                     /\ pl = NoPlan \/ (pl.gen = plan[p].gen /\ pl.kind = plan[p].kind)
  <2>1. /\ plan[p] \in Plan /\ Drop(p, n) \in Plan
        /\ Drop(p, n).kind = plan[p].kind /\ Drop(p, n).gen = plan[p].gen
    BY DEF Drop, Plan, TypeInv, CtlType
  <2>2. PICK pl : Advance(p, pl) /\ pl.kind = plan[p].kind /\ pl.gen = plan[p].gen
    <3>1. CASE Advance(p, Drop(p, n))
      BY <2>1, <3>1
    <3>2. CASE PlanVerify(p, n)
      <4> DEFINE new == [plan[p] EXCEPT !.verify = @ \ {n}]
      <4>1. new.kind = plan[p].kind /\ new.gen = plan[p].gen
        BY <2>1 DEF Plan
      <4>2. Advance(p, new)
        BY <3>2 DEF PlanVerify
      <4> HIDE DEF new
      <4>3. QED  BY <4>1, <4>2
    <3>3. CASE PlanTrim(p, n) /\ ~Advance(p, Drop(p, n))
      <4> DEFINE new == [Drop(p, n) EXCEPT !.remove = @ - 1,
                          !.comm = IF n \in Committable THEN @ - 1 ELSE @]
      <4>1. Advance(p, new)
        BY <3>3 DEF PlanTrim
      <4>2. new.kind = plan[p].kind /\ new.gen = plan[p].gen
        BY <2>1 DEF Plan
      <4> HIDE DEF new
      <4>3. QED  BY <4>1, <4>2
    <3>4. QED  BY <1>4, <3>1, <3>2, <3>3 DEF PlanPin, PlanFinal
  <2>3. QED  BY <1>1, <2>2 DEF Advance
<1>5. QED  BY <1>2, <1>3, <1>4 DEF Planning

LEMMA PlannedJobs ==
  ASSUME TypeInv, NEW p \in Planner, Planning(p), NEW k \in jobs' \ jobs
  PROVE  /\ k.state = "waiting"
         /\ \/ k.op # "UNPIN" /\ k.reason = "" /\ k.gen \in {gen, plan[p].gen}
            \/ k.reason = Trim /\ k.gen = gen
            \/ k.reason = Final /\ k.gen = gen /\ plan[p].kind = "final" /\ plan[p].gen = gen
<1>1. \A n, op, g, reason :
        Create(n, op, g, reason) =>
          k.state = "waiting" /\ k.op = op /\ k.gen = g /\ k.reason = reason
  BY DEF Create, NewJob
<1>2. PICK n \in Node :
        \/ Create(n, "PIN", gen, "") \/ Create(n, "VERIFY", plan[p].gen, "")
        \/ Create(n, "UNPIN", gen, Trim)
        \/ plan[p].kind = "final" /\ plan[p].gen = gen /\ Create(n, "UNPIN", gen, Final)
  BY DEF Planning, Reconcile, ReconcileReleased, PlanPin, PlanVerify, PlanTrim,
         PlanFinal, dbVars
<1>3. CASE Create(n, "PIN", gen, "") \/ Create(n, "VERIFY", plan[p].gen, "")
  <2>1. /\ k.op = "PIN" \/ k.op = "VERIFY"
        /\ k.state = "waiting" /\ k.reason = "" /\ (k.gen = gen \/ k.gen = plan[p].gen)
    BY <1>1, <1>3
  <2>2. QED  BY <2>1
<1>4. CASE Create(n, "UNPIN", gen, Trim)
  BY <1>1, <1>4
<1>5. CASE plan[p].kind = "final" /\ plan[p].gen = gen /\ Create(n, "UNPIN", gen, Final)
  BY <1>1, <1>5
<1>6. QED  BY <1>2, <1>3, <1>4, <1>5

\* A recovery leaves nothing authorised.
LEMMA RecoveredJobs ==
  ASSUME Recover \/ RestartController
  PROVE  /\ Authorized' = {}
         /\ \A k \in jobs' :
              \/ k \in jobs
              \/ /\ k.state = "waiting" /\ k.op # "UNPIN" /\ k.reason = ""
                 /\ \E j \in jobs : k.gen = j.gen
<1>1. PICK id \in [Questions -> JobId] :
        jobs' = (jobs \ Authorized) \cup
          {NewJob(x[1], "UNPIN_VERIFY", x[2], "", id[x]) : x \in Questions}
  BY DEF Recover, RestartController, RecoverJobs
<1> DEFINE New(x) == NewJob(x[1], "UNPIN_VERIFY", x[2], "", id[x])
<1>2. ASSUME NEW k \in jobs'
      PROVE  k \in jobs \ Authorized \/ \E x \in Questions : k = New(x)
  BY <1>1
<1>3. ASSUME NEW x \in Questions
      PROVE  /\ New(x).state = "waiting" /\ New(x).op # "UNPIN" /\ New(x).reason = ""
             /\ \E j \in jobs : New(x).gen = j.gen
  <2>1. PICK j \in jobs : x = <<j.node, j.gen>>
    BY DEF Questions, Authorized
  <2>2. QED  BY <2>1 DEF NewJob
<1> HIDE DEF New
<1>4. \A k \in jobs' : k \in jobs \ Authorized \/ k.state = "waiting"
  BY <1>2, <1>3
<1>5. QED  BY <1>2, <1>3, <1>4 DEF Authorized

\* Of the steps of an agent only a permission authorises anything.
LEMMA AgentsCalm ==
  ASSUME TypeInv, NEW n \in Node, AgentLoop(n) \/ GoesWrong(n)
  PROVE  Calm \/ AuthorizeGranted(n) \/ AuthorizeUnanswered(n)
<1>1. CASE Poll(n) \/ PollUnanswered(n)
  BY <1>1, LeaseJobs DEF Poll, PollUnanswered
<1>2. CASE Report(n) \/ ReportUnanswered(n)
  <2> DEFINE m == Head(agent[n].reports)
  <2>1. /\ agent[n].reports \in Seq(Answer) /\ agent[n].reports # <<>>
        /\ m \in Values(agent[n].reports) /\ m \in Answer /\ Handle(n, m)
    BY <1>2, AgentParts, TailValues DEF Report, ReportUnanswered
  <2> HIDE DEF m
  <2>2. m.result \in Result /\ m.result # "authorize"
    BY <2>1 DEF Answer, Result
  <2>3. \A j \in At(n) : m.id = j.id => Fits(m.result, j.op)
    BY <2>1, <2>2 DEF TypeInv, AboutTheirJobs, Messages
  <2>4. QED  BY <2>1, <2>2, <2>3, HandleEffect
<1>3. CASE AuthorizeDenied(n)
  BY <1>3, DenyEffect DEF AuthorizeDenied
<1>4. CASE \/ Execute(n) \/ ExecuteBadly(n) \/ AuthorizeDelayed(n) \/ ReportDelayed(n)
           \/ RestartAgent(n) \/ FallSilent(n)
  <2>1. UNCHANGED jobs
    BY <1>4 DEF Execute, ExecuteBadly, AuthorizeDelayed, ReportDelayed, RestartAgent,
                FallSilent, dbVars
  <2>2. QED  BY <2>1, FewerJobs
<1>5. QED  BY <1>1, <1>2, <1>3, <1>4 DEF AgentLoop, GoesWrong

LEMMA LateCalm ==
  ASSUME TypeInv, NEW m \in late, HandleLate(m)
  PROVE  Calm \/ Granted(m.node, m.id, m.lease)
<1>1. /\ m.node \in Node /\ m.result \in Result \cup {"authorize"} /\ m \in Messages(m.node)
  BY DEF TypeInv, NetType, Request, Messages
<1>2. CASE m.result = "authorize"
  BY <1>1, <1>2, DenyEffect DEF HandleLate
<1>3. CASE m.result # "authorize"
  <2>1. Handle(m.node, m) /\ m.result \in Result
    BY <1>1, <1>3 DEF HandleLate
  <2>2. \A j \in At(m.node) : m.id = j.id => Fits(m.result, j.op)
    BY <1>1, <1>3 DEF TypeInv, AboutTheirJobs
  <2>3. QED  BY <1>1, <2>1, <2>2, HandleEffect
<1>4. QED  BY <1>2, <1>3

-----------------------------------------------------------------------------
(* What an authorisation rests on, whatever comes back.                    *)

\* Jobs and plans are of no later generation; those of a final release that
\* are of the current one find the content released.
Dated ==
  /\ \A j \in jobs : j.gen <= gen /\ (j.reason = Final /\ j.gen = gen => released)
  /\ \A p \in Planner : plan[p].gen <= gen /\ (plan[p].kind = "final" /\ plan[p].gen = gen
                                                => released)

StandInv == TypeInv /\ Dated /\ AuthorizationStands

LEMMA StandNumbers ==
  ASSUME StandInv
  PROVE  /\ gen \in Nat /\ refcount \in Nat /\ \A j \in jobs : j.gen \in Nat
         /\ reg \in [Ref -> {"idle", "insert", "fence"}]
         /\ \A p \in Planner : plan[p].gen \in Nat
BY DEF StandInv, TypeInv, DbType, CtlType, Job, Plan

\* No step but a permission makes a job authorised.
LEMMA CalmKeepsReasons ==
  ASSUME StandInv, Calm, UNCHANGED <<gen, refcount, released, reg, plan>>
  PROVE  Dated' /\ AuthorizationStands'
<1>1. Dated'
  BY DEF StandInv, Calm, Descends, Same, Dated
<1>2. \A k \in Authorized' : k \in Authorized
  BY DEF Calm, Authorized
<1>3. QED  BY <1>1, <1>2 DEF StandInv, AuthorizationStands

LEMMA GrantHasReason ==
  ASSUME StandInv, NEW n \in Node, NEW id, NEW lease, Granted(n, id, lease),
         UNCHANGED <<gen, refcount, released, reg, plan>>
  PROVE  Dated' /\ AuthorizationStands'
<1> DEFINE Auth(j) == [j EXCEPT !.state = "authorized"]
<1>1. PICK j \in Named(n, id) : MayUnpin(j, lease) /\ jobs' = (jobs \ {j}) \cup {Auth(j)}
  BY GrantEffect DEF StandInv
<1>2. j \in jobs
  BY <1>1 DEF Named, At
<1>3. Auth(j).gen = j.gen /\ Auth(j).reason = j.reason
  BY <1>2 DEF StandInv, TypeInv, Job
<1>4. j.reason = Trim => refcount > 0
  BY <1>1 DEF MayUnpin, TrimCapacity
<1>5. j.reason = Final => refcount = 0
  BY <1>1 DEF MayUnpin, Trim, Final
<1> HIDE DEF Auth
<1>6. Dated'
  BY <1>1, <1>2, <1>3 DEF StandInv, Dated
<1>7. \A k \in Authorized' : k \in Authorized \/ k = Auth(j)
  BY <1>1 DEF Authorized
<1>8. refcount = 0 => ~(refcount > 0)
  OBVIOUS
<1>9. ASSUME NEW k \in Authorized'
      PROVE  /\ k.reason = Trim => refcount > 0
             /\ k.reason = Final /\ refcount > 0 =>
                  k.gen # gen \/ \E r \in Ref : reg[r] = "fence"
  BY <1>3, <1>4, <1>5, <1>7, <1>8 DEF StandInv, AuthorizationStands
<1>10. QED  BY <1>6, <1>9 DEF AuthorizationStands

\* A reference that comes back under a final release meets the fence.
LEMMA ReferencesKeepReasons ==
  ASSUME StandInv, NEW r \in Ref, Users(r) \/ Registering(r)
  PROVE  Dated' /\ AuthorizationStands'
<1>1. UNCHANGED plan
  BY DEF Users, Registering, RegisterCheck, RegisterRejected, RegisterInsert,
         RegisterFence, ReleaseOne, ReleaseLast, ctlVars
<1>2. Dated /\ AuthorizationStands
  BY DEF StandInv
<1>3. CASE RegisterCheck(r) \/ RegisterRejected(r)
  <2>1. UNCHANGED <<gen, refcount, released, jobs>>
    BY <1>3 DEF RegisterCheck, RegisterRejected, dbVars
  <2>2. \A q \in Ref : reg[q] = "fence" => reg'[q] = "fence"
    BY <1>3, StandNumbers DEF RegisterCheck, RegisterRejected, ctlVars
  <2>3. QED  BY <1>1, <1>2, <2>1, <2>2 DEF Dated, AuthorizationStands, Authorized
<1>4. CASE RegisterInsert(r)
  <2>1. UNCHANGED <<gen, released, jobs>> /\ reg'[r] = "fence" /\ refcount' >= refcount
    BY <1>4, StandNumbers DEF RegisterInsert
  <2>2. refcount > 0 => refcount' > 0
    <3>1. refcount \in Nat /\ refcount' \in Nat
      BY <1>4, StandNumbers DEF RegisterInsert
    <3>2. QED  BY <2>1, <3>1
  <2>3. QED  BY <1>1, <1>2, <2>1, <2>2 DEF Dated, AuthorizationStands, Authorized
<1>5. CASE RegisterFence(r) /\ refcount > 0 /\ released
  <2>1. gen' = gen + 1 /\ jobs' \subseteq jobs /\ UNCHANGED refcount
    BY <1>5 DEF RegisterFence, Resurrect
  <2>2. gen' > gen /\ \A g \in Nat : g <= gen => g <= gen' /\ g # gen'
    BY <2>1, StandNumbers
  <2>3. Dated'
    BY <1>1, <1>2, <2>1, <2>2, StandNumbers DEF Dated
  <2>4. \A j \in Authorized' : j.gen # gen'
    BY <1>2, <2>1, <2>2, StandNumbers DEF Dated, Authorized
  <2>5. QED  BY <1>5, <2>1, <2>3, <2>4 DEF AuthorizationStands
<1>6. CASE RegisterFence(r) /\ ~(refcount > 0 /\ released)
  <2>1. UNCHANGED <<gen, refcount, released, jobs>>
    BY <1>6 DEF RegisterFence
  <2>2. \A j \in Authorized : j.reason = Final /\ refcount > 0 => j.gen # gen
    BY <1>2, <1>6 DEF Dated, Authorized
  <2>3. QED  BY <1>1, <1>2, <2>1, <2>2 DEF Dated, AuthorizationStands, Authorized
<1>7. CASE ReleaseOne(r)
  <2>1. UNCHANGED <<gen, released, jobs, reg>> /\ refcount > 1 /\ refcount' = refcount - 1
    BY <1>7 DEF ReleaseOne, ctlVars
  <2>2. refcount > 0 /\ refcount' > 0
    BY <2>1, StandNumbers
  <2>3. QED  BY <1>1, <1>2, <2>1, <2>2 DEF Dated, AuthorizationStands, Authorized
<1>8. CASE ReleaseLast(r)
  <2>1. /\ Authorized = {} /\ released' /\ gen' = gen + 1 /\ jobs' \subseteq jobs
    BY <1>8 DEF ReleaseLast
  <2>2. gen' > gen /\ \A g \in Nat : g <= gen => g <= gen'
    BY <2>1, StandNumbers
  <2>3. Dated'
    BY <1>1, <1>2, <2>1, <2>2, StandNumbers DEF Dated
  <2>4. QED  BY <2>1, <2>3 DEF AuthorizationStands, Authorized
<1>9. QED  BY <1>3, <1>4, <1>5, <1>6, <1>7, <1>8 DEF Users, Registering

LEMMA PlansKeepReasons ==
  ASSUME StandInv, NEW p \in Planner, Planning(p)
  PROVE  Dated' /\ AuthorizationStands'
<1>1. UNCHANGED <<refcount, gen, released, reg>>
  BY DEF Planning, Reconcile, ReconcileReleased, PlanPin, PlanVerify, PlanTrim, PlanFinal,
         dbVars
<1>2. TypeInv /\ Dated /\ AuthorizationStands /\ plan \in [Planner -> Plan]
  BY DEF StandInv, TypeInv, CtlType
<1>3. \A k \in jobs' : k \in jobs \/ (/\ k.state = "waiting" /\ k.gen <= gen
                                      /\ k.reason = Final /\ k.gen = gen => released)
  <2>1. ASSUME NEW k \in jobs' \ jobs
        PROVE  /\ k.state = "waiting" /\ k.gen \in {gen, plan[p].gen}
               /\ k.reason = Final => plan[p].kind = "final" /\ plan[p].gen = gen
    BY <1>2, PlannedJobs DEF Trim, Final
  <2>2. gen <= gen /\ plan[p].gen <= gen
    BY <1>2, StandNumbers DEF Dated
  <2>3. QED  BY <1>2, <2>1, <2>2 DEF Dated
<1>4. \A q \in Planner : /\ plan'[q].gen <= gen
                         /\ plan'[q].kind = "final" /\ plan'[q].gen = gen => released
  <2>1. PICK pl : /\ plan' = [plan EXCEPT ![p] = pl]
                  /\ \/ pl = NoPlan
                     \/ pl.gen = gen /\ (pl.kind = "final" => released)
                     \/ pl.gen = plan[p].gen /\ pl.kind = plan[p].kind
    BY <1>2, PlanSteps
  <2>2. pl.gen <= gen /\ (pl.kind = "final" /\ pl.gen = gen => released)
    <3>1. NoPlan.gen = 0 /\ NoPlan.kind = "none"
      BY DEF NoPlan
    <3>2. 0 <= gen /\ gen <= gen
      BY StandNumbers
    <3>3. QED  BY <1>2, <2>1, <3>1, <3>2 DEF Dated
  <2>3. QED  BY <1>2, <2>1, <2>2 DEF Dated
<1>5. \A k \in Authorized' : k \in Authorized
  BY <1>3 DEF Authorized
<1>6. QED  BY <1>1, <1>2, <1>3, <1>4, <1>5 DEF Dated, AuthorizationStands

LEMMA RecoveryKeepsReasons ==
  ASSUME StandInv, Recover \/ RestartController
  PROVE  Dated' /\ AuthorizationStands'
<1>1. UNCHANGED <<refcount, gen, released>> /\ (UNCHANGED plan \/ plan' = [p \in Planner |-> NoPlan])
  BY DEF Recover, RestartController, ctlVars
<1>2. \A p \in Planner : /\ plan'[p].gen <= gen
                         /\ plan'[p].kind = "final" /\ plan'[p].gen = gen => released
  <2>1. 0 <= gen
    BY StandNumbers
  <2>2. QED  BY <1>1, <2>1 DEF StandInv, Dated, NoPlan
<1>3. \A k \in jobs' : k.gen <= gen /\ (k.reason = Final /\ k.gen = gen => released)
  BY RecoveredJobs DEF StandInv, Dated, Final
<1>4. QED  BY <1>1, <1>2, <1>3, RecoveredJobs DEF Dated, AuthorizationStands

LEMMA AgentsKeepReasons ==
  ASSUME StandInv, NEW n \in Node, AgentLoop(n) \/ GoesWrong(n)
  PROVE  Dated' /\ AuthorizationStands'
<1>1. UNCHANGED <<refcount, gen, released, reg, plan>>
  BY DEF AgentLoop, GoesWrong, Poll, PollUnanswered, Execute, ExecuteBadly,
         AuthorizeGranted, AuthorizeDenied, AuthorizeUnanswered, AuthorizeDelayed,
         Report, ReportUnanswered, ReportDelayed, RestartAgent, FallSilent, dbVars, ctlVars
<1>2. TypeInv
  BY DEF StandInv
<1>3. CASE AuthorizeGranted(n) \/ AuthorizeUnanswered(n)
  BY <1>1, <1>3, GrantHasReason DEF AuthorizeGranted, AuthorizeUnanswered
<1>4. Calm \/ AuthorizeGranted(n) \/ AuthorizeUnanswered(n)
  BY <1>2, AgentsCalm
<1>5. QED  BY <1>1, <1>3, <1>4, CalmKeepsReasons

LEMMA LateKeepsReasons ==
  ASSUME StandInv, NEW m \in late, HandleLate(m)
  PROVE  Dated' /\ AuthorizationStands'
<1>1. UNCHANGED <<refcount, gen, released, reg, plan>>
  BY DEF HandleLate, ctlVars
<1>2. TypeInv /\ m.node \in Node
  BY DEF StandInv, TypeInv, NetType, Request
<1>3. Calm \/ Granted(m.node, m.id, m.lease)
  BY <1>2, LateCalm
<1>4. QED  BY <1>1, <1>2, <1>3, CalmKeepsReasons, GrantHasReason

\* An unpin whose outcome is unknown keeps its reason: while a trim is authorised
\* the last reference is not released (release_object), and a reference
\* that comes back under an authorised final unpin puts the content into a new
\* generation before its registration is over (register_object), in any mode,
\* with any repeated, interrupted or returning registrations and any recovery.
THEOREM AuthorisationsStand == Spec => []AuthorizationStands
<1>1. Init => StandInv
  <2>1. Init => Dated /\ AuthorizationStands
    BY DEF Init, Dated, AuthorizationStands, Authorized, NoPlan
  <2>2. QED  BY <2>1, InitTypes DEF StandInv
<1>2. StandInv /\ CountInv' /\ [Next]_vars => StandInv'
  <2> SUFFICES ASSUME StandInv, CountInv', [Next]_vars  PROVE StandInv'
    OBVIOUS
  <2>1. TypeInv'
    BY NextTypes DEF StandInv
  <2>2. CASE Next
    BY <2>1, <2>2, ReferencesKeepReasons, PlansKeepReasons, AgentsKeepReasons,
       LateKeepsReasons, RecoveryKeepsReasons DEF Next, StandInv
  <2>3. CASE UNCHANGED vars
    BY <2>1, <2>3 DEF vars, dbVars, ctlVars, StandInv, Dated, AuthorizationStands, Authorized
  <2>4. QED  BY <2>2, <2>3
<1>3. Init => CountInv
  BY InitCount
<1>4. CountInv /\ [Next]_vars => CountInv'
  BY NextCount
<1>5. StandInv => AuthorizationStands
  BY DEF StandInv
<1>6. QED  BY <1>1, <1>2, <1>3, <1>4, <1>5, PTL DEF Spec

-----------------------------------------------------------------------------
(* The first life of a content: what is given up is not registered again.  *)
(* Generation 1 is then the one in which it is referred to, and nothing     *)
(* changes under an authorised unpin.                                      *)

FirstLife == refcount > 0 => gen = 1

OneLife ==
  /\ gen >= 1
  /\ gen # 1 => refcount = 0
  /\ released => gen # 1
  /\ \A p \in Planner : plan[p].kind = "final" => gen # 1

JobReasons ==
  \A j \in jobs : /\ j.op = "UNPIN" => j.reason \in {Trim, Final}
                  /\ j.reason = Final => gen # 1

\* An authorised job is of this generation, and its reason is still given.
Standing == \A j \in Authorized : j.gen = gen /\ (j.reason = Final <=> refcount = 0)

LifeInv == TypeInv /\ OneLife /\ JobReasons /\ Standing

\* No step but a permission makes a job authorised.
LEMMA CalmStands ==
  ASSUME LifeInv, Calm, UNCHANGED <<gen, refcount>>
  PROVE  JobReasons' /\ Standing'
<1>1. JobReasons'
  BY DEF LifeInv, Calm, Descends, Same, JobReasons
<1>2. \A k \in Authorized' : k \in Authorized
  BY DEF Calm, Authorized
<1>3. QED  BY <1>1, <1>2 DEF LifeInv, Standing

LEMMA NewJobStands ==
  ASSUME LifeInv, UNCHANGED <<gen, refcount>>,
         \A k \in jobs' : \/ k \in jobs
                          \/ /\ k.state = "waiting"
                             /\ k.op = "UNPIN" => k.reason \in {Trim, Final}
                             /\ k.reason = Final => gen # 1
  PROVE  JobReasons' /\ Standing'
<1>1. JobReasons'
  BY DEF LifeInv, JobReasons
<1>2. \A k \in Authorized' : k \in Authorized
  BY DEF Authorized
<1>3. QED  BY <1>1, <1>2 DEF LifeInv, Standing

LEMMA GrantStands ==
  ASSUME LifeInv, UNCHANGED <<gen, refcount>>, NEW n \in Node, NEW id, NEW lease,
         Granted(n, id, lease)
  PROVE  JobReasons' /\ Standing'
<1> DEFINE Auth(j) == [j EXCEPT !.state = "authorized"]
<1>1. PICK j \in Named(n, id) : MayUnpin(j, lease) /\ jobs' = (jobs \ {j}) \cup {Auth(j)}
  BY GrantEffect DEF LifeInv
<1>2. j \in jobs /\ j.op = "UNPIN"
  BY DEF Named, At
<1>3. /\ Auth(j).gen = j.gen /\ Auth(j).reason = j.reason /\ Auth(j).op = j.op
  BY <1>2 DEF LifeInv, TypeInv, Job
<1>4. j.reason \in {Trim, Final} /\ (j.reason = Final => gen # 1)
  BY <1>2 DEF LifeInv, JobReasons
<1>5. j.gen = gen /\ (j.reason = Final <=> refcount = 0)
  <2>1. CASE j.reason = Trim
    <3>1. TrimCapacity(j.node, j.gen, OtherTrims(j.node))
      BY <1>1, <2>1 DEF MayUnpin
    <3>2. refcount > 0 /\ j.gen = gen
      BY <3>1 DEF TrimCapacity
    <3>3. refcount # 0
      BY <3>2 DEF LifeInv, TypeInv, DbType
    <3>4. QED  BY <2>1, <3>2, <3>3 DEF Trim, Final
  <2>2. CASE j.reason # Trim
    BY <1>1, <1>4, <2>2 DEF MayUnpin
  <2>3. QED  BY <2>1, <2>2
<1> HIDE DEF Auth
<1>6. JobReasons'
  BY <1>1, <1>2, <1>3, <1>4 DEF LifeInv, JobReasons
<1>7. \A k \in Authorized' : k \in Authorized \/ k = Auth(j)
  BY <1>1 DEF Authorized
<1>8. QED  BY <1>3, <1>5, <1>6, <1>7 DEF LifeInv, Standing

\* References come and go.
LEMMA ReferenceStands ==
  ASSUME LifeInv, FirstLife', NEW r \in Ref, Users(r) \/ Registering(r)
  PROVE  OneLife' /\ JobReasons' /\ Standing'
<1>1. UNCHANGED plan
  BY DEF Users, Registering, RegisterCheck, RegisterRejected, RegisterInsert,
         RegisterFence, ReleaseOne, ReleaseLast, ctlVars
<1>2. refcount \in Nat /\ gen \in Nat /\ released \in BOOLEAN
  BY DEF LifeInv, TypeInv, DbType
<1>3. CASE RegisterCheck(r) \/ RegisterRejected(r)
  <2>1. UNCHANGED <<gen, refcount, released, jobs>>
    BY <1>3 DEF RegisterCheck, RegisterRejected, dbVars
  <2>2. OneLife'
    BY <1>1, <2>1 DEF LifeInv, OneLife
  <2>3. Calm
    BY <2>1, FewerJobs DEF LifeInv
  <2>4. QED  BY <2>1, <2>2, <2>3, CalmStands
<1>4. CASE RegisterInsert(r)
  <2>1. UNCHANGED <<gen, released, jobs>> /\ refcount' \in {refcount, refcount + 1}
    BY <1>4 DEF RegisterInsert
  <2>2. refcount' # refcount => gen = 1 /\ refcount' # 0
    <3>1. refcount' # refcount => refcount' = refcount + 1 /\ refcount' > 0 /\ refcount' # 0
      BY <1>2, <2>1
    <3>2. QED  BY <2>1, <3>1 DEF FirstLife
  <2>3. OneLife'
    BY <1>1, <2>1, <2>2 DEF LifeInv, OneLife
  <2>4. JobReasons'
    BY <2>1 DEF LifeInv, JobReasons
  <2>5. \A j \in Authorized : j.reason = Final => gen # 1
    BY DEF LifeInv, JobReasons, Authorized
  <2>6. \A j \in Authorized : j.gen = gen /\ (j.reason = Final <=> refcount' = 0)
    BY <2>2, <2>5 DEF LifeInv, Standing
  <2>7. QED  BY <2>1, <2>3, <2>4, <2>6 DEF Standing, Authorized
<1>5. CASE RegisterFence(r)
  <2>1. ~(refcount > 0 /\ released)
    BY <1>2 DEF LifeInv, OneLife
  <2>2. UNCHANGED <<gen, refcount, released, jobs>>
    BY <1>5, <2>1 DEF RegisterFence
  <2>3. OneLife'
    BY <1>1, <2>2 DEF LifeInv, OneLife
  <2>4. Calm
    BY <2>2, FewerJobs DEF LifeInv
  <2>5. QED  BY <2>2, <2>3, <2>4, CalmStands
<1>6. CASE ReleaseOne(r)
  <2>1. refcount > 1 /\ refcount' = refcount - 1 /\ UNCHANGED <<gen, released, jobs>>
    BY <1>6 DEF ReleaseOne
  <2>2. refcount # 0 /\ refcount' # 0
    BY <1>2, <2>1
  <2>3. OneLife'
    BY <1>1, <2>1, <2>2 DEF LifeInv, OneLife
  <2>4. JobReasons' /\ Standing'
    BY <2>1, <2>2 DEF LifeInv, JobReasons, Standing, Authorized
  <2>5. QED  BY <2>3, <2>4
<1>7. CASE ReleaseLast(r)
  <2>1. /\ Authorized = {} /\ refcount' = 0 /\ gen' = gen + 1 /\ jobs' \subseteq jobs
    BY <1>7 DEF ReleaseLast
  <2>2. gen' >= 1 /\ gen' # 1
    BY <1>2, <2>1 DEF LifeInv, OneLife
  <2>3. OneLife'
    BY <1>1, <2>1, <2>2 DEF OneLife
  <2>4. JobReasons' /\ Standing'
    BY <2>1, <2>2 DEF LifeInv, JobReasons, Standing, Authorized
  <2>5. QED  BY <2>3, <2>4
<1>8. QED  BY <1>3, <1>4, <1>5, <1>6, <1>7 DEF Users, Registering

\* Only a released content is given a plan for its final release.
LEMMA PlansStand ==
  ASSUME LifeInv, NEW p \in Planner, Planning(p)
  PROVE  OneLife' /\ JobReasons' /\ Standing'
<1>1. UNCHANGED <<refcount, gen, released>>
  BY DEF Planning, Reconcile, ReconcileReleased, PlanPin, PlanVerify, PlanTrim, PlanFinal,
         dbVars
<1>2. TypeInv /\ OneLife /\ plan \in [Planner -> Plan]
  BY DEF LifeInv, TypeInv, CtlType
<1>3. \A q \in Planner : plan'[q].kind = "final" => gen # 1
  <2>1. PICK pl : /\ plan' = [plan EXCEPT ![p] = pl]
                  /\ \/ pl = NoPlan
                     \/ pl.gen = gen /\ (pl.kind = "final" => released)
                     \/ pl.gen = plan[p].gen /\ pl.kind = plan[p].kind
    BY <1>2, PlanSteps
  <2>2. pl.kind = "final" => gen # 1
    BY <1>2, <2>1 DEF NoPlan, OneLife
  <2>3. QED  BY <1>2, <2>1, <2>2 DEF OneLife
<1>4. OneLife'
  BY <1>1, <1>2, <1>3 DEF OneLife
<1>5. ASSUME NEW k \in jobs' \ jobs
      PROVE  /\ k.state = "waiting"
             /\ k.op = "UNPIN" => k.reason \in {Trim, Final}
             /\ k.reason = Final => gen # 1
  BY <1>2, PlannedJobs DEF OneLife, Trim, Final
<1>6. QED  BY <1>1, <1>4, <1>5, NewJobStands

LEMMA RecoveryStands ==
  ASSUME LifeInv, Recover \/ RestartController
  PROVE  OneLife' /\ JobReasons' /\ Standing'
<1>1. UNCHANGED <<refcount, gen, released>>
  BY DEF Recover, RestartController
<1>2. JobReasons' /\ Standing'
  BY <1>1, RecoveredJobs, NewJobStands DEF Final
<1>3. CASE Recover
  BY <1>1, <1>2, <1>3 DEF Recover, ctlVars, LifeInv, OneLife
<1>4. CASE RestartController
  BY <1>1, <1>2, <1>4 DEF RestartController, NoPlan, LifeInv, OneLife
<1>5. QED  BY <1>3, <1>4

LEMMA AgentsStand ==
  ASSUME LifeInv, NEW n \in Node, AgentLoop(n) \/ GoesWrong(n)
  PROVE  OneLife' /\ JobReasons' /\ Standing'
<1>1. UNCHANGED <<refcount, gen, released, plan>>
  BY DEF AgentLoop, GoesWrong, Poll, PollUnanswered, Execute, ExecuteBadly,
         AuthorizeGranted, AuthorizeDenied, AuthorizeUnanswered, AuthorizeDelayed,
         Report, ReportUnanswered, ReportDelayed, RestartAgent, FallSilent, dbVars, ctlVars
<1>2. OneLife'
  BY <1>1 DEF LifeInv, OneLife
<1>3. CASE AuthorizeGranted(n) \/ AuthorizeUnanswered(n)
  BY <1>1, <1>2, <1>3, GrantStands DEF AuthorizeGranted, AuthorizeUnanswered
<1>4. Calm \/ AuthorizeGranted(n) \/ AuthorizeUnanswered(n)
  BY AgentsCalm DEF LifeInv
<1>5. QED  BY <1>1, <1>2, <1>3, <1>4, CalmStands

LEMMA LateStands ==
  ASSUME LifeInv, NEW m \in late, HandleLate(m)
  PROVE  OneLife' /\ JobReasons' /\ Standing'
<1>1. UNCHANGED <<refcount, gen, released, plan>>
  BY DEF HandleLate, ctlVars
<1>2. OneLife'
  BY <1>1 DEF LifeInv, OneLife
<1>3. TypeInv /\ m.node \in Node
  BY DEF LifeInv, TypeInv, NetType, Request
<1>4. Calm \/ Granted(m.node, m.id, m.lease)
  BY <1>3, LateCalm
<1>5. QED  BY <1>1, <1>2, <1>3, <1>4, GrantStands, CalmStands

LEMMA NextStands ==
  ASSUME LifeInv, FirstLife', CountInv', [Next]_vars
  PROVE  LifeInv'
<1>1. TypeInv'
  BY NextTypes DEF LifeInv
<1>2. CASE Next
  <2>1. OneLife' /\ JobReasons' /\ Standing'
    BY <1>2, ReferenceStands, PlansStand, AgentsStand, LateStands, RecoveryStands DEF Next
  <2>2. QED  BY <1>1, <2>1 DEF LifeInv
<1>3. CASE UNCHANGED vars
  BY <1>1, <1>3 DEF vars, dbVars, ctlVars, LifeInv, OneLife, JobReasons, Standing, Authorized
<1>4. QED  BY <1>2, <1>3

-----------------------------------------------------------------------------
(* Copies that are on their way.  An assignment is not made a second time,  *)
(* so the job behind it must stay until the copy is there or given up.      *)

OnlyUnpinsAreAuthorized == \A j \in Authorized : j.op = "UNPIN"

RetryInv == LifeInv /\ OnlyUnpinsAreAuthorized /\ AssignmentsAreRetried

\* The jobs that put a copy in place.
Placing(n) == {j \in At(n) : j.op \in {"PIN", "VERIFY"} /\ j.gen = gen}

\* None of those at n is given up.
CarriedOn(n) == \A j \in Placing(n) : \E k \in jobs' : Same(j, k)

LEMMA CalmUnpins ==
  ASSUME OnlyUnpinsAreAuthorized, \A k \in jobs' : k \in jobs \/ k.state = "waiting"
  PROVE  OnlyUnpinsAreAuthorized'
BY DEF OnlyUnpinsAreAuthorized, Authorized

\* A step is harmless to a node whose row and jobs it leaves, whose copy it takes
\* to be there or not wanted, or which it gives a job.
LEMMA NodesAreRetried ==
  ASSUME AssignmentsAreRetried, UNCHANGED gen,
         \A n \in Node :
           \/ /\ CarriedOn(n)
              /\ desired'[n] => desired[n]
              /\ rstate'[n] \in {"assigned", "failed"} => rstate'[n] = rstate[n]
           \/ ~desired'[n]
           \/ rstate'[n] \notin {"assigned", "failed"}
           \/ \E j \in jobs' : /\ j.node = n /\ j.gen = gen
                               /\ j.op = "PIN" \/ (j.op = "VERIFY" /\ rstate'[n] = "failed")
  PROVE  AssignmentsAreRetried'
<1> SUFFICES ASSUME NEW n \in Node, desired'[n]
             PROVE  /\ rstate'[n] = "assigned" => \E j \in At(n)' : j.op = "PIN" /\ j.gen = gen
                    /\ rstate'[n] = "failed" =>
                         \E j \in At(n)' : j.op \in {"PIN", "VERIFY"} /\ j.gen = gen
  BY DEF AssignmentsAreRetried
<1>1. At(n)' = {j \in jobs' : j.node = n}
  BY DEF At
<1>2. CASE CarriedOn(n) /\ desired[n] /\ (rstate'[n] \in {"assigned", "failed"} => rstate'[n] = rstate[n])
  <2>1. ASSUME NEW j \in At(n), j.op \in {"PIN", "VERIFY"}, j.gen = gen
        PROVE  \E k \in At(n)' : k.op = j.op /\ k.gen = gen
    BY <1>1, <1>2, <2>1 DEF CarriedOn, Placing, Same, At
  <2>2. /\ rstate[n] = "assigned" => \E j \in At(n) : j.op = "PIN" /\ j.gen = gen
        /\ rstate[n] = "failed" => \E j \in At(n) : j.op \in {"PIN", "VERIFY"} /\ j.gen = gen
    BY <1>2 DEF AssignmentsAreRetried
  <2>3. QED  BY <1>2, <2>1, <2>2
<1>3. CASE rstate'[n] \notin {"assigned", "failed"}
  BY <1>3
<1>4. CASE \E j \in jobs' : /\ j.node = n /\ j.gen = gen
                            /\ j.op = "PIN" \/ (j.op = "VERIFY" /\ rstate'[n] = "failed")
  BY <1>1, <1>4
<1>5. QED  BY <1>2, <1>3, <1>4

\* Jobs change, rows do not.
LEMMA JobsCarryOn ==
  ASSUME AssignmentsAreRetried, UNCHANGED <<gen, rstate, desired>>, \A n \in Node : CarriedOn(n)
  PROVE  AssignmentsAreRetried'
BY NodesAreRetried

LEMMA KeptJobsCarryOn ==
  ASSUME \A j \in jobs : j \in jobs' \/ j.op \in {"UNPIN", "UNPIN_VERIFY"}
  PROVE  \A n \in Node : CarriedOn(n)
BY DEF CarriedOn, Placing, At, Same

LEMMA ReferenceRetries ==
  ASSUME RetryInv, NEW r \in Ref, Users(r) \/ Registering(r)
  PROVE  OnlyUnpinsAreAuthorized' /\ AssignmentsAreRetried'
<1>1. /\ OnlyUnpinsAreAuthorized /\ AssignmentsAreRetried /\ Source[r] \in Node
      /\ desired \in [Node -> BOOLEAN] /\ rstate \in [Node -> ReplicaState]
  BY RefsFinite DEF RetryInv, LifeInv, TypeInv, DbType
<1>2. CASE ReleaseLast(r)
  <2>1. jobs' \subseteq jobs /\ \A n \in Node : ~desired'[n]
    BY <1>2 DEF ReleaseLast
  <2>2. QED  BY <1>1, <2>1, CalmUnpins DEF AssignmentsAreRetried
<1>3. CASE RegisterInsert(r)
  <2>1. UNCHANGED <<gen, jobs>> /\ rstate'[Source[r]] = "pinned"
    BY <1>1, <1>3 DEF RegisterInsert
  <2>2. \A n \in Node \ {Source[r]} : rstate'[n] = rstate[n] /\ desired'[n] = desired[n]
    BY <1>1, <1>3 DEF RegisterInsert
  <2>3. \A n \in Node : CarriedOn(n)
    BY <2>1, KeptJobsCarryOn
  <2>4. AssignmentsAreRetried'
    BY <1>1, <2>1, <2>2, <2>3, NodesAreRetried
  <2>5. QED  BY <1>1, <2>1, <2>4, CalmUnpins
<1>4. CASE \/ RegisterCheck(r) \/ RegisterRejected(r) \/ RegisterFence(r) \/ ReleaseOne(r)
  <2>1. ~(refcount > 0 /\ released)
    BY DEF RetryInv, LifeInv, OneLife, TypeInv, DbType
  <2>2. UNCHANGED <<gen, jobs, rstate, desired>>
    BY <1>4, <2>1 DEF RegisterCheck, RegisterRejected, RegisterFence, ReleaseOne, dbVars
  <2>3. \A n \in Node : CarriedOn(n)
    BY <2>2, KeptJobsCarryOn
  <2>4. QED  BY <1>1, <2>2, <2>3, JobsCarryOn, CalmUnpins
<1>5. QED  BY <1>2, <1>3, <1>4 DEF Users, Registering

LEMMA PlansRetry ==
  ASSUME RetryInv, NEW p \in Planner, Planning(p)
  PROVE  OnlyUnpinsAreAuthorized' /\ AssignmentsAreRetried'
<1>1. /\ OnlyUnpinsAreAuthorized /\ AssignmentsAreRetried
      /\ desired \in [Node -> BOOLEAN] /\ rstate \in [Node -> ReplicaState]
  BY DEF RetryInv, LifeInv, TypeInv, DbType
<1>2. UNCHANGED gen
  BY DEF Planning, Reconcile, ReconcileReleased, PlanPin, PlanVerify, PlanTrim, PlanFinal,
         dbVars
<1>3. ASSUME NEW n, NEW op, NEW g, NEW reason, Create(n, op, g, reason)
      PROVE  \E k : /\ jobs' = jobs \cup {k} /\ k.state = "waiting"
                    /\ k.node = n /\ k.op = op /\ k.gen = g
  <2>1. PICK i : jobs' = jobs \cup {NewJob(n, op, g, reason, i)}
    BY <1>3 DEF Create
  <2>2. /\ NewJob(n, op, g, reason, i).state = "waiting"
        /\ NewJob(n, op, g, reason, i).node = n
        /\ NewJob(n, op, g, reason, i).op = op /\ NewJob(n, op, g, reason, i).gen = g
    BY DEF NewJob
  <2>3. QED  BY <2>1, <2>2
<1>4. jobs \subseteq jobs' /\ \A k \in jobs' : k \in jobs \/ k.state = "waiting"
  <2>1. \/ UNCHANGED jobs
        \/ \E n, op, g, reason : Create(n, op, g, reason)
    BY DEF Planning, Reconcile, ReconcileReleased, PlanPin, PlanVerify, PlanTrim, PlanFinal,
           dbVars
  <2>2. UNCHANGED jobs \/ \E k : jobs' = jobs \cup {k} /\ k.state = "waiting"
    BY <1>3, <2>1
  <2>3. QED  BY <2>2
<1>5. \A n \in Node : CarriedOn(n)
  BY <1>4, KeptJobsCarryOn
<1>6. OnlyUnpinsAreAuthorized'
  BY <1>1, <1>4, CalmUnpins
<1>7. CASE Reconcile(p)
  <2>1. UNCHANGED desired /\ \A n \in Node : rstate'[n] = Observed(n)
    BY <1>7 DEF Reconcile
  <2>2. \A n \in Node : Observed(n) \in {"assigned", "failed"} => Observed(n) = rstate[n]
    BY DEF Observed
  <2>3. QED  BY <1>1, <1>2, <1>5, <1>6, <2>1, <2>2, NodesAreRetried
<1>8. ASSUME NEW n \in Node, PlanPin(p, n), ~UNCHANGED <<desired, rstate>>
      PROVE  AssignmentsAreRetried'
  <2>1. \A m \in Node \ {n} : rstate'[m] = rstate[m] /\ desired'[m] = desired[m]
    BY <1>1, <1>8 DEF PlanPin
  <2>2. \E j \in jobs' : j.node = n /\ j.op = "PIN" /\ j.gen = gen
    <3>1. \/ \E j \in At(n) : j.op = "PIN" /\ j.gen = gen
          \/ Create(n, "PIN", gen, "")
      BY <1>8 DEF PlanPin
    <3>2. CASE \E j \in At(n) : j.op = "PIN" /\ j.gen = gen
      BY <1>4, <3>2 DEF At
    <3>3. CASE Create(n, "PIN", gen, "")
      <4>1. PICK i \in JobId : jobs' = jobs \cup {NewJob(n, "PIN", gen, "", i)}
        BY <3>3 DEF Create
      <4>2. LET k == NewJob(n, "PIN", gen, "", i)
            IN k.node = n /\ k.op = "PIN" /\ k.gen = gen
        BY DEF NewJob
      <4>3. QED  BY <4>1, <4>2
    <3>4. QED  BY <3>1, <3>2, <3>3
  <2>3. QED  BY <1>1, <1>2, <1>5, <2>1, <2>2, NodesAreRetried
<1>9. CASE UNCHANGED <<desired, rstate>>
  BY <1>1, <1>2, <1>5, <1>6, <1>9, JobsCarryOn
<1>10. Reconcile(p) \/ (\E n \in Node : PlanPin(p, n)) \/ UNCHANGED <<desired, rstate>>
  BY DEF Planning, ReconcileReleased, PlanVerify, PlanTrim, PlanFinal, dbVars
<1>11. QED  BY <1>6, <1>7, <1>8, <1>9, <1>10

\* What is asked again after a recovery are unpins.
LEMMA RecoveryRetries ==
  ASSUME RetryInv, Recover \/ RestartController
  PROVE  OnlyUnpinsAreAuthorized' /\ AssignmentsAreRetried'
<1>1. UNCHANGED <<gen, desired, rstate>>
  BY DEF Recover, RestartController
<1>2. PICK id \in [Questions -> JobId] :
        jobs' = (jobs \ Authorized) \cup
          {NewJob(x[1], "UNPIN_VERIFY", x[2], "", id[x]) : x \in Questions}
  BY DEF Recover, RestartController, RecoverJobs
<1> DEFINE New(x) == NewJob(x[1], "UNPIN_VERIFY", x[2], "", id[x])
<1>3. \A x : New(x).state = "waiting"
  BY DEF NewJob
<1> HIDE DEF New
<1>4. \A k \in jobs' : k \in jobs \/ k.state = "waiting"
  BY <1>2, <1>3 DEF New
<1>5. \A j \in jobs : j \in jobs' \/ j.op = "UNPIN"
  BY <1>2 DEF RetryInv, OnlyUnpinsAreAuthorized
<1>6. \A n \in Node : CarriedOn(n)
  BY <1>5, KeptJobsCarryOn
<1>7. QED  BY <1>1, <1>4, <1>6, CalmUnpins, JobsCarryOn DEF RetryInv

\* A failure keeps its job; a success closes it and confirms the copy; a report
\* from an earlier life closes what belongs to that life.
LEMMA HandleRetries ==
  ASSUME RetryInv, NEW n \in Node, NEW m, Handle(n, m), m.result \in Result, UNCHANGED gen,
         \A j \in At(n) : m.id = j.id => Fits(m.result, j.op)
  PROVE  OnlyUnpinsAreAuthorized' /\ AssignmentsAreRetried'
<1>1. /\ TypeInv /\ OnlyUnpinsAreAuthorized /\ AssignmentsAreRetried
      /\ desired \in [Node -> BOOLEAN] /\ rstate \in [Node -> ReplicaState]
  BY DEF RetryInv, LifeInv, TypeInv, DbType
<1>2. OnlyUnpinsAreAuthorized'
  BY <1>1, HandleEffect, CalmUnpins DEF Calm
<1>3. CASE ~\E j \in At(n) : j.id = m.id /\ Answers(j, m)
  <2>1. jobs' = jobs \ {j \in {i \in At(n) : i.id = m.id} : ~Current(j)}
        /\ UNCHANGED <<rstate, desired>>
    BY <1>3 DEF Handle
  <2>2. \A k \in Node : \A j \in Placing(k) : Current(j)
    BY DEF Placing, Current
  <2>3. \A k \in Node : CarriedOn(k)
    BY <2>1, <2>2 DEF CarriedOn, Placing, At, Same
  <2>4. QED  BY <1>1, <1>2, <2>1, <2>3, JobsCarryOn
<1>4. CASE \E j \in At(n) : j.id = m.id /\ Answers(j, m)
  <2>1. PICK j \in At(n) : j.id = m.id /\ Answers(j, m) /\ Settle(n, j, m.result)
    BY <1>4 DEF Handle
  <2>2. /\ j \in jobs /\ j.node = n /\ j.gen = gen /\ j \in Job /\ j.op \in Op
        /\ Fits(m.result, j.op)
    BY <1>1, <2>1 DEF At, TypeInv, Job, Answers, Current
  <2> DEFINE again == [j EXCEPT !.state = "waiting", !.lease = 0]
  <2>3. Same(j, again)
    BY <2>2 DEF Job, Same
  <2> HIDE DEF again
  <2>4. ASSUME Retry(j)
        PROVE  /\ \A k \in Node : CarriedOn(k)
               /\ again \in jobs' /\ again.node = n /\ again.gen = gen /\ again.op = j.op
    <3>1. jobs' = (jobs \ {j}) \cup {again}
      BY <2>4 DEF Retry, Replace, again
    <3>2. \A k \in Node : CarriedOn(k)
      BY <2>3, <3>1 DEF CarriedOn, Placing, At, Same
    <3>3. QED  BY <2>2, <2>3, <3>1, <3>2 DEF Same
  <2>5. ASSUME Close(j)
        PROVE  \A k \in Node \ {n} : CarriedOn(k)
    BY <2>2, <2>5 DEF Close, CarriedOn, Placing, At, Same
  <2>6. ASSUME NEW state \in ReplicaState, NEW want \in BOOLEAN, SetReplica(n, state, want)
        PROVE  /\ rstate'[n] = state /\ desired'[n] = want
               /\ \A k \in Node \ {n} : rstate'[k] = rstate[k] /\ desired'[k] = desired[k]
    BY <1>1, <2>6 DEF SetReplica
  <2>7. CASE j.op \in {"PIN", "VERIFY"} /\ m.result = "failed"
    <3>1. Retry(j) /\ SetReplica(n, "failed", desired[n])
      BY <2>1, <2>7 DEF Settle
    <3>2. /\ rstate'[n] = "failed"
          /\ \A k \in Node \ {n} : rstate'[k] = rstate[k] /\ desired'[k] = desired[k]
      BY <1>1, <2>6, <3>1 DEF ReplicaState
    <3>3. QED  BY <1>1, <1>2, <2>4, <2>7, <3>1, <3>2, NodesAreRetried
  <2>8. CASE j.op \in {"PIN", "VERIFY"} /\ m.result # "failed"
    <3>1. Close(j) /\ SetReplica(n, "pinned", desired[n])
      BY <2>1, <2>8 DEF Settle
    <3>2. /\ rstate'[n] = "pinned"
          /\ \A k \in Node \ {n} : rstate'[k] = rstate[k] /\ desired'[k] = desired[k]
      BY <1>1, <2>6, <3>1 DEF ReplicaState
    <3>3. QED  BY <1>1, <1>2, <2>5, <3>1, <3>2, NodesAreRetried
  <2>9. CASE j.op \in {"UNPIN", "UNPIN_VERIFY"} /\ m.result = "failed"
    <3>1. Retry(j) /\ UNCHANGED <<rstate, desired>>
      BY <2>1, <2>9 DEF Settle
    <3>2. QED  BY <1>1, <1>2, <2>4, <3>1, JobsCarryOn
  <2>10. CASE j.op \in {"UNPIN", "UNPIN_VERIFY"} /\ m.result # "failed"
    <3>1. Close(j) /\ \E state \in ReplicaState : SetReplica(n, state, FALSE)
      BY <2>1, <2>2, <2>10 DEF Settle, Fits, Result, ReplicaState
    <3>2. /\ ~desired'[n]
          /\ \A k \in Node \ {n} : rstate'[k] = rstate[k] /\ desired'[k] = desired[k]
      BY <2>6, <3>1
    <3>3. QED  BY <1>1, <1>2, <2>5, <3>1, <3>2, NodesAreRetried
  <2>11. QED  BY <2>2, <2>7, <2>8, <2>9, <2>10 DEF Op
<1>5. QED  BY <1>3, <1>4

LEMMA AskingRetries ==
  ASSUME RetryInv, NEW n \in Node, NEW id, NEW lease,
         Granted(n, id, lease) \/ Denied(n, id, lease), UNCHANGED <<gen, rstate, desired>>
  PROVE  OnlyUnpinsAreAuthorized' /\ AssignmentsAreRetried'
<1>1. TypeInv /\ OnlyUnpinsAreAuthorized /\ AssignmentsAreRetried
  BY DEF RetryInv, LifeInv
<1>2. CASE Granted(n, id, lease)
  <2>1. PICK j \in Named(n, id) : jobs' = (jobs \ {j}) \cup {[j EXCEPT !.state = "authorized"]}
    BY <1>1, <1>2, GrantEffect
  <2>2. j \in jobs /\ j.op = "UNPIN" /\ [j EXCEPT !.state = "authorized"].op = "UNPIN"
    BY <1>1, <2>1 DEF Named, At, TypeInv, Job
  <2>3. \A k \in Node : CarriedOn(k)
    BY <2>1, <2>2, KeptJobsCarryOn
  <2>4. OnlyUnpinsAreAuthorized'
    BY <1>1, <2>1, <2>2 DEF OnlyUnpinsAreAuthorized, Authorized
  <2>5. QED  BY <1>1, <2>3, <2>4, JobsCarryOn
<1>3. CASE Denied(n, id, lease)
  <2>1. jobs' \subseteq jobs /\ \A j \in jobs : j \in jobs' \/ j.op = "UNPIN"
    BY <1>3 DEF Denied, Named
  <2>2. QED  BY <1>1, <2>1, KeptJobsCarryOn, JobsCarryOn, CalmUnpins
<1>4. QED  BY <1>2, <1>3

LEMMA AgentsRetry ==
  ASSUME RetryInv, NEW n \in Node, AgentLoop(n) \/ GoesWrong(n)
  PROVE  OnlyUnpinsAreAuthorized' /\ AssignmentsAreRetried'
<1>1. UNCHANGED gen
  BY DEF AgentLoop, GoesWrong, Poll, PollUnanswered, Execute, ExecuteBadly,
         AuthorizeGranted, AuthorizeDenied, AuthorizeUnanswered, AuthorizeDelayed,
         Report, ReportUnanswered, ReportDelayed, RestartAgent, FallSilent, dbVars
<1>2. TypeInv /\ OnlyUnpinsAreAuthorized /\ AssignmentsAreRetried
  BY DEF RetryInv, LifeInv
<1>3. CASE AuthorizeGranted(n) \/ AuthorizeUnanswered(n) \/ AuthorizeDenied(n)
  BY <1>1, <1>3, AskingRetries DEF AuthorizeGranted, AuthorizeUnanswered, AuthorizeDenied
<1>4. CASE Poll(n) \/ PollUnanswered(n)
  <2>1. UNCHANGED <<rstate, desired>>
    BY <1>4 DEF Poll, PollUnanswered
  <2>2. PICK due \in SUBSET Deliverable(n), t \in Token : Lease(n, due, t)
    BY <1>4 DEF Poll, PollUnanswered
  <2> DEFINE Leased(j) == [j EXCEPT !.lease = t]
  <2>3. jobs' = (jobs \ due) \cup {Leased(j) : j \in due}
    BY <2>2 DEF Lease
  <2>4. \A j \in due : j \in jobs /\ Same(j, Leased(j))
    BY <1>2 DEF Deliverable, At, TypeInv, Job, Same
  <2> HIDE DEF Leased
  <2>5. \A k \in Node : CarriedOn(k)
    BY <2>3, <2>4 DEF CarriedOn, Placing, At, Same
  <2>6. Calm
    BY <1>2, <2>2, LeaseJobs
  <2>7. QED  BY <1>1, <1>2, <2>1, <2>5, <2>6, JobsCarryOn, CalmUnpins DEF Calm
<1>5. CASE Report(n) \/ ReportUnanswered(n)
  <2> DEFINE m == Head(agent[n].reports)
  <2>1. /\ agent[n].reports \in Seq(Answer) /\ agent[n].reports # <<>>
        /\ m \in Values(agent[n].reports) /\ m \in Answer /\ Handle(n, m)
    BY <1>2, <1>5, AgentParts, TailValues DEF Report, ReportUnanswered
  <2> HIDE DEF m
  <2>2. m.result \in Result /\ m.result # "authorize"
    BY <2>1 DEF Answer, Result
  <2>3. \A j \in At(n) : m.id = j.id => Fits(m.result, j.op)
    BY <1>2, <2>1, <2>2 DEF TypeInv, AboutTheirJobs, Messages
  <2>4. QED  BY <1>1, <2>1, <2>2, <2>3, HandleRetries
<1>6. CASE \/ Execute(n) \/ ExecuteBadly(n) \/ AuthorizeDelayed(n) \/ ReportDelayed(n)
           \/ RestartAgent(n) \/ FallSilent(n)
  <2>1. UNCHANGED <<jobs, rstate, desired>>
    BY <1>6 DEF Execute, ExecuteBadly, AuthorizeDelayed, ReportDelayed, RestartAgent,
                FallSilent, dbVars
  <2>2. QED  BY <1>1, <1>2, <2>1, KeptJobsCarryOn, JobsCarryOn, CalmUnpins
<1>7. QED  BY <1>3, <1>4, <1>5, <1>6 DEF AgentLoop, GoesWrong

LEMMA LateRetries ==
  ASSUME RetryInv, NEW m \in late, HandleLate(m)
  PROVE  OnlyUnpinsAreAuthorized' /\ AssignmentsAreRetried'
<1>1. UNCHANGED gen
  BY DEF HandleLate
<1>2. /\ TypeInv /\ m.node \in Node /\ m.result \in Result \cup {"authorize"}
      /\ m \in Messages(m.node)
  BY DEF RetryInv, LifeInv, TypeInv, NetType, Request, Messages
<1>3. CASE m.result = "authorize"
  BY <1>1, <1>2, <1>3, AskingRetries DEF HandleLate
<1>4. CASE m.result # "authorize"
  <2>1. Handle(m.node, m) /\ m.result \in Result
    BY <1>2, <1>4 DEF HandleLate
  <2>2. \A j \in At(m.node) : m.id = j.id => Fits(m.result, j.op)
    BY <1>2, <1>4 DEF TypeInv, AboutTheirJobs
  <2>3. QED  BY <1>1, <1>2, <2>1, <2>2, HandleRetries
<1>5. QED  BY <1>3, <1>4

LEMMA NextRetries ==
  ASSUME RetryInv, FirstLife', CountInv', [Next]_vars
  PROVE  RetryInv'
<1>1. LifeInv'
  BY NextStands DEF RetryInv
<1>2. CASE Next
  <2>1. OnlyUnpinsAreAuthorized' /\ AssignmentsAreRetried'
    BY <1>2, ReferenceRetries, PlansRetry, AgentsRetry, LateRetries, RecoveryRetries DEF Next
  <2>2. QED  BY <1>1, <2>1 DEF RetryInv
<1>3. CASE UNCHANGED vars
  BY <1>1, <1>3 DEF vars, dbVars, RetryInv, OnlyUnpinsAreAuthorized, Authorized,
                    AssignmentsAreRetried, At
<1>4. QED  BY <1>2, <1>3

\* choose_placements passes over a node that has an assignment, so the job
\* behind it is all that will bring the copy there: whatever fails, restarts or
\* is handled late, that job waits on (create_pin_assignment, apply_job_report,
\* recover_v214), as long as the content is not registered again after its final
\* release (register_object then drops the waiting jobs of the rows it restores).
THEOREM AssignmentsStayRetried ==
  Spec /\ []FirstLife => []AssignmentsAreRetried
<1>1. Init => RetryInv /\ CountInv
  <2>1. Init => OneLife /\ JobReasons /\ Standing
    BY DEF Init, OneLife, JobReasons, Standing, Authorized, NoPlan
  <2>2. Init => OnlyUnpinsAreAuthorized /\ AssignmentsAreRetried
    BY DEF Init, OnlyUnpinsAreAuthorized, Authorized, AssignmentsAreRetried
  <2>3. QED  BY <2>1, <2>2, InitTypes, InitCount DEF LifeInv, RetryInv
<1>2. RetryInv /\ CountInv /\ FirstLife' /\ [Next]_vars => RetryInv' /\ CountInv'
  BY NextRetries, NextCount
<1>3. RetryInv => AssignmentsAreRetried
  BY DEF RetryInv
<1>4. QED  BY <1>1, <1>2, <1>3, PTL DEF Spec

-----------------------------------------------------------------------------
(* Placements.                                                             *)

\* A finite set has a subset of every smaller size.
LEMMA SubsetOfSize ==
  ASSUME NEW S, IsFiniteSet(S), NEW k \in Nat, k <= Cardinality(S)
  PROVE  \E T \in SUBSET S : Cardinality(T) = k
<1> DEFINE c == Cardinality(S)
<1>1. c \in Nat /\ ExistsBijection(1..c, S)
  BY FS_CardinalityType
<1>2. PICK f \in Bijection(1..c, S) : TRUE
  BY <1>1 DEF ExistsBijection
<1>3. f \in [1..c -> S] /\ \A i, j \in 1..c : f[i] = f[j] => i = j
  BY <1>2 DEF Bijection, Injection, IsInjective
<1> DEFINE T == {f[i] : i \in 1..k}
           g == [i \in 1..k |-> f[i]]
<1>4. 1..k \subseteq 1..c
  BY <1>1
<1>5. T \in SUBSET S
  BY <1>3, <1>4
<1>6. g \in Bijection(1..k, T)
  <2>1. g \in [1..k -> T] /\ \A i, j \in 1..k : g[i] = g[j] => i = j
    BY <1>3, <1>4
  <2>2. \A t \in T : \E i \in 1..k : g[i] = t
    OBVIOUS
  <2>3. QED  BY <2>1, <2>2 DEF Bijection, Injection, Surjection, IsInjective
<1>7. IsFiniteSet(1..k) /\ Cardinality(1..k) = k
  BY FS_Interval
<1>8. Cardinality(T) = k
  <2> HIDE DEF T, g
  <2>1. ExistsBijection(1..k, T)
    BY <1>6 DEF ExistsBijection
  <2>2. QED  BY <1>7, <2>1, FS_Bijection
<1>9. QED  BY <1>5, <1>8

\* What choose_placements counts and what it may choose from.
Counted(state) == {n \in Node : desired[n] /\ state[n] \in {"pinned", "grace"}}
Free == {n \in Node : presence[n] = "online" /\ ~desired[n]}

\* The committable nodes it takes first and on top, and the edges in between.
Leading(state) ==
  MinOf(Missing(Cardinality(Counted(state) \cap Committable), M),
        Cardinality(Free \cap Committable))
Extra(state) == Missing(Cardinality(Counted(state)) + Leading(state), N)
EdgeNodes(state) == MinOf(Extra(state), Cardinality(Free \ Committable))
Filling(state) ==
  MinOf(Extra(state) - EdgeNodes(state), Cardinality(Free \cap Committable) - Leading(state))

LEMMA PlacementParts ==
  ASSUME NEW state
  PROVE  Placements(state) =
           {S \in SUBSET Free :
              /\ Cardinality(S \cap Committable) = Leading(state) + Filling(state)
              /\ Cardinality(S \ Committable) = EdgeNodes(state)}
BY DEF Placements, Counted, Free, Leading, Extra, EdgeNodes, Filling

LEMMA PlacementNumbers ==
  ASSUME NEW state
  PROVE  /\ Leading(state) \in Nat /\ Extra(state) \in Nat
         /\ EdgeNodes(state) \in Nat /\ Filling(state) \in Nat
         /\ Leading(state) + Filling(state) <= Cardinality(Free \cap Committable)
         /\ EdgeNodes(state) <= Cardinality(Free \ Committable)
<1> DEFINE a == Cardinality(Counted(state) \cap Committable)
           b == Cardinality(Counted(state))
           comm == Cardinality(Free \cap Committable)
           edge == Cardinality(Free \ Committable)
<1>1. a \in Nat /\ b \in Nat /\ comm \in Nat /\ edge \in Nat /\ N \in Nat /\ M \in Nat
  BY NodeSets, PolicyAssumption DEF Counted, Free
<1>2. Leading(state) = MinOf(Missing(a, M), comm) /\ Extra(state) = Missing(b + Leading(state), N)
  BY DEF Leading, Extra
<1>3. EdgeNodes(state) = MinOf(Extra(state), edge)
      /\ Filling(state) = MinOf(Extra(state) - EdgeNodes(state), comm - Leading(state))
  BY DEF EdgeNodes, Filling
<1> HIDE DEF a, b, comm, edge
<1>4. Leading(state) \in Nat /\ Leading(state) <= comm
  BY <1>1, <1>2 DEF MinOf, Missing
<1>5. Extra(state) \in Nat
  BY <1>1, <1>2, <1>4 DEF Missing
<1>6. EdgeNodes(state) \in Nat /\ EdgeNodes(state) <= edge /\ EdgeNodes(state) <= Extra(state)
  BY <1>1, <1>3, <1>5 DEF MinOf
<1>7. Filling(state) \in Nat /\ Leading(state) + Filling(state) <= comm
  BY <1>1, <1>3, <1>4, <1>5, <1>6 DEF MinOf
<1>8. QED  BY <1>4, <1>5, <1>6, <1>7 DEF comm, edge

LEMMA SplitSize ==
  ASSUME NEW S \in SUBSET Node
  PROVE  Cardinality(S) = Cardinality(S \cap Committable) + Cardinality(S \ Committable)
<1>1. IsFiniteSet(S) /\ Cardinality(S) \in Nat /\ Cardinality(S \cap Committable) \in Nat
  BY NodeSets
<1>2. Cardinality(S \ Committable) = Cardinality(S) - Cardinality(S \cap Committable)
  BY <1>1, FS_Difference
<1>3. QED  BY <1>1, <1>2

LEMMA UnionSize ==
  ASSUME NEW S \in SUBSET Node, NEW T \in SUBSET Node, S \cap T = {}
  PROVE  Cardinality(S \cup T) = Cardinality(S) + Cardinality(T)
<1>1. /\ IsFiniteSet(S) /\ IsFiniteSet(T)
      /\ Cardinality(S) \in Nat /\ Cardinality(T) \in Nat
  BY NodeSets
<1>2. Cardinality(S \cup T) = Cardinality(S) + Cardinality(T) - Cardinality(S \cap T)
  BY <1>1, FS_Union
<1>3. Cardinality(S \cap T) = 0
  BY FS_EmptySet
<1>4. QED  BY <1>1, <1>2, <1>3

\* There is always a placement to choose, and it neither leaves out a node that
\* is needed nor takes one that could be left out: while too few copies count, or
\* too few of the committable ones, every free node of that kind is taken, and
\* without any of the chosen ones the target is missed (choose_placements).
THEOREM PlacementsAreExact ==
  ASSUME NEW state
  PROVE  /\ Placements(state) # {}
         /\ \A S \in Placements(state) :
              LET copies == Counted(state) \cup S
              IN /\ Cardinality(copies) < N => Free \subseteq S
                 /\ Cardinality(copies \cap Committable) < M
                      => Free \cap Committable \subseteq S
                 /\ \A n \in S : ~Enough(copies \ {n})
<1> DEFINE comm == Cardinality(Free \cap Committable)
           edge == Cardinality(Free \ Committable)
           a == Cardinality(Counted(state) \cap Committable)
           b == Cardinality(Counted(state))
<1>1. /\ Counted(state) \in SUBSET Node /\ Free \in SUBSET Node
      /\ Counted(state) \cap Free = {}
  BY DEF Counted, Free
<1>2. /\ a \in Nat /\ b \in Nat /\ comm \in Nat /\ edge \in Nat /\ N \in Nat /\ M \in Nat
      /\ Leading(state) \in Nat /\ Extra(state) \in Nat
      /\ EdgeNodes(state) \in Nat /\ Filling(state) \in Nat
  BY <1>1, NodeSets, PolicyAssumption, PlacementNumbers
<1>3. Placements(state) # {}
  <2>1. IsFiniteSet(Free \cap Committable) /\ IsFiniteSet(Free \ Committable)
    BY <1>1, NodeSets
  <2>2. PICK C \in SUBSET (Free \cap Committable) : Cardinality(C) = Leading(state) + Filling(state)
    BY <1>2, <2>1, PlacementNumbers, SubsetOfSize
  <2>3. PICK E \in SUBSET (Free \ Committable) : Cardinality(E) = EdgeNodes(state)
    BY <1>2, <2>1, PlacementNumbers, SubsetOfSize
  <2>4. (C \cup E) \cap Committable = C /\ (C \cup E) \ Committable = E
    OBVIOUS
  <2>5. C \cup E \in Placements(state)
    BY <2>2, <2>3, <2>4, PlacementParts
  <2>6. QED  BY <2>5
<1>4. ASSUME NEW S \in Placements(state)
      PROVE  LET copies == Counted(state) \cup S
             IN /\ Cardinality(copies) < N => Free \subseteq S
                /\ Cardinality(copies \cap Committable) < M
                     => Free \cap Committable \subseteq S
                /\ \A n \in S : ~Enough(copies \ {n})
  <2> DEFINE copies == Counted(state) \cup S
             c == Cardinality(S \cap Committable)
             e == Cardinality(S \ Committable)
  <2>1. /\ S \in SUBSET Free /\ S \in SUBSET Node
        /\ c = Leading(state) + Filling(state) /\ e = EdgeNodes(state)
    BY <1>1, PlacementParts
  <2>2. Cardinality(copies) = b + c + e
    <3>1. Cardinality(copies) = b + Cardinality(S)
      BY <1>1, <2>1, UnionSize
    <3>2. Cardinality(S) = c + e
      BY <2>1, SplitSize
    <3>3. c \in Nat /\ e \in Nat
      BY <2>1, NodeSets
    <3> HIDE DEF copies, b, c, e
    <3>4. QED  BY <1>2, <3>1, <3>2, <3>3
  <2>3. Cardinality(copies \cap Committable) = a + c
    <3>1. copies \cap Committable = (Counted(state) \cap Committable) \cup (S \cap Committable)
      OBVIOUS
    <3>2. (Counted(state) \cap Committable) \cap (S \cap Committable) = {}
      BY <1>1, <2>1
    <3>3. QED  BY <1>1, <2>1, <3>1, <3>2, UnionSize
  <2>4. Leading(state) = MinOf(Missing(a, M), comm) /\ Extra(state) = Missing(b + Leading(state), N)
    BY DEF Leading, Extra
  <2>5. /\ EdgeNodes(state) = MinOf(Extra(state), edge)
        /\ Filling(state) = MinOf(Extra(state) - EdgeNodes(state), comm - Leading(state))
    BY DEF EdgeNodes, Filling
  <2>6. c = comm => Free \cap Committable \subseteq S
    <3>1. S \cap Committable \subseteq Free \cap Committable /\ IsFiniteSet(Free \cap Committable)
      BY <1>1, <2>1, NodeSets
    <3>2. QED  BY <3>1, FS_Subset
  <2>7. e = edge => Free \ Committable \subseteq S
    <3>1. S \ Committable \subseteq Free \ Committable /\ IsFiniteSet(Free \ Committable)
      BY <1>1, <2>1, NodeSets
    <3>2. QED  BY <3>1, FS_Subset
  <2>8. ASSUME b + c + e < N  PROVE c = comm /\ e = edge
    BY ONLY <1>2, <2>1, <2>4, <2>5, <2>8 DEF MinOf, Missing
  <2>9. ASSUME a + c < M  PROVE c = comm
    BY ONLY <1>2, <2>1, <2>4, <2>5, <2>9 DEF MinOf, Missing
  <2>10. ASSUME NEW n \in S  PROVE ~Enough(copies \ {n})
    <3>1. Cardinality(copies \ {n}) = b + c + e - 1
      <4>1. copies \in SUBSET Node /\ n \in copies
        BY <1>1, <2>1, <2>10
      <4>2. IsFiniteSet(copies)
        BY <4>1, NodeSets
      <4>3. Cardinality(copies \ {n}) = Cardinality(copies) - 1
        BY <4>1, <4>2, FS_RemoveElement
      <4>4. c \in Nat /\ e \in Nat
        BY <2>1, NodeSets
      <4> HIDE DEF copies, b, c, e
      <4>5. QED  BY <1>2, <2>2, <4>3, <4>4
    <3>2. CASE n \in Committable
      <4>1. /\ n \in copies \cap Committable
            /\ (copies \ {n}) \cap Committable = (copies \cap Committable) \ {n}
        BY <2>10, <3>2
      <4>2. Cardinality((copies \ {n}) \cap Committable) = a + c - 1
        <5>1. IsFiniteSet(copies \cap Committable)
          BY <1>1, <2>1, NodeSets
        <5>2. Cardinality((copies \cap Committable) \ {n})
                = Cardinality(copies \cap Committable) - 1
          BY <4>1, <5>1, FS_RemoveElement
        <5>3. c \in Nat
          BY <2>1, NodeSets
        <5>4. Cardinality((copies \ {n}) \cap Committable)
                = Cardinality(copies \cap Committable) - 1
          BY <4>1, <5>2, Zenon
        <5> HIDE DEF copies, a, c
        <5>5. QED  BY <1>2, <2>3, <5>3, <5>4
      <4>3. c # 0
        <5>1. n \in S \cap Committable /\ IsFiniteSet(S \cap Committable)
          BY <1>1, <2>1, <2>10, <3>2, NodeSets
        <5>2. QED  BY <5>1, FS_EmptySet
      <4>4. a + c - 1 < M \/ b + c + e - 1 < N
        BY ONLY <1>2, <2>1, <2>4, <2>5, <4>3 DEF MinOf, Missing
      <4>5. a + c - 1 \in Int /\ b + c + e - 1 \in Int
        BY ONLY <1>2, <2>1
      <4>6. QED  BY ONLY <1>2, <3>1, <4>2, <4>4, <4>5 DEF Enough
    <3>3. CASE n \notin Committable
      <4>1. e # 0
        <5>1. n \in S \ Committable /\ IsFiniteSet(S \ Committable)
          BY <1>1, <2>1, <2>10, <3>3, NodeSets
        <5>2. QED  BY <5>1, FS_EmptySet
      <4>2. b + c + e - 1 < N
        BY ONLY <1>2, <2>1, <2>4, <2>5, <4>1 DEF MinOf, Missing
      <4>3. b + c + e - 1 \in Int
        BY ONLY <1>2, <2>1
      <4>4. QED  BY ONLY <1>2, <3>1, <4>2, <4>3 DEF Enough
    <3>4. QED  BY <3>2, <3>3
  <2>11. QED
    BY <2>2, <2>3, <2>6, <2>7, <2>8, <2>9, <2>10
<1>5. QED  BY <1>3, <1>4

=============================================================================
