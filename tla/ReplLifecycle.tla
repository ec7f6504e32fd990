---------------------------- MODULE ReplLifecycle ----------------------------
(***************************************************************************)
(* The life of one replicated content: the controller v2.1.4 with its      *)
(* database (replication/hb_replication_controller_v214.py,                *)
(* hb_replication_v214_recovery.py, hb_replication_v214_db.py on           *)
(* hb_replication_db.py) and the replica agents                            *)
(* (hb_replica_agent_v214.py).  Jobs, replicas and references of different *)
(* contents do not touch each other, so one CID is modelled.               *)
(*                                                                         *)
(* References are registered in three transactions and released in one.    *)
(* Threads of the controller reconcile: they read a snapshot and then plan *)
(* one job per transaction.  An agent polls for its jobs, runs them one    *)
(* after the other and reports the results; before it removes a pin it     *)
(* asks the controller for permission.                                     *)
(*                                                                         *)
(* Time is left to choice: a job backs off, a lease ends, the grace after  *)
(* a final release is over, a verification comes due, a silent node counts *)
(* as away and then as gone at any moment.  One assumption is made: the    *)
(* controller handles a request within the 120 s of the lease it carries   *)
(* (see Deliverable).  An agent runs the jobs of a poll in any order       *)
(* (created_at orders them in the code).                                   *)
(*                                                                         *)
(* Left out: references without an id and changes of N and M (the legacy   *)
(* calls), mode observe (nothing is handed out), nodes that leave the      *)
(* registry, capacity (choose_placements picks by counts only), closed     *)
(* unpin gates (HB_REPL_UNPIN_ENABLED and HB_REPL_ALLOW_UNPIN are set),    *)
(* the health column, writes of the database that fail, the file service's *)
(* delete (it unpins its node's copy and tells the controller nothing).    *)
(* Reading the rows, marking the replicas of silent nodes and taking the   *)
(* planning snapshot is one step of a reconciling thread; the              *)
(* reconciliation at the end of a registration or a release is one that    *)
(* any Planner may make, at any time after it.                             *)
(***************************************************************************)
EXTENDS Naturals, FiniteSets, Sequences

CONSTANTS
  Node,         \* storage nodes
  Committable,  \* those of class committable; the others are best-effort
  Ref,          \* reference ids
  Source,       \* Ref -> Node: the node the referring file is uploaded to
  N, M,         \* replication_n, committable_m
  Deletable,    \* references that may be released
  Planner,      \* threads that reconcile: repair, maintenance, requests
  Modes,        \* modes the controller may be started in
  Flaky,        \* nodes that may stop sending heartbeats
  Verifiable,   \* nodes whose copy may come due for verification
  KuboFaults,   \* how a node's Kubo may misbehave, see Removal
  MayReturn,    \* may a content be registered again after its final release?
  MayRepeat,    \* may a registration that went through be sent again?
  Recovered,    \* the reasons of authorised jobs that may meet a recovery
  JobId,        \* bound: ids of a node's jobs that are in use at one time
  Token,        \* bound: lease tokens a node's messages carry at one time
  MaxMishaps    \* bound: restarts, lost answers, requests handled after their
                \* sender gave up, silences of nodes, faults of Kubo

ASSUME NodesFinite == IsFiniteSet(Node) /\ Committable \subseteq Node
ASSUME RefsFinite == IsFiniteSet(Ref) /\ Source \in [Ref -> Node] /\ Deletable \subseteq Ref
ASSUME FaultsAssumption ==
  /\ Flaky \subseteq Node /\ Verifiable \subseteq Node
  /\ KuboFaults \subseteq {"refuses", "down", "hangs"}
  /\ MayReturn \in BOOLEAN /\ MayRepeat \in BOOLEAN
ASSUME PolicyAssumption == N \in Nat \ {0} /\ M \in 0..N
ASSUME ModesAssumption == Modes # {} /\ Modes \subseteq {"pin-only", "full"}
ASSUME NumbersAssumption ==
  /\ JobId \subseteq Nat \ {0} /\ Token \subseteq Nat \ {0}
  /\ MaxMishaps \in Nat

VARIABLES
  \* the database: objects, object_refs, replicas, jobs
  refcount, gen, released,  \* released: released_at is set
  refs,                     \* Ref -> unknown, live or released (a tombstone)
  desired, rstate,          \* Node -> replicas.desired, .state (none: no row)
  jobs,                     \* the jobs that are neither done nor stale
  \* the controller
  mode,
  reg,                      \* Ref -> the next transaction of its registration
  plan,                     \* Planner -> what is left of its snapshot
  \* the nodes
  pin,                      \* Node -> is the content pinned in its Kubo?
  presence,                 \* Node -> what the age of its last heartbeat says
  agent,                    \* Node -> the agent's loop
  \* the network and the bounds
  late,                     \* requests whose sender has given up waiting
  mishaps

dbVars == <<refcount, gen, released, refs, desired, rstate, jobs>>
ctlVars == <<mode, reg, plan>>
nodeVars == <<pin, presence, agent>>
vars == <<dbVars, ctlVars, nodeVars, late, mishaps>>

Trim == "trim-extra-replica"
Final == "final-release"
NoPlan == [kind |-> "none", cands |-> {}, verify |-> {},
           remove |-> 0, comm |-> 0, gen |-> 0]

-----------------------------------------------------------------------------
(* Jobs.                                                                   *)

At(n) == {j \in jobs : j.node = n}

\* A job that waits for an agent: state pending or retry.
Waiting(j) == j.state = "waiting"

\* UNPIN jobs that are pending, retry or authorized, for the given reason.
Active(reason) == {j \in jobs : j.op = "UNPIN" /\ j.reason = reason}
Authorized == {j \in jobs : j.state = "authorized"}

\* Ids that something may still refer to.  uuid4 never repeats an id; the model
\* reuses one when nothing names it any more.
UsedIds(n) ==
  {j.id : j \in At(n)} \cup {t.id : t \in agent[n].todo}
    \cup {agent[n].reports[i].id : i \in DOMAIN agent[n].reports}
    \cup {m.id : m \in {l \in late : l.node = n}}

\* One more thing goes wrong.
Mishap == mishaps < MaxMishaps /\ mishaps' = mishaps + 1

Least(S, x) == x \in S /\ \A y \in S : x <= y

NewJob(n, op, g, reason, i) ==
  [node |-> n, id |-> i, op |-> op, gen |-> g, reason |-> reason,
   state |-> "waiting", lease |-> 0]

Create(n, op, g, reason) ==
  \E i \in JobId :
    /\ Least(JobId \ UsedIds(n), i)
    /\ jobs' = jobs \cup {NewJob(n, op, g, reason, i)}

Replace(j, k) == jobs' = (jobs \ {j}) \cup {k}
Close(j) == jobs' = jobs \ {j}             \* done or stale

\* Copies the controller counts on, and the ones it counts on not to lose.
Confirmed == {n \in Node : desired[n] /\ rstate[n] = "pinned"}
Enough(S) == Cardinality(S) >= N /\ Cardinality(S \cap Committable) >= M

-----------------------------------------------------------------------------
TypeOK ==
  /\ refcount \in Nat /\ gen \in Nat /\ released \in BOOLEAN
  /\ refs \in [Ref -> {"unknown", "live", "released"}]
  /\ desired \in [Node -> BOOLEAN]
  /\ rstate \in [Node -> {"none", "assigned", "pinned", "grace", "missing",
                          "failed", "unpinned"}]
  /\ jobs \subseteq
       [node : Node, id : JobId,
        op : {"PIN", "VERIFY", "UNPIN", "UNPIN_VERIFY"}, gen : Nat,
        reason : {"", Trim, Final}, state : {"waiting", "authorized"},
        lease : Token \cup {0}]
  /\ mode \in Modes
  /\ reg \in [Ref -> {"idle", "insert", "fence"}]
  /\ plan \in [Planner -> [kind : {"none", "place", "trim", "final"},
                           cands : SUBSET Node, verify : SUBSET Node,
                           remove : Nat, comm : Nat, gen : Nat]]
  /\ pin \in [Node -> BOOLEAN]
  /\ presence \in [Node -> {"online", "away", "gone"}]
  /\ agent \in [Node ->
       [todo : SUBSET [id : JobId, lease : Token,
                       op : {"PIN", "VERIFY", "UNPIN", "UNPIN_VERIFY"}],
        grant : JobId \cup {0},
        reports : Seq([id : JobId, lease : Token,
                       result : {"pinned", "verified", "unpinned", "failed"}])]]
  /\ late \subseteq [node : Node, id : JobId, lease : Token,
                     result : {"authorize", "pinned", "verified", "unpinned",
                               "failed"}]
  /\ mishaps \in 0..MaxMishaps

Init ==
  /\ refcount = 0 /\ gen = 1 /\ released = FALSE
  /\ refs = [r \in Ref |-> "unknown"]
  /\ desired = [n \in Node |-> FALSE] /\ rstate = [n \in Node |-> "none"]
  /\ jobs = {}
  /\ mode \in Modes
  /\ reg = [r \in Ref |-> "idle"]
  /\ plan = [p \in Planner |-> NoPlan]
  /\ pin = [n \in Node |-> FALSE]
  /\ presence = [n \in Node |-> "online"]
  /\ agent = [n \in Node |-> [todo |-> {}, grant |-> 0, reports |-> <<>>]]
  /\ late = {} /\ mishaps = 0

-----------------------------------------------------------------------------
(* References.  A file is uploaded, which pins it on its node, and then    *)
(* registered: a check, the insertion (base class) and the generation      *)
(* fence, each under the lock of its own.                                  *)

\* Only an unpin that is authorised while nothing refers to the content stops
\* a registration.
RegistrationBlocked == refcount = 0 /\ Authorized # {}

Uploaded(r) ==
  pin' = IF refs[r] = "unknown" THEN [pin EXCEPT ![Source[r]] = TRUE] ELSE pin

RegisterCheck(r) ==
  /\ reg[r] = "idle"
  /\ MayReturn \/ gen = 1
  /\ MayRepeat \/ refs[r] = "unknown"
  /\ ~RegistrationBlocked
  /\ Uploaded(r)
  /\ reg' = [reg EXCEPT ![r] = "insert"]
  /\ UNCHANGED <<dbVars, mode, plan, presence, agent, late, mishaps>>

RegisterRejected(r) ==
  /\ reg[r] = "idle"
  /\ MayReturn \/ gen = 1
  /\ MayRepeat \/ refs[r] = "unknown"
  /\ RegistrationBlocked
  /\ Uploaded(r)
  /\ UNCHANGED <<dbVars, ctlVars, presence, agent, late, mishaps>>

\* Mutant: a registration that is sent again counts again.
RegisterInsertTwice(r) ==
  /\ reg[r] = "insert"
  /\ IF refs[r] = "unknown" THEN refs' = [refs EXCEPT ![r] = "live"]
                            ELSE UNCHANGED refs
  /\ refcount' = refcount + 1
  /\ desired' = [desired EXCEPT ![Source[r]] = TRUE]
  /\ rstate' = [rstate EXCEPT ![Source[r]] = "pinned"]
  /\ reg' = [reg EXCEPT ![r] = "fence"]
  /\ UNCHANGED <<gen, released, jobs, mode, plan, nodeVars, late, mishaps>>

\* A reference that is known, live or a tombstone, counts no second time; the
\* row of the source is written in any case.
RegisterInsert(r) ==
  /\ reg[r] = "insert"
  /\ IF refs[r] = "unknown"
       THEN refs' = [refs EXCEPT ![r] = "live"] /\ refcount' = refcount + 1
       ELSE UNCHANGED <<refs, refcount>>
  /\ desired' = [desired EXCEPT ![Source[r]] = TRUE]
  /\ rstate' = [rstate EXCEPT ![Source[r]] = "pinned"]
  /\ reg' = [reg EXCEPT ![r] = "fence"]
  /\ UNCHANGED <<gen, released, jobs, mode, plan, nodeVars, late, mishaps>>

\* Mutant: the content is back in the generation it was given up in.
ResurrectInPlace ==
  /\ UNCHANGED gen /\ released' = FALSE
  /\ desired' = [n \in Node |-> IF rstate[n] \in {"none", "unpinned"}
                                  THEN desired[n] ELSE TRUE]
  /\ jobs' = {j \in jobs : ~Waiting(j)}

\* The content was given up and is back: a new generation.
Resurrect ==
  /\ gen' = gen + 1 /\ released' = FALSE
  /\ desired' = [n \in Node |-> IF rstate[n] \in {"none", "unpinned"}
                                  THEN desired[n] ELSE TRUE]
  /\ jobs' = {j \in jobs : ~Waiting(j)}

RegisterFence(r) ==
  /\ reg[r] = "fence"
  /\ IF refcount > 0 /\ released
       THEN Resurrect
       ELSE UNCHANGED <<gen, released, desired, jobs>>
  /\ reg' = [reg EXCEPT ![r] = "idle"]
  /\ UNCHANGED <<refcount, refs, rstate, mode, plan, nodeVars, late, mishaps>>

ReleaseOne(r) ==
  /\ r \in Deletable /\ refs[r] = "live" /\ refcount > 1
  /\ refs' = [refs EXCEPT ![r] = "released"]
  /\ refcount' = refcount - 1
  /\ UNCHANGED <<gen, released, desired, rstate, jobs>>
  /\ UNCHANGED <<ctlVars, nodeVars, late, mishaps>>

\* Mutant: the last reference goes whatever is authorised.
ReleaseLastUnasked(r) ==
  /\ r \in Deletable /\ refs[r] = "live" /\ refcount <= 1
  /\ MayReturn \/ \A q \in Ref : reg[q] = "idle"
  /\ refs' = [refs EXCEPT ![r] = "released"]
  /\ refcount' = 0 /\ released' = TRUE /\ gen' = gen + 1
  /\ desired' = [n \in Node |-> FALSE]
  /\ jobs' = {j \in jobs : ~Waiting(j)}
  /\ UNCHANGED <<rstate, ctlVars, nodeVars, late, mishaps>>

\* The last reference goes: refused during an authorised trim.
ReleaseLast(r) ==
  /\ r \in Deletable /\ refs[r] = "live" /\ refcount <= 1
  /\ Authorized = {}
  /\ MayReturn \/ \A q \in Ref : reg[q] = "idle"
  /\ refs' = [refs EXCEPT ![r] = "released"]
  /\ refcount' = 0 /\ released' = TRUE /\ gen' = gen + 1
  /\ desired' = [n \in Node |-> FALSE]
  /\ jobs' = {j \in jobs : ~Waiting(j)}
  /\ UNCHANGED <<rstate, ctlVars, nodeVars, late, mishaps>>

-----------------------------------------------------------------------------
(* Reconciliation.                                                         *)

\* Replicas of silent nodes; a node that is back is believed, unless it was
\* gone for too long.
Observed(n) ==
  CASE presence[n] = "online" /\ rstate[n] = "grace" -> "pinned"
    [] presence[n] = "away" /\ rstate[n] \in {"pinned", "grace"} -> "grace"
    [] presence[n] = "gone" /\ rstate[n] \in {"pinned", "grace"} -> "missing"
    [] OTHER -> rstate[n]

MinOf(a, b) == IF a < b THEN a ELSE b
Missing(have, want) == IF have < want THEN want - have ELSE 0

\* choose_placements, as far as counts go: committable nodes up to M, then
\* edges, then committable nodes again up to N.
Placements(state) ==
  LET counted == {n \in Node : desired[n] /\ state[n] \in {"pinned", "grace"}}
      free == {n \in Node : presence[n] = "online" /\ ~desired[n]}
      comm == Cardinality(free \cap Committable)
      edge == Cardinality(free \ Committable)
      first == MinOf(Missing(Cardinality(counted \cap Committable), M), comm)
      extra == Missing(Cardinality(counted) + first, N)
      edges == MinOf(extra, edge)
      more == MinOf(extra - edges, comm - first)
  IN {S \in SUBSET free : /\ Cardinality(S \cap Committable) = first + more
                          /\ Cardinality(S \ Committable) = edges}

\* What to pin, and which of the confirmed replicas to verify (those whose last
\* verification is old enough).
PlacementPlans(state) ==
  LET due == {n \in Verifiable : /\ desired[n] /\ state[n] = "pinned"
                                 /\ presence[n] = "online"}
      plans(S) == {[NoPlan EXCEPT !.kind = "place", !.cands = S, !.verify = V,
                                  !.gen = gen] : V \in SUBSET due}
  IN UNION {plans(S) : S \in Placements(state)}

\* _plan_trim: what is beyond N and not yet planned away.
TrimPlan(state) ==
  LET pinned == {n \in Node : desired[n] /\ state[n] = "pinned"}
      active == {j.node : j \in Active(Trim)}
      left == pinned \ active
  IN [NoPlan EXCEPT !.kind = "trim", !.cands = left, !.gen = gen,
        !.remove = Missing(N + Cardinality(active), Cardinality(pinned)),
        !.comm = Cardinality(left \cap Committable)]

\* Mutant: the loop goes over all candidates.
RestUncounted(pl) == IF pl.verify = {} /\ pl.cands = {} THEN NoPlan ELSE pl

\* A plan with nothing left to do is over.
Rest(pl) ==
  IF pl.verify = {} /\ (pl.cands = {} \/ (pl.kind = "trim" /\ pl.remove = 0))
    THEN NoPlan ELSE pl

Reconcile(p) ==
  /\ plan[p] = NoPlan
  /\ refcount > 0
  /\ LET state == [n \in Node |-> Observed(n)]
         plans == IF mode = "full" THEN {TrimPlan(state)} ELSE PlacementPlans(state)
     IN /\ rstate' = state
        /\ \E pl \in plans : plan' = [plan EXCEPT ![p] = Rest(pl)]
  /\ UNCHANGED <<refcount, gen, released, refs, desired, jobs, mode, reg>>
  /\ UNCHANGED <<nodeVars, late, mishaps>>

\* Nothing refers to the content and the grace period is over.
ReconcileReleased(p) ==
  /\ plan[p] = NoPlan
  /\ refcount = 0 /\ released /\ mode = "full"
  /\ LET left == {n \in Node : rstate[n] \notin {"none", "unpinned"}}
     IN /\ left # {}
        /\ plan' = [plan EXCEPT ![p] =
             [NoPlan EXCEPT !.kind = "final", !.cands = left, !.gen = gen]]
  /\ UNCHANGED <<dbVars, mode, reg, nodeVars, late, mishaps>>

Drop(p, n) == [plan[p] EXCEPT !.cands = @ \ {n}]
Advance(p, pl) == plan' = [plan EXCEPT ![p] = Rest(pl)]

\* create_pin_assignment looks neither at the snapshot nor at refcount.
PlanPin(p, n) ==
  /\ plan[p].kind = "place" /\ n \in plan[p].cands
  /\ Advance(p, Drop(p, n))
  /\ IF desired[n] /\ rstate[n] \in {"assigned", "pinned", "grace"}
       THEN UNCHANGED <<desired, rstate, jobs>>
       ELSE /\ desired' = [desired EXCEPT ![n] = TRUE]
            /\ rstate' = [rstate EXCEPT ![n] = "assigned"]
            /\ IF \E j \in At(n) : j.op = "PIN" /\ j.gen = gen
                 THEN UNCHANGED jobs
                 ELSE Create(n, "PIN", gen, "")
  /\ UNCHANGED <<refcount, gen, released, refs, mode, reg, nodeVars, late, mishaps>>

PlanVerify(p, n) ==
  /\ plan[p].kind = "place" /\ plan[p].cands = {} /\ n \in plan[p].verify
  /\ Advance(p, [plan[p] EXCEPT !.verify = @ \ {n}])
  /\ IF \E j \in At(n) : j.op = "VERIFY"
       THEN UNCHANGED jobs
       ELSE Create(n, "VERIFY", plan[p].gen, "")
  /\ UNCHANGED <<refcount, gen, released, refs, desired, rstate, mode, reg>>
  /\ UNCHANGED <<nodeVars, late, mishaps>>

\* _trim_capacity_locked: the copy at n may go, not counting those in going.
TrimCapacity(n, g, going) ==
  /\ refcount > 0 /\ g = gen
  /\ n \in Confirmed
  /\ Cardinality(Confirmed) >= N + 1 + Cardinality(going)
  /\ Cardinality(Confirmed \cap Committable)
       >= M + Cardinality(({n} \cap Committable))
            + Cardinality({j \in going : j.node \in Committable})

\* Mutant: copies whose removal is permitted still count.
NoOtherTrims(n) == {}

OtherTrims(n) == {j \in Active(Trim) : j \in Authorized /\ j.node # n}

UnpinActive(n, g) == \E j \in At(n) : j.op = "UNPIN" /\ j.gen = g

\* create_unpin_job for a surplus copy.
MayPlanTrim(n, g) ==
  /\ g = gen
  /\ Cardinality(Confirmed) > N + Cardinality(Active(Trim))
  /\ TrimCapacity(n, g, {})
  /\ ~UnpinActive(n, g)

\* Edges go first; a committable copy is passed over when M would suffer.
PlanTrim(p, n) ==
  /\ plan[p].kind = "trim" /\ n \in plan[p].cands
  /\ n \in Committable => plan[p].cands \subseteq Committable
  /\ IF (n \in Committable /\ plan[p].comm <= M) \/ ~MayPlanTrim(n, plan[p].gen)
       THEN Advance(p, Drop(p, n)) /\ UNCHANGED jobs
       ELSE /\ Create(n, "UNPIN", gen, Trim)
            /\ Advance(p, [Drop(p, n) EXCEPT !.remove = @ - 1,
                             !.comm = IF n \in Committable THEN @ - 1 ELSE @])
  /\ UNCHANGED <<refcount, gen, released, refs, desired, rstate, mode, reg>>
  /\ UNCHANGED <<nodeVars, late, mishaps>>

PlanFinal(p, n) ==
  /\ plan[p].kind = "final" /\ n \in plan[p].cands
  /\ Advance(p, Drop(p, n))
  /\ IF plan[p].gen = gen /\ refcount = 0 /\ ~UnpinActive(n, gen)
       THEN Create(n, "UNPIN", gen, Final)
       ELSE UNCHANGED jobs
  /\ UNCHANGED <<refcount, gen, released, refs, desired, rstate, mode, reg>>
  /\ UNCHANGED <<nodeVars, late, mishaps>>

\* What became of an authorised unpin is not known: another job asks the node,
\* unless one does already.
Questions ==
  {<<j.node, j.gen>> : j \in
     {a \in Authorized : ~\E k \in At(a.node) : /\ k.op = "UNPIN_VERIFY"
                                                 /\ k.gen = a.gen}}

\* recover_v214, at the start of the controller and every 900 s after it.
RecoverJobs ==
  /\ \A j \in Authorized : j.reason \in Recovered
  /\ \E id \in [Questions -> JobId] :
       /\ \A x \in Questions :
            /\ id[x] \notin UsedIds(x[1])
            /\ \A y \in Questions : y # x /\ y[1] = x[1] => id[y] # id[x]
            /\ \A i \in JobId \ UsedIds(x[1]) :
                 i < id[x] => \E y \in Questions : y[1] = x[1] /\ id[y] = i
       /\ jobs' = (jobs \ Authorized) \cup
            {NewJob(x[1], "UNPIN_VERIFY", x[2], "", id[x]) : x \in Questions}

Recover ==
  /\ Authorized # {}
  /\ RecoverJobs
  /\ UNCHANGED <<refcount, gen, released, refs, desired, rstate>>
  /\ UNCHANGED <<ctlVars, nodeVars, late, mishaps>>

\* The controller starts again, possibly in another mode.  Whatever its threads
\* were doing is lost, the database is not.
RestartController ==
  /\ Mishap
  /\ RecoverJobs
  /\ mode' \in Modes
  /\ reg' = [r \in Ref |-> "idle"]
  /\ plan' = [p \in Planner |-> NoPlan]
  /\ UNCHANGED <<refcount, gen, released, refs, desired, rstate, nodeVars, late>>

-----------------------------------------------------------------------------
(* The agents.                                                             *)

Idle(n) == agent[n].todo = {} /\ agent[n].reports = <<>>

\* What pending_jobs may hand out: a job that waits and is not leased.  A lease
\* ends after 120 s; no request that carries it is still on its way by then.
Deliverable(n) ==
  {j \in At(n) : Waiting(j) /\ ~\E m \in late :
                   m.node = n /\ m.id = j.id /\ m.lease = j.lease}

Allowed == IF mode = "full" THEN {"PIN", "VERIFY", "UNPIN_VERIFY", "UNPIN"}
                            ELSE {"PIN", "VERIFY", "UNPIN_VERIFY"}

\* One lease for all jobs of a poll, unlike any a late request may carry; jobs
\* that are not allowed are leased as well.
Lease(n, due, t) ==
  /\ Least(Token \ {m.lease : m \in {l \in late : l.node = n}}, t)
  /\ jobs' = (jobs \ due) \cup {[j EXCEPT !.lease = t] : j \in due}

\* run_once: a heartbeat, then the assignments.  Some jobs may not be due yet.
Poll(n) ==
  /\ Idle(n)
  /\ presence' = [presence EXCEPT ![n] = "online"]
  /\ \E due \in SUBSET Deliverable(n), t \in Token :
       /\ due # {} \/ presence[n] # "online"
       /\ Lease(n, due, t)
       /\ agent' = [agent EXCEPT ![n].todo =
            {[id |-> j.id, lease |-> t, op |-> j.op] :
               j \in {k \in due : k.op \in Allowed}}]
  /\ UNCHANGED <<refcount, gen, released, refs, desired, rstate>>
  /\ UNCHANGED <<ctlVars, pin, late, mishaps>>

\* The jobs are leased but the answer does not arrive.
PollUnanswered(n) ==
  /\ Mishap
  /\ Idle(n)
  /\ presence' = [presence EXCEPT ![n] = "online"]
  /\ \E due \in SUBSET Deliverable(n), t \in Token :
       due # {} /\ Lease(n, due, t)
  /\ UNCHANGED <<refcount, gen, released, refs, desired, rstate>>
  /\ UNCHANGED <<ctlVars, pin, agent, late>>

\* The job t is over at the agent and reported as result.
Done(n, t, result) ==
  agent' = [agent EXCEPT ![n] =
    [todo |-> @.todo \ {t}, grant |-> 0,
     reports |-> Append(@.reports, [id |-> t.id, lease |-> t.lease,
                                    result |-> result])]]

\* What a job reports and whether the content is pinned after it.
Outcome(op, pinned) ==
  CASE op = "PIN" -> <<"pinned", TRUE>>
    [] op = "VERIFY" -> <<IF pinned THEN "verified" ELSE "failed", pinned>>
    [] op = "UNPIN" -> <<"unpinned", FALSE>>
    [] op = "UNPIN_VERIFY" -> <<IF pinned THEN "verified" ELSE "unpinned", pinned>>

\* Mutant: a PIN that failed is undone.
UndoneOutcome(op, pinned, fault) == <<"failed", op # "PIN" /\ pinned>>

\* The same with a fault of Kubo: it "refuses" (pin/add and pin/rm fail), is
\* "down" (hb_ipfs takes that for a no: is_pinned is FALSE and unpin returns)
\* or "hangs" (the connection breaks while Kubo works: execute_job fails).
FaultyOutcome(op, pinned, fault) ==
  CASE op = "PIN" -> <<"failed", pinned \/ fault = "hangs">>
    [] op = "VERIFY" -> <<"failed", pinned>>
    [] op = "UNPIN_VERIFY" ->
         <<IF fault = "hangs" THEN "failed" ELSE "unpinned", pinned>>
    [] op = "UNPIN" /\ fault = "refuses" ->
         <<IF pinned THEN "failed" ELSE "unpinned", pinned>>
    [] op = "UNPIN" /\ fault = "down" -> <<"unpinned", pinned>>
    [] op = "UNPIN" /\ fault = "hangs" -> <<"failed", FALSE>>

\* The jobs of a poll run one by one; an UNPIN runs only when it was granted.
Runnable(n) ==
  {t \in agent[n].todo : IF t.op = "UNPIN" THEN agent[n].grant = t.id
                                           ELSE agent[n].grant = 0}

Ends(n, t, out) == Done(n, t, out[1]) /\ pin' = [pin EXCEPT ![n] = out[2]]

Execute(n) ==
  /\ \E t \in Runnable(n) : Ends(n, t, Outcome(t.op, pin[n]))
  /\ UNCHANGED <<dbVars, ctlVars, presence, late, mishaps>>

ExecuteBadly(n) ==
  /\ Mishap
  /\ \E t \in Runnable(n), fault \in KuboFaults :
       /\ t.op \in {"VERIFY", "UNPIN_VERIFY"} => fault # "refuses"
       /\ Ends(n, t, FaultyOutcome(t.op, pin[n], fault))
  /\ UNCHANGED <<dbVars, ctlVars, presence, late>>

-----------------------------------------------------------------------------
(* authorize_unpin.                                                        *)

Named(n, id) == {j \in At(n) : j.id = id /\ j.op = "UNPIN"}

\* Mutant: what held when the job was planned is not checked again.
MayUnpinAsPlanned(j, lease) == j.lease = lease /\ Waiting(j) /\ j.gen = gen

MayUnpin(j, lease) ==
  /\ j.lease = lease /\ Waiting(j)
  /\ IF j.reason = Trim
       THEN TrimCapacity(j.node, j.gen, OtherTrims(j.node))
       ELSE j.gen = gen /\ refcount = 0

Granted(n, id, lease) ==
  /\ mode = "full"
  /\ \E j \in Named(n, id) :
       MayUnpin(j, lease) /\ Replace(j, [j EXCEPT !.state = "authorized"])

\* A request that is turned down makes its job stale, unless unpinning is off.
Denied(n, id, lease) ==
  /\ mode # "full" \/ \A j \in Named(n, id) : ~MayUnpin(j, lease)
  /\ jobs' = IF mode = "full" THEN jobs \ Named(n, id) ELSE jobs

Asking(n) == {t \in agent[n].todo : t.op = "UNPIN" /\ agent[n].grant = 0}

AuthorizeGranted(n) ==
  /\ \E t \in Asking(n) :
       /\ Granted(n, t.id, t.lease)
       /\ agent' = [agent EXCEPT ![n].grant = t.id]
  /\ UNCHANGED <<refcount, gen, released, refs, desired, rstate>>
  /\ UNCHANGED <<ctlVars, pin, presence, late, mishaps>>

\* The answer does not reach the agent, which reports a failure.
AuthorizeUnanswered(n) ==
  /\ Mishap
  /\ \E t \in Asking(n) : Granted(n, t.id, t.lease) /\ Done(n, t, "failed")
  /\ UNCHANGED <<refcount, gen, released, refs, desired, rstate>>
  /\ UNCHANGED <<ctlVars, pin, presence, late>>

AuthorizeDenied(n) ==
  /\ \E t \in Asking(n) : Denied(n, t.id, t.lease) /\ Done(n, t, "failed")
  /\ UNCHANGED <<refcount, gen, released, refs, desired, rstate>>
  /\ UNCHANGED <<ctlVars, pin, presence, late, mishaps>>

\* The request is given up by the agent before the controller handles it.
AuthorizeDelayed(n) ==
  /\ Mishap
  /\ \E t \in Asking(n) :
       /\ late' = late \cup {[node |-> n, id |-> t.id, lease |-> t.lease,
                              result |-> "authorize"]}
       /\ Done(n, t, "failed")
  /\ UNCHANGED <<dbVars, ctlVars, pin, presence>>

-----------------------------------------------------------------------------
(* apply_job_report, of the three classes.                                 *)

\* Mutant: every unpin is taken for one that follows the final release.
CurrentIfReleased(j) ==
  /\ j.gen = gen
  /\ j.op \in {"UNPIN", "UNPIN_VERIFY"} => refcount = 0

\* The lifecycle a job belongs to is over: its report closes it.
Current(j) ==
  /\ j.gen = gen
  /\ j.op = "UNPIN_VERIFY" \/ (j.op = "UNPIN" /\ j.reason = Final) => refcount = 0

\* The report answers the delivery the job is leased to.
Answers(j, m) ==
  /\ Current(j)
  /\ j.lease = m.lease
  /\ j.op = "UNPIN" => j.state = "authorized"

SetReplica(n, state, want) ==
  rstate' = [rstate EXCEPT ![n] = state] /\ desired' = [desired EXCEPT ![n] = want]

\* Mutant: a failed job is not tried again.
GiveUp(j) == Close(j)

\* A failure backs off: the job waits again, without its lease.
Retry(j) == Replace(j, [j EXCEPT !.state = "waiting", !.lease = 0])

\* Mutant: after a recovery the copy is taken to be gone.
SettleAsRemoved(n, j, result) ==
  CASE j.op \in {"PIN", "VERIFY"} /\ result = "failed" ->
         Retry(j) /\ SetReplica(n, "failed", desired[n])
    [] j.op \in {"PIN", "VERIFY"} /\ result # "failed" ->
         Close(j) /\ SetReplica(n, "pinned", desired[n])
    [] j.op \in {"UNPIN", "UNPIN_VERIFY"} /\ result = "failed" ->
         Retry(j) /\ UNCHANGED <<rstate, desired>>
    [] j.op \in {"UNPIN", "UNPIN_VERIFY"} /\ result # "failed" ->
         Close(j) /\ SetReplica(n, "unpinned", FALSE)

\* Mutant: whatever is reported is taken for a success.
SettleBlindly(n, j, result) == Close(j) /\ SetReplica(n, "pinned", desired[n])

Settle(n, j, result) ==
  CASE j.op \in {"PIN", "VERIFY"} /\ result = "failed" ->
         Retry(j) /\ SetReplica(n, "failed", desired[n])
    [] j.op \in {"PIN", "VERIFY"} /\ result # "failed" ->
         Close(j) /\ SetReplica(n, "pinned", desired[n])
    [] j.op \in {"UNPIN", "UNPIN_VERIFY"} /\ result = "failed" ->
         Retry(j) /\ UNCHANGED <<rstate, desired>>
    [] j.op \in {"UNPIN", "UNPIN_VERIFY"} /\ result = "unpinned" ->
         Close(j) /\ SetReplica(n, "unpinned", FALSE)
    [] j.op = "UNPIN_VERIFY" /\ result = "verified" ->
         Close(j) /\ SetReplica(n, "pinned", FALSE)

Handle(n, m) ==
  LET mine == {j \in At(n) : j.id = m.id}
      over == {j \in mine : ~Current(j)}
  IN IF \E j \in mine : Answers(j, m)
       THEN \E j \in mine : Answers(j, m) /\ Settle(n, j, m.result)
       ELSE jobs' = jobs \ over /\ UNCHANGED <<rstate, desired>>

\* The reports of a heartbeat are handled in order.  When the answer is lost
\* the agent sends the report again; the ones before it change nothing then,
\* because a settled job has no lease.
Report(n) ==
  /\ agent[n].todo = {} /\ agent[n].reports # <<>>
  /\ Handle(n, Head(agent[n].reports))
  /\ agent' = [agent EXCEPT ![n].reports = Tail(@)]
  /\ presence' = [presence EXCEPT ![n] = "online"]
  /\ UNCHANGED <<refcount, gen, released, refs, ctlVars, pin, late, mishaps>>

ReportUnanswered(n) ==
  /\ Mishap
  /\ agent[n].todo = {} /\ agent[n].reports # <<>>
  /\ Handle(n, Head(agent[n].reports))
  /\ presence' = [presence EXCEPT ![n] = "online"]
  /\ UNCHANGED <<refcount, gen, released, refs, ctlVars, pin, agent, late>>

ReportDelayed(n) ==
  /\ agent[n].todo = {} /\ agent[n].reports # <<>>
  /\ Mishap
  /\ LET m == Head(agent[n].reports)
     IN late' = late \cup {[node |-> n, id |-> m.id, lease |-> m.lease,
                            result |-> m.result]}
  /\ UNCHANGED <<dbVars, ctlVars, nodeVars>>

HandleLate(m) ==
  /\ late' = late \ {m}
  /\ IF m.result = "authorize"
       THEN /\ Granted(m.node, m.id, m.lease) \/ Denied(m.node, m.id, m.lease)
            /\ UNCHANGED <<rstate, desired, presence>>
       ELSE /\ Handle(m.node, m)
            /\ presence' = [presence EXCEPT ![m.node] = "online"]
  /\ UNCHANGED <<refcount, gen, released, refs, ctlVars, pin, agent, mishaps>>

\* The agent starts again: what it was doing and its unsent reports are lost.
RestartAgent(n) ==
  /\ Mishap
  /\ ~Idle(n)
  /\ agent' = [agent EXCEPT ![n] = [todo |-> {}, grant |-> 0, reports |-> <<>>]]
  /\ UNCHANGED <<dbVars, ctlVars, pin, presence, late>>

\* No heartbeat for a while, within the grace of the node's class; then beyond.
FallSilent(n) ==
  /\ n \in Flaky
  /\ \/ /\ presence[n] = "online" /\ Mishap
        /\ presence' = [presence EXCEPT ![n] = "away"]
     \/ /\ presence[n] = "away" /\ UNCHANGED mishaps
        /\ presence' = [presence EXCEPT ![n] = "gone"]
  /\ UNCHANGED <<dbVars, ctlVars, pin, agent, late>>

-----------------------------------------------------------------------------
Registering(r) == RegisterInsert(r) \/ RegisterFence(r)

Users(r) ==
  RegisterCheck(r) \/ RegisterRejected(r) \/ ReleaseOne(r) \/ ReleaseLast(r)

Planning(p) ==
  \/ Reconcile(p) \/ ReconcileReleased(p)
  \/ \E n \in Node :
       PlanPin(p, n) \/ PlanVerify(p, n) \/ PlanTrim(p, n) \/ PlanFinal(p, n)

AgentLoop(n) ==
  Poll(n) \/ Execute(n) \/ AuthorizeGranted(n) \/ AuthorizeDenied(n) \/ Report(n)

GoesWrong(n) ==
  \/ PollUnanswered(n) \/ ExecuteBadly(n) \/ AuthorizeUnanswered(n)
  \/ AuthorizeDelayed(n) \/ ReportUnanswered(n) \/ ReportDelayed(n)
  \/ RestartAgent(n) \/ FallSilent(n)

Next ==
  \/ \E r \in Ref : Users(r) \/ Registering(r)
  \/ \E p \in Planner : Planning(p)
  \/ \E n \in Node : AgentLoop(n) \/ GoesWrong(n)
  \/ \E m \in late : HandleLate(m)
  \/ Recover \/ RestartController

Spec == Init /\ [][Next]_vars

\* Fairness: the loops run for ever.  A reconciling thread comes back every few
\* minutes, an agent polls, works and reports every few seconds, the maintenance
\* thread recovers, and what is on its way is handled.  Users need not do
\* anything, and nothing bad has to happen.
Fairness ==
  /\ \A r \in Ref : WF_vars(Registering(r))
  /\ \A p \in Planner : WF_vars(Planning(p))
  /\ \A n \in Node : WF_vars(AgentLoop(n))
  /\ WF_vars(Recover)
  /\ WF_vars(\E m \in late : HandleLate(m))

FairSpec == Spec /\ Fairness

-----------------------------------------------------------------------------
(* Properties.                                                             *)

Live == {r \in Ref : refs[r] = "live"}
Pins == {n \in Node : pin[n]}

\* Three transactions, retries and tombstones, and still every live reference
\* is counted once and no other is (register_object, release_object).
RefcountIsLiveRefs == refcount = Cardinality(Live)

\* RELEASE_NOTES_v2.1.4.md:22: when the copy a live reference came with has
\* been trimmed, N copies are left, M of them committable.
TrimKeepsFloor == (\E r \in Live : ~pin[Source[r]]) => Enough(Pins)

\* A copy the controller counts on exists, or is just being removed with its
\* permission (the report of apply_job_report is on its way).
ConfirmedIsReal ==
  refcount > 0 =>
    \A n \in Confirmed : pin[n] \/ \E j \in Authorized : j.node = n

\* docs/REPLICATION_CONTROLLER.md:49, "pin-only to permit additive repair": in that
\* mode no copy is removed, whatever fails, restarts or is handled late (reconcile_cid
\* and authorize_unpin by mode, execute_job).
NoCopyIsRemoved == [][Pins \subseteq Pins']_vars

\* hb_replication_controller.py:213-214: a node with an assignment is not chosen
\* again, because "the old retry may still recover later".  So a copy that is
\* assigned has its PIN still waiting in this generation, and one that failed
\* has the PIN or VERIFY that failed (create_pin_assignment, apply_job_report).
AssignmentsAreRetried ==
  \A n \in Node : desired[n] =>
    /\ rstate[n] = "assigned" => \E j \in At(n) : j.op = "PIN" /\ j.gen = gen
    /\ rstate[n] = "failed" =>
         \E j \in At(n) : j.op \in {"PIN", "VERIFY"} /\ j.gen = gen

\* docs/RELEASE_NOTES_v2.1.4.md:20 and hb_replication_v214_db.py:155: an unpin that
\* is authorised, its outcome unknown, is never left without its reason.  Under a
\* trim the last reference does not go.  Under a final release one may still come
\* back, when its check (line 73) came before the permission and its insertion
\* after it; but then its registration, unless it is at the fence, has put the
\* content into a new generation, in which the unpin's report counts for nothing.
AuthorizationStands ==
  \A j \in Authorized :
    /\ j.reason = Trim => refcount > 0
    /\ j.reason = Final /\ refcount > 0 =>
         j.gen # gen \/ \E r \in Ref : reg[r] = "fence"

\* The cleanup of a content nobody refers to any more removes every pin, those
\* left out of the records by a registration that never went through apart
\* (_plan_final_release, authorize_unpin, recover_v214).
Abandoned ==
  refcount = 0 /\ released /\ mode = "full" /\ \A r \in Ref : reg[r] = "idle"

Unrecorded(n) == \E r \in Ref : refs[r] = "unknown" /\ Source[r] = n

CleanupCompletes ==
  <>[]Abandoned => <>[](\A n \in Node : pin[n] => Unrecorded(n))

\* docs/REPLICATION_CONTROLLER.md:7-8: N is the minimum target of confirmed
\* copies, M of the committable ones.  For a content in its first life repair gets
\* there when all nodes are up and enough of them do not have a lost copy: one of
\* a node that was gone for too long.  The controller (reconcile_cid) neither
\* verifies a lost copy again nor chooses its node, which is desired, for another.
Wanted == refcount > 0 /\ gen = 1 /\ \A n \in Node : presence[n] = "online"
Lost == {n \in Node : desired[n] /\ rstate[n] = "missing"}

RepairCompletes ==
  <>[](Wanted /\ mode = "pin-only" /\ Enough(Node \ Lost)) =>
    <>[]Enough(Pins) /\ []<>Enough(Confirmed)

\* The same for the mode that adds trimming and cleanup, where even with no copy
\* lost (hb_replication_controller.py:227 places in pin-only alone) it fails.
FullModeRepairs == <>[](Wanted /\ mode = "full") => []<>Enough(Confirmed)

Content == INSTANCE PinnedContent WITH live <- Live, pins <- Pins
ImplementsPinnedContent == Content!ContentSpec
=============================================================================
