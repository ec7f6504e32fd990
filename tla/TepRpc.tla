-------------------------------- MODULE TepRpc --------------------------------
(***************************************************************************)
(* Requests of one HB-TEP daemon to one target: the direct route and, when *)
(* it does not answer in time, up to MaxRelayAttempts rendezvous, the      *)
(* caller itself possibly among them (tep/hb_tep.py, hb_tep_app.py,        *)
(* hb_tep_client.py, hb_tep_relay.py, hb_tep_runtime.py,                   *)
(* hb_tep_runtime_ha.py).  UDP frames may be lost, duplicated and          *)
(* reordered.  The target keeps a replay cache and checks how old a        *)
(* request is, by clocks that need not agree; it may restart.              *)
(*                                                                         *)
(* A request keeps its id on every route, so that the target's cache       *)
(* catches a second copy; what a rendezvous sends is an envelope with an   *)
(* id of its own.  Each daemon has one table of the ids it awaits an       *)
(* answer for (_app_pending).                                              *)
(*                                                                         *)
(* One unit of the clock is the 30 s a message stays acceptable or a large *)
(* part of it; a call lasts at most 3 s, so that its timeouts may fire at  *)
(* any moment.  Assumed: the thread started for a request makes its replay *)
(* check in the unit in which the frame was decoded.                       *)
(*                                                                         *)
(* Left out: encryption and the lookup of peers (all are registered, see   *)
(* PeerTable), the validation of the fields of an envelope other than its  *)
(* time (local programs build them), restarts of the caller and of a       *)
(* rendezvous, what a service computes.                                    *)
(***************************************************************************)
EXTENDS Integers, FiniteSets, Sequences

CONSTANTS
  Call,              \* requests of the local programs
  Service,           \* Call -> the service it asks for
  Caller, Target,    \* the two daemons
  Route,             \* relay_peer_ids, in the order they are tried
  MaxRelayAttempts,
  Patience,          \* Call -> relays its time budget is enough for
  PendingLimit,      \* ids a daemon may await at one time
  Past, Future,      \* how old and how early a timestamp may be
  Skew,              \* daemon -> its clock minus the true time
  Window,            \* how long the replay cache keeps an id
  MaxEntries,        \* how many it keeps
  MaxTime,           \* bound: units of true time
  LastCall,          \* bound: the time after which no call is made
  MaxAccepted,       \* bound: ids put into one daemon's replay cache
  MaxRestarts        \* bound: restarts of the target

Rendezvous == {Route[k] : k \in DOMAIN Route}
Daemon == {Caller, Target} \cup Rendezvous

ASSUME CallsAssumption ==
  /\ IsFiniteSet(Call)
  /\ Service \in [Call -> {"storage.summary", "master.status", "ha.lease"}]
ASSUME RouteAssumption ==
  /\ Caller # Target /\ Target \notin Rendezvous
  /\ Len(Route) \in Nat /\ DOMAIN Route = 1..Len(Route)
ASSUME SkewAssumption == Skew \in [Daemon -> Int]
ASSUME LimitsAssumption ==
  /\ MaxRelayAttempts \in Nat /\ Patience \in [Call -> Nat] /\ PendingLimit \in Nat \ {0}
  /\ Past \in Nat /\ Future \in Nat /\ MaxEntries \in Nat \ {0}
  /\ MaxTime \in Nat /\ LastCall \in Nat /\ MaxAccepted \in Nat /\ MaxRestarts \in Nat
\* 120 s against 30 s and 10 s: an id is forgotten only when its request is no
\* longer acceptable.
ASSUME WindowAssumption == Window \in Nat /\ Window > Past + Future

VARIABLES
  \* the local programs
  step, leg,     \* Call -> idle, waiting or returned; 0 direct, k the k-th relay
  outcome,       \* Call -> what the program was told
  made,          \* Call -> timestamp of the request
  \* the daemons
  pending,       \* the ids that are awaited -> the answer, once there is one
  seen,          \* daemon -> its replay cache
  inserted,      \* daemon -> ids put into that cache since it started
  running,       \* ids the target's services are working for
  \* the network, and what the properties look back at
  frames,
  clock, restarts,
  runs,          \* the target's executions since it started
  ever           \* calls executed at any time

callVars == <<step, leg, outcome, made>>
cacheVars == <<seen, inserted>>
logVars == <<running, runs, ever>>
vars == <<callVars, pending, cacheVars, frames, clock, restarts, logVars>>

None == "none"
\* answered: the service's result, or its error.  refused: a ProtocolError of
\* the caller's own daemon (client_overloaded, unsupported_service, the route
\* of the own rendezvous).  timeout: no answer, or one after the deadline.
Failures == {"timeout", "refused"}

-----------------------------------------------------------------------------
(* Envelopes.                                                              *)

\* The envelope of a call on a leg: req is what the caller sends (an app
\* request, or a relay_req to a rendezvous), fwd is the relay_req from a
\* rendezvous to the target.
Envelope(c, k, hop) == [call |-> c, leg |-> k, hop |-> hop]

\* The daemon that awaits the answer.
Waiter(id) == IF id.hop = "req" THEN Caller ELSE Route[id.leg]

Now(n) == clock + Skew[n]

\* validate_envelope: the timestamp is inside the acceptance window of n.
Fresh(n, stamp) == stamp >= Now(n) - Past /\ stamp <= Now(n) + Future

Ask(id) == [id |-> id, code |-> None, stamp |-> Now(Waiter(id))]
Answer(id, code, n) == [id |-> id, code |-> code, stamp |-> Now(n)]

-----------------------------------------------------------------------------
(* The replay cache.                                                       *)

\* Entries that are not older than the window.
Kept(n) == {e \in seen[n] : e.at > clock - Window}

Replayed(n, key) == \E e \in Kept(n) : e.key = key

\* check_and_add of an id that was not there: the oldest entry goes when there
\* are too many.
Record(n, key) ==
  LET place == inserted[n] + 1
      entry == [key |-> key, at |-> clock, place |-> place]
  IN /\ ~Replayed(n, key) /\ place <= MaxAccepted
     /\ seen' = [seen EXCEPT ![n] =
                   {e \in Kept(n) \cup {entry} : e.place + MaxEntries > place}]
     /\ inserted' = [inserted EXCEPT ![n] = place]

-----------------------------------------------------------------------------
(* The table of awaited answers.                                           *)

Awaited(n) == {id \in DOMAIN pending : Waiter(id) = n}

\* Mutant: one more than the limit.
FullAboveLimit(n, but) == Cardinality(Awaited(n) \ but) > PendingLimit

\* _pending_create refuses: too many ids, not counting those just given up.
Full(n, but) == Cardinality(Awaited(n) \ but) >= PendingLimit

\* Mutant: an id that is given up stays in the table.
TableKeepsAbandoned(out, in) ==
  [id \in DOMAIN pending \cup in |-> IF id \in in THEN None ELSE pending[id]]

\* The table without the ids of one set and with those of another, and the
\* network with one more set of frames.  Answers nobody awaits any more are
\* dropped wherever they arrive; the model drops them at once.
Table(out, in) ==
  [id \in (DOMAIN pending \ out) \cup in |->
     IF id \in in THEN None ELSE pending[id]]

Network(out, new) ==
  {f \in frames \cup new : f.code = None \/ f.id \in DOMAIN pending \ out}

-----------------------------------------------------------------------------
(* The caller.                                                             *)

\* The id the call waits for.
Held(c) == Envelope(c, leg[c], IF leg[c] # 0 /\ Route[leg[c]] = Caller
                               THEN "fwd" ELSE "req")

Return(c, result, out) ==
  /\ step' = [step EXCEPT ![c] = "returned"]
  /\ outcome' = [outcome EXCEPT ![c] = result]
  /\ pending' = Table(out, {})
  /\ frames' = Network(out, {})
  /\ leg' = [leg EXCEPT ![c] = 0]
  /\ UNCHANGED made

\* Send on leg k and wait.
Dispatch(c, k, id, out) ==
  /\ step' = [step EXCEPT ![c] = "waiting"]
  /\ leg' = [leg EXCEPT ![c] = k]
  /\ pending' = Table(out, {id})
  /\ frames' = Network(out, {Ask(id)})
  /\ UNCHANGED outcome

\* TepRpcClient.request, FailoverTepTransport, app_transport: the direct route.
Begin(c) ==
  /\ step[c] = "idle" /\ clock <= LastCall
  /\ IF Full(Caller, {})
     THEN Return(c, "refused", {})
     ELSE /\ Dispatch(c, 0, Envelope(c, 0, "req"), {})
          /\ made' = [made EXCEPT ![c] = Now(Caller)]
  /\ UNCHANGED <<cacheVars, clock, restarts, logVars>>

\* What may be asked for through a rendezvous.
Relayable(c) == Service[c] \in {"storage.summary", "master.status"}

\* relay_transport of the k-th rendezvous.  A ProtocolError ends the call: the
\* failover catches only timeouts, relay errors and OS errors.
TryRelay(c, k, out) ==
  LET own == Route[k] = Caller
      id == Envelope(c, k, IF own THEN "fwd" ELSE "req")
  IN \/ /\ own \/ Full(Caller, out)   \* own: the service may not be relayed, or
        /\ Return(c, "refused", out)    \* the route is unknown or stale
     \/ /\ own => Relayable(c)
        /\ ~Full(Caller, out)
        /\ Dispatch(c, k, id, out)
        /\ UNCHANGED made

\* Mutant: only the direct route has a timeout.
TimeOutDirectOnly(c) ==
  /\ step[c] = "waiting" /\ pending[Held(c)] = None /\ leg[c] = 0
  /\ \/ /\ leg[c] < MaxRelayAttempts /\ leg[c] < Len(Route) /\ leg[c] < Patience[c]
        /\ TryRelay(c, leg[c] + 1, {Held(c)})
     \/ Return(c, "timeout", {Held(c)})
  /\ UNCHANGED <<cacheVars, clock, restarts, logVars>>

\* The wait ends without an answer: the next relay, or, when there is none or
\* no time is left, the end.
TimeOut(c) ==
  /\ step[c] = "waiting" /\ pending[Held(c)] = None
  /\ \/ /\ leg[c] < MaxRelayAttempts /\ leg[c] < Len(Route) /\ leg[c] < Patience[c]
        /\ TryRelay(c, leg[c] + 1, {Held(c)})
     \/ Return(c, "timeout", {Held(c)})
  /\ UNCHANGED <<cacheVars, clock, restarts, logVars>>

\* The wait ends with the answer that is in the table by now.  When the deadline
\* has passed in the meantime the client does not accept it any more.
Wake(c) ==
  /\ step[c] = "waiting" /\ pending[Held(c)] # None
  /\ \E result \in {pending[Held(c)], "timeout"} : Return(c, result, {Held(c)})
  /\ UNCHANGED <<cacheVars, clock, restarts, logVars>>

-----------------------------------------------------------------------------
(* The daemons' handlers.                                                  *)

\* An answer completes the entry of its id; a later one overwrites it as long as
\* the entry is there.
Complete(f) ==
  /\ f.code # None /\ f.id \in DOMAIN pending
  /\ Fresh(Waiter(f.id), f.stamp)
  /\ pending' = [pending EXCEPT ![f.id] = f.code]
  /\ UNCHANGED <<callVars, cacheVars, frames, clock, restarts, logVars>>

\* _handle_relay_request: a rendezvous takes a relay_req of the caller.  After
\* the replay check it drops the request when the service may not be relayed,
\* the inner request is too old, it has no fresh route or awaits too much.
RelayAccept(f) ==
  LET id == f.id
      n == Route[id.leg]
      fwd == Envelope(id.call, id.leg, "fwd")
  IN /\ f.code = None /\ id.hop = "req" /\ id.leg # 0
     /\ Fresh(n, f.stamp)
     /\ Record(n, id)
     /\ \/ UNCHANGED <<pending, frames>>
        \/ /\ Relayable(id.call) /\ Fresh(n, made[id.call]) /\ ~Full(n, {})
           /\ pending' = Table({}, {fwd})
           /\ frames' = Network({}, {Ask(fwd)})
     /\ UNCHANGED <<callVars, clock, restarts, logVars>>

\* The rendezvous' wait ends: it passes the answer on, or drops the request.
RelayReturn(id) ==
  /\ id \in DOMAIN pending /\ id.hop = "fwd" /\ Waiter(id) # Caller
  /\ pending' = Table({id}, {})
  /\ frames' = Network({id}, IF pending[id] = None THEN {}
                            ELSE {Answer(Envelope(id.call, id.leg, "req"),
                                         pending[id], Waiter(id))})
  /\ UNCHANGED <<callVars, cacheVars, clock, restarts, logVars>>

\* Mutant: only the rendezvous' envelope is checked for its time.
AcceptableOuterOnly(f) ==
  /\ f.code = None
  /\ f.id.hop = "req" => f.id.leg = 0
  /\ Fresh(Target, f.stamp)

\* The target has a request on its hands that it may execute.
Acceptable(f) ==
  /\ f.code = None
  /\ f.id.hop = "req" => f.id.leg = 0
  /\ Fresh(Target, f.stamp)
  /\ f.id.hop = "fwd" => Fresh(Target, made[f.id.call])

\* ServiceRegistry.dispatch finds the handler of ha.lease, which wants to know
\* who asks and refuses without an envelope of its own.
DirectOnly(f) == f.id.hop = "fwd" /\ Service[f.id.call] = "ha.lease"

\* Mutant: the cache knows requests by the envelope they came in.
ExecuteByEnvelope(f) ==
  LET c == f.id.call
  IN /\ Acceptable(f)
     /\ Record(Target, f.id)
     /\ IF DirectOnly(f)
        THEN UNCHANGED logVars
        ELSE /\ runs' = runs \cup {[call |-> c, place |-> inserted[Target] + 1]}
             /\ ever' = ever \cup {c}
             /\ running' = running \cup {f.id}
     /\ UNCHANGED <<callVars, pending, frames, clock, restarts>>

\* _handle_app_request, _handle_relay_delivery: the cache knows requests by the
\* id they were made with, whatever route they took.
Execute(f) ==
  LET c == f.id.call
  IN /\ Acceptable(f)
     /\ Record(Target, c)
     /\ IF DirectOnly(f)
        THEN UNCHANGED logVars
        ELSE /\ runs' = runs \cup {[call |-> c, place |-> inserted[Target] + 1]}
             /\ ever' = ever \cup {c}
             /\ running' = running \cup {f.id}
     /\ UNCHANGED <<callVars, pending, frames, clock, restarts>>

\* A request that is in the cache: an error for a direct one, silence for a
\* relayed one.
RejectReplay(f) ==
  /\ Acceptable(f) /\ f.id.hop = "req"
  /\ Replayed(Target, f.id.call)
  /\ frames' = Network({}, {Answer(f.id, "replay_detected", Target)})
  /\ UNCHANGED <<callVars, pending, cacheVars, clock, restarts, logVars>>

\* A service is done, with or without a result.  Over a relay an error is
\* dropped.
Finish(id, ok) ==
  /\ id \in running
  /\ running' = running \ {id}
  /\ frames' = IF id.hop = "fwd" /\ ~ok THEN frames
               ELSE Network({}, {Answer(id, "answered", Target)})
  /\ UNCHANGED <<callVars, pending, cacheVars, clock, restarts, runs, ever>>

\* HaLeaseHandler.dispatch_envelope: the answer of the local agent, or an error
\* when it refuses or is not there; the caller is told either way.
ServeLease(id) == Service[id.call] = "ha.lease" /\ Finish(id, TRUE)

\* MasterStatusHandler (and StorageSummaryHandler, which differs in the page it
\* reads): the page of a local service, if that is there, well and not too large.
ServePage(id) == Relayable(id.call) /\ \E ok \in BOOLEAN : Finish(id, ok)

\* The target's daemon restarts: threads and replay cache are gone.
Restart ==
  /\ restarts < MaxRestarts
  /\ restarts' = restarts + 1
  /\ seen' = [seen EXCEPT ![Target] = {}]
  /\ inserted' = [inserted EXCEPT ![Target] = 0]
  /\ running' = {} /\ runs' = {}
  /\ UNCHANGED <<callVars, pending, frames, clock, ever>>

\* Frames nobody would accept any more are dropped.
Tick ==
  /\ clock < MaxTime
  /\ clock' = clock + 1
  /\ frames' = {f \in frames : \E n \in Daemon : f.stamp >= Now(n)' - Past}
  /\ UNCHANGED <<callVars, pending, cacheVars, restarts, logVars>>

-----------------------------------------------------------------------------
Init ==
  /\ step = [c \in Call |-> "idle"] /\ leg = [c \in Call |-> 0]
  /\ outcome = [c \in Call |-> None] /\ made = [c \in Call |-> 0]
  /\ pending = [id \in {} |-> None]
  /\ seen = [n \in Daemon |-> {}] /\ inserted = [n \in Daemon |-> 0]
  /\ running = {} /\ runs = {} /\ ever = {}
  /\ frames = {} /\ clock = 0 /\ restarts = 0

Next ==
  \/ \E c \in Call : Begin(c) \/ TimeOut(c) \/ Wake(c)
  \/ \E f \in frames :
       Complete(f) \/ RelayAccept(f) \/ Execute(f) \/ RejectReplay(f)
  \/ \E id \in DOMAIN pending : RelayReturn(id)
  \/ \E id \in running : ServeLease(id) \/ ServePage(id)
  \/ Restart
  \/ Tick

\* Event.wait returns when it is set or when its timeout is over.
Fairness == \A c \in Call : WF_vars(TimeOut(c) \/ Wake(c))

Spec == Init /\ [][Next]_vars /\ Fairness

-----------------------------------------------------------------------------
(* Properties.                                                             *)

Ids == [call : Call, leg : 0..Len(Route), hop : {"req", "fwd"}]
Codes == {"answered", "replay_detected"}

\* The types of the variables and the two limits of a daemon: it awaits at most
\* PendingLimit ids and its cache keeps at most MaxEntries.
TypeOK ==
  /\ step \in [Call -> {"idle", "waiting", "returned"}]
  /\ leg \in [Call -> 0..MaxRelayAttempts]
  /\ outcome \in [Call -> Failures \cup Codes \cup {None}]
  /\ made \in [Call -> Int]
  /\ DOMAIN pending \subseteq Ids
  /\ \A id \in DOMAIN pending : pending[id] \in Codes \cup {None}
  /\ seen \in [Daemon -> SUBSET [key : Call \cup Ids, at : Nat, place : Nat]]
  /\ inserted \in [Daemon -> Nat]
  /\ running \subseteq Ids /\ ever \subseteq Call
  /\ runs \subseteq [call : Call, place : Nat]
  /\ frames \subseteq [id : Ids, code : Codes \cup {None}, stamp : Int]
  /\ clock \in 0..MaxTime /\ restarts \in 0..MaxRestarts
  /\ \A n \in Daemon :
       Cardinality(Awaited(n)) <= PendingLimit /\ Cardinality(seen[n]) <= MaxEntries

\* Every id the caller's daemon awaits is the one a call waits for right now
\* (the finally clauses of the transports): an id that stayed behind would take
\* one of the 256 places for good, and a late answer to a route that was given
\* up cannot end the wait of another.
PendingIsOwned ==
  \A id \in Awaited(Caller) : step[id.call] = "waiting" /\ id = Held(id.call)

\* No service runs for a request that is older than the target accepts, by its
\* own clock, even when a rendezvous held it back or carries it in an envelope
\* made later: until then a caller that gave up must reckon with it.
ExecutedInTime ==
  [][\A r \in runs' \ runs :
       Now(Caller) - made[r.call] <= Past + Skew[Caller] - Skew[Target]]_vars

\* The target executes a request at most once in MaxEntries + 1 accepted ones
\* while it runs, over whatever routes and however often its frames arrive, and
\* what the caller is told of an execution is true.
Promise == INSTANCE AtMostOnce
  WITH Capacity <- MaxEntries, Failure <- Failures, accepted <- inserted[Target]
ImplementsAtMostOnce == Promise!AtMostOnceSpec

\* Every call returns, whatever becomes of its frames.
CallReturns == \A c \in Call : step[c] = "waiting" ~> step[c] = "returned"
=============================================================================
