---------------------------- MODULE TepRpc_proofs ----------------------------
(***************************************************************************)
(* At most one execution, and what else the requests of TepRpc rely on,    *)
(* for any calls, rendezvous, clocks, limits and durations: frames may be  *)
(* lost, duplicated, delayed and reordered without bound, and the target   *)
(* may restart at any time.                                                *)
(***************************************************************************)
EXTENDS TepRpc, FiniteSetTheorems, TLAPS

-----------------------------------------------------------------------------
(* The invariant.                                                           *)

\* TypeOK without the two limits.
RpcType ==
  /\ step \in [Call -> {"idle", "waiting", "returned"}]
  /\ leg \in [Call -> 0..MaxRelayAttempts] /\ \A c \in Call : leg[c] <= Len(Route)
  /\ outcome \in [Call -> Failures \cup Codes \cup {None}]
  /\ made \in [Call -> Int]
  /\ DOMAIN pending \subseteq Ids
  /\ \A id \in DOMAIN pending : pending[id] \in Codes \cup {None}
  /\ seen \in [Daemon -> SUBSET [key : Call \cup Ids, at : Nat, place : Nat]]
  /\ inserted \in [Daemon -> Nat]
  /\ running \subseteq Ids /\ ever \subseteq Call
  /\ runs \subseteq [call : Call, place : Nat]
  /\ frames \subseteq [id : Ids, code : Codes \cup {None}, stamp : Int]
  /\ clock \in 0..MaxTime /\ restarts \in 0..MaxRestarts

\* A call that waits has its place in the table, and has been told nothing yet.
WaitsInTable ==
  \A c \in Call : /\ step[c] = "waiting" => Held(c) \in DOMAIN pending
                  /\ step[c] # "returned" => outcome[c] = None

\* Only calls that were made are talked about, so that the time they were made
\* at does not change any more.
Begun ==
  /\ \A f \in frames : step[f.id.call] # "idle"
  /\ \A id \in DOMAIN pending \cup running : step[id.call] # "idle"
  /\ \A r \in runs : step[r.call] # "idle"
  /\ \A e \in seen[Target] : e.key \in Call /\ step[e.key] # "idle"

\* What may be in a request: the direct one tells the time of the call, the own
\* rendezvous is asked by no frame, and what must not be relayed is not.
Requests ==
  /\ \A f \in frames : f.code = None =>
       /\ f.id.hop = "req" /\ f.id.leg = 0 => f.stamp = made[f.id.call]
       /\ f.id.hop = "req" /\ f.id.leg # 0 => Route[f.id.leg] # Caller
       /\ f.id.hop = "fwd" => f.id.leg # 0 /\ Relayable(f.id.call)
  /\ \A id \in DOMAIN pending : id.hop = "fwd" => id.leg # 0

\* Whatever is answered was executed, and so was whatever the target has seen:
\* it would refuse a relayed ha.lease after it has put it into its cache, but
\* nobody relays one.
Truthful ==
  /\ \A f \in frames : f.code # None => f.id.call \in ever
  /\ \A id \in DOMAIN pending : pending[id] # None => id.call \in ever
  /\ \A id \in running : id.call \in ever
  /\ \A e \in seen[Target] : e.key \in ever

\* A request that was executed is still in the cache, or too many others were
\* accepted since, or it is too old to be accepted again.
TooOld(c) == made[c] < Now(Target) - Past
Cached ==
  /\ \A e \in seen[Target] : made[e.key] <= e.at + Skew[Target] + Future
  /\ \A r \in runs : \/ r.place + MaxEntries <= inserted[Target]
                     \/ TooOld(r.call)
                     \/ \E e \in seen[Target] : e.key = r.call /\ e.place = r.place

RpcInv ==
  /\ RpcType /\ PendingIsOwned /\ WaitsInTable
  /\ Begun /\ Requests /\ Truthful /\ Cached

-----------------------------------------------------------------------------
(* What the steps of a local program amount to.                            *)

\* The id awaited on leg k, and what a step gives up.
HeldOn(c, k) == Envelope(c, k, IF k # 0 /\ Route[k] = Caller THEN "fwd" ELSE "req")
GivenUp(c) == IF step[c] = "idle" THEN {} ELSE {Held(c)}

Returns(c) ==
  \E result \in Failures \cup Codes :
    /\ Return(c, result, GivenUp(c))
    /\ result \in Codes => step[c] = "waiting" /\ pending[Held(c)] = result

Sends(c) ==
  \E k \in 0..MaxRelayAttempts :
    /\ k <= Len(Route)
    /\ Dispatch(c, k, HeldOn(c, k), GivenUp(c))
    /\ ~Full(Caller, GivenUp(c))
    /\ HeldOn(c, k).hop = "fwd" => Relayable(c)
    /\ \/ step[c] = "idle" /\ k = 0 /\ made' = [made EXCEPT ![c] = Now(Caller)]
       \/ step[c] = "waiting" /\ k # 0 /\ UNCHANGED made

LEMMA ProgramStep ==
  ASSUME RpcType, WaitsInTable, NEW c \in Call, Begin(c) \/ TimeOut(c) \/ Wake(c)
  PROVE  /\ step[c] # "returned"
         /\ UNCHANGED <<cacheVars, clock, restarts, logVars>>
         /\ Returns(c) \/ Sends(c)
<1>1. CASE Begin(c)
  <2>1. step[c] = "idle" /\ GivenUp(c) = {}
    BY <1>1 DEF Begin, GivenUp
  <2>2. CASE Full(Caller, {})
    <3>1. Return(c, "refused", GivenUp(c))
      BY <1>1, <2>1, <2>2 DEF Begin
    <3>2. QED  BY <1>1, <2>1, <3>1 DEF Begin, Returns, Failures, Codes
  <2>3. CASE ~Full(Caller, {})
    <3>1. /\ HeldOn(c, 0) = Envelope(c, 0, "req") /\ HeldOn(c, 0).hop # "fwd"
          /\ Dispatch(c, 0, HeldOn(c, 0), GivenUp(c))
          /\ made' = [made EXCEPT ![c] = Now(Caller)]
      BY <1>1, <2>1, <2>3 DEF Begin, HeldOn, Envelope
    <3>2. 0 \in 0..MaxRelayAttempts /\ 0 <= Len(Route)
      BY LimitsAssumption, RouteAssumption
    <3>3. Sends(c)
      BY <2>1, <2>3, <3>1, <3>2 DEF Sends
    <3>4. QED  BY <1>1, <2>1, <3>3 DEF Begin
  <2>4. QED  BY <2>2, <2>3
<1>2. CASE TimeOut(c)
  <2>1. step[c] = "waiting" /\ GivenUp(c) = {Held(c)}
    BY <1>2 DEF TimeOut, GivenUp
  <2>2. CASE Return(c, "timeout", {Held(c)})
    BY <1>2, <2>1, <2>2 DEF TimeOut, Returns, Failures, Codes
  <2>3. CASE /\ leg[c] < MaxRelayAttempts /\ leg[c] < Len(Route)
             /\ TryRelay(c, leg[c] + 1, {Held(c)})
    <3> DEFINE k == leg[c] + 1
    <3>1. k \in 0..MaxRelayAttempts /\ k <= Len(Route) /\ k # 0
      BY <2>3, LimitsAssumption, RouteAssumption DEF RpcType
    <3>2. CASE Return(c, "refused", {Held(c)})
      BY <1>2, <2>1, <3>2 DEF TimeOut, Returns, Failures, Codes
    <3>3. CASE ~Return(c, "refused", {Held(c)})
      <4>1. /\ ~Full(Caller, GivenUp(c)) /\ UNCHANGED made
            /\ Dispatch(c, k, HeldOn(c, k), GivenUp(c))
            /\ Route[k] = Caller => Relayable(c)
        BY <2>1, <2>3, <3>1, <3>3 DEF TryRelay, HeldOn
      <4>2. HeldOn(c, k).hop = "fwd" => Relayable(c)
        BY <4>1 DEF HeldOn, Envelope
      <4>3. Sends(c)
        BY <2>1, <3>1, <4>1, <4>2 DEF Sends
      <4>4. QED  BY <1>2, <2>1, <4>3 DEF TimeOut
    <3>4. QED  BY <3>2, <3>3
  <2>4. QED  BY <1>2, <2>2, <2>3 DEF TimeOut
<1>3. CASE Wake(c)
  <2>1. /\ step[c] = "waiting" /\ GivenUp(c) = {Held(c)} /\ Held(c) \in DOMAIN pending
        /\ pending[Held(c)] \in Codes
    BY <1>3 DEF Wake, GivenUp, WaitsInTable, RpcType
  <2>2. QED  BY <1>3, <2>1 DEF Wake, Returns, Failures, Codes
<1>4. QED  BY <1>1, <1>2, <1>3

LEMMA HeldType ==
  ASSUME NEW c \in Call, NEW k \in 0..Len(Route)
  PROVE  HeldOn(c, k) \in Ids /\ HeldOn(c, k).call = c /\ HeldOn(c, k).leg = k
BY DEF HeldOn, Envelope, Ids

\* The table keeps what is not given up and gets what is new.
LEMMA TableDomain ==
  ASSUME NEW out, NEW in
  PROVE  /\ DOMAIN Table(out, in) = (DOMAIN pending \ out) \cup in
         /\ \A id \in in : Table(out, in)[id] = None
         /\ \A id \in (DOMAIN pending \ out) \ in : Table(out, in)[id] = pending[id]
BY DEF Table

LEMMA TableLess ==
  ASSUME NEW out
  PROVE  DOMAIN Table(out, {}) = DOMAIN pending \ out
BY DEF Table

LEMMA TableMore ==
  ASSUME NEW in
  PROVE  DOMAIN Table({}, in) = DOMAIN pending \cup in
BY DEF Table

LEMMA WaiterType ==
  ASSUME NEW id \in Ids
  PROVE  id.leg # 0 \/ id.hop = "req" => Waiter(id) \in Daemon /\ Waiter(id) # Target
BY RouteAssumption DEF Ids, Waiter, Daemon, Rendezvous

LEMMA NowType ==
  ASSUME RpcType, NEW n \in Daemon
  PROVE  Now(n) \in Int
BY SkewAssumption, LimitsAssumption DEF RpcType, Now

\* A table without some ids and with some others is one; so is the network.
LEMMA TableType ==
  ASSUME RpcType, NEW out, NEW in \in SUBSET Ids
  PROVE  /\ DOMAIN Table(out, in) \subseteq Ids
         /\ \A id \in DOMAIN Table(out, in) : Table(out, in)[id] \in Codes \cup {None}
<1> DEFINE T == Table(out, in)
<1>1. DOMAIN T = (DOMAIN pending \ out) \cup in /\ DOMAIN pending \subseteq Ids
  BY DEF RpcType, Table
<1>2. ASSUME NEW id \in DOMAIN T
      PROVE  T[id] \in Codes \cup {None}
  BY <1>1, <1>2 DEF RpcType, Table
<1>3. QED  BY <1>1, <1>2

LEMMA NetworkType ==
  ASSUME RpcType, NEW out,
         NEW new \in SUBSET [id : Ids, code : Codes \cup {None}, stamp : Int]
  PROVE  Network(out, new) \subseteq [id : Ids, code : Codes \cup {None}, stamp : Int]
BY DEF RpcType, Network

LEMMA AskType ==
  ASSUME RpcType, NEW id \in Ids, id.leg # 0 \/ id.hop = "req"
  PROVE  Ask(id) \in [id : Ids, code : Codes \cup {None}, stamp : Int]
BY WaiterType, NowType DEF Ask

-----------------------------------------------------------------------------
(* Types.                                                                   *)

LEMMA ProgramType ==
  ASSUME RpcType, WaitsInTable, NEW c \in Call, Begin(c) \/ TimeOut(c) \/ Wake(c)
  PROVE  RpcType'
<1>1. UNCHANGED <<cacheVars, clock, restarts, logVars>> /\ (Returns(c) \/ Sends(c))
  BY ProgramStep
<1>2. CASE Returns(c)
  <2>1. PICK result \in Failures \cup Codes : Return(c, result, GivenUp(c))
    BY <1>2 DEF Returns
  <2>2. /\ step' \in [Call -> {"idle", "waiting", "returned"}]
        /\ outcome' \in [Call -> Failures \cup Codes \cup {None}]
        /\ leg' \in [Call -> 0..MaxRelayAttempts] /\ \A d \in Call : leg'[d] <= Len(Route)
        /\ made' \in [Call -> Int]
    BY <2>1, LimitsAssumption, RouteAssumption DEF Return, RpcType
  <2>3. /\ DOMAIN pending' \subseteq Ids
        /\ \A id \in DOMAIN pending' : pending'[id] \in Codes \cup {None}
    BY <2>1, TableType DEF Return
  <2>4. frames' \subseteq [id : Ids, code : Codes \cup {None}, stamp : Int]
    BY <2>1, NetworkType DEF Return
  <2>5. QED  BY <1>1, <2>2, <2>3, <2>4 DEF RpcType, cacheVars, logVars
<1>3. CASE Sends(c)
  <2>1. PICK k \in 0..MaxRelayAttempts :
          /\ k <= Len(Route) /\ Dispatch(c, k, HeldOn(c, k), GivenUp(c))
          /\ made' = [made EXCEPT ![c] = Now(Caller)] \/ UNCHANGED made
    BY <1>3 DEF Sends
  <2>2. Now(Caller) \in Int
    BY NowType DEF Daemon
  <2>3. /\ step' \in [Call -> {"idle", "waiting", "returned"}]
        /\ outcome' \in [Call -> Failures \cup Codes \cup {None}]
        /\ leg' \in [Call -> 0..MaxRelayAttempts] /\ \A d \in Call : leg'[d] <= Len(Route)
        /\ made' \in [Call -> Int]
    BY <2>1, <2>2 DEF Dispatch, RpcType
  <2>4. HeldOn(c, k) \in Ids /\ (HeldOn(c, k).leg # 0 \/ HeldOn(c, k).hop = "req")
    BY <2>1, LimitsAssumption, RouteAssumption DEF HeldOn, Envelope, Ids
  <2>5. {HeldOn(c, k)} \in SUBSET Ids
        /\ {Ask(HeldOn(c, k))} \in SUBSET [id : Ids, code : Codes \cup {None}, stamp : Int]
    BY <2>4, AskType
  <2>6. /\ DOMAIN pending' \subseteq Ids
        /\ \A id \in DOMAIN pending' : pending'[id] \in Codes \cup {None}
    BY <2>1, <2>5, TableType DEF Dispatch
  <2>7. frames' \subseteq [id : Ids, code : Codes \cup {None}, stamp : Int]
    BY <2>1, <2>5, NetworkType DEF Dispatch
  <2>8. QED  BY <1>1, <2>3, <2>6, <2>7 DEF RpcType, cacheVars, logVars
<1>4. QED  BY <1>1, <1>2, <1>3

LEMMA RecordType ==
  ASSUME RpcType, NEW n \in Daemon, NEW key \in Call \cup Ids, Record(n, key)
  PROVE  /\ seen' \in [Daemon -> SUBSET [key : Call \cup Ids, at : Nat, place : Nat]]
         /\ inserted' \in [Daemon -> Nat]
<1> DEFINE entry == [key |-> key, at |-> clock, place |-> inserted[n] + 1]
<1>1. entry \in [key : Call \cup Ids, at : Nat, place : Nat]
  BY LimitsAssumption DEF RpcType
<1>2. seen[n] \subseteq [key : Call \cup Ids, at : Nat, place : Nat]
  BY DEF RpcType
<1>3. {e \in Kept(n) \cup {entry} : e.place + MaxEntries > inserted[n] + 1}
        \in SUBSET [key : Call \cup Ids, at : Nat, place : Nat]
  BY <1>1, <1>2 DEF Kept
<1>4. QED  BY <1>3 DEF Record, RpcType

LEMMA FrameType ==
  ASSUME RpcType, NEW f \in frames
  PROVE  /\ f.id \in Ids /\ f.code \in Codes \cup {None} /\ f.stamp \in Int
         /\ f.id.call \in Call /\ f.id.leg \in 0..Len(Route) /\ f.id.hop \in {"req", "fwd"}
BY DEF RpcType, Ids

LEMMA HandlerType ==
  ASSUME RpcType, NEW f \in frames,
         Complete(f) \/ RelayAccept(f) \/ Execute(f) \/ RejectReplay(f)
  PROVE  RpcType'
<1>0. /\ f.id \in Ids /\ f.code \in Codes \cup {None} /\ f.id.call \in Call
      /\ f.id.leg \in 0..Len(Route)
  BY FrameType
<1>1. CASE Complete(f)
  <2>1. f.code \in Codes /\ pending' = [pending EXCEPT ![f.id] = f.code]
    BY <1>0, <1>1 DEF Complete
  <2>2. /\ DOMAIN pending' \subseteq Ids
        /\ \A id \in DOMAIN pending' : pending'[id] \in Codes \cup {None}
    BY <2>1 DEF RpcType
  <2>3. QED  BY <1>1, <2>2 DEF Complete, RpcType, callVars, cacheVars, logVars
<1>2. CASE RelayAccept(f)
  <2> DEFINE n == Route[f.id.leg]
             fwd == Envelope(f.id.call, f.id.leg, "fwd")
  <2>1. n \in Daemon /\ f.id.leg # 0
    BY <1>0, <1>2, RouteAssumption DEF RelayAccept, Daemon, Rendezvous
  <2>2. Record(n, f.id)
        /\ UNCHANGED <<callVars, clock, restarts, logVars>>
        /\ \/ UNCHANGED <<pending, frames>>
           \/ pending' = Table({}, {fwd}) /\ frames' = Network({}, {Ask(fwd)})
    BY <1>2 DEF RelayAccept
  <2>3. fwd \in Ids /\ fwd.leg # 0
    BY <1>0, <2>1 DEF Envelope, Ids
  <2>4. /\ DOMAIN pending' \subseteq Ids
        /\ \A id \in DOMAIN pending' : pending'[id] \in Codes \cup {None}
    <3>1. CASE UNCHANGED pending
      BY <3>1 DEF RpcType
    <3>2. CASE pending' = Table({}, {fwd})
      BY <2>3, <3>2, TableType
    <3>3. QED  BY <2>2, <3>1, <3>2
  <2>5. frames' \subseteq [id : Ids, code : Codes \cup {None}, stamp : Int]
    <3>1. CASE UNCHANGED frames
      BY <3>1 DEF RpcType
    <3>2. CASE frames' = Network({}, {Ask(fwd)})
      BY <2>3, <3>2, AskType, NetworkType
    <3>3. QED  BY <2>2, <3>1, <3>2
  <2>6. /\ seen' \in [Daemon -> SUBSET [key : Call \cup Ids, at : Nat, place : Nat]]
        /\ inserted' \in [Daemon -> Nat]
    BY <1>0, <2>1, <2>2, RecordType
  <2>7. QED  BY <2>2, <2>4, <2>5, <2>6 DEF RpcType, callVars, logVars
<1>3. CASE Execute(f)
  <2>1. Target \in Daemon /\ Record(Target, f.id.call)
    BY <1>3 DEF Execute, Daemon
  <2>2. /\ seen' \in [Daemon -> SUBSET [key : Call \cup Ids, at : Nat, place : Nat]]
        /\ inserted' \in [Daemon -> Nat]
    BY <1>0, <2>1, RecordType
  <2>3. running' \subseteq Ids /\ ever' \subseteq Call /\ runs' \subseteq [call : Call, place : Nat]
    BY <1>0, <1>3, <2>1 DEF Execute, logVars, RpcType
  <2>4. QED  BY <1>3, <2>2, <2>3 DEF Execute, RpcType, callVars
<1>4. CASE RejectReplay(f)
  <2>1. {Answer(f.id, "replay_detected", Target)}
          \in SUBSET [id : Ids, code : Codes \cup {None}, stamp : Int]
    BY <1>0, NowType DEF Answer, Codes, Daemon
  <2>2. frames' \subseteq [id : Ids, code : Codes \cup {None}, stamp : Int]
    BY <1>4, <2>1, NetworkType DEF RejectReplay
  <2>3. QED  BY <1>4, <2>2 DEF RejectReplay, RpcType, callVars, cacheVars, logVars
<1>5. QED  BY <1>1, <1>2, <1>3, <1>4

LEMMA RelayReturnType ==
  ASSUME RpcType, NEW id \in DOMAIN pending, RelayReturn(id),
         id.leg # 0
  PROVE  RpcType'
<1>1. id \in Ids /\ pending[id] \in Codes \cup {None}
  BY DEF RpcType
<1>2. /\ DOMAIN pending' \subseteq Ids
      /\ \A d \in DOMAIN pending' : pending'[d] \in Codes \cup {None}
  BY TableType DEF RelayReturn
<1>3. frames' \subseteq [id : Ids, code : Codes \cup {None}, stamp : Int]
  <2> DEFINE back == Answer(Envelope(id.call, id.leg, "req"), pending[id], Waiter(id))
             new == IF pending[id] = None THEN {} ELSE {back}
  <2>1. Now(Waiter(id)) \in Int
    BY <1>1, WaiterType, NowType
  <2>2. Envelope(id.call, id.leg, "req") \in Ids
    BY <1>1 DEF Envelope, Ids
  <2>3. new \in SUBSET [id : Ids, code : Codes \cup {None}, stamp : Int]
    BY <1>1, <2>1, <2>2 DEF Answer
  <2>4. frames' = Network({id}, new)
    BY DEF RelayReturn
  <2>5. QED  BY <2>3, <2>4, NetworkType
<1>4. QED  BY <1>2, <1>3 DEF RelayReturn, RpcType, callVars, cacheVars, logVars

LEMMA TargetType ==
  ASSUME RpcType,
         Restart \/ Tick \/ \E id \in running, ok \in BOOLEAN : Finish(id, ok)
  PROVE  RpcType'
<1>1. CASE Restart
  <2>1. Target \in Daemon /\ restarts' \in 0..MaxRestarts
    BY <1>1, LimitsAssumption DEF Restart, RpcType, Daemon
  <2>2. /\ seen' \in [Daemon -> SUBSET [key : Call \cup Ids, at : Nat, place : Nat]]
        /\ inserted' \in [Daemon -> Nat]
    BY <1>1 DEF Restart, RpcType
  <2>3. QED  BY <1>1, <2>1, <2>2 DEF Restart, RpcType, callVars
<1>2. CASE Tick
  BY <1>2, LimitsAssumption DEF Tick, RpcType, callVars, cacheVars, logVars
<1>3. ASSUME NEW id \in running, NEW ok \in BOOLEAN, Finish(id, ok)
      PROVE  RpcType'
  <2>1. {Answer(id, "answered", Target)}
          \in SUBSET [id : Ids, code : Codes \cup {None}, stamp : Int]
    BY NowType DEF Answer, Codes, Daemon, RpcType
  <2>2. frames' \subseteq [id : Ids, code : Codes \cup {None}, stamp : Int]
    <3>1. CASE frames' = frames
      BY <3>1 DEF RpcType
    <3>2. CASE frames' = Network({}, {Answer(id, "answered", Target)})
      BY <2>1, <3>2, NetworkType
    <3>3. QED  BY <1>3, <3>1, <3>2 DEF Finish
  <2>3. running' \subseteq Ids
    BY <1>3 DEF Finish, RpcType
  <2>4. QED  BY <1>3, <2>2, <2>3 DEF Finish, RpcType, callVars, cacheVars
<1>4. QED  BY <1>1, <1>2, <1>3

-----------------------------------------------------------------------------
(* The caller's table and the calls.                                        *)

LEMMA OthersHeld ==
  ASSUME RpcType, RpcType', NEW c \in Call, leg'[c] = leg[c]
  PROVE  Held(c)' = Held(c)
BY DEF Held

\* What is left in the table after a step of c, and what the others hold.
LEMMA ProgramOwned ==
  ASSUME RpcType, RpcType', PendingIsOwned, WaitsInTable, NEW c \in Call,
         Begin(c) \/ TimeOut(c) \/ Wake(c)
  PROVE  PendingIsOwned' /\ WaitsInTable'
<1>1. step[c] # "returned" /\ (Returns(c) \/ Sends(c))
  BY ProgramStep
<1>2. ASSUME NEW id \in DOMAIN pending, Waiter(id) = Caller, id \notin GivenUp(c)
      PROVE  /\ id.call \in Call /\ id.call # c /\ step[id.call] = "waiting"
             /\ id = Held(id.call)
  BY <1>1, <1>2 DEF PendingIsOwned, Awaited, GivenUp, RpcType, Ids
<1>3. \A d \in Call \ {c} : step[d] = "waiting" =>
        Held(d) \in DOMAIN pending /\ Held(d).call = d
  BY DEF WaitsInTable, Held, Envelope
<1>4. \A d \in Call \ {c} : Held(d) \notin GivenUp(c)
  BY DEF GivenUp, Held, Envelope
<1>5. CASE Returns(c)
  <2>1. PICK result \in Failures \cup Codes : Return(c, result, GivenUp(c))
    BY <1>5 DEF Returns
  <2>2. /\ step'[c] = "returned" /\ DOMAIN pending' = DOMAIN pending \ GivenUp(c)
        /\ \A d \in Call \ {c} :
             step'[d] = step[d] /\ leg'[d] = leg[d] /\ outcome'[d] = outcome[d]
    BY <2>1, TableLess DEF Return, RpcType
  <2>3. \A d \in Call \ {c} : Held(d)' = Held(d)
    BY <2>2 DEF Held
  <2>4. PendingIsOwned'
    BY <1>2, <2>2, <2>3 DEF PendingIsOwned, Awaited, Waiter
  <2>5. WaitsInTable'
    BY <1>3, <1>4, <2>2, <2>3 DEF WaitsInTable
  <2>6. QED  BY <2>4, <2>5
<1>6. CASE Sends(c)
  <2>1. PICK k \in 0..MaxRelayAttempts :
          k <= Len(Route) /\ Dispatch(c, k, HeldOn(c, k), GivenUp(c))
    BY <1>6 DEF Sends
  <2>2. /\ step'[c] = "waiting" /\ leg'[c] = k /\ outcome'[c] = outcome[c]
        /\ DOMAIN pending' = (DOMAIN pending \ GivenUp(c)) \cup {HeldOn(c, k)}
        /\ \A d \in Call \ {c} :
             step'[d] = step[d] /\ leg'[d] = leg[d] /\ outcome'[d] = outcome[d]
    BY <2>1, TableDomain DEF Dispatch, RpcType
  <2>3. Held(c)' = HeldOn(c, k) /\ HeldOn(c, k).call = c
    BY <2>2 DEF Held, HeldOn, Envelope
  <2>4. \A d \in Call \ {c} : Held(d)' = Held(d)
    BY <2>2 DEF Held
  <2>5. PendingIsOwned'
    BY <1>2, <2>2, <2>3, <2>4 DEF PendingIsOwned, Awaited, Waiter
  <2>6. WaitsInTable'
    BY <1>1, <1>3, <1>4, <2>2, <2>3, <2>4 DEF WaitsInTable
  <2>7. QED  BY <2>5, <2>6
<1>7. QED  BY <1>1, <1>5, <1>6

\* A step of the daemons changes the caller's table only by writing answers.
LEMMA DaemonsOwned ==
  ASSUME PendingIsOwned, WaitsInTable, UNCHANGED callVars,
         \A id \in DOMAIN pending : Waiter(id) = Caller => id \in DOMAIN pending',
         \A id \in DOMAIN pending' : Waiter(id) = Caller => id \in DOMAIN pending,
         \A c \in Call : step[c] = "waiting" => Waiter(Held(c)) = Caller
  PROVE  PendingIsOwned' /\ WaitsInTable'
<1>1. \A c \in Call : Held(c)' = Held(c) /\ step'[c] = step[c] /\ outcome'[c] = outcome[c]
  BY DEF Held, callVars
<1>2. PendingIsOwned'
  BY <1>1 DEF PendingIsOwned, Awaited, Waiter, callVars, Held
<1>3. WaitsInTable'
  BY <1>1 DEF WaitsInTable
<1>4. QED  BY <1>2, <1>3

LEMMA HeldWaiter ==
  ASSUME RpcType, NEW c \in Call
  PROVE  Waiter(Held(c)) = Caller
BY DEF Waiter, Held, Envelope

LEMMA HandlerOwned ==
  ASSUME RpcType, PendingIsOwned, WaitsInTable, Requests, NEW f \in frames,
         Complete(f) \/ RelayAccept(f) \/ Execute(f) \/ RejectReplay(f)
  PROVE  PendingIsOwned' /\ WaitsInTable'
<1>1. UNCHANGED callVars
  BY DEF Complete, RelayAccept, Execute, RejectReplay
<1>2. CASE DOMAIN pending' = DOMAIN pending
  BY <1>1, <1>2, HeldWaiter, DaemonsOwned
<1>3. CASE RelayAccept(f) /\ pending' = Table({}, {Envelope(f.id.call, f.id.leg, "fwd")})
  <2> DEFINE fwd == Envelope(f.id.call, f.id.leg, "fwd")
  <2>1. Waiter(fwd) # Caller
    BY <1>3 DEF RelayAccept, Requests, Waiter, Envelope
  <2>2. DOMAIN pending' = DOMAIN pending \cup {fwd}
    BY <1>3, TableMore
  <2>3. QED  BY <1>1, <2>1, <2>2, HeldWaiter, DaemonsOwned
<1>4. QED
  BY <1>2, <1>3 DEF Complete, RelayAccept, Execute, RejectReplay

LEMMA OtherOwned ==
  ASSUME RpcType, PendingIsOwned, WaitsInTable,
         \/ \E id \in DOMAIN pending : RelayReturn(id)
         \/ Restart \/ Tick
         \/ \E id \in running, ok \in BOOLEAN : Finish(id, ok)
  PROVE  PendingIsOwned' /\ WaitsInTable'
<1>1. ASSUME NEW id \in DOMAIN pending, RelayReturn(id)
      PROVE  PendingIsOwned' /\ WaitsInTable'
  <2>1. DOMAIN pending' = DOMAIN pending \ {id} /\ Waiter(id) # Caller /\ UNCHANGED callVars
    BY <1>1, TableLess DEF RelayReturn
  <2>2. QED  BY <2>1, HeldWaiter, DaemonsOwned
<1>2. CASE UNCHANGED <<callVars, pending>>
  BY <1>2, HeldWaiter, DaemonsOwned
<1>3. QED  BY <1>1, <1>2 DEF Restart, Tick, Finish

-----------------------------------------------------------------------------
(* Frames, answers and the replay cache.                                   *)

LogInv == Begun /\ Requests /\ Truthful /\ Cached

\* A step that leaves what the target knows alone, begins calls at most, and adds
\* only such frames and ids as the invariant allows.
LEMMA LogKept ==
  ASSUME RpcType, RpcType', LogInv,
         UNCHANGED <<seen[Target], inserted[Target], clock, logVars>>,
         \A c \in Call : step[c] # "idle" => step'[c] # "idle" /\ made'[c] = made[c],
         \A f \in frames' : \/ f \in frames
                            \/ /\ step'[f.id.call] # "idle"
                               /\ f.code # None => f.id.call \in ever
                               /\ f.code = None =>
                                    /\ f.id.hop = "req" /\ f.id.leg = 0 =>
                                         f.stamp = made'[f.id.call]
                                    /\ f.id.hop = "req" /\ f.id.leg # 0 =>
                                         Route[f.id.leg] # Caller
                                    /\ f.id.hop = "fwd" =>
                                         f.id.leg # 0 /\ Relayable(f.id.call),
         \A id \in DOMAIN pending' : \/ /\ id \in DOMAIN pending
                                        /\ \/ pending'[id] = pending[id]
                                           \/ id.call \in ever
                                     \/ /\ step'[id.call] # "idle"
                                        /\ id.hop = "fwd" => id.leg # 0
                                        /\ pending'[id] = None
  PROVE  LogInv'
<1>1. /\ \A f \in frames : f.id.call \in Call
      /\ \A id \in DOMAIN pending \cup running : id.call \in Call
      /\ \A r \in runs : r.call \in Call
  BY DEF RpcType, Ids
<1>2. seen'[Target] = seen[Target] /\ inserted'[Target] = inserted[Target]
      /\ UNCHANGED <<clock, running, runs, ever>>
  BY DEF logVars
<1>3. Begun'
  BY <1>1, <1>2 DEF LogInv, Begun
<1>4. Requests'
  BY <1>1 DEF LogInv, Begun, Requests, Relayable
<1>5. Truthful'
  BY <1>1, <1>2 DEF LogInv, Truthful
<1>6. Cached'
  <2>1. \A e \in seen[Target] : e.key \in Call /\ made'[e.key] = made[e.key]
    BY DEF LogInv, Begun
  <2>2. \A r \in runs : made'[r.call] = made[r.call]
    BY <1>1 DEF LogInv, Begun
  <2>3. QED  BY <1>2, <2>1, <2>2 DEF LogInv, Cached, TooOld, Now
<1>7. QED  BY <1>3, <1>4, <1>5, <1>6 DEF LogInv

LEMMA NetworkAdds ==
  ASSUME NEW out, NEW new
  PROVE  Network(out, new) \subseteq frames \cup new
BY DEF Network

LEMMA ProgramLog ==
  ASSUME RpcType, RpcType', WaitsInTable, LogInv, NEW c \in Call,
         Begin(c) \/ TimeOut(c) \/ Wake(c)
  PROVE  LogInv'
<1>1. /\ step[c] # "returned" /\ UNCHANGED <<cacheVars, clock, logVars>>
      /\ Returns(c) \/ Sends(c)
  BY ProgramStep
<1>2. UNCHANGED <<seen[Target], inserted[Target], clock, logVars>>
  BY <1>1 DEF cacheVars
<1>3. CASE Returns(c)
  <2>1. PICK result \in Failures \cup Codes : Return(c, result, GivenUp(c))
    BY <1>3 DEF Returns
  <2>2. \A d \in Call : step[d] # "idle" => step'[d] # "idle" /\ made'[d] = made[d]
    BY <2>1 DEF Return, RpcType
  <2>3. \A f \in frames' : f \in frames
    BY <2>1, NetworkAdds DEF Return
  <2>4. \A id \in DOMAIN pending' : id \in DOMAIN pending /\ pending'[id] = pending[id]
    BY <2>1 DEF Return, Table
  <2>5. QED  BY <1>2, <2>2, <2>3, <2>4, LogKept
<1>4. CASE Sends(c)
  <2>1. PICK k \in 0..MaxRelayAttempts :
          /\ k <= Len(Route) /\ Dispatch(c, k, HeldOn(c, k), GivenUp(c))
          /\ HeldOn(c, k).hop = "fwd" => Relayable(c)
          /\ \/ step[c] = "idle" /\ k = 0 /\ made' = [made EXCEPT ![c] = Now(Caller)]
             \/ step[c] = "waiting" /\ k # 0 /\ UNCHANGED made
    BY <1>4 DEF Sends
  <2> DEFINE id == HeldOn(c, k)
  <2>2. /\ id.call = c /\ id.leg = k
        /\ id.hop = "req" => k = 0 \/ Route[k] # Caller
        /\ id.hop = "fwd" => k # 0
        /\ k = 0 => id.hop = "req"
    BY DEF HeldOn, Envelope
  <2>3. /\ step'[c] = "waiting" /\ (k = 0 => made'[c] = Now(Caller))
        /\ \A d \in Call : step[d] # "idle" => step'[d] # "idle" /\ made'[d] = made[d]
    BY <2>1 DEF Dispatch, RpcType
  <2>4. Ask(id).id = id /\ Ask(id).code = None /\ (k = 0 => Ask(id).stamp = Now(Caller))
    BY <2>2 DEF Ask, Waiter
  <2>5. \A f \in frames' : f \in frames \/ f = Ask(id)
    BY <2>1, NetworkAdds DEF Dispatch
  <2>6. \A d \in DOMAIN pending' : \/ d \in DOMAIN pending /\ pending'[d] = pending[d]
                                   \/ d = id /\ pending'[d] = None
    BY <2>1 DEF Dispatch, Table
  <2> HIDE DEF id
  <2>7. id.hop = "fwd" => id.leg # 0 /\ Relayable(c)
    BY <2>1, <2>2 DEF id
  <2>8. \A f \in frames' : \/ f \in frames
                            \/ /\ f.id.call = c /\ f.code = None
                               /\ f.id.hop = "req" /\ f.id.leg = 0 => f.stamp = made'[c]
                               /\ f.id.hop = "req" /\ f.id.leg # 0 =>
                                    Route[f.id.leg] # Caller
                               /\ f.id.hop = "fwd" => f.id.leg # 0 /\ Relayable(c)
    BY <2>2, <2>3, <2>4, <2>5, <2>7
  <2>9. \A d \in DOMAIN pending' : \/ d \in DOMAIN pending /\ pending'[d] = pending[d]
                                   \/ /\ d.call = c /\ pending'[d] = None
                                      /\ d.hop = "fwd" => d.leg # 0
    BY <2>2, <2>6
  <2>10. QED  BY <1>2, <2>3, <2>8, <2>9, LogKept
<1>5. QED  BY <1>1, <1>3, <1>4

LEMMA RelayLog ==
  ASSUME RpcType, RpcType', LogInv, NEW f \in frames, Complete(f) \/ RelayAccept(f)
  PROVE  LogInv'
<1>0. f.id \in Ids /\ f.id.call \in Call /\ f.id.leg \in 0..Len(Route)
  BY FrameType
<1>1. /\ UNCHANGED <<callVars, clock, logVars>>
      /\ \A c \in Call : step[c] # "idle" => step'[c] # "idle" /\ made'[c] = made[c]
  BY DEF Complete, RelayAccept, callVars
<1>2. CASE Complete(f)
  <2>1. f.id.call \in ever /\ UNCHANGED <<seen[Target], inserted[Target]>>
    BY <1>2 DEF Complete, LogInv, Truthful, cacheVars
  <2>2. \A id \in DOMAIN pending' : /\ id \in DOMAIN pending
                                    /\ pending'[id] = pending[id] \/ id.call \in ever
    BY <1>2, <2>1 DEF Complete
  <2>3. UNCHANGED frames
    BY <1>2 DEF Complete
  <2>4. QED  BY <1>1, <2>1, <2>2, <2>3, LogKept
<1>3. CASE RelayAccept(f)
  <2> DEFINE n == Route[f.id.leg]
             fwd == Envelope(f.id.call, f.id.leg, "fwd")
  <2>1. n # Target /\ f.id.leg # 0
    BY <1>0, <1>3, RouteAssumption DEF RelayAccept, Rendezvous
  <2>2. UNCHANGED <<seen[Target], inserted[Target]>>
    BY <1>3, <2>1 DEF RelayAccept, Record, RpcType, Daemon
  <2>3. step'[f.id.call] # "idle" /\ fwd.call = f.id.call /\ fwd.leg # 0 /\ fwd.hop = "fwd"
    BY <1>0, <1>1, <2>1 DEF LogInv, Begun, Envelope
  <2>4. Ask(fwd).id = fwd /\ Ask(fwd).code = None
    BY DEF Ask
  <2>5. CASE UNCHANGED <<pending, frames>>
    BY <1>1, <2>2, <2>5, LogKept
  <2>6. CASE /\ Relayable(f.id.call)
             /\ pending' = Table({}, {fwd}) /\ frames' = Network({}, {Ask(fwd)})
    <3>1. \A g \in frames' : g \in frames \/ g = Ask(fwd)
      BY <2>6, NetworkAdds
    <3>2. \A id \in DOMAIN pending' : \/ id \in DOMAIN pending /\ pending'[id] = pending[id]
                                      \/ id = fwd /\ pending'[id] = None
      BY <2>6 DEF Table
    <3> HIDE DEF fwd
    <3>3. QED  BY <1>1, <2>2, <2>3, <2>4, <2>6, <3>1, <3>2, LogKept
  <2>7. QED  BY <1>3, <2>5, <2>6 DEF RelayAccept
<1>4. QED  BY <1>2, <1>3

LEMMA RelayReturnLog ==
  ASSUME RpcType, RpcType', LogInv, NEW id \in DOMAIN pending, RelayReturn(id)
  PROVE  LogInv'
<1> DEFINE back == Answer(Envelope(id.call, id.leg, "req"), pending[id], Waiter(id))
<1>1. /\ UNCHANGED <<callVars, cacheVars, clock, logVars>>
      /\ \A c \in Call : step[c] # "idle" => step'[c] # "idle" /\ made'[c] = made[c]
  BY DEF RelayReturn, callVars
<1>2. \A f \in frames' : f \in frames \/ (f = back /\ pending[id] # None)
  BY DEF RelayReturn, Network
<1>3. /\ back.id.call = id.call /\ back.code = pending[id]
      /\ step'[id.call] # "idle" /\ (pending[id] # None => id.call \in ever)
  BY <1>1 DEF Answer, Envelope, LogInv, Begun, Truthful, RpcType, Ids
<1>4. \A d \in DOMAIN pending' : d \in DOMAIN pending /\ pending'[d] = pending[d]
  BY DEF RelayReturn, Table
<1> HIDE DEF back
<1>5. UNCHANGED <<seen[Target], inserted[Target]>>
  BY <1>1 DEF cacheVars
<1>6. QED  BY <1>1, <1>2, <1>3, <1>4, <1>5, LogKept

LEMMA RejectLog ==
  ASSUME RpcType, RpcType', LogInv, NEW f \in frames, RejectReplay(f)
  PROVE  LogInv'
<1> DEFINE error == Answer(f.id, "replay_detected", Target)
<1>1. /\ UNCHANGED <<callVars, pending, cacheVars, clock, logVars>>
      /\ \A c \in Call : step[c] # "idle" => step'[c] # "idle" /\ made'[c] = made[c]
  BY DEF RejectReplay, callVars
<1>2. f.id.call \in ever
  BY DEF RejectReplay, Replayed, Kept, LogInv, Truthful
<1>3. error.id = f.id /\ error.code # None /\ step'[f.id.call] # "idle"
  BY <1>1, FrameType DEF Answer, None, LogInv, Begun
<1>4. \A g \in frames' : g \in frames \/ g = error
  BY NetworkAdds DEF RejectReplay
<1> HIDE DEF error
<1>5. UNCHANGED <<seen[Target], inserted[Target]>>
  BY <1>1 DEF cacheVars
<1>6. QED  BY <1>1, <1>2, <1>3, <1>4, <1>5, LogKept

LEMMA FinishLog ==
  ASSUME RpcType, LogInv, NEW id \in running, NEW ok \in BOOLEAN, Finish(id, ok)
  PROVE  LogInv'
<1> DEFINE answer == Answer(id, "answered", Target)
<1>1. /\ UNCHANGED <<step, made, pending, seen, inserted, clock, runs, ever>>
      /\ running' \subseteq running
  BY DEF Finish, callVars, cacheVars
<1>2. \A g \in frames' : g \in frames \/ g = answer
  BY NetworkAdds DEF Finish
<1>3. answer.id = id /\ answer.code # None
  BY DEF Answer, None
<1>4. id.call \in ever /\ step[id.call] # "idle"
  BY DEF LogInv, Truthful, Begun
<1> HIDE DEF answer
<1>5. Begun'
  BY <1>1, <1>2, <1>3, <1>4 DEF LogInv, Begun
<1>6. Requests'
  BY <1>1, <1>2, <1>3 DEF LogInv, Requests, Relayable
<1>7. Truthful'
  BY <1>1, <1>2, <1>3, <1>4 DEF LogInv, Truthful
<1>8. Cached'
  BY <1>1 DEF LogInv, Cached, TooOld, Now
<1>9. QED  BY <1>5, <1>6, <1>7, <1>8 DEF LogInv

LEMMA TickLog ==
  ASSUME RpcType, LogInv, Restart \/ Tick
  PROVE  LogInv'
<1>1. CASE Restart
  <2>1. /\ UNCHANGED <<step, made, pending, frames, ever>>
        /\ seen'[Target] = {} /\ running' = {} /\ runs' = {}
    BY <1>1 DEF Restart, callVars, RpcType, Daemon
  <2>2. QED
    BY <2>1 DEF LogInv, Begun, Requests, Truthful, Cached, Relayable
<1>2. CASE Tick
  <2>1. /\ UNCHANGED <<step, made, pending, seen, inserted, running, runs, ever>>
        /\ frames' \subseteq frames /\ clock' = clock + 1
    BY <1>2 DEF Tick, callVars, cacheVars, logVars
  <2>2. Begun' /\ Requests' /\ Truthful'
    BY <2>1 DEF LogInv, Begun, Requests, Truthful, Relayable
  <2>3. \A r \in runs : TooOld(r.call) => TooOld(r.call)'
    <3>1. \A r \in runs : made[r.call] \in Int
      BY DEF RpcType
    <3>2. Skew[Target] \in Int /\ clock \in Int /\ Past \in Int
      BY SkewAssumption, LimitsAssumption DEF RpcType, Daemon
    <3>3. QED  BY <2>1, <3>1, <3>2 DEF TooOld, Now
  <2>4. Cached'
    BY <2>1, <2>3 DEF LogInv, Cached
  <2>5. QED  BY <2>2, <2>4 DEF LogInv
<1>3. QED  BY <1>1, <1>2

\* A request that may be executed was made inside the acceptance window, whatever
\* envelope it came in.
LEMMA AcceptableFresh ==
  ASSUME RpcType, LogInv, NEW f \in frames, Acceptable(f)
  PROVE  Fresh(Target, made[f.id.call])
BY FrameType DEF LogInv, Requests, Acceptable

\* A request that was executed is not executed again before MaxEntries others
\* were accepted: what the cache lost by age is too old.
LEMMA ExecutedOnce ==
  ASSUME RpcType, LogInv, NEW f \in frames, Execute(f),
         NEW r \in runs, r.call = f.id.call
  PROVE  r.place + MaxEntries <= inserted[Target]
<1> SUFFICES ASSUME ~(r.place + MaxEntries <= inserted[Target])
             PROVE  FALSE
  OBVIOUS
<1> DEFINE c == f.id.call
<1>1. Fresh(Target, made[c]) /\ ~Replayed(Target, c)
  BY AcceptableFresh DEF Execute, Record
<1>2. made[c] \in Int /\ clock \in Int /\ Skew[Target] \in Int /\ Past \in Int
      /\ Window \in Int /\ Future \in Int
  BY FrameType, SkewAssumption, LimitsAssumption, WindowAssumption DEF RpcType, Daemon
<1>3. ~TooOld(c)
  BY <1>1, <1>2 DEF Fresh, TooOld, Now
<1>4. PICK e \in seen[Target] : e.key = c
  BY <1>3 DEF LogInv, Cached
<1>5. e.at \in Int /\ ~(e.at > clock - Window)
  BY <1>1, <1>4 DEF Replayed, Kept, RpcType, Daemon
<1>6. made[c] <= e.at + Skew[Target] + Future
  BY <1>4 DEF LogInv, Cached
<1>7. QED
  BY <1>1, <1>2, <1>5, <1>6, WindowAssumption DEF Fresh, Now

LEMMA ExecuteLog ==
  ASSUME RpcType, RpcType', LogInv, NEW f \in frames, Execute(f)
  PROVE  LogInv'
<1> DEFINE c == f.id.call
           p == inserted[Target] + 1
           entry == [key |-> c, at |-> clock, place |-> p]
<1>1. /\ UNCHANGED <<step, made, pending, frames, clock>>
      /\ f.id \in Ids /\ c \in Call /\ f.id.leg \in 0..Len(Route) /\ f.code = None
  BY FrameType DEF Execute, Acceptable, callVars
<1>2. ~DirectOnly(f)
  BY <1>1 DEF DirectOnly, LogInv, Requests, Relayable
<1>3. /\ runs' = runs \cup {[call |-> c, place |-> p]}
      /\ ever' = ever \cup {c} /\ running' = running \cup {f.id}
  BY <1>2 DEF Execute
<1>4. /\ seen'[Target] = {e \in Kept(Target) \cup {entry} : e.place + MaxEntries > p}
      /\ inserted'[Target] = p
  BY DEF Execute, Record, RpcType, Daemon
<1>5. inserted[Target] \in Nat /\ MaxEntries \in Nat \ {0}
  BY LimitsAssumption DEF RpcType, Daemon
<1>6. entry \in seen'[Target] /\ entry.key = c /\ entry.place = p /\ entry.at = clock
  BY <1>4, <1>5
<1>7. \A e \in seen'[Target] : e \in seen[Target] \/ e = entry
  BY <1>4 DEF Kept
<1>8. step[c] # "idle" /\ Fresh(Target, made[c])
  BY AcceptableFresh DEF Execute, LogInv, Begun
<1>9. Begun'
  BY <1>1, <1>3, <1>6, <1>7, <1>8 DEF LogInv, Begun
<1>10. Requests'
  BY <1>1 DEF LogInv, Requests, Relayable
<1>11. Truthful'
  BY <1>1, <1>3, <1>6, <1>7 DEF LogInv, Truthful
<1>12. Cached'
  <2>1. ASSUME NEW e \in seen'[Target]
        PROVE  made[e.key] <= e.at + Skew[Target] + Future
    <3>1. CASE e \in seen[Target]
      BY <3>1 DEF LogInv, Cached
    <3>2. CASE e = entry
      <4>1. made[c] \in Int /\ clock \in Int /\ Skew[Target] \in Int /\ Future \in Int
        BY <1>1, SkewAssumption, LimitsAssumption DEF RpcType, Daemon
      <4>2. QED  BY <1>6, <1>8, <3>2, <4>1 DEF Fresh, Now
    <3>3. QED  BY <1>7, <2>1, <3>1, <3>2
  <2>2. ASSUME NEW r \in runs'
        PROVE  \/ r.place + MaxEntries <= p
               \/ TooOld(r.call)
               \/ \E e \in seen'[Target] : e.key = r.call /\ e.place = r.place
    <3>1. CASE r = [call |-> c, place |-> p]
      BY <1>6, <3>1
    <3>2. CASE r \in runs
      <4>1. r.place \in Nat /\ r.call \in Call
        BY <3>2 DEF RpcType
      <4>2. CASE r.place + MaxEntries <= inserted[Target] \/ TooOld(r.call)
        BY <1>5, <4>1, <4>2
      <4>3. CASE \E e \in seen[Target] : e.key = r.call /\ e.place = r.place
        <5>1. PICK e \in seen[Target] : e.key = r.call /\ e.place = r.place
          BY <4>3
        <5>2. CASE e \in Kept(Target)
          BY <1>4, <1>5, <4>1, <5>1, <5>2
        <5>3. CASE e \notin Kept(Target)
          <6>1. e.at \in Int /\ ~(e.at > clock - Window)
            BY <5>1, <5>3 DEF Kept, RpcType, Daemon
          <6>2. made[r.call] <= e.at + Skew[Target] + Future
            BY <5>1 DEF LogInv, Cached
          <6>3. /\ made[r.call] \in Int /\ clock \in Int /\ Skew[Target] \in Int
                /\ Past \in Int /\ Future \in Int /\ Window \in Int
            BY <4>1, SkewAssumption, LimitsAssumption, WindowAssumption DEF RpcType, Daemon
          <6>4. TooOld(r.call)
            BY <6>1, <6>2, <6>3, WindowAssumption DEF TooOld, Now
          <6>5. QED  BY <6>4
        <5>4. QED  BY <5>2, <5>3
      <4>4. QED  BY <3>2, <4>2, <4>3 DEF LogInv, Cached
    <3>3. QED  BY <1>3, <2>2, <3>1, <3>2
  <2>3. QED  BY <1>1, <1>4, <2>1, <2>2 DEF Cached, TooOld, Now
<1>13. QED  BY <1>9, <1>10, <1>11, <1>12 DEF LogInv

-----------------------------------------------------------------------------
(* The theorems.                                                            *)

LEMMA InitRpc == Init => RpcInv
<1> SUFFICES ASSUME Init  PROVE RpcInv
  OBVIOUS
<1>1. RpcType
  BY LimitsAssumption, RouteAssumption DEF Init, RpcType
<1>2. PendingIsOwned /\ WaitsInTable
  BY DEF Init, PendingIsOwned, Awaited, WaitsInTable
<1>3. Begun /\ Requests /\ Truthful /\ Cached
  BY DEF Init, Begun, Requests, Truthful, Cached, Daemon
<1>4. QED  BY <1>1, <1>2, <1>3 DEF RpcInv

LEMMA NextRpc == RpcInv /\ [Next]_vars => RpcInv'
<1> SUFFICES ASSUME RpcInv, [Next]_vars  PROVE RpcInv'
  OBVIOUS
<1>0. RpcType /\ PendingIsOwned /\ WaitsInTable /\ Requests /\ LogInv
  BY DEF RpcInv, LogInv
<1>1. SUFFICES RpcType' /\ PendingIsOwned' /\ WaitsInTable' /\ LogInv'
  BY DEF RpcInv, LogInv
<1>2. ASSUME NEW c \in Call, Begin(c) \/ TimeOut(c) \/ Wake(c)
      PROVE  RpcType' /\ PendingIsOwned' /\ WaitsInTable' /\ LogInv'
  BY <1>0, <1>2, ProgramType, ProgramOwned, ProgramLog
<1>3. ASSUME NEW f \in frames, Complete(f) \/ RelayAccept(f) \/ Execute(f) \/ RejectReplay(f)
      PROVE  RpcType' /\ PendingIsOwned' /\ WaitsInTable' /\ LogInv'
  <2>1. RpcType'
    BY <1>0, <1>3, HandlerType
  <2>2. PendingIsOwned' /\ WaitsInTable'
    BY <1>0, <1>3, HandlerOwned
  <2>3. LogInv'
    BY <1>0, <1>3, <2>1, RelayLog, ExecuteLog, RejectLog
  <2>4. QED  BY <2>1, <2>2, <2>3
<1>4. ASSUME NEW id \in DOMAIN pending, RelayReturn(id)
      PROVE  RpcType' /\ PendingIsOwned' /\ WaitsInTable' /\ LogInv'
  <2>1. id.leg # 0
    BY <1>0, <1>4 DEF RelayReturn, Requests
  <2>2. RpcType'
    BY <1>0, <1>4, <2>1, RelayReturnType
  <2>3. QED  BY <1>0, <1>4, <2>2, OtherOwned, RelayReturnLog
<1>5. ASSUME NEW id \in running, NEW ok \in BOOLEAN, Finish(id, ok)
      PROVE  RpcType' /\ PendingIsOwned' /\ WaitsInTable' /\ LogInv'
  BY <1>0, <1>5, TargetType, OtherOwned, FinishLog
<1>6. CASE Restart \/ Tick
  BY <1>0, <1>6, TargetType, OtherOwned, TickLog
<1>7. CASE UNCHANGED vars
  BY <1>0, <1>7
     DEF vars, callVars, cacheVars, logVars, RpcType, PendingIsOwned, Awaited, Held,
         WaitsInTable, LogInv, Begun, Requests, Truthful, Cached, TooOld, Now
<1>8. QED
  BY <1>2, <1>3, <1>4, <1>5, <1>6, <1>7 DEF Next, ServeLease, ServePage

\* The invariant holds in every state the daemons can reach.
THEOREM RpcInductive == Spec => []RpcInv
<1>1. Init => RpcInv
  BY InitRpc
<1>2. RpcInv /\ [Next]_vars => RpcInv'
  BY NextRpc
<1>3. QED  BY <1>1, <1>2, PTL DEF Spec

\* Nothing stays behind in the caller's table, whatever route was given up and
\* whatever arrives late: each id in it is the one a call is waiting for.
THEOREM PendingIsAlwaysOwned == Spec => []PendingIsOwned
<1>1. RpcInv => PendingIsOwned
  BY DEF RpcInv
<1>2. QED  BY <1>1, RpcInductive, PTL

\* Only Execute adds an execution.
LEMMA RunsGrow ==
  ASSUME [Next]_vars, NEW r \in runs' \ runs
  PROVE  \E f \in frames : Execute(f) /\ r.call = f.id.call
<1>1. ASSUME NEW c \in Call, Begin(c) \/ TimeOut(c) \/ Wake(c)
      PROVE  UNCHANGED runs
  BY <1>1 DEF Begin, TimeOut, Wake, logVars
<1>2. ASSUME NEW f \in frames, Complete(f) \/ RelayAccept(f) \/ RejectReplay(f)
      PROVE  UNCHANGED runs
  BY <1>2 DEF Complete, RelayAccept, RejectReplay, logVars
<1>3. (\E id \in DOMAIN pending : RelayReturn(id)) => UNCHANGED runs
  BY DEF RelayReturn, logVars
<1>4. (\E id \in running : ServeLease(id) \/ ServePage(id)) => UNCHANGED runs
  BY DEF ServeLease, ServePage, Finish
<1>5. (Restart => runs' = {}) /\ (Tick => UNCHANGED runs) /\ (UNCHANGED vars => UNCHANGED runs)
  BY DEF Restart, Tick, vars, logVars
<1>6. PICK f \in frames : Execute(f)
  BY <1>1, <1>2, <1>3, <1>4, <1>5 DEF Next
<1>7. r.call = f.id.call
  BY <1>6 DEF Execute, logVars
<1>8. QED  BY <1>6, <1>7

\* No service runs for a request older than its daemon accepts, by that daemon's
\* clock: a rendezvous cannot make it younger by the envelope it puts it in
\* (validate_envelope of the inner envelope in _handle_relay_delivery).
THEOREM RequestsRunInTime == Spec => ExecutedInTime
<1>1. ASSUME RpcInv, [Next]_vars, NEW r \in runs' \ runs
      PROVE  Now(Caller) - made[r.call] <= Past + Skew[Caller] - Skew[Target]
  <2>1. PICK f \in frames : Execute(f) /\ r.call = f.id.call
    BY <1>1, RunsGrow
  <2>2. Fresh(Target, made[r.call]) /\ r.call \in Call
    BY <1>1, <2>1, AcceptableFresh, FrameType DEF Execute, RpcInv, LogInv
  <2>3. /\ made[r.call] \in Int /\ clock \in Int /\ Past \in Int
        /\ Skew[Caller] \in Int /\ Skew[Target] \in Int
    BY <1>1, <2>2, SkewAssumption, LimitsAssumption DEF RpcInv, RpcType, Daemon
  <2>4. QED  BY <2>2, <2>3 DEF Fresh, Now
<1>2. RpcInv /\ [Next]_vars =>
        [\A r \in runs' \ runs :
           Now(Caller) - made[r.call] <= Past + Skew[Caller] - Skew[Target]]_vars
  BY <1>1
<1>3. QED  BY <1>2, RpcInductive, PTL DEF Spec, ExecutedInTime

-----------------------------------------------------------------------------
(* The requests implement AtMostOnce.                                      *)

promiseVars == <<inserted[Target], runs, ever, outcome>>

LEMMA ProgramTells ==
  ASSUME RpcInv, NEW c \in Call, Begin(c) \/ TimeOut(c) \/ Wake(c)
  PROVE  Promise!AtMostOnceNext \/ UNCHANGED promiseVars
<1>0. RpcType /\ WaitsInTable /\ Truthful
  BY DEF RpcInv
<1>1. /\ step[c] # "returned" /\ UNCHANGED <<cacheVars, logVars>>
      /\ Returns(c) \/ Sends(c)
  BY <1>0, ProgramStep
<1>2. UNCHANGED <<inserted[Target], runs, ever>>
  BY <1>1 DEF cacheVars, logVars
<1>3. CASE Returns(c)
  <2>1. PICK result \in Failures \cup Codes :
          /\ Return(c, result, GivenUp(c))
          /\ result \in Codes => step[c] = "waiting" /\ pending[Held(c)] = result
    BY <1>3 DEF Returns
  <2>2. outcome' = [outcome EXCEPT ![c] = result] /\ outcome[c] = "none"
    BY <1>0, <1>1, <2>1 DEF Return, WaitsInTable, None
  <2>3. result \in Promise!Telling => c \in ever
    <3>1. SUFFICES ASSUME result \in Codes  PROVE c \in ever
      BY DEF Promise!Telling, Codes
    <3>2. Held(c) \in DOMAIN pending /\ pending[Held(c)] # None /\ Held(c).call = c
      BY <1>0, <2>1, <3>1 DEF WaitsInTable, Codes, None, Held, Envelope
    <3>3. QED  BY <1>0, <3>2 DEF Truthful
  <2>4. Promise!Tell(c, result) /\ result \in Failures \cup Promise!Telling
    BY <1>2, <2>2, <2>3 DEF Promise!Tell, Promise!Telling, Codes
  <2>5. QED  BY <2>4 DEF Promise!AtMostOnceNext
<1>4. CASE Sends(c)
  BY <1>2, <1>4 DEF Sends, Dispatch, promiseVars
<1>5. QED  BY <1>1, <1>3, <1>4

LEMMA TargetExecutes ==
  ASSUME RpcInv, NEW f \in frames, Execute(f)
  PROVE  Promise!AtMostOnceNext
<1>0. RpcType /\ LogInv /\ f.id.call \in Call
  BY FrameType DEF RpcInv, LogInv
<1>1. inserted'[Target] = inserted[Target] + 1 /\ UNCHANGED outcome
  BY <1>0 DEF Execute, Record, RpcType, Daemon, callVars
<1>2. CASE DirectOnly(f)
  BY <1>1, <1>2 DEF Execute, logVars, Promise!AtMostOnceNext, Promise!Refuse
<1>3. CASE ~DirectOnly(f)
  <2>1. /\ runs' = runs \cup {[call |-> f.id.call, place |-> inserted[Target] + 1]}
        /\ ever' = ever \cup {f.id.call}
    BY <1>3 DEF Execute
  <2>2. \A r \in runs : r.call = f.id.call => inserted[Target] + 1 > r.place + MaxEntries
    <3>1. inserted[Target] \in Nat /\ MaxEntries \in Nat /\ \A r \in runs : r.place \in Nat
      BY <1>0, LimitsAssumption DEF RpcType, Daemon
    <3>2. QED  BY <1>0, <3>1, ExecutedOnce
  <2>3. Promise!Execute(f.id.call)
    BY <1>1, <2>1, <2>2 DEF Promise!Execute
  <2>4. QED  BY <1>0, <2>3 DEF Promise!AtMostOnceNext
<1>4. QED  BY <1>2, <1>3

LEMMA PromiseStep ==
  RpcInv /\ [Next]_vars => [Promise!AtMostOnceNext]_promiseVars
<1> SUFFICES ASSUME RpcInv, [Next]_vars
             PROVE  Promise!AtMostOnceNext \/ UNCHANGED promiseVars
  OBVIOUS
<1>1. ASSUME NEW f \in frames, Complete(f) \/ RelayAccept(f) \/ RejectReplay(f)
      PROVE  UNCHANGED promiseVars
  <2>1. CASE RelayAccept(f)
    <3>1. f.id.leg \in 0..Len(Route) /\ f.id.leg # 0
      BY <2>1, FrameType DEF RelayAccept, RpcInv
    <3>2. Route[f.id.leg] # Target
      BY <3>1, RouteAssumption DEF Rendezvous
    <3>3. inserted'[Target] = inserted[Target]
      BY <2>1, <3>2 DEF RelayAccept, Record, RpcInv, RpcType, Daemon
    <3>4. QED  BY <2>1, <3>3 DEF RelayAccept, callVars, logVars, promiseVars
  <2>2. CASE Complete(f) \/ RejectReplay(f)
    BY <2>2 DEF Complete, RejectReplay, callVars, cacheVars, logVars, promiseVars
  <2>3. QED  BY <1>1, <2>1, <2>2
<1>2. ASSUME NEW id \in DOMAIN pending, RelayReturn(id)
      PROVE  UNCHANGED promiseVars
  BY <1>2 DEF RelayReturn, callVars, cacheVars, logVars, promiseVars
<1>3. ASSUME NEW id \in running, ServeLease(id) \/ ServePage(id)
      PROVE  UNCHANGED promiseVars
  BY <1>3 DEF ServeLease, ServePage, Finish, callVars, cacheVars, promiseVars
<1>4. CASE Restart
  <2>1. inserted'[Target] = 0 /\ runs' = {} /\ UNCHANGED <<ever, outcome>>
    BY <1>4 DEF Restart, callVars, RpcInv, RpcType, Daemon
  <2>2. QED  BY <2>1 DEF Promise!AtMostOnceNext, Promise!Forget
<1>5. CASE Tick \/ UNCHANGED vars
  BY <1>5 DEF Tick, vars, callVars, cacheVars, logVars, promiseVars
<1>6. QED
  BY <1>1, <1>2, <1>3, <1>4, <1>5, ProgramTells, TargetExecutes DEF Next

\* The calls of a client, over direct routes and rendezvous with frames lost,
\* repeated and late, implement what AtMostOnce promises: the target executes a
\* request at most once before MaxEntries others were accepted, and a caller that
\* is told of an execution can rely on it.
THEOREM RpcIsAtMostOnce == Spec => ImplementsAtMostOnce
<1>1. Init => Promise!AtMostOnceInit
  BY DEF Init, Promise!AtMostOnceInit, None, Daemon
<1>2. RpcInv /\ [Next]_vars =>
        [Promise!AtMostOnceNext]_<<inserted[Target], runs, ever, outcome>>
  BY PromiseStep DEF promiseVars
<1>3. QED
  BY <1>1, <1>2, RpcInductive, PTL DEF Spec, ImplementsAtMostOnce, Promise!AtMostOnceSpec

-----------------------------------------------------------------------------
(* The limits of a daemon.                                                  *)

\* The entries of a cache are the last ones that were put into it.
CacheBounded ==
  \A n \in Daemon :
    /\ \A e \in seen[n] : e.place <= inserted[n] /\ e.place + MaxEntries > inserted[n]
    /\ \A d, e \in seen[n] : d.place = e.place => d = e

TableBounded ==
  \A n \in Daemon :
    IsFiniteSet(Awaited(n)) /\ Cardinality(Awaited(n)) <= PendingLimit

LEMMA CacheStep ==
  ASSUME RpcType, CacheBounded, [Next]_vars
  PROVE  CacheBounded'
<1>1. ASSUME NEW n \in Daemon, NEW key, Record(n, key)
      PROVE  CacheBounded'
  <2> DEFINE p == inserted[n] + 1
             entry == [key |-> key, at |-> clock, place |-> p]
  <2>1. /\ seen'[n] = {e \in Kept(n) \cup {entry} : e.place + MaxEntries > p}
        /\ inserted'[n] = p
        /\ \A m \in Daemon \ {n} : seen'[m] = seen[m] /\ inserted'[m] = inserted[m]
    BY <1>1 DEF Record, RpcType
  <2>2. /\ inserted[n] \in Nat /\ \A e \in seen[n] : e.place \in Nat /\ e.place < p
        /\ entry.place = p
    BY DEF RpcType, CacheBounded
  <2>3. \A e \in seen'[n] : (e \in seen[n] \/ e = entry) /\ e.place + MaxEntries > p
    BY <2>1 DEF Kept
  <2>4. \A e \in seen'[n] : e.place <= inserted'[n] /\ e.place + MaxEntries > inserted'[n]
    BY <2>1, <2>2, <2>3
  <2>5. \A d, e \in seen'[n] : d.place = e.place => d = e
    BY <2>2, <2>3 DEF CacheBounded
  <2>6. QED  BY <2>1, <2>4, <2>5 DEF CacheBounded
<1>2. CASE UNCHANGED cacheVars
  BY <1>2 DEF CacheBounded, cacheVars
<1>3. CASE Restart
  BY <1>3 DEF Restart, CacheBounded, RpcType
<1>4. ASSUME NEW f \in frames, RelayAccept(f)
      PROVE  Route[f.id.leg] \in Daemon
  BY <1>4, FrameType, RouteAssumption DEF RelayAccept, Daemon, Rendezvous
<1>5. ASSUME NEW f \in frames, RelayAccept(f) \/ Execute(f)
      PROVE  CacheBounded'
  BY <1>1, <1>4, <1>5 DEF RelayAccept, Execute, Daemon
<1>6. QED
  BY <1>2, <1>3, <1>5
     DEF Next, Begin, TimeOut, Wake, Complete, RejectReplay, RelayReturn, ServeLease,
         ServePage, Finish, Tick, vars

\* Different places in a window of MaxEntries.
LEMMA CacheSize ==
  ASSUME RpcType, CacheBounded, NEW n \in Daemon
  PROVE  Cardinality(seen[n]) <= MaxEntries
<1> DEFINE low == inserted[n] - MaxEntries + 1
           f == [e \in seen[n] |-> e.place]
<1>1. inserted[n] \in Nat /\ MaxEntries \in Nat \ {0} /\ \A e \in seen[n] : e.place \in Nat
  BY LimitsAssumption DEF RpcType
<1>2. \A e \in seen[n] : e.place \in low..inserted[n]
  BY <1>1 DEF CacheBounded
<1>3. f \in Injection(seen[n], low..inserted[n])
  BY <1>2 DEF Injection, IsInjective, CacheBounded
<1>4. IsFiniteSet(low..inserted[n]) /\ Cardinality(low..inserted[n]) = MaxEntries
  <2>1. /\ low \in Int /\ inserted[n] \in Int /\ ~(low > inserted[n])
        /\ inserted[n] - low + 1 = MaxEntries
    BY <1>1
  <2> HIDE DEF low
  <2>2. QED  BY <2>1, FS_Interval
<1>5. QED  BY <1>3, <1>4, FS_Injection

LEMMA FewerAwaited ==
  ASSUME TableBounded, NEW n \in Daemon, Awaited(n)' \subseteq Awaited(n)
  PROVE  IsFiniteSet(Awaited(n)') /\ Cardinality(Awaited(n)') <= PendingLimit
<1>1. IsFiniteSet(Awaited(n)) /\ Cardinality(Awaited(n)) <= PendingLimit
  BY DEF TableBounded
<1>2. /\ IsFiniteSet(Awaited(n)') /\ Cardinality(Awaited(n)') <= Cardinality(Awaited(n))
  BY <1>1, FS_Subset
<1>3. Cardinality(Awaited(n)') \in Nat /\ Cardinality(Awaited(n)) \in Nat /\ PendingLimit \in Nat
  BY <1>1, <1>2, FS_CardinalityType, LimitsAssumption
<1>4. QED  BY <1>1, <1>2, <1>3

\* One more, where there was a place.
LEMMA OneMoreAwaited ==
  ASSUME TableBounded, NEW n \in Daemon, NEW but, ~Full(n, but), NEW id,
         Awaited(n)' \subseteq (Awaited(n) \ but) \cup {id}
  PROVE  IsFiniteSet(Awaited(n)') /\ Cardinality(Awaited(n)') <= PendingLimit
<1> DEFINE S == Awaited(n) \ but
<1>1. IsFiniteSet(S) /\ Cardinality(S) \in Nat
  BY FS_Subset, FS_CardinalityType DEF TableBounded
<1>2. Cardinality(S) + 1 <= PendingLimit /\ PendingLimit \in Nat
  BY <1>1, LimitsAssumption DEF Full
<1>3. IsFiniteSet(S \cup {id}) /\ Cardinality(S \cup {id}) <= Cardinality(S) + 1
  BY <1>1, FS_AddElement
<1>4. /\ IsFiniteSet(Awaited(n)')
      /\ Cardinality(Awaited(n)') <= Cardinality(S \cup {id})
  BY <1>3, FS_Subset
<1>5. Cardinality(Awaited(n)') \in Nat /\ Cardinality(S \cup {id}) \in Nat
  BY <1>3, <1>4, FS_CardinalityType
<1>6. QED  BY <1>1, <1>2, <1>3, <1>4, <1>5

LEMMA TableStep ==
  ASSUME RpcType, WaitsInTable, TableBounded, [Next]_vars
  PROVE  TableBounded'
<1>1. CASE DOMAIN pending' \subseteq DOMAIN pending
  <2>1. \A n \in Daemon : Awaited(n)' \subseteq Awaited(n)
    BY <1>1 DEF Awaited, Waiter
  <2>2. QED  BY <2>1, FewerAwaited DEF TableBounded
<1>2. ASSUME NEW n \in Daemon, NEW but, NEW id, Waiter(id) = n, ~Full(n, but),
             DOMAIN pending' = (DOMAIN pending \ but) \cup {id}
      PROVE  TableBounded'
  <2>1. Awaited(n)' \subseteq (Awaited(n) \ but) \cup {id}
    BY <1>2 DEF Awaited, Waiter
  <2>2. \A m \in Daemon \ {n} : Awaited(m)' \subseteq Awaited(m)
    BY <1>2 DEF Awaited, Waiter
  <2>3. QED  BY <1>2, <2>1, <2>2, OneMoreAwaited, FewerAwaited DEF TableBounded
<1>3. ASSUME NEW c \in Call, Begin(c) \/ TimeOut(c) \/ Wake(c)
      PROVE  TableBounded'
  <2>1. Returns(c) \/ Sends(c)
    BY <1>3, ProgramStep
  <2>2. CASE Returns(c)
    BY <1>1, <2>2, TableLess DEF Returns, Return
  <2>3. CASE Sends(c)
    <3>1. PICK k \in 0..MaxRelayAttempts :
            Dispatch(c, k, HeldOn(c, k), GivenUp(c)) /\ ~Full(Caller, GivenUp(c))
      BY <2>3 DEF Sends
    <3>2. Waiter(HeldOn(c, k)) = Caller
      BY DEF HeldOn, Envelope, Waiter
    <3>3. DOMAIN pending' = (DOMAIN pending \ GivenUp(c)) \cup {HeldOn(c, k)}
      BY <3>1, TableDomain DEF Dispatch
    <3>4. QED  BY <1>2, <3>1, <3>2, <3>3 DEF Daemon
  <2>4. QED  BY <2>1, <2>2, <2>3
<1>4. ASSUME NEW f \in frames, RelayAccept(f)
      PROVE  TableBounded'
  <2> DEFINE n == Route[f.id.leg]
             fwd == Envelope(f.id.call, f.id.leg, "fwd")
  <2>1. CASE UNCHANGED pending
    BY <1>1, <2>1
  <2>2. CASE ~Full(n, {}) /\ pending' = Table({}, {fwd})
    <3>1. n \in Daemon /\ Waiter(fwd) = n
      BY <1>4, FrameType, RouteAssumption DEF RelayAccept, Daemon, Rendezvous, Waiter, Envelope
    <3>2. DOMAIN pending' = (DOMAIN pending \ {}) \cup {fwd}
      BY <2>2, TableDomain
    <3>3. QED  BY <1>2, <2>2, <3>1, <3>2
  <2>3. QED  BY <1>4, <2>1, <2>2 DEF RelayAccept
<1>5. ASSUME NEW id \in DOMAIN pending, RelayReturn(id)
      PROVE  TableBounded'
  BY <1>1, <1>5, TableLess DEF RelayReturn
<1>6. ASSUME NEW f \in frames, Complete(f) \/ Execute(f) \/ RejectReplay(f)
      PROVE  TableBounded'
  BY <1>1, <1>6 DEF Complete, Execute, RejectReplay
<1>7. CASE UNCHANGED pending
  BY <1>1, <1>7
<1>8. QED
  BY <1>3, <1>4, <1>5, <1>6, <1>7
     DEF Next, ServeLease, ServePage, Finish, Restart, Tick, vars

\* Every variable keeps its type, and no daemon awaits more than PendingLimit ids
\* or remembers more than MaxEntries, whatever arrives and however late.
THEOREM RpcTypeCorrect == Spec => []TypeOK
<1>1. Init => CacheBounded /\ TableBounded
  BY FS_EmptySet, LimitsAssumption DEF Init, CacheBounded, TableBounded, Awaited
<1>2. RpcInv /\ CacheBounded /\ TableBounded /\ [Next]_vars => (CacheBounded /\ TableBounded)'
  BY CacheStep, TableStep DEF RpcInv
<1>3. RpcInv /\ CacheBounded /\ TableBounded => TypeOK
  BY CacheSize DEF RpcInv, RpcType, TypeOK, TableBounded
<1>4. QED  BY <1>1, <1>2, <1>3, RpcInductive, PTL DEF Spec
=============================================================================
