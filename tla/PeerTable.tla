------------------------------ MODULE PeerTable ------------------------------
(***************************************************************************)
(* What each HB-TEP daemon knows of the others: the peer table, which      *)
(* authenticated packets and the reconciliation with two registries write, *)
(* and what the status page shows of it (tep/hb_tep.py,                    *)
(* hb_tep_runtime.py).                                                     *)
(*                                                                         *)
(* A peer that was never heard is looked for where the registries have it; *)
(* one that was is taken to be where its last authenticated packet, a      *)
(* heartbeat or an APP packet, came from, whatever the registries say.     *)
(* Nodes move and publish their new address later; a daemon restarts with  *)
(* an empty table.                                                         *)
(*                                                                         *)
(* Three threads of a daemon share the table and lock it for one access    *)
(* each: reconciliation reads the registries and swaps the table later;    *)
(* the receiver writes the endpoint and marks the peer as seen in two      *)
(* steps; the sender works from a list it took before.                     *)
(*                                                                         *)
(* Ages are in ticks and stop counting when they exceed OnlineTtl.         *)
(* Assumed: a packet is handled in the tick it was received in; the first  *)
(* 16 bytes of the node ids differ (a heartbeat whose id is not unique is  *)
(* attributed by its address alone).                                       *)
(*                                                                         *)
(* Left out: static peers, keys that change, registry records without an   *)
(* address, the 30 s between two attempts to fetch a missing identity,     *)
(* packets that arrive twice.  What an APP packet carries, who asks for it *)
(* and what comes of it are in TepRpc; one that is too old, names somebody *)
(* else or is of the wrong type writes nothing here and counts as lost.    *)
(***************************************************************************)
EXTENDS Naturals, FiniteSets

CONSTANTS
  Node, Address,
  Listed,       \* nodes /api/tep/peers has; /api/nodes has all
  Keyed,        \* those of them whose record there has the identity
  Home,         \* node -> its first address
  Movable,      \* nodes that may change their address
  OnlineTtl,    \* PEER_ONLINE_TTL_SEC, in ticks
  NoPeer,       \* not in the table
  MaxMishaps,   \* bound: changes of address, restarts, reads that fail
  MaxFrames     \* bound: packets on their way

ASSUME NodesAssumption == Keyed \subseteq Listed /\ Listed \cup Movable \subseteq Node
ASSUME HomeAssumption == Home \in [Node -> Address]
ASSUME TtlAssumption == OnlineTtl \in Nat \ {0}
ASSUME BoundsAssumption == MaxMishaps \in Nat /\ MaxFrames \in Nat

VARIABLES
  at,         \* where each node is
  published,  \* where the registries have it
  table,      \* daemon -> node -> its Peer object
  snapshot,   \* daemon -> the registries it has read and not yet applied
  arrived,    \* daemon -> the node whose packet is being handled
  frames,     \* packets on their way
  heard,      \* daemon -> node -> age of the last packet it authenticated
  mishaps

vars == <<at, published, table, snapshot, arrived, frames, heard, mishaps>>

\* The part of core.Peer that matters.  age is that of last_seen; nobody asks
\* for it, and it is past all limits, while the peer is not online.
Peer == [address : Address, keyed : BOOLEAN, seen : BOOLEAN, online : BOOLEAN,
         age : 0..OnlineTtl + 1]
Others(n) == Node \ {n}

Frame == [kind : {"heartbeat", "app"}, from : Node, source : Address, to : Address]

Mishap == mishaps < MaxMishaps /\ mishaps' = mishaps + 1

Set(n, m, peer) == table' = [table EXCEPT ![n][m] = peer]

-----------------------------------------------------------------------------
(* Reconciliation.                                                         *)

\* Both registries are read, one after the other and without the lock; either
\* read may fail.  When both do, nothing happens.
ReadRegistries(n) ==
  /\ snapshot[n] = NoPeer
  /\ \E tep, nodes \in BOOLEAN :
       /\ tep \/ nodes
       /\ IF tep /\ nodes THEN UNCHANGED mishaps ELSE Mishap
       /\ snapshot' = [snapshot EXCEPT ![n] =
                         [tep |-> tep, nodes |-> nodes, address |-> published]]
  /\ UNCHANGED <<at, published, table, arrived, frames, heard>>

\* Mutant: the address of the registries always wins.
FromRecordsRegistered(s, m, previous) ==
  LET inTep == s.tep /\ m \in Listed
      had == previous # NoPeer
  IN IF ~inTep /\ ~s.nodes THEN NoPeer
     ELSE [address |-> s.address[m],
           keyed |-> s.nodes \/ m \in Keyed \/ (had /\ previous.keyed),
           seen |-> had /\ previous.seen,
           online |-> had /\ previous.online,
           age |-> IF had THEN previous.age ELSE OnlineTtl + 1]

\* Mutant: a peer is taken over only when /api/tep/peers has it.
FromRecordsTepOnly(s, m, previous) ==
  LET had == previous # NoPeer
      observed == had /\ previous.seen
  IN IF ~(s.tep /\ m \in Listed) THEN NoPeer
     ELSE [address |-> IF observed THEN previous.address ELSE s.address[m],
           keyed |-> s.nodes \/ m \in Keyed \/ (had /\ previous.keyed),
           seen |-> observed,
           online |-> had /\ previous.online,
           age |-> IF had THEN previous.age ELSE OnlineTtl + 1]

\* _peer_from_registry_records: a peer in neither registry is dropped, with
\* all that was known of it; one that was observed keeps its address.
FromRecords(s, m, previous) ==
  LET inTep == s.tep /\ m \in Listed
      had == previous # NoPeer
      observed == had /\ previous.seen
  IN IF ~inTep /\ ~s.nodes THEN NoPeer
     ELSE [address |-> IF observed THEN previous.address ELSE s.address[m],
           keyed |-> s.nodes \/ m \in Keyed \/ (had /\ previous.keyed),
           seen |-> observed,
           online |-> had /\ previous.online,
           age |-> IF had THEN previous.age ELSE OnlineTtl + 1]

\* One swap of the table, under the lock.
Swap(n) ==
  /\ snapshot[n] # NoPeer
  /\ table' = [table EXCEPT ![n] =
                 [m \in Others(n) |-> FromRecords(snapshot[n], m, table[n][m])]]
  /\ snapshot' = [snapshot EXCEPT ![n] = NoPeer]
  /\ UNCHANGED <<at, published, arrived, frames, heard, mishaps>>

-----------------------------------------------------------------------------
(* Packets.                                                                *)

\* _ensure_peer_identity: a missing identity is fetched from /api/nodes.  The
\* fetch may fail; what it brings is lost when the table was swapped meanwhile.
Identify(n, m, keyed) == keyed \in {table[n][m].keyed, TRUE}

\* _heartbeat_loop, one peer, sent to where the table has it.
Heartbeat(n, m) ==
  /\ table[n][m] # NoPeer /\ Cardinality(frames) < MaxFrames
  /\ \E keyed \in BOOLEAN :
       /\ Identify(n, m, keyed)
       /\ Set(n, m, [table[n][m] EXCEPT !.keyed = keyed])
  /\ frames' = frames \cup {[kind |-> "heartbeat", from |-> n, source |-> at[n],
                              to |-> table[n][m].address]}
  /\ UNCHANGED <<at, published, snapshot, arrived, heard, mishaps>>

\* _send_plain_to_peer, on behalf of a call or of its answer, to a peer with a key.
\* The address a request came from, or the relay table kept, is the one the table
\* had when it was received: a packet sent there later is taken to be one that took
\* longer (a sender that moved in between is left out).
SendApp(n, m) ==
  /\ table[n][m] # NoPeer /\ table[n][m].keyed /\ Cardinality(frames) < MaxFrames
  /\ frames' = frames \cup {[kind |-> "app", from |-> n, source |-> at[n],
                              to |-> table[n][m].address]}
  /\ UNCHANGED <<at, published, table, snapshot, arrived, heard, mishaps>>

\* No identity, or the socket refuses: mark_offline.
HeartbeatFails(n, m) ==
  /\ table[n][m] # NoPeer
  /\ Set(n, m, [table[n][m] EXCEPT !.online = FALSE, !.age = OnlineTtl + 1])
  /\ UNCHANGED <<at, published, snapshot, arrived, frames, heard, mishaps>>

\* _recv_loop up to update_authenticated_endpoint: the sender is in the table,
\* and the packet decrypts.  The identity a heartbeat needs is fetched when it is
\* missing; an APP packet without one is dropped (_app_peer_for_packet).
Receive(n, f) ==
  LET m == f.from IN
  /\ f.to = at[n] /\ m # n /\ arrived[n] = NoPeer
  /\ table[n][m] # NoPeer
  /\ f.kind = "app" => table[n][m].keyed
  /\ \E keyed \in BOOLEAN :
       /\ Identify(n, m, keyed)
       /\ Set(n, m, [table[n][m] EXCEPT !.address = f.source, !.keyed = keyed])
  /\ arrived' = [arrived EXCEPT ![n] = m]
  /\ heard' = [heard EXCEPT ![n][m] = 0]
  /\ frames' = frames \ {f}
  /\ UNCHANGED <<at, published, snapshot, mishaps>>

\* mark_seen, after a heartbeat as after an APP packet, unless the peer was removed
\* meanwhile.
MarkSeen(n) ==
  LET m == arrived[n] IN
  /\ m # NoPeer
  /\ arrived' = [arrived EXCEPT ![n] = NoPeer]
  /\ IF table[n][m] = NoPeer THEN UNCHANGED table
     ELSE Set(n, m, [table[n][m] EXCEPT !.seen = TRUE, !.online = TRUE, !.age = 0])
  /\ UNCHANGED <<at, published, snapshot, frames, heard, mishaps>>

\* The network loses a packet, or nobody is there or takes it.
Lose(f) ==
  /\ frames' = frames \ {f}
  /\ UNCHANGED <<at, published, table, snapshot, arrived, heard, mishaps>>

-----------------------------------------------------------------------------
(* The status page.                                                        *)

\* Mutant: a peer is online until a heartbeat to it fails.
FreshWhileOnline(peer) == peer.online

\* _peer_is_fresh.
Fresh(peer) == peer.online /\ peer.seen /\ peer.age <= OnlineTtl

\* to_json: the peers shown to be online.
Shown(n) == {m \in Others(n) : table[n][m] # NoPeer /\ Fresh(table[n][m])}

\* to_json and online_count first write down who is no longer fresh.
ExpireStale(n) ==
  /\ table' = [table EXCEPT ![n] =
       [m \in Others(n) |->
          IF table[n][m] = NoPeer THEN NoPeer
          ELSE IF Fresh(table[n][m]) THEN table[n][m]
          ELSE [table[n][m] EXCEPT !.online = FALSE]]]
  /\ UNCHANGED <<at, published, snapshot, arrived, frames, heard, mishaps>>

-----------------------------------------------------------------------------
(* Time and what happens to nodes.                                         *)

Move(n) ==
  /\ n \in Movable /\ Mishap
  /\ \E a \in Address \ {at[k] : k \in Node} : at' = [at EXCEPT ![n] = a]
  /\ UNCHANGED <<published, table, snapshot, arrived, frames, heard>>

Publish(n) ==
  /\ published' = [published EXCEPT ![n] = at[n]]
  /\ UNCHANGED <<at, table, snapshot, arrived, frames, heard, mishaps>>

Restart(n) ==
  /\ Mishap
  /\ table' = [table EXCEPT ![n] = [m \in Others(n) |-> NoPeer]]
  /\ snapshot' = [snapshot EXCEPT ![n] = NoPeer]
  /\ arrived' = [arrived EXCEPT ![n] = NoPeer]
  /\ UNCHANGED <<at, published, frames, heard>>

\* Mutant: the age is counted on.
OlderUncapped(age) == age + 1

Older(age) == IF age <= OnlineTtl THEN age + 1 ELSE age

Tick ==
  /\ \A n \in Node : arrived[n] = NoPeer
  /\ heard' = [n \in Node |-> [m \in Others(n) |-> Older(heard[n][m])]]
  /\ table' = [n \in Node |-> [m \in Others(n) |->
                 IF table[n][m] = NoPeer THEN NoPeer
                 ELSE [table[n][m] EXCEPT !.age = Older(table[n][m].age)]]]
  /\ UNCHANGED <<at, published, snapshot, arrived, frames, mishaps>>

-----------------------------------------------------------------------------
Init ==
  /\ at = Home /\ published = Home
  /\ table = [n \in Node |-> [m \in Others(n) |-> NoPeer]]
  /\ snapshot = [n \in Node |-> NoPeer] /\ arrived = [n \in Node |-> NoPeer]
  /\ frames = {} /\ mishaps = 0
  /\ heard = [n \in Node |-> [m \in Others(n) |-> OnlineTtl + 1]]

Next ==
  \/ \E n \in Node :
       \/ ReadRegistries(n) \/ Swap(n)
       \/ \E m \in Others(n) : Heartbeat(n, m) \/ HeartbeatFails(n, m) \/ SendApp(n, m)
       \/ \E f \in frames : Receive(n, f)
       \/ MarkSeen(n) \/ ExpireStale(n)
       \/ Move(n) \/ Publish(n) \/ Restart(n)
  \/ \E f \in frames : Lose(f)
  \/ Tick

\* The three threads of a daemon run for ever, a node publishes its address in
\* the end, a packet does not stay on its way, and of those that reach a daemon
\* again and again not all are lost.  Nobody has to make a call.
Fairness ==
  /\ WF_vars(\E f \in frames : Lose(f))
  /\ \A n \in Node :
       /\ WF_vars(ReadRegistries(n)) /\ WF_vars(Swap(n))
       /\ WF_vars(MarkSeen(n)) /\ WF_vars(Publish(n))
       /\ \A m \in Others(n) :
            /\ SF_vars(Heartbeat(n, m))
            /\ SF_vars(\E f \in frames : f.from = m /\ Receive(n, f))

Spec == Init /\ [][Next]_vars
FairSpec == Spec /\ Fairness

-----------------------------------------------------------------------------
(* Properties.                                                             *)

\* The types of the variables.
TypeOK ==
  /\ at \in [Node -> Address] /\ published \in [Node -> Address]
  /\ \A n \in Node : table[n] \in [Others(n) -> Peer \cup {NoPeer}]
  /\ \A n \in Node : snapshot[n] # NoPeer =>
       snapshot[n] \in [tep : BOOLEAN, nodes : BOOLEAN, address : [Node -> Address]]
  /\ arrived \in [Node -> Node \cup {NoPeer}]
  /\ frames \subseteq Frame
  /\ \A n \in Node : heard[n] \in [Others(n) -> 0..OnlineTtl + 1]
  /\ mishaps \in 0..MaxMishaps

\* No registry moves a peer that was heard from: its address changes only to the
\* source of an authenticated packet of its own, a heartbeat or an APP packet (NAT
\* mappings are known nowhere else).
ObservedStays ==
  [][\A n \in Node : \A m \in Others(n) :
       (/\ table[n][m] # NoPeer /\ table'[n][m] # NoPeer
        /\ table[n][m].seen /\ table'[n][m].address # table[n][m].address)
       => \E f \in frames \ frames' :
            f.from = m /\ f.source = table'[n][m].address]_vars

\* A peer is shown to be online only while the last packet it was authenticated
\* by, heartbeat or APP, is no older than OnlineTtl, across every swap of the table,
\* failed send and restart.
OnlineWasHeard ==
  \A n \in Node : \A m \in Shown(n) : heard[n][m] <= OnlineTtl

\* Peers of which one stays where it is find each other again and again, whatever
\* the other does: after mishaps, lost packets and failed reads.
MeetAgain == \A n \in Node : \A m \in Others(n) : []<>(m \in Shown(n))
=============================================================================
