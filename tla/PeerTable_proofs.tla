--------------------------- MODULE PeerTable_proofs ---------------------------
(***************************************************************************)
(* What a daemon knows of its peers, for any nodes, addresses, registries  *)
(* and time to live, without any bound on what goes wrong.                 *)
(***************************************************************************)
EXTENDS PeerTable, TLAPS

-----------------------------------------------------------------------------
(* The invariant.                                                          *)

\* TypeOK, and what the maps are defined on.
PeerType ==
  /\ TypeOK
  /\ DOMAIN table = Node /\ DOMAIN snapshot = Node /\ DOMAIN heard = Node

\* While a packet is being handled it is the last one of its sender.
BeingHandled ==
  \A n \in Node : arrived[n] # NoPeer =>
    arrived[n] \in Others(n) /\ heard[n][arrived[n]] = 0

\* last_seen of an online peer is no later than its last packet.
SeenWasHeard ==
  \A n \in Node : \A m \in Others(n) :
    table[n][m] # NoPeer /\ table[n][m].online => heard[n][m] <= table[n][m].age

PeerInv == PeerType /\ BeingHandled /\ SeenWasHeard

-----------------------------------------------------------------------------
(* Types.                                                                  *)

LEMMA OlderType ==
  ASSUME NEW a \in 0..OnlineTtl + 1
  PROVE  Older(a) \in 0..OnlineTtl + 1
BY TtlAssumption DEF Older

LEMMA OlderMonotone ==
  ASSUME NEW a \in 0..OnlineTtl + 1, NEW b \in 0..OnlineTtl + 1, a <= b
  PROVE  Older(a) <= Older(b)
BY TtlAssumption DEF Older

\* One entry of a table is replaced by a Peer.
LEMMA SetType ==
  ASSUME PeerType, NEW n \in Node, NEW m \in Others(n), NEW peer \in Peer,
         Set(n, m, peer)
  PROVE  /\ DOMAIN table' = Node
         /\ \A k \in Node : table'[k] \in [Others(k) -> Peer \cup {NoPeer}]
         /\ table'[n][m] = peer
         /\ \A k \in Node : \A l \in Others(k) :
              <<k, l>> # <<n, m>> => table'[k][l] = table[k][l]
BY DEF Set, PeerType, TypeOK

LEMMA RecordsType ==
  ASSUME PeerType, NEW n \in Node, NEW m \in Others(n), snapshot[n] # NoPeer
  PROVE  FromRecords(snapshot[n], m, table[n][m]) \in Peer \cup {NoPeer}
<1> DEFINE had == table[n][m] # NoPeer
<1>1. /\ m \in Node
      /\ table[n][m] \in Peer \cup {NoPeer}
      /\ snapshot[n] \in [tep : BOOLEAN, nodes : BOOLEAN, address : [Node -> Address]]
  BY DEF PeerType, TypeOK, Others
<1>2. snapshot[n].address[m] \in Address /\ snapshot[n].nodes \in BOOLEAN
  BY <1>1
<1>3. CASE had
  <2>1. /\ table[n][m].address \in Address /\ table[n][m].keyed \in BOOLEAN
        /\ table[n][m].seen \in BOOLEAN /\ table[n][m].online \in BOOLEAN
        /\ table[n][m].age \in 0..OnlineTtl + 1
    BY <1>1, <1>3 DEF Peer
  <2>2. CASE ~(snapshot[n].tep /\ m \in Listed) /\ ~snapshot[n].nodes
    BY <2>2 DEF FromRecords
  <2>3. CASE (snapshot[n].tep /\ m \in Listed) \/ snapshot[n].nodes
    <3>1. FromRecords(snapshot[n], m, table[n][m]) =
            [address |-> IF table[n][m].seen THEN table[n][m].address
                                             ELSE snapshot[n].address[m],
             keyed |-> snapshot[n].nodes \/ m \in Keyed \/ table[n][m].keyed,
             seen |-> table[n][m].seen, online |-> table[n][m].online,
             age |-> table[n][m].age]
      BY <1>3, <2>1, <2>3 DEF FromRecords
    <3>2. QED  BY <1>2, <2>1, <3>1 DEF Peer
  <2>4. QED  BY <2>2, <2>3
<1>4. CASE ~had
  <2>1. OnlineTtl + 1 \in 0..OnlineTtl + 1
    BY TtlAssumption
  <2>2. QED  BY <1>2, <1>4, <2>1 DEF FromRecords, Peer
<1>5. QED  BY <1>3, <1>4

LEMMA InitPeer == Init => PeerInv
<1> SUFFICES ASSUME Init PROVE PeerInv
  OBVIOUS
<1>1. OnlineTtl + 1 \in 0..OnlineTtl + 1 /\ 0 \in 0..MaxMishaps
  BY TtlAssumption, BoundsAssumption
<1>2. PeerType
  BY <1>1, HomeAssumption DEF Init, PeerType, TypeOK
<1>3. BeingHandled /\ SeenWasHeard
  BY DEF Init, BeingHandled, SeenWasHeard
<1>4. QED  BY <1>2, <1>3 DEF PeerInv

-----------------------------------------------------------------------------
(* Steps that change what is known of one peer.                            *)

LEMMA MishapType ==
  ASSUME mishaps \in 0..MaxMishaps, Mishap
  PROVE  mishaps' \in 0..MaxMishaps
BY BoundsAssumption DEF Mishap

LEMMA ReadRegistriesInv ==
  ASSUME PeerInv, NEW n \in Node, ReadRegistries(n)
  PROVE  PeerInv'
<1>1. mishaps' \in 0..MaxMishaps
  BY MishapType DEF ReadRegistries, PeerInv, PeerType, TypeOK
<1>2. \A k \in Node : snapshot'[k] # NoPeer =>
        snapshot'[k] \in [tep : BOOLEAN, nodes : BOOLEAN, address : [Node -> Address]]
  BY DEF ReadRegistries, PeerInv, PeerType, TypeOK
<1>3. PeerType'
  BY <1>1, <1>2 DEF ReadRegistries, PeerInv, PeerType, TypeOK
<1>4. QED
  BY <1>3 DEF ReadRegistries, PeerInv, BeingHandled, SeenWasHeard

LEMMA SwapInv ==
  ASSUME PeerInv, NEW n \in Node, Swap(n)
  PROVE  PeerInv'
<1>1. \A m \in Others(n) : table'[n][m] = FromRecords(snapshot[n], m, table[n][m])
  BY DEF Swap, PeerInv, PeerType
<1>2. table'[n] \in [Others(n) -> Peer \cup {NoPeer}]
  BY RecordsType DEF Swap, PeerInv, PeerType
<1>3. \A k \in Node \ {n} : table'[k] = table[k]
  BY DEF Swap, PeerInv, PeerType
<1>4. PeerType'
  BY <1>2, <1>3 DEF Swap, PeerInv, PeerType, TypeOK
<1>5. BeingHandled'
  BY DEF Swap, PeerInv, BeingHandled
<1>6. \A m \in Others(n) : table'[n][m] # NoPeer /\ table'[n][m].online =>
        table[n][m] # NoPeer /\ table[n][m].online /\ table'[n][m].age = table[n][m].age
  <2> SUFFICES ASSUME NEW m \in Others(n), table'[n][m] # NoPeer, table'[n][m].online
               PROVE  /\ table[n][m] # NoPeer /\ table[n][m].online
                      /\ table'[n][m].age = table[n][m].age
    OBVIOUS
  <2>1. table'[n][m] = FromRecords(snapshot[n], m, table[n][m])
    BY <1>1
  <2> DEFINE on == table[n][m] # NoPeer /\ table[n][m].online
  <2>2. \E a, k, s : table'[n][m] =
          [address |-> a, keyed |-> k, seen |-> s, online |-> on,
           age |-> IF table[n][m] # NoPeer THEN table[n][m].age ELSE OnlineTtl + 1]
    BY <2>1, Zenon DEF FromRecords
  <2>3. on
    <3>1. on \in BOOLEAN
      OBVIOUS
    <3> HIDE DEF on
    <3>2. table'[n][m].online = on
      BY <2>2
    <3>3. QED  BY <3>1, <3>2
  <2>4. QED  BY <2>2, <2>3
<1>7. SeenWasHeard'
  BY <1>3, <1>6 DEF Swap, PeerInv, SeenWasHeard
<1>8. QED  BY <1>4, <1>5, <1>7 DEF PeerInv

LEMMA HeartbeatInv ==
  ASSUME PeerInv, NEW n \in Node, NEW m \in Others(n), Heartbeat(n, m)
  PROVE  PeerInv'
<1>1. table[n][m] \in Peer
  BY DEF Heartbeat, PeerInv, PeerType, TypeOK
<1>2. PICK keyed \in BOOLEAN : Set(n, m, [table[n][m] EXCEPT !.keyed = keyed])
  BY DEF Heartbeat
<1> DEFINE peer == [table[n][m] EXCEPT !.keyed = keyed]
<1>3. /\ peer \in Peer /\ Set(n, m, peer)
      /\ peer.online = table[n][m].online /\ peer.age = table[n][m].age
  BY <1>1, <1>2 DEF Peer
<1> HIDE DEF peer
<1>4. [kind |-> "heartbeat", from |-> n, source |-> at[n],
       to |-> table[n][m].address] \in Frame
  BY <1>1 DEF Frame, Peer, PeerInv, PeerType, TypeOK
<1>5. PeerType'
  BY <1>3, <1>4, SetType DEF Heartbeat, PeerInv, PeerType, TypeOK
<1>6. SeenWasHeard'
  <2> SUFFICES ASSUME NEW k \in Node, NEW l \in Others(k),
                      table'[k][l] # NoPeer, table'[k][l].online
               PROVE  heard'[k][l] <= table'[k][l].age
    BY DEF SeenWasHeard
  <2>1. CASE <<k, l>> = <<n, m>>
    BY <1>3, <2>1, SetType DEF Heartbeat, PeerInv, SeenWasHeard
  <2>2. CASE <<k, l>> # <<n, m>>
    BY <1>3, <2>2, SetType DEF Heartbeat, PeerInv, SeenWasHeard
  <2>3. QED  BY <2>1, <2>2
<1>7. QED  BY <1>5, <1>6 DEF Heartbeat, PeerInv, BeingHandled

\* Who sends an APP packet learns nothing by it.
LEMMA SendAppInv ==
  ASSUME PeerInv, NEW n \in Node, NEW m \in Others(n), SendApp(n, m)
  PROVE  PeerInv'
<1>1. table[n][m] \in Peer
  BY DEF SendApp, PeerInv, PeerType, TypeOK
<1>2. [kind |-> "app", from |-> n, source |-> at[n], to |-> table[n][m].address] \in Frame
  BY <1>1 DEF Frame, Peer, PeerInv, PeerType, TypeOK
<1>3. PeerType'
  BY <1>2 DEF SendApp, PeerInv, PeerType, TypeOK
<1>4. QED
  BY <1>3 DEF SendApp, PeerInv, BeingHandled, SeenWasHeard

LEMMA HeartbeatFailsInv ==
  ASSUME PeerInv, NEW n \in Node, NEW m \in Others(n), HeartbeatFails(n, m)
  PROVE  PeerInv'
<1> DEFINE peer == [table[n][m] EXCEPT !.online = FALSE, !.age = OnlineTtl + 1]
<1>1. table[n][m] \in Peer
  BY DEF HeartbeatFails, PeerInv, PeerType, TypeOK
<1>2. peer \in Peer /\ ~peer.online
  <2>1. OnlineTtl + 1 \in 0..OnlineTtl + 1
    BY TtlAssumption
  <2>2. QED  BY <1>1, <2>1 DEF Peer
<1>3. Set(n, m, peer)
  BY DEF HeartbeatFails
<1> HIDE DEF peer
<1>4. PeerType'
  BY <1>2, <1>3, SetType DEF HeartbeatFails, PeerInv, PeerType, TypeOK
<1>5. SeenWasHeard'
  BY <1>2, <1>3, SetType DEF HeartbeatFails, PeerInv, SeenWasHeard
<1>6. QED  BY <1>4, <1>5 DEF HeartbeatFails, PeerInv, BeingHandled

\* A packet that is taken is one of a peer the daemon knows.
LEMMA ReceivesFromPeer ==
  ASSUME PeerInv, NEW n \in Node, NEW f \in frames, Receive(n, f)
  PROVE  /\ f.from \in Others(n) /\ f.source \in Address
         /\ table[n][f.from] \in Peer
<1>1. f.from \in Node /\ f.source \in Address
  BY DEF Frame, PeerInv, PeerType, TypeOK
<1>2. f.from # n /\ table[n][f.from] # NoPeer
  BY DEF Receive
<1>3. f.from \in Others(n)
  BY <1>1, <1>2 DEF Others
<1>4. table[n][f.from] \in Peer \cup {NoPeer}
  BY <1>3 DEF PeerInv, PeerType, TypeOK
<1>5. QED  BY <1>1, <1>2, <1>3, <1>4

LEMMA ReceiveInv ==
  ASSUME PeerInv, NEW n \in Node, NEW f \in frames, Receive(n, f)
  PROVE  PeerInv'
<1>1. /\ f.from \in Others(n) /\ f.source \in Address
      /\ table[n][f.from] \in Peer
  BY ReceivesFromPeer
<1>2. PICK keyed \in BOOLEAN :
        Set(n, f.from, [table[n][f.from] EXCEPT !.address = f.source, !.keyed = keyed])
  BY DEF Receive
<1> DEFINE peer == [table[n][f.from] EXCEPT !.address = f.source, !.keyed = keyed]
<1>3. peer \in Peer /\ peer.age \in 0..OnlineTtl + 1
  BY <1>1 DEF Peer
<1>4. Set(n, f.from, peer)
  BY <1>2
<1> HIDE DEF peer
<1>5. 0 \in 0..OnlineTtl + 1
  BY TtlAssumption
<1>6. /\ DOMAIN heard' = Node
      /\ \A k \in Node : heard'[k] \in [Others(k) -> 0..OnlineTtl + 1]
      /\ heard'[n][f.from] = 0
      /\ \A k \in Node : \A l \in Others(k) :
           <<k, l>> # <<n, f.from>> => heard'[k][l] = heard[k][l]
  BY <1>1, <1>5 DEF Receive, PeerInv, PeerType, TypeOK
<1>7. arrived' \in [Node -> Node \cup {NoPeer}] /\ arrived'[n] = f.from
      /\ \A k \in Node \ {n} : arrived'[k] = arrived[k]
  BY <1>1 DEF Receive, PeerInv, PeerType, TypeOK, Others
<1>8. PeerType'
  BY <1>1, <1>3, <1>4, <1>6, <1>7, SetType DEF Receive, PeerInv, PeerType, TypeOK
<1>9. BeingHandled'
  BY <1>1, <1>6, <1>7 DEF PeerInv, BeingHandled
<1>10. SeenWasHeard'
  <2> SUFFICES ASSUME NEW k \in Node, NEW l \in Others(k),
                      table'[k][l] # NoPeer, table'[k][l].online
               PROVE  heard'[k][l] <= table'[k][l].age
    BY DEF SeenWasHeard
  <2>1. CASE <<k, l>> = <<n, f.from>>
    BY <1>1, <1>3, <1>4, <1>6, <2>1, SetType DEF PeerInv
  <2>2. CASE <<k, l>> # <<n, f.from>>
    BY <1>1, <1>3, <1>4, <1>6, <2>2, SetType DEF PeerInv, SeenWasHeard
  <2>3. QED  BY <2>1, <2>2
<1>11. QED  BY <1>8, <1>9, <1>10 DEF PeerInv

LEMMA MarkSeenInv ==
  ASSUME PeerInv, NEW n \in Node, MarkSeen(n)
  PROVE  PeerInv'
<1> DEFINE m == arrived[n]
           peer == [table[n][m] EXCEPT !.seen = TRUE, !.online = TRUE, !.age = 0]
<1>1. m \in Others(n) /\ heard[n][m] = 0
  BY DEF MarkSeen, PeerInv, BeingHandled
<1>2. BeingHandled' /\ arrived' \in [Node -> Node \cup {NoPeer}]
  BY DEF MarkSeen, PeerInv, PeerType, TypeOK, BeingHandled
<1>3. CASE table[n][m] = NoPeer
  BY <1>2, <1>3 DEF MarkSeen, PeerInv, PeerType, TypeOK, SeenWasHeard
<1>4. CASE table[n][m] # NoPeer
  <2>1. table[n][m] \in Peer
    BY <1>1, <1>4 DEF PeerInv, PeerType, TypeOK
  <2>2. peer \in Peer /\ peer.age = 0
    <3>1. 0 \in 0..OnlineTtl + 1
      BY TtlAssumption
    <3>2. QED  BY <2>1, <3>1 DEF Peer
  <2>3. Set(n, m, peer)
    BY <1>4 DEF MarkSeen
  <2> HIDE DEF peer
  <2>4. PeerType'
    BY <1>1, <1>2, <2>2, <2>3, SetType DEF MarkSeen, PeerInv, PeerType, TypeOK
  <2>5. SeenWasHeard'
    BY <1>1, <2>2, <2>3, SetType DEF MarkSeen, PeerInv, SeenWasHeard
  <2>6. QED  BY <1>2, <2>4, <2>5 DEF PeerInv
<1>5. QED  BY <1>3, <1>4

-----------------------------------------------------------------------------
(* Steps that go over a whole table, and those of the surroundings.        *)

LEMMA ExpireStaleInv ==
  ASSUME PeerInv, NEW n \in Node, ExpireStale(n)
  PROVE  PeerInv'
<1>1. \A k \in Node \ {n} : table'[k] = table[k]
  BY DEF ExpireStale, PeerInv, PeerType
<1>2. \A m \in Others(n) :
        /\ table'[n][m] \in Peer \cup {NoPeer}
        /\ table'[n][m] # NoPeer /\ table'[n][m].online => table'[n][m] = table[n][m]
  <2> SUFFICES ASSUME NEW m \in Others(n)
               PROVE  /\ table'[n][m] \in Peer \cup {NoPeer}
                      /\ table'[n][m] # NoPeer /\ table'[n][m].online
                           => table'[n][m] = table[n][m]
    OBVIOUS
  <2>1. table[n][m] \in Peer \cup {NoPeer}
    BY DEF PeerInv, PeerType, TypeOK
  <2>2. table'[n][m] = IF table[n][m] = NoPeer THEN NoPeer
                       ELSE IF Fresh(table[n][m]) THEN table[n][m]
                       ELSE [table[n][m] EXCEPT !.online = FALSE]
    BY DEF ExpireStale, PeerInv, PeerType
  <2>3. table[n][m] # NoPeer =>
          /\ [table[n][m] EXCEPT !.online = FALSE] \in Peer
          /\ ~[table[n][m] EXCEPT !.online = FALSE].online
    BY <2>1 DEF Peer
  <2>4. QED  BY <2>1, <2>2, <2>3
<1>3. table'[n] \in [Others(n) -> Peer \cup {NoPeer}] /\ DOMAIN table' = Node
  BY <1>2 DEF ExpireStale, PeerInv, PeerType
<1>4. PeerType'
  BY <1>1, <1>3 DEF ExpireStale, PeerInv, PeerType, TypeOK
<1>5. SeenWasHeard'
  BY <1>1, <1>2 DEF ExpireStale, PeerInv, SeenWasHeard
<1>6. QED  BY <1>4, <1>5 DEF ExpireStale, PeerInv, BeingHandled

LEMMA RestartInv ==
  ASSUME PeerInv, NEW n \in Node, Restart(n)
  PROVE  PeerInv'
<1>1. mishaps' \in 0..MaxMishaps
  BY MishapType DEF Restart, PeerInv, PeerType, TypeOK
<1>2. PeerType'
  BY <1>1 DEF Restart, PeerInv, PeerType, TypeOK
<1>3. BeingHandled' /\ SeenWasHeard'
  BY DEF Restart, PeerInv, PeerType, TypeOK, BeingHandled, SeenWasHeard
<1>4. QED  BY <1>2, <1>3 DEF PeerInv

LEMMA TickInv ==
  ASSUME PeerInv, Tick
  PROVE  PeerInv'
<1>1. \A n \in Node : \A m \in Others(n) :
        /\ heard[n][m] \in 0..OnlineTtl + 1
        /\ table[n][m] \in Peer \cup {NoPeer}
        /\ heard'[n][m] = Older(heard[n][m])
        /\ table'[n][m] = IF table[n][m] = NoPeer THEN NoPeer
                          ELSE [table[n][m] EXCEPT !.age = Older(table[n][m].age)]
  BY DEF Tick, PeerInv, PeerType, TypeOK
<1>2. ASSUME NEW n \in Node, NEW m \in Others(n), table[n][m] # NoPeer
      PROVE  /\ table[n][m].age \in 0..OnlineTtl + 1
             /\ table'[n][m] \in Peer
             /\ table'[n][m].online = table[n][m].online
             /\ table'[n][m].age = Older(table[n][m].age)
  <2>1. table[n][m] \in Peer
    BY <1>1, <1>2
  <2>2. table[n][m].age \in 0..OnlineTtl + 1
    BY <2>1 DEF Peer
  <2>3. Older(table[n][m].age) \in 0..OnlineTtl + 1
    BY <2>2, OlderType
  <2>4. QED  BY <1>1, <1>2, <2>1, <2>2, <2>3 DEF Peer
<1>3. \A n \in Node : /\ heard'[n] \in [Others(n) -> 0..OnlineTtl + 1]
                      /\ table'[n] \in [Others(n) -> Peer \cup {NoPeer}]
  BY <1>1, <1>2, OlderType DEF Tick
<1>4. PeerType'
  BY <1>3 DEF Tick, PeerInv, PeerType, TypeOK
<1>5. SeenWasHeard'
  <2> SUFFICES ASSUME NEW n \in Node, NEW m \in Others(n),
                      table'[n][m] # NoPeer, table'[n][m].online
               PROVE  heard'[n][m] <= table'[n][m].age
    BY DEF SeenWasHeard
  <2>1. table[n][m] # NoPeer
    BY <1>1
  <2>2. heard[n][m] <= table[n][m].age
    BY <1>2, <2>1 DEF PeerInv, SeenWasHeard
  <2>3. QED  BY <1>1, <1>2, <2>1, <2>2, OlderMonotone
<1>6. BeingHandled'
  BY DEF Tick, BeingHandled
<1>7. QED  BY <1>4, <1>5, <1>6 DEF PeerInv

\* Nothing a daemon knows changes.
LEMMA SurroundingsInv ==
  ASSUME PeerInv, UNCHANGED <<table, snapshot, arrived, heard>>,
         at' \in [Node -> Address], published' \in [Node -> Address],
         frames' \subseteq frames, mishaps' \in 0..MaxMishaps
  PROVE  PeerInv'
<1>1. frames' \subseteq Frame
  BY DEF PeerInv, PeerType, TypeOK
<1>2. PeerType'
  BY <1>1 DEF PeerInv, PeerType, TypeOK
<1>3. BeingHandled' /\ SeenWasHeard'
  BY DEF PeerInv, BeingHandled, SeenWasHeard
<1>4. QED  BY <1>2, <1>3 DEF PeerInv

LEMMA NextPeer ==
  ASSUME PeerInv, [Next]_vars
  PROVE  PeerInv'
<1>1. ASSUME NEW n \in Node,
             \/ ReadRegistries(n) \/ Swap(n)
             \/ MarkSeen(n) \/ ExpireStale(n) \/ Restart(n)
      PROVE  PeerInv'
  BY <1>1, ReadRegistriesInv, SwapInv, MarkSeenInv, ExpireStaleInv, RestartInv
<1>2. ASSUME NEW n \in Node, NEW m \in Others(n),
             Heartbeat(n, m) \/ HeartbeatFails(n, m) \/ SendApp(n, m)
      PROVE  PeerInv'
  BY <1>2, HeartbeatInv, HeartbeatFailsInv, SendAppInv
<1>3. ASSUME NEW n \in Node, NEW f \in frames, Receive(n, f)  PROVE PeerInv'
  BY <1>3, ReceiveInv
<1>4. PeerType
  BY DEF PeerInv
<1>5. ASSUME NEW n \in Node, Move(n)  PROVE PeerInv'
  BY <1>4, <1>5, MishapType, SurroundingsInv DEF Move, PeerType, TypeOK
<1>6. ASSUME NEW n \in Node, Publish(n)  PROVE PeerInv'
  BY <1>4, <1>6, SurroundingsInv DEF Publish, PeerType, TypeOK
<1>7. ASSUME NEW f \in frames, Lose(f)  PROVE PeerInv'
  BY <1>4, <1>7, SurroundingsInv DEF Lose, PeerType, TypeOK
<1>8. CASE UNCHANGED vars
  BY <1>4, <1>8, SurroundingsInv DEF vars, PeerType, TypeOK
<1>9. CASE Tick
  BY <1>9, TickInv
<1>10. QED
  BY <1>1, <1>2, <1>3, <1>5, <1>6, <1>7, <1>8, <1>9 DEF Next

-----------------------------------------------------------------------------
(* Theorems.                                                               *)

\* The three threads of a daemon, reconciled_sync, _heartbeat_loop and
\* _recv_loop, may interleave in any way: what is in the table is known from where
\* it is said to be known.
THEOREM PeersInductive == Spec => []PeerInv
<1>1. Init => PeerInv
  BY InitPeer
<1>2. PeerInv /\ [Next]_vars => PeerInv'
  BY NextPeer
<1>3. QED  BY <1>1, <1>2, PTL DEF Spec

\* The peer table, the snapshots of the registries and the ages are what
\* hb_tep_runtime.py takes them for.
THEOREM PeerTypeCorrect == Spec => []TypeOK
<1>1. PeerInv => TypeOK
  BY DEF PeerInv, PeerType
<1>2. QED  BY <1>1, PeersInductive, PTL

\* to_json shows a peer to be online only while the last packet it was
\* authenticated by, a heartbeat or an APP packet, is no older than
\* PEER_ONLINE_TTL_SEC.
THEOREM OnlinePeersWereHeard == Spec => []OnlineWasHeard
<1>1. ASSUME PeerInv  PROVE OnlineWasHeard
  <2> SUFFICES ASSUME NEW n \in Node, NEW m \in Shown(n)
               PROVE  heard[n][m] <= OnlineTtl
    BY DEF OnlineWasHeard
  <2>1. /\ m \in Others(n) /\ table[n][m] # NoPeer /\ table[n][m].online
        /\ table[n][m].age <= OnlineTtl
    BY DEF Shown, Fresh
  <2>2. table[n][m] \in Peer /\ heard[n][m] \in 0..OnlineTtl + 1
    BY <1>1, <2>1 DEF PeerInv, PeerType, TypeOK
  <2>3. heard[n][m] <= table[n][m].age /\ table[n][m].age \in Nat
    BY <1>1, <2>1, <2>2 DEF PeerInv, SeenWasHeard, Peer
  <2>4. QED  BY <2>1, <2>2, <2>3, TtlAssumption
<1>2. QED  BY <1>1, PeersInductive, PTL

\* Only a packet of its own moves a peer that was heard from:
\* _peer_from_registry_records keeps its address, and nothing else writes one.
LEMMA MovedByPacket ==
  ASSUME PeerInv, Next, NEW n \in Node, NEW m \in Others(n),
         table[n][m] # NoPeer, table'[n][m] # NoPeer, table[n][m].seen,
         table'[n][m].address # table[n][m].address
  PROVE  \E f \in frames \ frames' : f.from = m /\ f.source = table'[n][m].address
<1>0. table[n][m] \in Peer
  BY DEF PeerInv, PeerType, TypeOK
<1>1. ASSUME NEW k \in Node, Swap(k)  PROVE FALSE
  <2>1. k = n
    BY <1>1 DEF Swap, PeerInv, PeerType
  <2>2. table'[n][m] = FromRecords(snapshot[n], m, table[n][m])
    BY <1>1, <2>1 DEF Swap, PeerInv, PeerType
  <2>3. QED  BY <2>2 DEF FromRecords
<1>2. ASSUME NEW k \in Node, NEW l \in Others(k), NEW peer, Set(k, l, peer),
             peer.address = table[k][l].address
      PROVE  FALSE
  BY <1>2 DEF Set, PeerInv, PeerType, TypeOK
<1>3. ASSUME NEW k \in Node, NEW l \in Others(k), Heartbeat(k, l)  PROVE FALSE
  <2>1. table[k][l] \in Peer
    BY <1>3 DEF Heartbeat, PeerInv, PeerType, TypeOK
  <2>2. PICK keyed \in BOOLEAN : Set(k, l, [table[k][l] EXCEPT !.keyed = keyed])
    BY <1>3 DEF Heartbeat
  <2>3. [table[k][l] EXCEPT !.keyed = keyed].address = table[k][l].address
    BY <2>1 DEF Peer
  <2>4. QED  BY <1>2, <2>2, <2>3
<1>4. ASSUME NEW k \in Node, NEW l \in Others(k), HeartbeatFails(k, l)  PROVE FALSE
  <2>1. table[k][l] \in Peer
    BY <1>4 DEF HeartbeatFails, PeerInv, PeerType, TypeOK
  <2>2. [table[k][l] EXCEPT !.online = FALSE, !.age = OnlineTtl + 1].address
          = table[k][l].address
    BY <2>1 DEF Peer
  <2>3. QED  BY <1>2, <1>4, <2>2 DEF HeartbeatFails
<1>5. ASSUME NEW k \in Node, MarkSeen(k)  PROVE FALSE
  <2>1. arrived[k] \in Others(k) /\ table[k][arrived[k]] # NoPeer
    BY <1>5 DEF MarkSeen, PeerInv, BeingHandled
  <2>2. table[k][arrived[k]] \in Peer
    BY <2>1 DEF PeerInv, PeerType, TypeOK
  <2>3. [table[k][arrived[k]] EXCEPT !.seen = TRUE, !.online = TRUE, !.age = 0].address
          = table[k][arrived[k]].address
    BY <2>2 DEF Peer
  <2>4. QED  BY <1>2, <1>5, <2>1, <2>3 DEF MarkSeen
<1>6. ASSUME NEW k \in Node, ExpireStale(k)  PROVE FALSE
  <2>1. [table[n][m] EXCEPT !.online = FALSE].address = table[n][m].address
    BY <1>0 DEF Peer
  <2>2. table'[n][m] = table[n][m] \/ table'[n][m] = [table[n][m] EXCEPT !.online = FALSE]
    BY <1>6 DEF ExpireStale, PeerInv, PeerType
  <2>3. QED  BY <2>1, <2>2
<1>7. ASSUME Tick  PROVE FALSE
  <2>1. [table[n][m] EXCEPT !.age = Older(table[n][m].age)].address = table[n][m].address
    BY <1>0 DEF Peer
  <2>2. table'[n][m] = [table[n][m] EXCEPT !.age = Older(table[n][m].age)]
    BY <1>7 DEF Tick
  <2>3. QED  BY <2>1, <2>2
<1>8. ASSUME NEW k \in Node, Restart(k)  PROVE FALSE
  BY <1>8 DEF Restart, PeerInv, PeerType
<1>9. ASSUME NEW k \in Node, NEW f \in frames, Receive(k, f)
      PROVE  \E g \in frames \ frames' : g.from = m /\ g.source = table'[n][m].address
  <2>1. /\ f.from \in Others(k) /\ table[k][f.from] \in Peer
    BY <1>9, ReceivesFromPeer
  <2>2. PICK keyed \in BOOLEAN :
          Set(k, f.from, [table[k][f.from] EXCEPT !.address = f.source, !.keyed = keyed])
    BY <1>9 DEF Receive
  <2>3. [table[k][f.from] EXCEPT !.address = f.source, !.keyed = keyed].address = f.source
    BY <2>1 DEF Peer
  <2>4. k = n /\ f.from = m /\ table'[n][m].address = f.source
    BY <2>1, <2>2, <2>3 DEF Set, PeerInv, PeerType, TypeOK
  <2>5. f \in frames \ frames'
    BY <1>9 DEF Receive
  <2>6. QED  BY <2>4, <2>5
<1>10. ASSUME UNCHANGED table  PROVE FALSE
  BY <1>10
<1>11. QED
  BY <1>1, <1>3, <1>4, <1>5, <1>6, <1>7, <1>8, <1>9, <1>10
     DEF Next, ReadRegistries, SendApp, Move, Publish, Lose

\* Across every swap of the table, failed send and read: no registry takes a peer
\* away from where its packets come from.
THEOREM ObservedPeersStay == Spec => ObservedStays
<1>1. PeerInv /\ [Next]_vars =>
        [\A n \in Node : \A m \in Others(n) :
           (/\ table[n][m] # NoPeer /\ table'[n][m] # NoPeer
            /\ table[n][m].seen /\ table'[n][m].address # table[n][m].address)
           => \E f \in frames \ frames' :
                f.from = m /\ f.source = table'[n][m].address]_vars
  BY MovedByPacket
<1>2. QED  BY <1>1, PeersInductive, PTL DEF Spec, ObservedStays
=============================================================================
