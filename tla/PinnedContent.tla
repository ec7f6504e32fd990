---------------------------- MODULE PinnedContent ----------------------------
(***************************************************************************)
(* What the replication service promises about one content: every live     *)
(* reference is counted, and a copy is given up only when no reference is  *)
(* left or when enough other copies remain (docs/RELEASE_NOTES_v2.1.4.md,  *)
(* "Extra replicas can be trimmed only when the N total target and M       *)
(* committable minimum remain satisfied").  ReplLifecycle implements this: *)
(* live is read off the reference table, pins off the nodes' pin sets.     *)
(***************************************************************************)
EXTENDS Naturals, FiniteSets

CONSTANTS Node, Committable, Ref, N, M

VARIABLES live, pins

\* N copies, M of them on committable nodes.
Enough(S) ==
  /\ Cardinality(S) >= N
  /\ Cardinality(S \cap Committable) >= M

ContentInit == live = {} /\ pins = {}

Refer(r) == r \notin live /\ live' = live \cup {r} /\ UNCHANGED pins

Drop(r) == r \in live /\ live' = live \ {r} /\ UNCHANGED pins

Keep(n) == pins' = pins \cup {n} /\ UNCHANGED live

GiveUp(n) ==
  /\ n \in pins
  /\ live = {} \/ Enough(pins \ {n})
  /\ pins' = pins \ {n}
  /\ UNCHANGED live

ContentNext ==
  \/ \E r \in Ref : Refer(r) \/ Drop(r)
  \/ \E n \in Node : Keep(n) \/ GiveUp(n)

ContentSpec == ContentInit /\ [][ContentNext]_<<live, pins>>
=============================================================================
