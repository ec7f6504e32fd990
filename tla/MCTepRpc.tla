------------------------------- MODULE MCTepRpc -------------------------------
(* Instances of TepRpc for TLC. *)
EXTENDS TepRpc

CONSTANTS a, b, me, target, relay

\* A read that may be relayed and a request to a voter.
Services == [c \in Call |-> IF c = a THEN "storage.summary" ELSE "ha.lease"]

\* The caller's own rendezvous first, then a foreign one.
BothRelays == <<me, relay>>

\* The second call has time for one of them.
Patient == [c \in Call |-> IF c = a THEN 2 ELSE 1]

\* The foreign rendezvous' clock is behind: it takes a request for longer.
RelayBehind == [n \in Daemon |-> IF n = relay THEN -1 ELSE 0]
=============================================================================
