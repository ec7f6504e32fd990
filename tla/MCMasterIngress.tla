--------------------------- MODULE MCMasterIngress ---------------------------
(* Two voters, one of them a candidate as well and the other with an ingress. *)
EXTENDS MasterIngress

CONSTANTS witness1, dr1, master, svc

Two == {witness1, dr1}
TwoSeq == <<witness1, dr1>>

TwoCandidates == {master, dr1}
MasterFirst == [c \in TwoCandidates |-> IF c = master THEN 10 ELSE 20]
=============================================================================
