------------------------------ MODULE MCHALease ------------------------------
(***************************************************************************)
(* The deployment of ha/README.md for TLC: three voters, two candidates,   *)
(* dr1 being both; and smaller sets of voters for the runs with crashes,   *)
(* late requests or failing disks.                                         *)
(***************************************************************************)
EXTENDS HALease

CONSTANTS blockchainapi, witness1, dr1, master, svc

MCVoter == {blockchainapi, witness1, dr1}
MCVoterSeq == <<blockchainapi, witness1, dr1>>

OneVoter == {dr1}
OneVoterSeq == <<dr1>>

MCCandidate == {master, dr1}
MCPriority == [c \in MCCandidate |-> IF c = master THEN 10 ELSE 20]
=============================================================================
