--------------------------- MODULE MCHAUnsavedVote ---------------------------
(***************************************************************************)
(* A part of the behaviours of HALease, small enough for TLC to reach the  *)
(* consequence of a vote that was never written: PersistentVoteState.      *)
(* advance changes the vote in memory before it writes the file, so after  *)
(* a failed write it answers with an error and yet remembers the vote: it  *)
(* renews the lease of a candidate it has not durably voted for, and once  *)
(* restarted is free to vote for another one.                              *)
(*                                                                         *)
(* Only the actions of that story are taken, only blockchainapi's disk     *)
(* fails and only its agent restarts, and dr1 waits for that.  Every       *)
(* behaviour of StorySpec is one of Spec.                                  *)
(***************************************************************************)
EXTENDS MCHALease

StoryNext ==
  \/ \E c \in Candidate :
       /\ c = dr1 => crashes > 0
       /\ \/ Query(c) \/ KeepLease(c) \/ BeginCampaign(c) \/ BeginRenew(c)
          \/ AskGranted(c) \/ AskRefused(c) \/ AskUnanswered(c)
          \/ Asks(c) /\ VoterSeq[ix[c]] = blockchainapi /\ AskNotSaved(c)
          \/ Win(c) \/ StartServices(c)
  \/ RestartAgent(blockchainapi)
  \/ Tick

StorySpec == Init /\ [][StoryNext]_vars
=============================================================================
