----------------------------- MODULE PrimaryLease -----------------------------
(***************************************************************************)
(* What TEP-HA promises (ha/README.md: "an exclusive primary lease"): the  *)
(* quorum of voters behaves as one lock with a time to live.  The lock is  *)
(* free or has one owner, an owner may extend it for at most Lease ticks   *)
(* from now, and nobody else takes it before it ran out or was given up.   *)
(* HALease implements this, owner and left being read off the guard files. *)
(***************************************************************************)
EXTENDS Naturals

CONSTANTS Candidate, None, Lease

VARIABLES owner, left

lockVars == <<owner, left>>

LockInit == owner = None /\ left = 0

\* Taking a free lock and extending one's own are the same write; the owner of
\* a lock never changes while it runs.
Acquire(c) ==
  /\ owner \in {None, c}
  /\ owner' = c
  /\ left' \in 1..Lease

Release ==
  /\ owner # None
  /\ owner' = None /\ left' = 0

Elapse ==
  /\ owner # None
  /\ left' = left - 1
  /\ owner' = IF left = 1 THEN None ELSE owner

LockNext == (\E c \in Candidate : Acquire(c)) \/ Release \/ Elapse

LockSpec == LockInit /\ [][LockNext]_lockVars
=============================================================================
