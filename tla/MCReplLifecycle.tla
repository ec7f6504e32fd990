--------------------------- MODULE MCReplLifecycle ---------------------------
(* Instances of ReplLifecycle for TLC. *)
EXTENDS ReplLifecycle, TLC

CONSTANTS p1, p2, e1, f1, f2, f3, t1, t2

\* Every reference is uploaded to a node of its own.
OwnSource == [r \in Ref |-> IF r = f1 THEN p1 ELSE IF r = f2 THEN p2 ELSE e1]

\* All files are uploaded to one node.
OneSource == [r \in Ref |-> p1]

\* The threads are alike.
AlikePlanners == Permutations({t1, t2})
=============================================================================
