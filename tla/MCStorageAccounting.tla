------------------------- MODULE MCStorageAccounting -------------------------
(* A primary, a second store that may take itself for one, and an edge store. *)
EXTENDS StorageAccounting, TLC

CONSTANTS main, second, remote, c1, c2

Customers == Permutations({c1, c2})

Roles == [s \in Store |-> CASE s = main -> {"primary"}
                            [] s = second -> {"primary", "secondary"}
                            [] OTHER -> {"edge"}]

Sizes == [s \in Store |-> IF s = main THEN 2 ELSE 1]

Most == [s \in Store |-> IF s = remote THEN 0 ELSE 2]

\* The secondary is configured twice, once with a wrong role, and the edge store
\* with one that would make it count.
Config == <<
  [store |-> main, tep |-> FALSE, role |-> "primary", id |-> main],
  [store |-> second, tep |-> FALSE, role |-> "edge", id |-> second],
  [store |-> second, tep |-> TRUE, role |-> "secondary", id |-> second],
  [store |-> remote, tep |-> FALSE, role |-> "secondary", id |-> remote]>>
=============================================================================
