------------------------------ MODULE AtMostOnce ------------------------------
(***************************************************************************)
(* What a caller of an HB-TEP-APP/1 service may rely on.  While the target *)
(* runs it does not execute a request again before more than Capacity      *)
(* others were accepted in between; a restart of the target forgets what   *)
(* was executed.  A caller that is told a result, or that its request was  *)
(* seen before, may conclude that the request was executed; any other      *)
(* outcome tells it nothing.  TepRpc implements this.                      *)
(***************************************************************************)
EXTENDS Naturals

CONSTANTS Call, Capacity, Failure

VARIABLES
  accepted,  \* requests the target has accepted since it started
  runs,      \* its executions since then: the call and its place in that count
  ever,      \* calls executed at any time
  outcome    \* Call -> what the caller was told

\* What cannot be said of a request that was not executed.
Telling == {"answered", "replay_detected"}

AtMostOnceInit ==
  /\ accepted = 0 /\ runs = {} /\ ever = {}
  /\ outcome = [c \in Call |-> "none"]

\* The target takes a request it then refuses to execute.
Refuse == accepted' = accepted + 1 /\ UNCHANGED <<runs, ever, outcome>>

Execute(c) ==
  /\ \A r \in runs : r.call = c => accepted + 1 > r.place + Capacity
  /\ accepted' = accepted + 1
  /\ runs' = runs \cup {[call |-> c, place |-> accepted + 1]}
  /\ ever' = ever \cup {c}
  /\ UNCHANGED outcome

Tell(c, result) ==
  /\ outcome[c] = "none"
  /\ result \in Telling => c \in ever
  /\ outcome' = [outcome EXCEPT ![c] = result]
  /\ UNCHANGED <<accepted, runs, ever>>

Forget == accepted' = 0 /\ runs' = {} /\ UNCHANGED <<ever, outcome>>

AtMostOnceNext ==
  \/ Refuse
  \/ \E c \in Call : Execute(c)
  \/ \E c \in Call, r \in Failure \cup Telling : Tell(c, r)
  \/ Forget

AtMostOnceSpec ==
  AtMostOnceInit /\ [][AtMostOnceNext]_<<accepted, runs, ever, outcome>>
=============================================================================
