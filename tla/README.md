# Verification of the HashBurst node installer

TLA+ modules, TLC configurations and TLAPS proofs for the distributed parts of
this repository. Paths below are relative to the repository's root.

## 1. The system

A HashBurst node is a set of daemons installed by `install.sh`. Those with a
protocol or with durable state shared by several actors are:

| Component | State it keeps | Operations | Talks to |
|---|---|---|---|
| **TEP-HA agent** `ha/hashburst_ha_agent_v220.py` on `ha/hashburst_ha_agent.py` | voter: term, vote (file), lease granted (memory), restart guard; candidate: lease held, guard file in `/run`; the watchdog process | `handle_tep` (vote_request, renew, status), `run_once`, `_campaign`, `_renew`, `_demote`, `watchdog` | other agents by TEP RPC; systemd units of the primary-only services |
| **Ingress resolver** `ha/hashburst_master_ingress.py` | none; the agent beside it keeps the view of its last round | `resolve`, `discovery`, `master_status` | the local agent, the TEP daemon, by it the primary |
| **Replication controller** `replication/hb_replication_controller*.py` | objects, references, replicas, jobs in SQLite | register/release reference, reconcile, trim, authorise unpin, recovery | replica agents (poll) |
| **Replica agents** `replication/hb_replica_agent*.py` | the local IPFS pin set | poll, PIN, VERIFY, UNPIN | controller, IPFS |
| **Placement policy** `replication/hb_replication_policy.py` | none | `choose_placements` | controller |
| **TEP app protocol** `tep/hb_tep_app.py`, `hb_tep_client.py`, `hb_tep_relay.py` | replay cache, awaited answers, relay table | validate, request, relay, failover | peers; the local agent, file service and master behind its three services |
| **TEP daemon and runtime** `tep/hb_tep.py`, `hb_tep_runtime*.py` | the peer table | heartbeat, reconciliation, status page | peers; the two registries of the blockchain RPC; ingress and aggregator over HTTP |
| **Aggregator** `aggregator/` | the page shown, for 30 s | a round of fetches, the sums | storage nodes, directly or by TEP |
| **File service** `hbfiles/` | files, the stakeholders' registry `list.json`, `quota_grants.json` | upload, delete, grant, revoke, public summary | IPFS, controller, aggregator |

How they interact: HA decides which candidate runs the primary-only services
and carries its RPCs over TEP (`ha.lease`, which the relay does not forward).
The file service registers content with the replication controller, which keeps
N = 3 replicas of which M = 2 are committable. The ingress names the holder on which
the local voter and the majority its agent last saw agree, and asks it for its status
by TEP. TEP finds its peers in the blockchain's registries and in the packets it authenticates. The
aggregator reads every store's summary and says how much storage may be sold.

Hard behaviour, component by component, and what makes each one correct:

* **HA.** Votes and renewals are collected one RPC after the other and a round
  may outlast the lease; requests arrive after their caller gave up; agents and
  hosts restart; the vote file may fail to be written; a stalled agent must be
  fenced. Correct: one valid lease at a time, one leader per term, votes final
  across restarts, services stopped without leases.
* **Replication.** Jobs leased to polling agents, retried, reported late or
  twice; registration and release in several transactions interleave with
  trimming and with the periodic recovery; Kubo refuses, hangs or is down.
  Correct: every live reference counted once, no unpin below the floors or under
  a live reference, the records of confirmed copies true, an under-replicated
  content repaired as far as nodes are left for it, an abandoned one cleaned up.
* **Ingress.** Two local states from different moments are combined. Correct: it
  names only a node that was elected in the term it names.
* **TEP requests.** Retried over another route under the same id, repeated and delayed
  by the network, checked against clocks that differ, bounded tables, restarts.
  Correct: executed once as long as the cache can know, never late, no place in a
  table lost, every call returns.
* **TEP peers.** Three threads share the table, reconciliation replaces its objects,
  nodes move, registries fail or lag. Correct: what was learnt of a peer survives, a
  peer shown online was heard, peers find each other again.
* **Storage accounting.** Answers from different moments, missing or twice; quotas
  replaced by a script; several stores that say they are the primary; grants checked and saved
  in two steps. Correct: what a page offers is free when it is made, but for what was stored
  while its answers were collected, and was not promised at one moment of that time; a grant
  fits; the display and the sums agree.

`PROJECT.json` lists every component and, under `hazards`, each hazard at its
line with the properties that cover it or the reason why none does.

## 2. Modules

| Module | Contents |
|---|---|
| `HALease` | voters, candidates, watchdog, late requests, restarts, reboots, time; the properties |
| `PrimaryLease` | the abstract promise: one lock with a time to live |
| `MCHALease` | sets of voters and candidates for TLC (`ha/README.md`'s deployment) |
| `MCHAUnsavedVote` | the sub-behaviours in which a vote is not written |
| `HALease_proofs` | types, one valid lease at a time, votes kept over restarts |
| `HATerms_proofs` | one leader per term, from a history of all votes |
| `ReplLifecycle` | one content in the replication controller, its database and the replica agents; the properties |
| `PinnedContent` | the abstract promise: references counted, copies given up only when nobody refers to the content or enough others remain |
| `MCReplLifecycle` | where files are uploaded in TLC's instances |
| `ReplLifecycle_proofs` | the reference count, types, what an authorisation rests on, the jobs behind assignments, the nodes that placement picks |
| `ReplTrim_proofs` | the floor, real copies and the refinement of `PinnedContent`: while copies are trimmed (mode full), and while they are only added (mode pin-only) |
| `MasterIngress` | `HALease` with the status rounds of a voter's agent and the ingress beside it |
| `MCMasterIngress` | two voters and an ingress for TLC |
| `MasterIngress_proofs` | the theorems of `HALease` beside an ingress, and what the ingress names |
| `TepRpc` | requests between two TEP daemons over the direct route and rendezvous |
| `AtMostOnce` | the abstract promise: a request is executed once as long as the target remembers, and what the caller is told is true |
| `MCTepRpc` | services, routes and clocks for TLC |
| `TepRpc_proofs` | tables, acceptance windows and the refinement of `AtMostOnce` |
| `PeerTable` | the peer tables of TEP daemons: reconciliation, heartbeats, other packets, addresses |
| `MCPeerTable` | an edge that moves and a server that does not |
| `PeerTable_proofs` | what is shown online was heard, what was heard stays |
| `StorageAccounting` | quotas, grants, summaries and the aggregator's sums |
| `MCStorageAccounting` | three stores and a configuration that is partly wrong |
| `StorageAccounting_proofs` | sums over any stores and customers, what is for sale is there, grants fit |

### HALease and the code

The unit `ha/hashburst-ha-agent.service` starts `hashburst_ha_agent_v220.py`, so
where the subclass overrides a method its version is modelled.

| State | Code |
|---|---|
| `term`, `votedFor`; `savedTerm`, `savedVote` | `PersistentVoteState` in memory; the file at `state_file` |
| `holder`, `voterLeft` | `_voter_holder`, `_voter_deadline` |
| `restartLeft` | `_restart_guard_until` |
| `pc`, `mode`, `ix`, `view`, `found`, `ballot`, `grants` | the locals of `run_once`, `_query_voters`, `_campaign`, `_renew` and the point they have reached |
| `budget` | `started + lease_seconds`, the conservative deadline of a round |
| `leaderTerm`, `leaderLeft` | `_leader_term`, `_leader_deadline` |
| `guard`, `services` | `boot_deadline` in `lease.json`; the primary units that run |
| `late` | requests that are not answered but may still be handled |

Deadlines are kept as ticks left. The code compares each one with its own host's
`CLOCK_BOOTTIME` and sends no deadline to another host, so only the rates of the
clocks matter, which are taken to be equal.

`Query` is one RPC of `_query_voters` (the last one also evaluates
`_majority_view`); `YieldToHolder`, `YieldToHigherTerm`, `KeepLease`, `StandBy`,
`AdoptLease`, `BeginCampaign` are the branches of `run_once`, `BeginRenew` and
`BecomeIneligible` the start of `_renew`; `AskGranted`, `AskRefused`,
`AskNotSaved`, `AskUnanswered` the outcomes of one RPC of a campaign or renewal;
`Win`, `GuardNotWritten`, `LoseCampaign`, `LoseLease`, `MissRenewal`,
`StartServices`, `StartTooLate`, `StartFails` the ends of a round. `HandleLate`
is a voter's HTTP thread handling a request nobody waits for. `Watchdog` is the
watchdog's `set_standby`. `RestartAgent` is systemd's restart of the process (guard
file and services stay), `Reboot` empties `/run` and comes up with the services
disabled. `Tick` is time.

Left to choice, because nothing constrains it: the outcome of an eligibility
check, whether a rival answers that it is eligible, whether an RPC is answered, which services
stop or start when `systemctl` fails. Left out: unarmed candidates (they write
no guard), a node that starts several primary services with a gap between them
(`set_primary` is one step), the file system after a power loss, clock drift.

### MasterIngress and the code

It extends `HALease` and adds, for a voter that is not a candidate, what `run_once`
does there: `Look` is one RPC of its status round, the last one sets
`_cluster_view` (`clusterView`). `HaStatus` is `local_status`; `Agreed` is `resolve`
up to `tep_status`, `Resolved` the route it builds; `Discover`, `AskMaster` and
`MasterAnswers` are `discovery` and the two halves of `master_status`, between
which the lease may move. `ForgetView` is the restart of that agent. The check that
enough voters were reached is implied: a holder in the view was counted by a quorum.
The ingress keeps nothing between requests (the handler runs a thread for each), so
`awaited` is the local of one request and `route` the last answer, for the property.

### ReplLifecycle and the code

The controller started by `hb_replication_controller_v214.py` uses the database
class of `hb_replication_v214_recovery.py`, which extends `hb_replication_v214_db.py`,
which extends `hb_replication_db.py`; the agent is `AgentV214`. The three classes'
methods are modelled together, the most derived first. No query joins two contents
but `placement_load`, which is about capacity, so one CID is modelled.

| State | Code |
|---|---|
| `refcount`, `gen`, `released` | `objects.refcount`, `.generation`, `.released_at` being set |
| `refs` | `object_refs`: no row, a row, a row with `released_at` (tombstone) |
| `desired`, `rstate` | `replicas.desired`, `.state`; `none` is no row |
| `jobs` | `jobs` in state pending or retry (`waiting`) or `authorized`; a job that is done or stale takes no further part and leaves the set |
| `reg` | which of its three transactions a call of `register_object` does next |
| `plan` | the snapshot a reconciling thread still works on |
| `mode` | `ControllerV214.mode` |
| `pin` | the recursive pins of each node's Kubo |
| `presence` | `last_seen`: recent, within the grace of the node's class, or older |
| `agent` | the rest of the polled jobs (`todo`), the permission just received (`grant`), `pending_reports` |
| `late` | requests whose sender timed out and which the controller has not handled |

One action is one transaction, or one exchange of an agent with the controller or
its Kubo. `RegisterCheck`, `RegisterInsert`, `RegisterFence` are the three locked sections of
`register_object`; `RegisterRejected` its `LifecycleConflict`. `Reconcile` takes
the snapshot (with `_classify_observed_replicas`) and `PlanPin`, `PlanVerify`,
`PlanTrim`, `PlanFinal` are the transactions that follow from it. `Poll` is the
heartbeat and the assignments, `Execute` one job at Kubo, `AuthorizeGranted` and
`AuthorizeDenied` the request before a pin is removed, `Report` the handling of one
report. Their `Unanswered` variants lose the answer, the `Delayed` ones leave
the request to `HandleLate`. `Recover` is `recover_v214` of the maintenance thread,
`RestartController` a restart in any mode, which runs it too. `FaultyOutcome` is Kubo
refusing, unreachable (which `hb_ipfs.is_pinned` takes for "not pinned") or cut off
while it works.

Left to choice, because time is not modelled: when a job is due again, when a lease
ends, when a verification is due, when the grace after a release is over, how long a node
has been silent. One assumption on time is made (`Deliverable`): a request is handled
before the 120 s lease it carries ends, so a job is not handed out a second time while
a request of its first delivery is still on its way.

### TepRpc and the code

| State | Code |
|---|---|
| `step`, `leg`, `outcome`, `made` | the locals of `TepRpcClient.request` and `FailoverTepTransport.__call__`: which route is waited on, the result, `timestamp_ms` of the request |
| `pending` | `_app_pending` of the caller and of the rendezvous; the value is `raw` |
| `seen`, `inserted` | `ReplayCache._entries`; how many ids went in |
| `running` | threads of the target that are in a service |
| `frames` | datagrams on their way; one stays until it is too old for everybody, so that it may be handled never, late or several times |
| `runs`, `ever` | history, for the properties |

A frame's id is (call, leg, hop): an app request keeps its `request_id` on all routes, a
`relay_req` of the caller and the one the rendezvous makes of it have ids of their own
(`new_relay_request`). `Begin` is the local HTTP front (`storage_summary_rpc`,
`ha_lease_rpc`, `master_status_rpc`) and the direct leg; `TimeOut` a wait that ends
without an answer, with the next relay (`TryRelay`, `relay_transport`) or the end;
`Wake` a wait that ends with one. `Complete`, `RelayAccept`, `Execute` and `RejectReplay`
are the handlers of received frames, after `decode_message` (`Fresh`) and with the whole
replay check (`Record`); `RelayReturn` is the end of `_relay_roundtrip` at a rendezvous;
`ServeLease` and `ServePage` (`Finish`) the end of a service. `Restart` is the target's
daemon starting again. Outcomes are `answered` (a result or the service's error),
`replay_detected`, `timeout`, `refused` (an error of the own daemon).

### PeerTable and the code

`table[n][m]` is the `Peer` object (`address`; `keyed`: `pubkey` and `peer_id` present;
`seen`: `last_seen` > 0; `online`; `age` of `last_seen`). `ReadRegistries` and `Swap` are
the two halves of `reconciled_sync`; `FromRecords` is `_peer_from_registry_records`.
`Heartbeat` and `HeartbeatFails` are one peer of `_heartbeat_loop`, `SendApp` is
`_send_plain_to_peer`, called for a request or an answer at any moment. `Receive` and `MarkSeen` are
`_recv_loop` with `_record_authenticated_heartbeat` or `_handle_authenticated_app_packet` (which
needs the key of its sender) up to and from `mark_seen`; `Identify`
is `_ensure_peer_identity`. What an APP packet asks for is in `TepRpc`. `ExpireStale` is what `to_json` and `online_count` write,
`Shown` what the page then says. `Move` and `Publish` are the node's host and the
blockchain RPC, modelled from how the code uses them. `heard`, the age of the last
packet a peer was authenticated by, is history.

### StorageAccounting and the code

| State | Code |
|---|---|
| `used` | what `du` or ZFS would say of each store |
| `listed`, `registry` | the sum of the quotas in `list.json`, and in `Registry._by_apikey` |
| `grants`, `granting` | `quota_grants.json`; the locals of `grant_quota` between check and save |
| `answers`, `cache` | `results` of `aggregate`; `_cache` of the page |
| `stored`, `unpromised` | history since the round began, for the property |
| `Role`, a constant | `HB_STORAGE_ROLE`, or its default, `primary` on any store with ZFS; a store with several may tell another one in each answer |

`Write`, `UpdateList` are files that come and go and the script that replaces `list.json`.
`GrantCheck` and `GrantSave` are `grant_quota` (the file service handles one request at a
time, so that no other request of it comes in between), `Revoke` is `revoke_quota`.
`Reload` is `_reload_if_changed` with its three ends: read, missing (no quotas), unreadable (the
last ones). `Summary` is the public page; `Fetch` with `Valid` and `Expected` the two fetchers;
`Counted`, `CapacityClass`, `Sellable`, `Aggregate` the parts of `aggregate`;
`StartRound` and `Publish` the page's server, which serves nobody while a round is under
way. The commitments of one primary (`Primary`) are modelled; another one may tell any quotas.

## 3. Runs

| Run | Instance | Shows |
|---|---|---|
| `ha_ingress` | 2 voters, 2 candidates (dr1 is both), an ingress beside the other voter, lease 1 tick, term 1, 1 crash | `TypeOK`, `GuardExclusive`, `OneLeaderPerTerm` under all interleavings of the RPCs of both candidates, with lost RPCs and ticks between any two of them; `RouteWasElected` with requests to the ingress at any moment |
| `ha_restart` | dr1 the only voter and also a candidate, lease 2, terms up to 2, 1 late request, 2 crashes | `GuardExclusive`, `GuardBacked`, `VoteIsFinal`, `ImplementsPrimaryLease` across agent restarts, reboots and a request handled late |
| `ha_fencing` | as above with failing writes, 1 crash, terms up to 2, one service | `ServicesNeedLeases` (liveness) under `FairSpec` |
| `ha_unsaved_vote` | 3 voters, failing vote file on one | **violated** `GuardExclusive` |
| `repl_trim` | 3 nodes (2 committable), 3 references uploaded to a node each, 2 may be released, N = M = 1, mode full, 2 reconciling threads, 1 mishap, an edge that may fall silent | `TypeOK`, `TrimKeepsFloor`, `ConfirmedIsReal`, `AuthorizationStands`, `ImplementsPinnedContent` while trims are planned, authorised, executed and reported |
| `repl_repair` | 3 nodes, N = 2, M = 1, mode pin-only, 2 mishaps, any node may fall silent | `NoCopyIsRemoved`, `ConfirmedIsReal`, `AssignmentsAreRetried`; `RepairCompletes` (liveness): with all nodes up and N of them without a copy given up as lost, N pins exist for good and are confirmed again and again |
| `repl_cleanup` | 1 node, 2 references registered, repeated, released and registered again, both modes, recovery at any time, 1 mishap | `RefcountIsLiveRefs`, `AuthorizationStands` with returns, `CleanupCompletes` (liveness) |
| `repl_overtrim` | as `repl_trim`, nothing going wrong, recovery may meet an authorised trim | **violated** `TrimKeepsFloor` |
| `repl_full_mode` | as `repl_repair` in mode full, nothing going wrong | **violated** `FullModeRepairs` |
| `tep_rpc` | 2 calls (a page that may be relayed, a lease request that may not), 2 rendezvous of which one is the caller itself and the other's clock is behind, 1 awaited id and 1 cached id per daemon, 1 restart, 2 ticks | `TypeOK`, `PendingIsOwned`, `ExecutedInTime`, `ImplementsAtMostOnce`; `CallReturns` (liveness) |
| `tep_peers` | an edge that is listed in both registries and may move, a server that only `/api/nodes` has, 3 addresses, 2 mishaps, 1 packet on its way | `TypeOK`, `OnlineWasHeard`, `ObservedStays`; `MeetAgain` (liveness) |
| `storage_sales` | 3 stores that hold anything at first, the second one primary or secondary, 4 entries (one store twice, roles configured wrongly), 2 customers, 2 changes or failing reads | `TypeOK`, `DisplayAgrees`, `SellableIsBacked`, `GrantsFit` |

Why the bounds are enough. `Lease` counts ticks: 1 already separates "the lease
runs" from "it has run out" at every point of a round, 2 adds the state in which
a guard file was renewed part-way and the ones whose remaining times differ
between voter and candidate, on which the restart guard and the conservative
deadline depend. `MaxTerm` 1 is the term both
candidates contend for with three voters; 2 lets the loser, or a deposed leader, lead next.
One late request suffices to deliver a vote or a renewal to the voter
after it moved on. Two crashes put the second inside the restart guard of the first.
The single voter of `ha_restart` is the sharpest case for restarts, since no other
voter hides what it forgets; three voters with crashes and late requests together, or
with an ingress (more than 3.7 million states), are beyond TLC here and are covered by
the proofs. Two voters are the least with which a round has replies of different
moments. A quorum of two is everybody; that quorums of any number of voters meet is what
the proofs rest on.

For `ReplLifecycle`: a *mishap* is a restart of the controller or of an agent, an
unanswered or delayed request, a node falling silent or a fault of Kubo; one budget counts
them all (that a silent node stays silent until it counts as gone costs nothing more).
Three copies over a floor of one are the least with which two trims are under way and a
third copy can become unavailable between their authorisations; two threads are the least
that can plan against each other. Repair needs a node that is neither source nor silent:
three nodes for N = 2. Two mishaps let two nodes fall silent, their copies be given up as
lost and the nodes come back: then too few are left to place on, and the property claims
nothing. Cleanup of one node does not depend on another, which is why its run affords
returns, repetitions and both modes. Two job ids and tokens per node are enough for what
is in use at one time in these runs (an id is reused when nothing names it; a job that
finds no free id waits). The passing runs keep out of what is known to fail: recovery
meets no authorised trim in `repl_trim` (`Recovered`), contents do not return and
registrations are not repeated in `repl_trim` and `repl_repair` (`MayReturn`, `MayRepeat`:
a content that is placed on a node between the second and the third transaction of its
return breaks `AssignmentsAreRetried`, because the fence makes the new `PIN` stale and
leaves the node assigned; a registration repeated after its replica was trimmed breaks
`ConfirmedIsReal`, and so does a file uploaded to a node whose other copy is trimmed
before `register_object` marks it pinned, for which reason each file has a node of its own
in `repl_trim`), and Kubo is not cut off while it removes a pin, which leaves a missing
copy counted. These are listed as hazards.

For `TepRpc`: a tick stands for the acceptance window (30 s), a call lasts a tenth of it,
so its timeouts fire at any moment and time passes only when the property
needs it (`LastCall` 0: calls begin in the first unit, their frames are handled in any).
`Past` and `Future` 1, `Window` 3 keep the order 30 s + 10 s < 120 s of the code. With one
place in each table the second call finds the caller's table full and the second accepted id
evicts the first; two calls are the least for either. `MaxAccepted` 3 lets an id be
accepted, evicted and accepted again. The foreign rendezvous' clock is behind, so it takes
and wraps a request that is too old for the target; its own fresh envelope must not hide
that. A third call or tick takes TLC beyond its time here.

For `PeerTable`: a mishap is a change of address, a restart or a failed read; two are
the least for "moves, then the other restarts" and "is dropped, then moves". One packet on
its way may be the one sent from the old address. `OnlineTtl` 1 separates fresh, about to
expire and expired. Only one node moves: two that move do not find each other again, as the hazards say.

For `StorageAccounting`: sizes are small numbers in which quotas and grants fill the primary (2)
exactly; two changes are the least with which one store fills after its answer and
another empties before its own, so that the page offers what was never free at one moment.
The customers are alike (symmetry). Four entries hold one correct, one doubled (once
over TEP), and two with a wrong role.

Fairness of `TepRpc`: a wait ends, with an answer or by its timeout (`Event.wait`): weak fairness
of `TimeOut(c) \/ Wake(c)` for each call, nothing about the network or the other daemons.
Fairness of `PeerTable` (`FairSpec`): the three threads of a daemon run for ever (weak, or strong where
the others may disable a step for a moment, as for a heartbeat whose peer is just being replaced), a
node publishes its address in the end, and not every packet that reaches a daemon is
lost; nobody has to make a call. Fairness of `ReplLifecycle` (`FairSpec`): the reconciling threads, the agents' loops
and the maintenance thread run for ever, a started registration goes on (`Registering`)
and a late request is handled. `AgentLoop(n)` has one weak fairness for all
of its steps because it is one sequential loop. No fairness is put on users or mishaps.

Fairness of `HALease` (`FairSpec`): time passes (`WF(Tick)`), and the watchdog goes on fencing
(`WF(Watchdog(c))`): it is a unit of its own with `Restart=always`, polls every
half second and retries a failed stop. Nothing is assumed of the agent: it may
stall anywhere.

The violations are disagreements between code and documentation:

1. `PersistentVoteState.advance` changes the vote in memory before it writes
   the file. After a failed write the request ends in an error but the voter
   goes on with the vote: it renews that candidate's lease. When the agent restarts
   vote and restart guard are missing, and it votes for the other candidate, while
   the first guard file is still valid. `MCHAUnsavedVote` keeps to the actions of that story; its behaviours
   are behaviours of `Spec`.
2. `recover_v214` runs every 900 s beside working agents. It makes an authorised trim
   stale; from then on its copy counts as confirmed and not as being removed, the agent's
   report and the `UNPIN_VERIFY` after it are dropped (the latter wants `refcount` 0),
   and another copy may be trimmed: with two copies and N = 1 the content is gone.
3. `reconcile_cid` places and verifies in mode `pin-only` only, and `ControllerV214`
   sets `mode` to `full` after the base class was given `pin-only` for it: in mode full
   nothing is placed.

Other disagreements are noted with their hazards, without a run: `local_role` may show two
primaries for a moment; a copy that was given up as lost is neither verified nor replaced
on its node when that is back, so that with as many nodes as copies N is not reached
again; a registration may get past an authorised final removal; `ttl_ms` of a request is
not compared with its age; a grant is not checked when the capacity cannot be read.

Every property of a passing run has a mutant of the code that violates it (the
operators marked `Mutant` in the module; `PROJECT.json` `mutants`).

## 4. Proofs

`HALease_proofs` proves, for every set of voters and candidates, order,
priority, lease and bound:

* `TypeCorrect`: `Spec => []TypeOK`, with or without failing writes.
* `Inductive`: `Spec => []IInv`; from it `GuardIsBacked`, `GuardIsExclusive`,
  `VotesAreFinal` and `LeaseIsOneLock` (the guard files implement `PrimaryLease`).

All but the first assume `DiskMayFail = FALSE`: with failing writes exclusivity
does not hold (finding 1). They rest on the named assumptions of `HALease`: the
voters are finite and `VoterSeq` lists each once, `None` is no candidate, `Lease` is a
positive number.

The argument. `GuardExclusive` alone is not inductive: a guard file is valid
because voters are bound, and they are bound because of what happened in a round
that is long over. `Promise(v, c, k)` says that voter v has voted for c and that its
lease or restart guard keeps it from helping anyone else for k more ticks.
`IInv` adds to `TypeOK` that the vote in memory is the one in the file, that a
voter's lease names the candidate it voted for, that every grant counted in a running
round still carries a promise as long as the round's `budget`, and that each running
guard file is backed by a quorum of promises at least as long as itself. The budget
is counted from before the first RPC, so a voter's lease, counted from when it answered,
never ends first: that is the step the base class's deadline, counted from the last
answer, breaks (mutant `WinCountedFromEnd`). A restart turns the lease in memory into
a restart guard at least as long. Two quorums of the same voters meet (`Cardinality`
lemmas at the head of the module), and one voter cannot promise itself to two candidates.

`HATerms_proofs` proves `TermsHaveOneLeader`: `Spec => []OneLeaderPerTerm`, also for
`DiskMayFail = FALSE`. No state of the agents remembers who won a term, so the invariant
says that there is a history H which gives each voter at most one vote in each term
(`HistoryIsKept`) and in which is recorded (`Recorded`) every vote the voters hold, and
everything a candidate goes by: the grants of its round, the replies to its status RPCs, the
majority found in them and its leadership. `HeardOnce` says that a round hears each
voter once. In each step the next history has every vote of the one before (`Keeps`); a vote is added
when it is cast. Two leaders of a term have quorums in H; the quorums meet in one voter,
who voted once in that term.

`MasterIngress_proofs` proves `IngressOnlyReads`: a step of the composed system is a
step of `HALease` or leaves its variables alone, so every theorem above holds there.
`RoutesWereElected` (`DiskMayFail = FALSE`) adds that the replies in the running round of an
ingress' agent report votes of H and that its `clusterView`, the request being answered and the
last answer name winners of H. That voter state and view are of different
moments does no harm because no step takes a vote out of H.

`TepRpc_proofs` proves, for any calls, routes, clock errors, limits and numbers of restarts,
`RpcTypeCorrect`, `PendingIsAlwaysOwned`, `RequestsRunInTime` and `RpcIsAtMostOnce`
(`Spec => ImplementsAtMostOnce`) from `RpcInductive`. The assumptions are the named ones of
`TepRpc`; the one that matters is `WindowAssumption`, that the cache remembers for longer than
a request is acceptable (`Window > Past + Future`). The invariant: a call that waits has its place in
the table and was told nothing yet (`WaitsInTable`); frames, tables and caches speak of
calls that were made (`Begun`); a direct request carries the time of its call, and a
service that must not be relayed is not (`Requests`); what is answered was executed
(`Truthful`); and what was executed since the last restart is in the cache, or was evicted by
`MaxEntries` others, or is too old to be accepted (`Cached`).

`PeerTable_proofs` proves `PeerTypeCorrect`, `OnlinePeersWereHeard` and `ObservedPeersStay`
from `PeersInductive`, for any nodes, addresses and bounds. `OnlineWasHeard` is about the
page; the invariant says of the table below it that the last authenticated packet of an online
peer is no older than its `last_seen` (`SeenWasHeard`), and that between its lookup and
`mark_seen` a packet is the last one of its sender (`BeingHandled`), so that a
table swapped in between does no harm.

`ReplLifecycle_proofs` proves, for all sets and every bound:

* `ReferencesAreCounted`: `Spec => []RefcountIsLiveRefs`. `CountInv` (the references' type
  and the count itself) is inductive; only `RegisterInsert`, `ReleaseOne` and `ReleaseLast`
  touch it. The last one sets the count to 0 outright: it is reached with a count of at most
  1 and one reference still live, so exactly that one was counted.
* `ReplTypeCorrect`: `Spec => []TypeOK`. The hard part is that ids and leases are used
  again: a report fits the operation of the job it names (`AboutTheirJobs`) because no id
  is given out while a job, a task or a message names it.
* `AuthorisationsStand`: `Spec => []AuthorizationStands`, in all settings: returns, repetitions,
  either mode, recovery at any time. A trim is authorised only while a reference is live and
  the last one is not released under it. A content that came back is of a later generation than
  what was planned before (`Dated`), or its registration is between its insertion and the fence;
  `StandInv` carries this from plans to jobs to authorisations.
* `AssignmentsStayRetried`: `Spec => []AssignmentsAreRetried` as long as the content is in its first
  life, not registered again after its final release (`[]FirstLife`). It is
  the safety half of repair: `choose_placements` passes over every node with an assignment, so
  one whose job is lost would never get its copy. The invariant adds that only unpins
  are authorised (`OnlyUnpinsAreAuthorized`), because a recovery drops what is authorised, and
  each step is split by node: its jobs are carried on (`CarriedOn`), or its copy is
  taken to be there or no longer wanted, or it gets a job.
* `PlacementsAreExact`, about the operator `Placements`: for any nodes, replicas, N and M the
  controller has a choice to make, and every choice takes all free nodes of a kind that is
  still short and no node that could be left out. Two lemmas on finite sets carry it
  (`SubsetOfSize`, `SplitSize`); the rest is arithmetic on the counts (`PlacementNumbers`).

`ReplTrim_proofs` proves, for mode full, `TrimsKeepFloor`, `ConfirmedCopiesExist` and
`TrimImplementsContent`. Their restrictions are three on the setting (`TrimOnly`): the mode, a Kubo that
refuses or is down but is not cut off while it works, and no recovery that touches an
authorised trim; and two on the behaviour (`TrimSpec`): the content is in its first life
(`FirstLife`), and the copy that a registration is recorded with is pinned then (`CopyIsThere`).
The latter is what the file service has just done; it fails when that copy was trimmed in
between, and then `ConfirmedIsReal` fails too. Any number
of nodes, references, uploads to a node, repeated registrations, reconciling threads, restarts, lost and late
requests is allowed. The
recovery of trims is the one the code breaks (finding 2). The invariant `TrimParts`, which is
needed only in the content's first life, says of each node (`NodeInv`): it has at most one job,
a trim; its agent's task carries the lease of that job, and nothing said earlier answers it
(`TasksAt`); a late request for permission is about a job that still waits, and a failure
which the controller would believe left the copy in place (`AnswersAt`); a confirmed copy is
pinned unless its removal is permitted (`CopyAt`). `Floor` says that once a removal is
permitted or done, the pins without those that may go at any moment are enough.
`GrantFloor` is the step that needs it: `_trim_capacity_locked` counts other permitted
trims by their jobs, which is the number of their nodes because a node has one job
(`GoingCounted`), and confirmed copies by the database, which are pins by `CopyAt`.

For mode pin-only it proves `RepairIsAdditive` (`Spec => NoCopyIsRemoved`), `RepairedCopiesExist`
(`ConfirmedIsReal` and `TrimKeepsFloor` are invariants) and `RepairImplementsContent`
(`Spec => ImplementsPinnedContent`). The only hypothesis is `Modes = {"pin-only"}`: returns, repeated
registrations, shared upload nodes, recoveries and every fault of Kubo are included.
`RepairInv` says that no job, task or plan is about a removal (`OnlyAdditions`), that a
replica counted as pinned or in grace is pinned, and so is a node from which a success is on its
way (`ReplicaIsThere`), and that a reference which is being inserted or is known
came with a pin (`UploadIsThere`). A late or repeated success stays true because nothing
unpins what it tells of.

`StorageAccounting_proofs` proves `SalesTypeCorrect`, `PageAgrees`, `SalesAreBacked` and
`CheckedGrantsFit` from `SalesInductive`, for any stores, roles, entries of the
configuration, customers and bounds, under the named assumptions of `StorageAccounting`
(finite sets; capacities, quotas and sizes are numbers). Nothing is assumed of how many
primaries there are; `Primary` may be any of them. `SalesInv` adds to the types and to the
page's agreement with itself that each answer of the running round tells of no more room
than its store has now and has filled since (`Room`), that the primary's tells of no more
left to promise than there was at one moment (`RoundInv`), and that a grant which was
checked still fits (`GrantFits`). The sums are folds. Instead of an induction over their
data the module shows that a sum is the size of the set of pairs of an element and one of
its units (`Units`): a subset for which that is wrong would have a smallest one below it
(`SmallestSubset`), which a first-order fact about finite sets gives. Sums over different
sets are then compared as sets.

Only model-checked: liveness (`ServicesNeedLeases`, `RepairCompletes`, `CleanupCompletes`,
`CallReturns`, `MeetAgain`), which is outside the prover's reach. Every invariant, action
property and refinement that a passing run checks is stated by a theorem.

Not claimed, because it fails there, as the hazards and the findings say: one valid lease at a
time with failing vote files; in `ReplLifecycle` the floor, the confirmed copies and the refinement in mode
full with a recovery of trims, a return, a registration recorded when its copy is gone, or when the
modes alternate (a file may then be uploaded to a node that already had a copy placed on it);
assignments with a return; repair to N when lost copies leave too few nodes; that what a page offers
was free at one single moment of its round.

## 5. Not modelled

What is left of the parts that keep state:

* **Placement policy.** How many nodes of which class `choose_placements` picks is modelled
  (`Placements`) and proved exact. Which ones, its ranking by free capacity and failure domain, is left to
  choice: it is a pure function with unit tests of its own.
* **HA election.** The cached eligibility a rival reads and the deferral to it are a free choice
  in `HALease`, which is enough for safety. That an election ends is not stated: as the hazards
  list, the code lets it be delayed without bound (split votes, deferral to a rival without a
  quorum).
* **Replication.** Changes of N and M, references without an id, mode observe and closed gates,
  the health column and failing writes are left out of `ReplLifecycle`.
* **File service.** Upload, download, sharing and deletion of files, with the delete that unpins
  locally without the controller, are left out; what they ask of the controller is in
  `ReplLifecycle`, what they add to the used space is `Write`.
* **TEP.** Encryption and framing, the checks of an envelope's other fields, static peers,
  keys that change, and `RelayDispatcher`, which the daemon does not use.

Not modelled for what they are: installers and shell scripts (sequential, run by an operator), the
HTML panel and its crypto, the accelerator and explorer tools, wire encodings,
superseded copies of the daemon (`patched/`, `staging/`, `baseline/`), vendored binaries.
Each is listed in `PROJECT.json` with its reason.
