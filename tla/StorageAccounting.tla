-------------------------- MODULE StorageAccounting --------------------------
(***************************************************************************)
(* How much storage the network may sell.  The file service of the primary *)
(* keeps two kinds of commitments, the quotas of list.json and the grants  *)
(* of the administrator (hbfiles/hb_registry.py, hb_capacity.py), and      *)
(* every store publishes its role, what it has and what of it is used      *)
(* (hb_files.py).  The aggregator asks all of them in parallel, directly   *)
(* or through the TEP daemon, and makes one sum of the answers             *)
(* (aggregator/), which its page shows for 30 s.                           *)
(*                                                                         *)
(* The answers of a round are from different moments, some may be missing, *)
(* two entries of the configuration may lead to one store, and any number  *)
(* of stores may say that they are the primary.  The file service handles  *)
(* one request at a time, but list.json is replaced by a script of its     *)
(* own, may be missing or unreadable.                                      *)
(*                                                                         *)
(* The commitments of one primary are modelled; of those of another one    *)
(* any number may be told.  Assumed: the grants file is written whole.     *)
(* Left out: summaries that are too old or malformed (an answer that does  *)
(* not come), rounding, the sums over edge nodes.  How a file gets its     *)
(* copies is in ReplLifecycle, how a TEP request travels in TepRpc.        *)
(***************************************************************************)
EXTENDS Integers, Sequences, FiniteSetsExt

CONSTANTS
  Store,
  Role,            \* store -> the roles it may have: HB_STORAGE_ROLE, which may
                   \* change with a restart, or "primary" on any store with ZFS
  Primary,         \* the store whose commitments are modelled
  Capacity,        \* store -> what it may hold
  Entries,         \* storage-nodes.json: a sequence of records (see EntryType)
  Customer,        \* who may be granted storage
  MaxUsed,         \* bound: store -> what it may be filled with
  MaxQuota,        \* bound: the sum of the quotas in list.json
  MaxChanges,      \* bound: changes of a store or of list.json, reads that fail
  None, Failed     \* no answer yet; a fetch that failed

RoleType == {"primary", "secondary", "edge"}
EntryType ==
  [store : Store,                \* who answers at its address
   tep : BOOLEAN,                \* transport
   role : RoleType \cup {None},  \* configured_role
   id : Store]                   \* summary_node_id, for transport tep
Entry == DOMAIN Entries

ASSUME StoreAssumption ==
  /\ IsFiniteSet(Store) /\ IsFiniteSet(Customer)
  /\ Role \in [Store -> SUBSET RoleType]
  /\ Capacity \in [Store -> Nat]
  /\ Primary \in Store
ASSUME EntryAssumption ==
  Entries \in Seq(EntryType) /\ Entries # <<>>
ASSUME BoundAssumption ==
  MaxUsed \in [Store -> Nat] /\ MaxQuota \in Nat /\ MaxChanges \in Nat

\* What the stores may hold, within the bound.
Usage == {f \in [Store -> 0..Max({MaxUsed[s] : s \in Store} \cup {0})] :
            \A s \in Store : f[s] <= MaxUsed[s]}

VARIABLES
  used,       \* store -> what is stored there
  listed,     \* sum of the quotas in list.json
  registry,   \* the same, as the primary's Registry last read it
  grants,     \* quota_grants.json: customer -> what was granted
  granting,   \* the grant that passed the check and is not yet saved
  answers,    \* entry -> its result, or None; <<>> when no round is under way
  cache,      \* what the page shows
  changes,
  \* what the properties look back at, since the round began
  stored,     \* store -> what was stored there, or not told
  unpromised  \* the most that was not promised, by what the primary could tell

networkVars == <<answers, cache>>
roundVars == <<stored, unpromised>>
vars == <<used, listed, registry, grants, granting, networkVars, changes, roundVars>>

Committable == {s \in Store : Role[s] \cap {"primary", "secondary"} # {}}
Total(f, S) == MapThenSumSet(LAMBDA s : f[s], S)

Change == changes < MaxChanges /\ changes' = changes + 1
ChangeIf(fails) == IF fails THEN Change ELSE UNCHANGED changes
Running == answers # <<>>

\* Keeps stored and unpromised up to date while a round is under way.
Uncommitted == Total(Capacity, Committable) - listed - Total(grants, Customer)
Look ==
  IF Running
  THEN /\ stored' = [s \in Store |-> stored[s] + Max({0, used'[s] - used[s]})]
       /\ unpromised' = Max({unpromised, Uncommitted'})
  ELSE UNCHANGED roundVars

-----------------------------------------------------------------------------
(* The stores.                                                             *)

\* Files come and go.  A store whose capacity is a configured number may be
\* filled past it.
Write(s) ==
  /\ Change
  /\ \E u \in {used[s] - 1, used[s] + 1} \cap 0..MaxUsed[s] : used' = [used EXCEPT ![s] = u]
  /\ UNCHANGED <<listed, registry, grants, granting, networkVars>>
  /\ Look

\* update_list_json.sh puts another list.json in place.
UpdateList ==
  /\ Change
  /\ \E q \in 0..MaxQuota : listed' = q
  /\ UNCHANGED <<used, registry, grants, granting, networkVars>>
  /\ Look

\* _reload_if_changed, with which every sum starts: list.json is read; it is not
\* there and the registry is empty; it is unreadable and the registry stays.
Reload == {listed, 0, registry}

\* Mutant: what was granted before is not counted.
SurplusOfQuotas(quotas) == Capacity[Primary] - quotas

\* commerciable: the capacity of the primary alone, without what is committed.
Surplus(quotas) == Capacity[Primary] - (quotas + Total(grants, Customer))

\* grant_quota up to the check.  When the capacity cannot be read there is none.
GrantCheck(c, gb) ==
  /\ granting = None
  /\ registry' \in Reload
  /\ \E checked \in BOOLEAN :
       /\ checked => gb <= Surplus(registry')
       /\ granting' = [customer |-> c, gb |-> gb, checked |-> checked]
       /\ ChangeIf(registry' # listed \/ ~checked)
  /\ UNCHANGED <<used, listed, grants, networkVars, roundVars>>

\* The rest of it: a new grant takes the place of the customer's old one.
GrantSave ==
  /\ granting # None
  /\ grants' = [grants EXCEPT ![granting.customer] = granting.gb]
  /\ granting' = None
  /\ UNCHANGED <<used, listed, registry, networkVars, changes>>
  /\ Look

\* revoke_quota
Revoke(c) ==
  /\ granting = None /\ grants[c] # 0
  /\ grants' = [grants EXCEPT ![c] = 0]
  /\ UNCHANGED <<used, listed, registry, granting, networkVars, changes>>
  /\ Look

-----------------------------------------------------------------------------
(* The summaries.                                                          *)

\* What a store in a role says of itself, and the quotas it says it has: only a
\* primary tells what is committed.
Summary(s, role, inUse, quotas) ==
  [store |-> s, role |-> role, total |-> Capacity[s], used |-> inUse,
   reserved |-> quotas,
   sold |-> IF s = Primary /\ role = "primary" THEN Total(grants, Customer) ELSE 0]

Quotas(s, role) ==
  CASE role # "primary" -> {0}
    [] s = Primary -> Reload
    [] OTHER -> 0..MaxQuota

\* _validate_summary: used > total * 1.05 is not believed.
Valid(x) == 20 * x.used <= 21 * x.total

\* _fetch_summary_tep: the answer must come from the store and with the role the
\* configuration names; a direct one is taken from whoever answers.
Expected(e, x) == e.tep => x.store = e.id /\ e.role \in {None, x.role}

\* An answer.  When du fails the usage is missing and taken to be 0.
Fetch(k) ==
  LET s == Entries[k].store IN
  /\ Running /\ answers[k] = None
  /\ s = Primary => granting = None
  /\ \E role \in Role[s], inUse \in {used[s], 0} : \E quotas \in Quotas(s, role) :
       LET x == Summary(s, role, inUse, quotas)
           accounts == s = Primary /\ role = "primary"
       IN /\ answers' = [answers EXCEPT ![k] =
               IF Valid(x) /\ Expected(Entries[k], x) THEN x ELSE Failed]
          /\ registry' = IF accounts THEN quotas ELSE registry
          /\ stored' = [stored EXCEPT ![s] = @ + used[s] - inUse]
          /\ unpromised' = IF accounts THEN Max({unpromised, Uncommitted + listed - quotas})
                           ELSE unpromised
          /\ ChangeIf(inUse # used[s] \/ (accounts /\ quotas # listed))
  /\ UNCHANGED <<used, listed, grants, granting, cache>>

\* No answer in time, or a bad one.
FetchFails(k) ==
  /\ Running /\ answers[k] = None
  /\ Change
  /\ answers' = [answers EXCEPT ![k] = Failed]
  /\ UNCHANGED <<used, listed, registry, grants, granting, cache, roundVars>>

-----------------------------------------------------------------------------
(* The aggregator.                                                         *)

Online(k) == answers[k] # Failed

\* Mutant: an entry counts whoever answered to it.
CountedTwice == {k \in Entry : Online(k)}

\* Two entries with one node_id are one node, the first.
Counted ==
  {k \in Entry : Online(k) /\ ~\E j \in 1..k - 1 :
                   Online(j) /\ answers[j].store = answers[k].store}

\* Mutant: the configured role goes first.
CapacityClassConfigured(k) ==
  LET role == IF Entries[k].role # None THEN Entries[k].role
              ELSE IF k \in Counted THEN answers[k].role ELSE None
  IN CASE role \in {"primary", "secondary"} -> "committable"
       [] role = "edge" -> "best-effort"
       [] OTHER -> "unknown"

\* _capacity_class: the role in the answer; the configured one when there is no
\* answer that counts.
CapacityClass(k) ==
  LET role == IF k \in Counted THEN answers[k].role ELSE Entries[k].role
  IN CASE role \in {"primary", "secondary"} -> "committable"
       [] role = "edge" -> "best-effort"
       [] OTHER -> "unknown"

\* Mutant: nothing keeps the result from being negative.
SellableUnclamped(total, inUse, p) ==
  Min({total - answers[p].reserved - answers[p].sold, total - inUse})

\* free_sellable: neither promised nor in use.
Sellable(total, inUse, p) ==
  Max({0, Min({total - answers[p].reserved - answers[p].sold, total - inUse})})

\* aggregate, from the answers to the data of the page: without exactly one
\* primary there is nothing to sell.
Aggregate ==
  LET safe == {k \in Counted : answers[k].role \in {"primary", "secondary"}}
      primaries == {k \in safe : answers[k].role = "primary"}
      total == Total([k \in safe |-> answers[k].total], safe)
      inUse == Total([k \in safe |-> answers[k].used], safe)
  IN [free |-> IF Cardinality(primaries) # 1 THEN None
               ELSE Sellable(total, inUse, CHOOSE p \in primaries : TRUE),
      total |-> total,
      nodes |-> [k \in Entry |->
                   [online |-> k \in Counted, class |-> CapacityClass(k),
                    size |-> IF Online(k) THEN answers[k].total ELSE 0]]]

\* do_GET of the page when it shows nothing yet or what it shows is 30 s old: one
\* fetch for each entry, in parallel.  The page is not served to anyone meanwhile,
\* and then there is another.
StartRound ==
  /\ ~Running
  /\ answers' = [k \in Entry |-> None]
  /\ cache' = None /\ unpromised' = Uncommitted
  /\ UNCHANGED <<used, listed, registry, grants, granting, changes, stored>>

Publish ==
  /\ Running /\ \A k \in Entry : answers[k] # None
  /\ cache' = Aggregate
  /\ answers' = <<>>
  /\ stored' = [s \in Store |-> 0] /\ unpromised' = 0
  /\ UNCHANGED <<used, listed, registry, grants, granting, changes>>

-----------------------------------------------------------------------------
Init ==
  /\ used \in Usage /\ listed \in 0..MaxQuota /\ registry = 0
  /\ grants = [c \in Customer |-> 0] /\ granting = None
  /\ answers = <<>> /\ cache = None /\ changes = 0
  /\ stored = [s \in Store |-> 0] /\ unpromised = 0

Next ==
  \/ \E s \in Store : Write(s)
  \/ UpdateList
  \/ \E c \in Customer, gb \in 1..MaxQuota : GrantCheck(c, gb)
  \/ GrantSave
  \/ \E c \in Customer : Revoke(c)
  \/ \E k \in Entry : Fetch(k) \/ FetchFails(k)
  \/ StartRound \/ Publish

Spec == Init /\ [][Next]_vars

-----------------------------------------------------------------------------
(* Properties.                                                             *)

\* The types of the variables; what the page says is free is not negative.
TypeOK ==
  /\ used \in [Store -> Nat] /\ \A s \in Store : used[s] <= MaxUsed[s]
  /\ listed \in 0..MaxQuota /\ registry \in 0..MaxQuota
  /\ grants \in [Customer -> 0..MaxQuota]
  /\ granting # None =>
       granting \in [customer : Customer, gb : 1..MaxQuota, checked : BOOLEAN]
  /\ Running => DOMAIN answers = Entry
  /\ cache # None => cache.free \in Nat \cup {None} /\ cache.total \in Nat
  /\ changes \in 0..MaxChanges

\* When a page is made, the committable stores have free what it offers, but for what
\* was stored since the round began or could not be told (du failed).  And at one
\* moment of the round the primary whose commitments the page goes by had not
\* promised it, by the quotas it could read.  Answers of different moments, missing
\* ones and two entries for one store add no other storage to the offer.  When the
\* one primary that answers is another than the modelled one, the page goes by what
\* that one has promised, and only the first part is claimed.
SellableIsBacked ==
  [][Running /\ ~Running' /\ cache'.free # None =>
       /\ cache'.free <= Total([s \in Store |->
                                 Max({0, Capacity[s] - used[s] + stored[s]})], Committable)
       /\ (\A k \in Counted : answers[k].role = "primary" => answers[k].store = Primary)
            => cache'.free <= Max({0, unpromised})]_vars

\* The list of nodes and the sum agree, whatever the configuration says of a node:
\* those shown to be online and committable make up the committable capacity.
DisplayAgrees ==
  cache # None =>
    cache.total = Total([k \in Entry |-> cache.nodes[k].size],
                    {k \in Entry : /\ cache.nodes[k].online
                                   /\ cache.nodes[k].class = "committable"})

\* A grant that is saved leaves the primary able to keep what it has promised, by
\* the registry it went by, which list.json may differ from (replaced since, missing
\* or unreadable): only when the capacity could not be read may it promise more.
GrantsFit ==
  [][\A c \in Customer : grants'[c] > grants[c] /\ granting.checked =>
       registry + Total(grants', Customer) <= Capacity[Primary]]_vars
=============================================================================
