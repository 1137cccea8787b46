# TLA+ models of weave-engine

This directory holds the verification project of weave-engine: TLA+ modules
translated from the Rust source, TLC configurations that model-check them on
small instances, and theorems TLAPS checks for every value of the constants.
Paths below are relative to the repository; `engine/` abbreviates
`crates/weave-engine/src/`.

## 1. Inventory of the system

weave-engine is an embedded graph store on one SQLite file (WAL mode). Several
processes or connections may open the same file; every mutating operation
reserves the SQLite writer (`BEGIN IMMEDIATE`) before it reads, so operations
are serial, and the hard behaviour lies in *sequences* of operations by
different actors who remember things between them: an expected head, a preview
of a compaction, a lease, an effect key, a cursor, a clock sample.

| Component | State it keeps | Operations | Interacts with |
|---|---|---|---|
| Revision store (`lib.rs`, `snapshot.rs`) | tables `revisions`, `heads`, `events`, `snapshot_manifests`, `revision_integrity` | commit, commit_batch, load, head, execute | recorded history, journal readers, retention |
| Recorded history (`recorded_history.rs`) | `head_observations`, a chained row per head movement | append_observation, advance_head, revision_as_of, range and checkpoint queries | every operation that moves a head |
| Operation clock (`operation_clock.rs`) | one sample per outer operation, the largest sample of this engine instance | operation_scope, operation_write_scope, operation_time | every operation |
| Capsules (`capsule.rs`, `capsule_export.rs`) | quarantined rows of `revisions` | receive, accept, fork, export | retention (quarantined rows are nobody's root) |
| Retention (`retention.rs`) | policy, tombstones, pins, retired branches | retain, release, release_branch, plan, compact | reads every table for roots |
| Dispatch (`dispatch.rs`, `adapter_lifecycle.rs`) | adapters, pending deliveries, receipts, effects | install, poll, complete, fail, replay, cancel, request/begin/reconcile effect | journal, programs, causal circuits, retention's replay frontier |
| Causal circuits (`causal_dispatch.rs`) | causation rows, circuits, policies | record root, suspend, bind, set policy | dispatch |
| Projections (`projection_rebase.rs`, `projection_migration.rs`, `compiled_*.rs`) | scan checkpoint, rebuild request, epoch | rebase, complete, migrate | dispatch, retention |
| Fact store (`fact_store/`, `facts.rs`) | `fact_revisions`, versions on shared lines (`fact_log`, `fact_index`), cached answers (`fact_checkpoints`) | assert, correct, retract, reconcile a set of records, checkpoint | heads, registry |
| Registry and visibility (`registry.rs`, `visibility.rs`, `authorization.rs`) | users, groups, agents with delegations, graph ACLs, protected branches, the admission epoch | enable, batches of changes, resolution for every request | every read and write |
| Governance (`governance.rs`, `governance_delivery.rs`, `governed_effects.rs`) | policies, views, proposals, approvals, decisions; subscriptions and their leases; grants and effect intents | propose, approve, accept; subscribe, poll, acknowledge, replay; enqueue, begin, cancel, revoke, reconcile | pinned sources, adapters, the effect outbox |
| Recorded actors (`recorded_actors.rs`, `actor_*.rs`) | actor state, observations, dispositions | register, run, transfer, observe | dispatch |
| Views (`views.rs`, `view_schedule.rs`) | `live_views` with their dependencies, an owner's cursor and queue | register, refresh, enroll, schedule, tick, scan, drain, rotate, rebase | journal, heads, retention epoch |
| Identity and accepted history | acceptance rows | accept, query | revision store |
| Admission, mounts, integration, release | nonces, routes, policies | admit, mount, integrate | revision store |
| Service, MCP, hosts, importers, C ABI | control tables, quota, audit chain, host image | HTTP, MCP and CLI front ends | engine API |

What makes each correct, and what is hard about it:

* **Revision store.** No lost update under compare-and-swap; head, history and
  journal, three tables written by four different operations, never disagree;
  a batch is all or nothing.
* **Recorded history.** The past is stable: the host clock may be set back and
  a reopened engine forgets its last sample, so monotonicity must come from the
  rows. Ties in one millisecond and cuts exactly on a boundary must be resolved
  the same way by every reader.
* **Retention.** Erasing is irreversible. Roots come from heads, pins, history
  and the journal; they move between preview and application; anchors of erased
  rows must stay acceptable as the frontiers advance.
* **Dispatch.** At-least-once delivery with leases that expire while their
  holder still works, retries, dead letters, a late completion racing a
  re-lease, replay of unknown effects, and a replay frontier that compaction
  moves under a slow adapter.
* **Projections and actors.** Rebuild epochs: a projection must not resume from
  a checkpoint whose events were collected.
* **Registry.** Authority is recomputed for every request, while agents hold what
  their owners hold *now*: whatever takes authority away must void the requests
  verified before. Nesting must stay bounded whichever way groups are joined, and
  the tenant must keep an administrator that can act.
* **Fact store.** Writers see different parts of one graph. What one cannot see
  must be absent to it, and still no sequence of writes may leave a reference
  dangling. Branches fork from and return to revisions whose versions share a
  line, and none of that may change what an older revision answers.
* **Governance.** A decision is accepted once, under authority that policies,
  deadlines, expiring approvals and a clock that moves back all change; what was
  accepted must stay verifiable when all of that has changed again.
* **Governed effects.** The head may move on between the request of an effect and
  its attempt; grants are revoked and adapters retired while work is out.
* **Views.** A change between evaluation and enrolment, a page of notifications
  interrupted halfway, a tick asked for while its view is queued, a crash between
  a failed drain and its rotation: none may lose a notice or certify a stale result.

PROJECT.json lists every component with its status, and the hazards with the
line each one bites at.

## 2. The modules

| Module | Models | Checked in | Proved in |
|---|---|---|---|
| `RevisionStore` | revisions, batches, heads, recorded history, clock, capsules, retention | `RecordedHistory`, `Retention`, `IdCollision`, `MentionStopsPlanner` | `RevisionStore_proofs` |
| `RecordedRegister` | abstract: what a branch, or an accepted view, promises the readers of its history | refined by `RevisionStore` and by `Governance` | `RecordedRegister_proofs`, `Governance_proofs` |
| `Dispatch` | adapters, leases, receipts, causal circuits, effects, cancellation, rebuilds, the replay frontier | `Delivery`, `Projection`, `SuspendedIntent` | `Dispatch_proofs` |
| `Outbox` | abstract: what a durable outbox promises the world outside | refined by `Dispatch` and by `GovernedEffects` | `Dispatch_proofs`, `GovernedEffects_proofs` |
| `Registry` | principals, groups, agents and delegation, ACLs, protected branches, the admission epoch | `Facts`, `Administrators` | `Registry_proofs` (its operators), `Facts_proofs` (its theorems) |
| `Facts` | fact writes, snapshots, branch moves and checkpoints under the registry | `Facts` | `Facts_proofs` |
| `FactHistory` | abstract: what every revision of a fact graph holds, for good | refined by `Facts` | `Facts_proofs` |
| `Governance` | policies, proposals, approvals, acceptance, reading the accepted past | `Governance` | `Governance_proofs` |
| `GovernedEffects` | delivery of decisions to adapters, grants and the governed effects | `GovernedEffects` | `GovernedEffects_proofs` |
| `ViewSchedule` | live views and the schedule of one owner | `ViewSchedule` | `ViewSchedule_proofs` |

`Facts` extends `Registry` and `GovernedEffects` extends `Governance`: a step of
one is taken in the state of the other, since a fact write resolves its host in
the registry and an adapter re-reads the head of the view. `MCx` instantiates
module `x` for TLC (`MCFacts` both `Facts` and `Registry`).

The order of work followed what would hurt most: first the tables every other
component writes to, then the machinery that makes external work happen exactly
as often as it should, then authority, facts, governance and views. What is left
is in section 7.

## 3. What the modules model

### RevisionStore

One SQLite writer at a time: every mutating operation takes the writer lock
before it reads or samples the clock (`operation_write_scope`,
`engine/operation_clock.rs`), so an operation is one step. A refused operation
rolls back; what remains of it is the clock sample, which is `Sample`. The
difficulty is in what actors remember between operations, and that is in the
state: the expected head a caller names is *any* revision or none; the
administrator's preview is the variable `plan`; the identifiers a payload may
mention are any that exist; engines are reopened at any time (`Reopen`) and the
host clock moves either way (`ClockMoves`).

| Variable | Table or state |
|---|---|
| `revisions` | `revisions`, a revision is its insertion index |
| `heads`, `observations`, `events` | `heads`, `head_observations` per line, `events` |
| `manifests` | `snapshot_manifests` |
| `retired`, `pins`, `policy`, `tombstones` | the retention tables |
| `plan` | the `RetentionPlan` an administrator previewed |
| `now`, `sample` | the trusted clock; `Clock` of each open engine |

| Action | Code |
|---|---|
| `Commit`, `CommitBatch` | `commit_storage_inner` (`lib.rs`), `commit_batch` (`snapshot.rs`) |
| `Receive`, `Accept` | `receive_capsule`, `accept_revision` and `fork_branch` (`capsule.rs`) |
| `AdvanceHeads` (part of the four above) | `append_observation`, `advance_head` (`recorded_history.rs`) |
| `RetainSnapshots`, `ReleaseRetentionRoot`, `ReleaseBranch` | `retention.rs` |
| `PlanRetention`, `CompactRetention` | `retention_plan`, `compact_retention_boundary` (`retention.rs`) |

A payload is what the store can tell apart: a body compared for equality, the
revisions its required metadata names, and any other revision identifiers in its
text, which the planner traces conservatively. Digests are injective except
where the code makes them collide: `IdTaken` is the case of two equal inputs.
`basis` in an observation is a history variable, the expected head the writer
named; nothing reads it but `NoLostUpdate`.

A capsule is the whole handler: the revisions the store lacks and the manifests of
their batches go in together, under one recording time (`Receive`). Its rows are
listed parents first, which is what acyclic ancestry leaves (`WellFounded`); a batch
the store has already is either the same one, and brings nothing, or refused
(`Lacking`). Left out are dependencies a capsule declares as external and the store
lacks: the planner skips a reference to a revision it does not have.

### RecordedRegister and the refinement

The abstract specification has, per line, a current value, the time of its last
write and the whole history `known`, a function from times to values. A write
changes the history from its time on and nothing before; several lines can be
written at one time; retirement empties a register and keeps its past. The
refinement mapping (`Register` in `RevisionStore`) reads `current` off `heads`,
`stamp` off the last observation, and `known[l][c]` off the query the code runs
(`ORDER BY recorded_at_ms DESC, rowid DESC LIMIT 1`, `AsOf`). Commit, batch,
accept and fork are writes, `release_branch` a retirement, and everything else,
compaction and received capsules included, must be a stutter.

### Dispatch

Every operation of `dispatch.rs`, `adapter_lifecycle.rs`, `causal_dispatch.rs`
and `projection_rebase.rs` that changes state for an installed native adapter is
an action. Workers live outside: `held` remembers for which event each lease was
granted, so a completion, a failure, a cancellation or an effect request may
arrive with any lease ever granted. Lease identities are recycled: granting one
again is the end of its old holder, which bounds the number of concurrent stale
workers, not how often leases change.

| Variable | Table or state |
|---|---|
| `events` | `events` with `event_causation` |
| `private`, `erased`, `policy` | read authority over revisions; payloads erased; `retention_policy` |
| `status`, `checkpoint`, `pending` | `dispatch_adapters`, `dispatch_pending` |
| `receipts`, `results`, `cancelled` | `handler_receipts` with the events each completion wrote, `delivery_cancellations` |
| `rebuild`, `projection`, `draft` | `projection_rebuild_requests`, `retention_adapter_states`, the inputs an owner read before computing a rebuild |
| `limit`, `circuit` | `dispatch_causal_policies`, `dispatch_circuits` |
| `effects` | `effect_intents` |
| `skipped` | history only: events the scan passed because they were unreadable |

| Action | Code |
|---|---|
| `Install`, `SetAdapterState` | `install_adapter`, `set_adapter_state` |
| `PollPending`, `PollNext` | the two halves of `poll_adapter_boundary` |
| `Complete` | `complete_handler_authorized`, `complete_projection_for`; the program's events, the receipt, the checkpoint, the projection state and the deletion of the pending row are one transaction |
| `FailHandler`, `ReplayDeadLetter`, `CancelDelivery` | `fail_handler`, `replay_handler_dead_letter`, `cancel_handler_delivery` |
| `SetCausalPolicy`, `Suspend`, `HandlerEvent` | `set_causal_dispatch_policy_for`, `suspend_causal_delivery`, `bind_handler_causation` |
| `ReadInputs`, `Rebase` | `projection_rebase_inputs_for`, `rebase_projection_boundary` |
| `RequestEffect`, `BeginEffect`, `Reconcile` | `request_effect`, `begin_effect_dispatch`, `reconcile_effect` |
| `Commit`, `ChangeReaders`, `Compact` | the rest of the store, as dispatch sees it |

Four abstractions matter.

* *Time.* A delivery compares the clock only with its lease expiry and its retry
  time. The host clock may jump either way and a reopened engine has no floor,
  so each comparison may go either way at any moment; only a failed delivery,
  whose expiry is 0, is never current again. The model is therefore silent about
  durations and covers every timing.
* *Revisions.* An event announces a revision, named by the first event that
  announced it. `Accept` announces an earlier revision of a line again, so a head may
  return to what it was; payloads, readability and the inputs of a rebuild go by
  revision, as in the code (`Inputs`). A revision returns only to its
  own line; an acceptance onto another branch is a new revision here.
* *Readers.* `private` is a set of revisions rather than a table of grants, and
  `ChangeReaders` flips any of them at any time. All adapters of an instance
  share it; the runs install one adapter, and what is proved of one adapter does not
  use that others see the same set.
* *Compaction.* `Compact` is the frontier movement and erasure of
  `RevisionStore.CompactRetention` as its event consumers see it. `Retained`
  keeps every line's newest event and every event a row of the dispatcher names.

### Outbox

An effect named by an idempotency key is requested at most once, sent at most
once, never withdrawn after it was sent, and a report on it is final. The intents
of handlers (`request_effect` to `reconcile_effect` in `engine/dispatch.rs`) and
those of governed grants (`engine/governed_effects.rs`) are two implementations
with different keys: event and destination key of one adapter, and execution
namespace and accepted publication of any grant. In the second, a key requested
by two adapters would be no state of the outbox at all.

### Registry

`registry` is the state the registry graph's facts render; a batch of changes
(`ApplyRegistry`, `apply_registry`) applies each under the authority the
earlier ones left and writes one revision or nothing. Resolution (`Effective`)
is that of `engine/registry.rs`: an agent holds what its owner holds now, within
its delegation, down a bounded chain; a record is readable when every clause of
its reader admits it. The code descends from an agent to its owner, at most
`MAX_OWNERSHIP_CHAIN` links; `Resolve` computes the same from the far end, what
everyone resolves to with n owners left (`ResolveOne` is one level of `compute`).
`epoch` is the registry revision that last voided requests
verified earlier; `RegistryWrite` moves it when a change of the batch is not
additive.

| Variable | Table or state |
|---|---|
| `registry`, `registryHead` | the facts of the registry graph at its head, and that head |
| `epoch` | the admission epoch of an installed policy |

### Facts and FactHistory

Versions of records lie on *lines* shared by the revisions of one unforked
history; a write from the tip continues its line, any other starts a line on a
copied base. The writer's view (`Known`) decides what a change is compared with:
a record the writer cannot read is absent to it, except that its key is taken.
What the hosts ask for is `demand`, chosen once per behaviour: four kinds of
stores (administration only, a chain of agents, writers who see different parts, a
store without a registry in which branches fork and rejoin).

| Variable | Table or state |
|---|---|
| `revisions`, `heads` | `revisions` with `fact_revisions`, `heads` |
| `versions` | `fact_log`, `fact_index` |
| `checkpoints` | `fact_checkpoints` |
| `demand` | bound: what hosts ask of this store |

| Action | Code |
|---|---|
| `WriteFacts`, `Import` | `write_facts` with `append_facts_with`, and `reconcile_facts` (`facts.rs`) |
| `CommitSnapshot`, `AcceptRevision` | a snapshot commit or acceptance on a branch of the graph, as facts see it |
| `CheckpointFactRevision`, `DropFactCheckpoint` | `checkpoint_fact_revision`, `drop_fact_checkpoint` (`facts.rs`) |
| `EnableRegistry`, `ApplyRegistry` | `registry.rs` |

`FactHistory` knows no lines, versions or checkpoints: a revision's records are
its parent's but the ones it changed. The evidence carriers and their derived
readers, budgets, metadata and structure validation, `on_behalf_of`, expected
heads, the recorded time of a line and the secondary indexes are left out;
programs are of version 1.2.0 or later.

### Governance

One governed view (views share nothing). A host's rights over sources are met
afresh by each operation (`vis`), its time by `t`: both are free, so every
revocation and every jump of the clock between two operations is covered. The
verification that a read of the past performs (`HistoryLink`) is an operator over
the tables, evaluated by properties and by `Accept` itself.

| Variable | Table or state |
|---|---|
| `installed`, `head` | `governance_policies`, `governance_views` |
| `proposals`, `approvals` | `governance_proposals`, `governance_approvals` |
| `decisions` | `governance_decisions`, `governance_events`, `governance_graphs` |

| Action | Code |
|---|---|
| `InstallRoot` | `install_governance_root` (`governance.rs`) |
| `Propose`, `Approve`, `Accept` | `propose_governance`, `record_governance_approval`, `accept_governance` |

Quotas, used nonces (a retry changes nothing) and signature encodings are left out.

### GovernedEffects

| Variable | Table or state |
|---|---|
| `status` | `dispatch_adapters.state` |
| `subscription`, `pending`, `acked` | `governance_subscriptions`, `governance_delivery_pending`, `governance_delivery_receipts` |
| `bound`, `dispositions` | `governed_effect_bindings`, `governed_effect_receipts` |
| `intents` | `effect_intents` with `governed_effect_context` |
| `passed` | history only: events behind the start of a grant, or unreadable when the scan passed them |
| `plan` | bound: what the hosts of this engine ask of each adapter |

| Action | Code |
|---|---|
| `InstallPlain`, `InstallGoverned`, `SetAdapterState`, `Revoke` | installation, the binding of a grant, lifecycle, revocation (`dispatch.rs`, `governed_effects.rs`) |
| `Subscribe`, `CancelSubscription`, `PollPending`, `PollNext`, `ReplayDeadLetter`, `Acknowledge` | `governance_delivery.rs` |
| `Enqueue`, `Begin`, `CancelEffect`, `Reconcile` | `governed_effects.rs` |

As in `Dispatch`, a lease is compared with the clock alone, which may answer
either way; a stale token is refused, so only the current one is presented.

### ViewSchedule

A result is told by the heads its evaluation read: those of the lines its
expression queries and of the live links found in what it read there
(`ComputeView`). The incremental membership cache is modelled by the full
recomputation the code compares it with.

| Variable | Table or state |
|---|---|
| `stored`, `heads`, `events`, `epoch` | `revisions`, `heads`, `events`, the replay epoch of the retention policy |
| `live`, `subscribed`, `enrolled` | `live_views`, `view_dependencies`, `view_selection` |
| `owner` | `view_schedule_cursors`, `retention_view_epochs` |
| `requested`, `pending` | `view_schedules` |
| `failures` | failed drains whose rotation, a transaction of its own, has not happened yet |

| Action | Code |
|---|---|
| `RegisterView`, `RefreshView`, `EnrollIncrementalView` | `views.rs` |
| `EnableViewSchedule`, `RequestViewTick`, `ScanViewWork`, `DrainViewWork`, `RebaseViewSchedule` | `view_schedule.rs` |
| `FailDrain`, `RotateFailedView`, `Crash` | a drain whose computation fails, `rotate_failed_view`, the end of the process between the two |
| `Commit`, `CommitBatch`, `Accept`, `ReleaseBranch`, `CompactRetention` | the rest of the store, as views see it |

A scan that may notify `n` views handles at most one event; larger budgets repeat
it within a transaction. One owner; authority changes, time-filtered attachments,
the metadata traversal of `include_metadata`, generations, transitions and the
contents of manifests are left out.

## 4. The runs

All passing runs are exhaustive over their instance.

| Run | What happens in it | What it shows |
|---|---|---|
| `RecordedHistory` | two lines, commits, batches of one and two members, acceptance, retirement, compaction, a clock running both ways, reopened engines | head = tip of history, no lost update, retained cuts served, each change journalled, batches erased whole; refinement of `RecordedRegister` |
| `Retention` | a preview is taken; pins, commits, quarantined capsules of one or two revisions that may require each other, their acceptance or fork happen; the preview is applied or refused | no root and no dependency of a root is erased; anchors stay loadable |
| `Delivery` | an adapter that causes its own input, up to two events per completion, and either requests an effect (`a1`) or is a graph handler whose deliveries may be cancelled (`a2`); retries, a backlog limit, two concurrent workers, failures, dead letters and replay, lifecycle changes, an event that becomes unreadable, policies raised and lowered | one fresh delivery, one outcome per occurrence, no silent gap, ancestry valid, effects tied to deliveries; refinement of `Outbox`; with a polling host, deliveries settle and events are reached |
| `Projection` | two policy changes and erasures racing with polls, rebuilds from inputs read earlier, a head that returns to an earlier revision, completions and cancellations | state and checkpoint agree; no erased event is passed in silence |
| `Governance` | competing proposals, approvals that expire or were issued ahead of a clock that then moves back, a replaced policy | what is accepted stays verifiable, in one chain; refinement of `RecordedRegister` by reads of the accepted past |
| `GovernedEffects` | decisions delivered to plain and governed adapters while readers change, deliveries die and are revived, grants are revoked, adapters retired | ordinals without gap, no readable event lost, attempts in order of acceptance; refinement of `Outbox` |
| `Facts` | administration of a tenant with groups and an agent; agents added by agents; writers with different sight; branches forking and rejoining with checkpoints | groups stay shallow, agents resolve alike at any depth, lost authority moves the epoch, references hold, hidden records stay hidden; refinement of `FactHistory` |
| `ViewSchedule` | a ticking view whose source comes to link to the line of a second one; commits, batches, acceptance, retirement, a policy change, interrupted scans, failed drains and crashes | no notice lost, certified = recomputed; with a driven schedule, healthy views catch up |
| `IdCollision`, `MentionStopsPlanner`, `SuspendedIntent`, `Administrators` | violations | section 6 |

### Bounds

* `RecordedHistory`: the smallest batch with a fellow, a commit beside it and a
  compaction that may reach one member only; two observations per line (a row
  before and at or after a cut), two generations so that a floor moves. TLC
  explores one branch per graph and a clock of two instants here; more branches
  of one graph, more instants and floors strictly between observations are
  covered by the theorems `PastIsStable`, `WindowIsServed` and `Implementation`,
  which have no bound.
* `Retention`: three rows are a root, its dependency and an outsider; up to two
  quarantined revisions, in one capsule or two, whose acceptance is also the fork of a
  branch that has no head (they name no parent here, `MaxAncestor`: only
  their identity depends on it); one pin. Capsules that bring a logical batch are not in a run:
  with them the instances that have batches are out of TLC's reach, and
  `BatchesErasedWhole`, `TypeCorrect` and the other theorems cover them. `MaxMentions` is 0 there because a mention can stop the planner
  altogether (section 6), and is 1 in that run.
* `Delivery`: three events, a page of the same size, two attempts, a backlog
  limit of two so that it is exceeded, two leases so that a stale and a current
  worker coexist, depth limits 1 and 2 so that a circuit opens and a raised
  policy reopens it. One of the two adapters is installed (`MaxInstalled`): two at
  once share nothing but the journal, where the output of the other is an event like
  any, and the theorems hold for any number. A completion writes at most two events
  (`MAX_OUTPUT`, 256 in the code). `Page` is 1001 in the code; the scan is the same for every
  page length, and the theorems hold for every `Page > 0`.
* `Projection`: two epochs, so that a rebuild can be of the epoch before last;
  three events, so that one is erased, one skipped and one pending; one of them may
  announce an earlier revision again (`MaxReturns`).
* `Governance`: two members with a threshold of two and, under the second policy,
  one; three proposals so that two compete for one head; three instants.
* `GovernedEffects`: three decisions so that one can supersede, or a policy
  change separate, two publications; two adapters that reserve one execution
  namespace; one attempt per delivery and a backlog of two, so that both limits
  bite. One instant of time: expiry changes nothing here that the free choice of
  what a host can read does not, and the theorems hold for any clock.
* `Facts`: registry of six revisions under `Administering`, graphs of three under
  `Hiding` and `Sharing`; depth and ownership limits of two, so that each refuses: under
  `Delegating` a third agent is asked for below two, and the user at the end of their
  chain is suspended or loses a permission.
* `ViewSchedule`: two views of two lines, of which one is linked to only after
  its second revision; one notification or two per scan, so that a fan-out is
  interrupted; one policy change.

`CHECK_DEADLOCK FALSE` is in `Projection`, `Delivery`, `Governance`,
`GovernedEffects`, `Facts`, `ViewSchedule`, `SuspendedIntent` and
`Administrators`: their journals are bounded, and an adapter that was removed, a
view whose proposals are decided or a queue that is drained has nothing left to do.

### Fairness

`Dispatch.FairSpec` assumes only that hosts keep calling `poll_adapter` (weak
fairness of `Poll(a)`), which is what an installed adapter's host does in a loop,
and that the clock eventually passes a lease expiry or retry time, which the free
comparison amounts to. Nothing is assumed of workers: they may never complete or
fail, and a delivery then ends as a dead letter. Nothing is assumed of owners
either, so the liveness properties name each way in which an owner or a reader
can stop an adapter.

`ViewSchedule.Driven` is the host loop of `docs/VIEW_SCHEDULING.md`: it keeps
scanning and draining (weak fairness) and rebases when told that its checkpoint
expired (strong, since a policy may change in between). Rotation and a drain of a
given view are strongly fair: the process does not crash after *each* failed
drain, and a view that can be computed does not fail *each* time its turn comes.
Without the first a crash loop keeps a failing view in front for ever; without
the second no schedule helps. Liveness is checked without symmetry.

## 5. What is proved

The theorems hold for every value of the constants, under `BoundsAssumption`,
`FiniteAssumption` (the sets of graphs and branches are finite),
`DispatchAssumption` (manifests are well formed, the default depth is between 1
and the maximum, an adapter is not the principal that writes root events),
`RegistryAssumption` and `FactsAssumption` (the registry's identifiers are
finite and its two limits are positive; requests name records and principals, and
batches are sequences of changes with the fields their kinds have, which is what
parsing one leaves), `GovernanceAssumption` and
`GrantAssumption` (terms, manifests and grants have their fields) and
`ViewsAssumption` (finitely many views, each with its source lines).

**RevisionStore_proofs.** `TypeCorrect` by induction, action by action.
`HistoryCorrect` (`HeadIsTip`, `NoLostUpdate`, `RecordedMonotone`): the proof
goes through `StepShape`, which shows that every step either leaves heads and
history alone, retires one line, or appends one row to each of a set of lines
with the matching head; the invariant then follows from the shape and not from
eleven actions. `HeadIsTip` is needed for `NoLostUpdate`: the compare-and-swap
is against `heads`, the property is about observations. `RetentionSafe`
(`RootsLoad`, `DependenciesLoad`): the invariant is strengthened to the roots
*and* what they require one level deep, since commits validate required
references one level deep; compaction preserves it because the closure it
retains contains the roots and is closed. `AnchorsAlwaysValid`: what a compaction
erases was recorded before the new floor, which is never ahead of the clock that
stamps the anchor, and frontiers only advance. `BatchesErasedWhole` rests on the
manifests (`Manifested`: a member's manifest names its fellows): the closure a
compaction retains follows them, and they share one recording time, so the floor
cannot separate them. `EveryChangeTold` goes through `Announces`: a step
that moves heads journals each movement unless the payload stays the same.
`NeverReused` is an action property.

**RecordedRegister_proofs.** `RecordedMonotone` speaks of neighbours; `Ordered`
lifts it to any two rows. From it: the row the time query selects is unchanged
by an append that is not earlier (`AsOfAppended`), hence `PastIsStable`; the
selected row of a retained cut is a root of the planner (`SelectedIsRoot`), hence
`WindowIsServed` from `RootsLoad`; and every step maps to a step of the register
(`StepRefines`), hence `Implementation`.

**Dispatch_proofs.** First type correctness, table by table. It is not inductive
alone: `cancel_handler_delivery` compares event and lease but not readability,
so that the cancelled event exists follows only from what a pending row *is*.
`InFlight` says that: the next event behind the checkpoint, in scope, not
erased, its adapter live and its circuit closed.

The invariant `DispatchInv` is `TypeOK`, `InFlight`
and, per adapter, that settled occurrences are behind the checkpoint, that every
subscribed event behind it is accounted for, that state and checkpoint agree,
and that a projection of the current epoch is past the replay frontier, below
which alone payloads are erased. The last part is why a scan never passes an
erased event; it holds for a moved frontier because the epoch moves with it.
One lemma (`OthersKept`) shows that a step of one adapter leaves the rows of the
others alone, so each action is considered for its own adapter only; one
(`SettleInv`) covers completion and cancellation. From it every safety property
of the module is a theorem: `FreshDelivery` (with it the causal depth of what is
delivered), `Gapless`, `StateIsCurrent`, `SentOnce`, `CircuitHolds`. A second
invariant, `CausalInv`, adds the ancestry of every event and the delivery of every
effect: `SettledOnce`, `Ancestry`, `EffectsOwned`. That output is written once is
part of it: the events of the journal written by a handler for an occurrence are
exactly the results kept with its receipt (`OutputOnce`), empty before the first
completion and never written again. `OutboxImplemented` maps the intents of an
adapter to the outbox's keys: `RequestEffect` to a request under a key that is free,
`BeginEffect` to the sending, `Reconcile` to the report, and every other action,
retirement included, to a stutter.

**Facts_proofs.** The invariant is the types, `Layout` (lines are numbered without
a gap, and no version begins or ends after the last revision of its line, so that
a new revision changes no older one), `Cached` (a checkpoint is the answer it
stands for) and `ReferencesResolve`. The registry stays opaque in it: no proof about
facts depends on who is granted what, so these theorems hold for every authority.
`ReferencesResolve` is inductive only because the dependent check looks at every
live record and not at the writer's; that is where `HiddenIsAbsent` has to name
its exception. `HistoryImplemented` maps a write or a snapshot to one step of
`FactHistory`, an acceptance to a branch move, a checkpoint to a stutter.

The registry's theorems are here too, since its steps are steps of `Facts`. Their
invariant `RegistryInv` is that the registry is `Sound`: typed, `WellNested`
(memberships hold registered principals in groups, no chain of them closes and none
has more than `MAX_GROUP_DEPTH` groups) and `Owned` (agents are owned by registered
users and agents, no chain of owners closes and none has more than
`MAX_OWNERSHIP_CHAIN` links), for a batch is applied change by change and each is
checked against the state the earlier ones left. `StoreTyped`, `NestingHolds`,
`LossAdvancesEpoch`, `DepthMakesNoDifference` and `AgentsAreWithinOwners` rest on it
and on the lemmas of the next module.

**Registry_proofs.** What the operators of `Registry` compute.

* *Reach.* A set reached along edges is the least set closed under them
  (`ReachClosed`, `ReachLeast`). It is computed in as many rounds as there are
  principals; that this is enough is a counting argument, since a round that is not
  the last adds somebody. Chains of owners and of groups are reasoned about through
  these two facts and no other. `MemberNests` is why `add_member` must look at
  everything below the member it adds: the chains a new membership lengthens are
  those that lead through it. `NewAgentIsOwned`: a new agent lengthens its own chain
  only, which is its owner's and one link.
* *Resolution.* `ResolveRounds` gives the rounds of resolution a type;
  `DepthIsIgnored` shows by the length of chains that what an agent resolves to has
  settled once as many rounds have passed as its chain has links, which `Owned`
  bounds. `InsideOwner` then compares an agent with its owner field by field, and
  `InsideChain` carries that up the chain; `InsideIsWithin` adds the clock, under
  which an agent expires no later than its owner.
* *Additive changes.* `Enlarged(s, t)` says that t keeps whoever is registered in s as
  they are, and every grant, membership and writer of a branch still protected.
  Additive changes enlarge (`AdditiveBatch`), and in an enlarged registry everyone
  is covered, round by round (`EveryoneIsCovered`), agents because their owners
  are: the clauses of a reader lose no principal and no group, and permissions and
  branches do not shrink. So a loss takes a change that is not additive, and the
  epoch moves (`LossAdvancesEpoch`); the exemption of unprotected branches in
  `Loses` is where the proof would fail without it (section 6).

Recursive functions are unfolded through one lemma (`Iterates`), whose function is
built by least counterexample (`LeastNat`, `UpTo`) in place of induction.

**Governance_proofs.** The invariant `GovernanceInv` is the types,
`SignedInForce` (the checks a stored approval passed against terms that no longer
change), `Chained` and `HistoryVerifies` itself: a decision's record is read from
rows that later steps do not change. `Chained` relates each decision to the one
before it; that its source is the nearest publication's (`HeadEndsHistory`) needs
the whole chain, and is shown by least counterexample, since the library's
induction theorems are out of reach of the installed provers.
`AcceptanceImplementsRegister` maps an acceptance to a write of the view at its
time. The walk back along the parents ends at the latest acceptance the query's time
has reached (`AcceptedAtAnswers`), and a new acceptance is no earlier than the head it
extends, so an earlier time reads what it read before.

**GovernedEffects_proofs.** `IInv` composes Governance's invariant with that of the
subscriptions (`Ledgers`: checkpoint, ordinals and receipts in step), the effects
(`Books`: an intent has a binding and a disposition), `Apart` (one execution
namespace, one adapter, for good) and `Behind` (an attempted publication is no
newer than the one the head rests on). `AttemptsOrdered` follows from `Behind`,
since an attempt is for the publication of the head; `OutboxImplemented` from
`Apart`, under the mapping `Asked`.

**ViewSchedule_proofs.** `IInv` has the tables (`StoreOK`, `LiveOK`, `OwnerOK`,
`QueueOK`), `Stored` (the journal names stored revisions) and `Derived`: each
stored view is what an evaluation gave under *some* heads, which ties its
dependencies to its links. `CertifiedIsRecomputed` is then that equal heads give
equal evaluations (`SameHeads`). `NoNoticeLost` is inductive over that invariant:
a scan passes an event only after its subscribers are queued, page by page in the
order of the identifiers (`FanOutIsOrdered`).

**Only model-checked.** Liveness (`DeliverySettles`, `EventsAreReached`,
`HealthyViewsCatchUp`): fairness and `ENABLED` are out of the prover's reach here.
Every other property of a passing run is also a theorem.

**Only proved.** `AsOfStable`, `RecordedMonotone`, `RetiredForGood`,
`NeverSentTwice`, `CircuitStopsWork` and `AgentsStayWithinOwners` are stated by
theorems and by no run. The refinements the runs check (`ImplementsRegister`,
`ImplementsOutbox`) speak of the same behaviour as the first four;
`AgentsStayWithinOwners` quantifies over every pair of a record's readers and
groups, which is too much to enumerate in the instance of `Facts`.

## 6. Findings

* `IdCollision`: a revision's key digests graph, branch, parent head and payload.
  After revision A was accepted back as head over B, committing B's payload with
  expected head A recomputes B's key and the insert fails, although the expected
  head was current (`docs/SCIENCE_CONCEPTS.md` promises that it suffices).
* `MentionStopsPlanner`: the planner treats any revision identifier found in a
  payload as a reference. If it was erased already, every later plan fails with
  `E_RETENTION_UNAVAILABLE`; the comment at `engine/retention.rs:845` says a
  false positive only retains storage.
* `SuspendedIntent`: if an adapter's circuit opens while one of its effect
  intents is pending, the intent cannot be dispatched (the circuit is open), not
  reconciled (only unknown ones are), and the circuit cannot be cleared (an
  intent is pending). `docs/CAUSAL_DISPATCH.md` promises the owner a way out.
* `Administrators`: `remove_member` on the administrators' group checks only that
  some member is left, suspended or not (`engine/registry.rs:1804`). Suspend the
  second administrator, remove the first, and nobody who can act is left, although
  `docs/REGISTRY.md` says the last active administrator cannot be removed.

Behaviour worth knowing that no document contradicts:

* `UnprotectBranch` counts as additive, yet a branch writer who holds only Read on
  the graph loses the branch with it, without an advance of the epoch;
  `AuthorityLossAdvancesEpoch` exempts it by name.
* Members of a batch that repeat their head, and retirements, move heads without
  an event, so a scheduled view can go stale without a notice (it is not certified
  as current, and the next event or tick repairs it); `Told` exempts them.
* After a policy change one view that cannot be computed keeps its owner's whole
  schedule from being rebuilt (`docs/RETENTION.md` documents the rollback);
  `RebuildBlocked` names it.
* An adapter with more readable events waiting than its manifest allows pauses at
  every poll, and a governed grant that meets a publication out of its scope stops
  there; both are documented as intended.

## 7. What is not modelled, and why

* Signatures, canonical encodings, digests, JSON shapes and budgets of reads:
  pure functions of their input; the models keep what they decide.
* The query operators (traversal, clustering, embeddings, geometry), assertions
  and typed context, policy helpers, the wire contract and its temporal algebra:
  pure evaluation over one snapshot. They keep no state and nothing interleaves
  with them; the repository's tests compare their results with reference values.
* In `RevisionStore`: roots that facts, receipts and other profiles contribute,
  the legacy `deliver` loop, and the query interpreter.
* In `Dispatch`: recorded actors and compiled handlers, which reach the same
  tables through entry points of their own; the further authority guards of
  completion on the snapshots a program touches (they only refuse more); moving a
  projection's state to another adapter identity (`projection_migration.rs`).
* In `Registry`: creation of graphs, manifests, listings and the record bounds.
* In `Facts`, `Governance`, `GovernedEffects`, `ViewSchedule`: what section 3
  names as left out.
* The service (HTTP, OIDC, quotas, audit chain), the MCP server, the C and WASM
  hosts and the importers: front ends over the operations modelled here. Capsule
  export is an authenticated read.
* Not reached: recorded actors (state and dispositions of their own over the
  leases of `Dispatch`), admission's replay table, mounts and release policies,
  the host image and its journal, the service's audit chain. The next modules
  would be recorded actors, as a further implementation of the delivery half of
  `Dispatch`, and the roots facts contribute to the planner of `RevisionStore`.

PROJECT.json lists each component with its status and reason.
