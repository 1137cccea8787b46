--------------------------- MODULE RevisionStore ---------------------------
(***************************************************************************)
(* The revision store of weave-engine and its retention profile: immutable *)
(* revisions, one head per (graph, branch) line moved by compare-and-swap, *)
(* the recorded history of every head, the journal of graph events, and    *)
(* the administrator's compaction that erases payloads nothing needs.      *)
(*                                                                         *)
(* Several engine instances (processes or connections) share one SQLite    *)
(* file.  Every mutating operation reserves the SQLite writer before it    *)
(* reads or samples the clock (operation_write_scope), so one operation is *)
(* one atomic step; an error rolls the whole step back, so a refused       *)
(* operation is a step that only consumed a clock sample.                  *)
(***************************************************************************)
EXTENDS Integers, Sequences, FiniteSets

CONSTANTS
    Graph, Branch,      \* graph and branch identifiers
    Engine,             \* engine instances open on the store
    Body,               \* payloads, as far as equality can tell them apart
    Batch, NoBatch,     \* logical batch identifiers
    Pin,                \* retention pin identifiers
    NoPlan,             \* the administrator holds no preview
    MaxRevisions,       \* bound: rows of the revisions table
    MaxObservations,    \* bound: observations of one line
    MaxEvents,          \* bound: head movements start only below this many events
    MaxTime,            \* bound: the host clock, in milliseconds
    MaxGeneration,      \* bound: retention generations
    MaxReceived,        \* bound: quarantined revisions that were never a head
    MaxAncestor,        \* bound: the parents a received revision may name
    MaxRequired,        \* bound: required references in one payload
    MaxMentions,        \* bound: other revision identifiers in one payload
    MaxPinned           \* bound: references of one pin

ASSUME BoundsAssumption ==
    /\ {MaxRevisions, MaxObservations, MaxEvents, MaxTime, MaxGeneration} \subseteq Nat
    /\ {MaxReceived, MaxAncestor, MaxRequired, MaxMentions, MaxPinned} \subseteq Nat
    /\ NoBatch \notin Batch

ASSUME FiniteAssumption == IsFiniteSet(Graph) /\ IsFiniteSet(Branch)

VARIABLES
    revisions,      \* table revisions: rows in insertion order, a revision is its index
    heads,          \* table heads: the head of each line, None when absent
    observations,   \* table head_observations, each line's rows in rowid order
    events,         \* table events: the sequence number is the index
    manifests,      \* table snapshot_manifests: the members of each batch
    retired,        \* table retention_retired_branches
    pins,           \* table retention_roots
    policy,         \* table retention_policy: frontiers, generation, replay epoch
    tombstones,     \* table retention_tombstones: the anchor of each erased payload
    plan,           \* the preview an administrator holds outside the store
    now,            \* the host clock
    sample          \* each engine's last clock sample, 0 when just opened

vars == <<revisions, heads, observations, events, manifests, retired, pins,
          policy, tombstones, plan, now, sample>>

None == 0
Line == Graph \X Branch
GraphOf(l) == l[1]
Revs == 1..Len(revisions)
Present == Revs \ DOMAIN tombstones

(***************************************************************************)
(* A payload: what equality sees (body), the revisions its required        *)
(* metadata attachments name, and the other revision identifiers that      *)
(* occur in it (optional references, provenance, literal strings).         *)
(***************************************************************************)
Content == [body : Body, required : SUBSET (1..MaxRevisions),
            mentions : SUBSET (1..MaxRevisions)]

SmallSubsets(S, n) == {T \in SUBSET S : Cardinality(T) <= n}

\* The payloads a caller may write when the identifiers in ids are known to it.
Payloads(ids) == [body : Body, required : SmallSubsets(ids, MaxRequired),
                  mentions : SmallSubsets(ids, MaxMentions)]

RevisionRow == [line : Line, parent : 0..MaxRevisions, content : Content,
                batch : Batch \cup {NoBatch}, time : 0..MaxTime]

\* basis is a history variable: the expected head the writer named.
Observation == [revision : 1..MaxRevisions, time : 0..MaxTime, basis : 0..MaxRevisions]

TypeOK ==
    /\ revisions \in Seq(RevisionRow)
    /\ Len(revisions) <= MaxRevisions
    /\ heads \in [Line -> {None} \cup Revs]
    /\ observations \in [Line -> Seq(Observation)]
    /\ events \in Seq([revision : 1..MaxRevisions, line : Line])
    /\ manifests \in [Batch -> SUBSET Revs]
    /\ retired \in SUBSET Line
    /\ pins \in [Pin -> SUBSET Revs]
    /\ policy \in [floor : 0..MaxTime, replay : Nat, generation : Nat, epoch : Nat]
    /\ DOMAIN tombstones \subseteq Revs
    /\ tombstones \in [DOMAIN tombstones -> [erased : 0..MaxTime, generation : Nat]]
    /\ plan \in {NoPlan} \cup [generation : Nat, floor : 0..MaxTime, replay : Nat,
                               retained : SUBSET Revs, collect : SUBSET Revs]
    /\ now \in 0..MaxTime
    /\ sample \in [Engine -> 0..MaxTime]

Init ==
    /\ revisions = <<>>
    /\ heads = [l \in Line |-> None]
    /\ observations = [l \in Line |-> <<>>]
    /\ events = <<>>
    /\ manifests = [b \in Batch |-> {}]
    /\ retired = {}
    /\ pins = [p \in Pin |-> {}]
    /\ policy = [floor |-> 0, replay |-> 0, generation |-> 0, epoch |-> 0]
    /\ tombstones = [r \in {} |-> [erased |-> 0, generation |-> 0]]
    /\ plan = NoPlan
    /\ now = 0
    /\ sample = [e \in Engine |-> 0]

(***************************************************************************)
(* The operation clock                                                     *)
(***************************************************************************)

\* One sample per outer operation, refused when it precedes this engine's last one.
Samples(e) ==
    /\ now >= sample[e]
    /\ sample' = [sample EXCEPT ![e] = now]

\* An operation that reads, changes nothing, or is refused after it sampled.
Sample(e) ==
    /\ Samples(e)
    /\ UNCHANGED <<revisions, heads, observations, events, manifests, retired,
                   pins, policy, tombstones, plan, now>>

\* Closing and reopening an engine forgets its last sample: nothing durable holds it.
Reopen(e) ==
    /\ sample' = [sample EXCEPT ![e] = 0]
    /\ UNCHANGED <<revisions, heads, observations, events, manifests, retired,
                   pins, policy, tombstones, plan, now>>

\* The host clock advances, or the operating system sets it back.
ClockMoves ==
    /\ \E t \in 0..MaxTime \ {now} : now' = t
    /\ UNCHANGED <<revisions, heads, observations, events, manifests, retired,
                   pins, policy, tombstones, plan, sample>>

(***************************************************************************)
(* Advancing a head                                                        *)
(***************************************************************************)

Observed(l) == {observations[l][i].revision : i \in 1..Len(observations[l])}
TipTime(l) == observations[l][Len(observations[l])].time

MayObserveAnyTime(l) == l \notin retired /\ Len(observations[l]) < MaxObservations

\* append_observation refuses a retired line and a clock behind the line's tip.
MayObserve(l) ==
    /\ l \notin retired
    /\ Len(observations[l]) < MaxObservations
    /\ observations[l] # <<>> => TipTime(l) <= now

\* advance_head on every line of S: the observation and the head in one transaction.
AdvanceHeads(S, revision, basis) ==
    /\ Len(events) < MaxEvents
    /\ \A l \in S : MayObserve(l)
    /\ observations' = [l \in Line |->
            IF l \in S
            THEN Append(observations[l], [revision |-> revision[l], time |-> now,
                                          basis |-> basis[l]])
            ELSE observations[l]]
    /\ heads' = [l \in Line |-> IF l \in S THEN revision[l] ELSE heads[l]]

\* A snapshot revision is named by the digest of its graph, branch, parent and payload.
IdTaken(l, parent, content) ==
    \E r \in Revs : /\ revisions[r].batch = NoBatch
                    /\ revisions[r].line = l
                    /\ revisions[r].parent = parent
                    /\ revisions[r].content = content

CasIgnored(l, expected) == TRUE

\* The expected head the caller named must be the line's actual head.
CasHolds(l, expected) == heads[l] = expected

\* One event per head movement: the accept event's identity includes the event count.
Journal(l, r) == events' = Append(events, [revision |-> r, line |-> l])

SameAsHead(l, content) == heads[l] # None /\ revisions[heads[l]].content = content

\* validate_required_metadata: every required reference loads (one level deep).
RequiredLoad(content, present) == content.required \subseteq present

Commit(e, l, expected, content) ==
    LET new == Len(revisions) + 1 IN
    /\ Samples(e)
    /\ new <= MaxRevisions
    /\ CasHolds(l, expected)
    /\ ~SameAsHead(l, content)
    /\ ~IdTaken(l, heads[l], content)
    /\ RequiredLoad(content, Present)
    /\ revisions' = Append(revisions, [line |-> l, parent |-> heads[l], content |-> content,
                                       batch |-> NoBatch, time |-> now])
    /\ AdvanceHeads({l}, [x \in {l} |-> new], [x \in {l} |-> expected])
    /\ Journal(l, new)
    /\ UNCHANGED <<manifests, retired, pins, policy, tombstones, plan, now>>

(***************************************************************************)
(* Logical batches: one manifest, one revision per member, all or nothing. *)
(* order lists the member lines, of distinct graphs, in manifest order;    *)
(* the code sorts by graph identifier, whose order the model leaves open.  *)
(***************************************************************************)

Orders == {o \in UNION {[1..k -> Line] : k \in 1..Cardinality(Graph)} :
              \A i, j \in DOMAIN o : i # j => GraphOf(o[i]) # GraphOf(o[j])}

Members(order) == {order[i] : i \in DOMAIN order}

BatchHasHead(expected, content) == expected # None

\* A member whose payload equals its expected head's gets a revision but no event.
BatchUnchanged(expected, content) ==
    expected # None /\ revisions[expected].content = content

MemberIdsOffByOne(n, k) == n..(n + k)

\* The revisions a batch of k members allocates after n rows.
MemberIds(n, k) == (n + 1)..(n + k)

CommitBatch(e, b, order, expected, content) ==
    LET k == Len(order)
        n == Len(revisions)
        position == [l \in Members(order) |-> CHOOSE i \in 1..k : order[i] = l]
        changed == {i \in 1..k : ~BatchUnchanged(expected[order[i]], content[order[i]])}
    IN
    /\ Samples(e)
    /\ n + k <= MaxRevisions
    /\ manifests[b] = {}
    /\ \A l \in Members(order) : expected[l] # None => expected[l] \in Present
    /\ \A l \in Members(order) : CasHolds(l, expected[l])
    /\ changed # {}
    /\ \A l \in Members(order) : RequiredLoad(content[l], Present \cup MemberIds(n, k))
    /\ revisions' = revisions \o [i \in 1..k |->
            [line |-> order[i], parent |-> expected[order[i]], content |-> content[order[i]],
             batch |-> b, time |-> now]]
    /\ manifests' = [manifests EXCEPT ![b] = MemberIds(n, k)]
    /\ AdvanceHeads(Members(order), [l \in Members(order) |-> n + position[l]], expected)
    /\ \E nth \in [1..Cardinality(changed) -> changed] :
            /\ \A v, w \in DOMAIN nth : v < w => nth[v] < nth[w]
            /\ events' = events \o [v \in DOMAIN nth |->
                    [revision |-> n + nth[v], line |-> order[nth[v]]]]
    /\ UNCHANGED <<retired, pins, policy, tombstones, plan, now>>

(***************************************************************************)
(* Received revisions and acceptance                                       *)
(***************************************************************************)

\* The rows of a capsule that the store lacks, when there will be n rows with them.
Incoming(n) == [line : Line, parent : 0..n \cap 0..MaxAncestor, content : Payloads(1..n),
                batch : Batch \cup {NoBatch}, time : {now}]

\* Rows are listed parents first, since ancestry is acyclic, and a digest names only what
\* came before it; a batch member's name is known beforehand, so anyone may mention it.
WellFounded(rows, n) ==
    LET member == {n + i : i \in {j \in DOMAIN rows : rows[j].batch # NoBatch}} IN
    \A i \in DOMAIN rows :
        /\ rows[i].parent < n + i
        /\ rows[i].batch = NoBatch =>
              rows[i].content.required \cup rows[i].content.mentions
                 \subseteq 1..(n + i - 1) \cup member

\* A capsule holds a revision once, and of one batch one revision of each graph.
Distinct(rows) ==
    \A i, j \in DOMAIN rows : i # j =>
        /\ rows[i].batch = NoBatch => rows[i] # rows[j]
        /\ rows[i].batch \in Batch /\ rows[j].batch = rows[i].batch =>
              GraphOf(rows[i].line) # GraphOf(rows[j].line)

\* A snapshot the store has is skipped, and so is a batch it has: the same manifest brings
\* nothing new and another one is refused (E_EQUIVOCATION).
Lacking(row) == IF row.batch = NoBatch THEN ~IdTaken(row.line, row.parent, row.content)
                ELSE manifests[row.batch] = {}

\* The whole membership of b among the rows (verify_manifest).
ManifestOf(b, rows, n) == {n + i : i \in {j \in DOMAIN rows : rows[j].batch = b}}

\* A capsule inserts quarantined revisions and the manifests of their batches, all or
\* nothing and under one recording time: no head, no observation, no event.
Receive(e, rows) ==
    LET n == Len(revisions) IN
    /\ Samples(e)
    /\ n + Len(rows) <= MaxRevisions
    /\ Cardinality(Revs \ UNION {Observed(x) : x \in Line}) + Len(rows) <= MaxReceived
    /\ WellFounded(rows, n)
    /\ Distinct(rows)
    /\ \A i \in DOMAIN rows : Lacking(rows[i])
    /\ revisions' = revisions \o rows
    /\ manifests' = [b \in Batch |-> manifests[b] \cup ManifestOf(b, rows, n)]
    /\ UNCHANGED <<heads, observations, events, retired, pins, policy, tombstones, plan, now>>

\* The payload is there; an erased one answers E_UNAVAILABLE.
Loads(r) == r \in Present

\* Any loadable revision of the graph may become the head of one of its branches;
\* expected = None is fork_branch.
Accept(e, l, r, expected) ==
    /\ Samples(e)
    /\ CasHolds(l, expected)
    /\ Loads(r)
    /\ GraphOf(revisions[r].line) = GraphOf(l)
    /\ RequiredLoad(revisions[r].content, Present)
    /\ heads[l] # r
    /\ AdvanceHeads({l}, [x \in {l} |-> r], [x \in {l} |-> expected])
    /\ Journal(l, r)
    /\ UNCHANGED <<revisions, manifests, retired, pins, policy, tombstones, plan, now>>

(***************************************************************************)
(* Retention roots                                                         *)
(***************************************************************************)

\* An existing pin may only be retried with the same references.
RetainSnapshots(e, p, S) ==
    /\ Samples(e)
    /\ S # {} /\ S \subseteq Present /\ Cardinality(S) <= MaxPinned
    /\ pins[p] = {}
    /\ pins' = [pins EXCEPT ![p] = S]
    /\ UNCHANGED <<revisions, heads, observations, events, manifests, retired,
                   policy, tombstones, plan, now>>

ReleaseRetentionRoot(p) ==
    /\ pins[p] # {}
    /\ pins' = [pins EXCEPT ![p] = {}]
    /\ UNCHANGED <<revisions, heads, observations, events, manifests, retired,
                   policy, tombstones, plan, now, sample>>

KeepHead(l) == UNCHANGED heads

\* Retirement deletes the head row together with recording the retirement.
DropHead(l) == heads' = [heads EXCEPT ![l] = None]

ReleaseBranch(e, l, expected) ==
    /\ Samples(e)
    /\ heads[l] # None /\ Loads(heads[l])
    /\ CasHolds(l, expected)
    /\ retired' = retired \cup {l}
    /\ DropHead(l)
    /\ UNCHANGED <<revisions, observations, events, manifests, pins, policy,
                   tombstones, plan, now>>

(***************************************************************************)
(* Planning and compaction                                                 *)
(***************************************************************************)

\* The last observation (by rowid) at or before floor, of a line that has a head.
Boundary(l, floor) ==
    {i \in 1..Len(observations[l]) :
        /\ heads[l] # None
        /\ observations[l][i].time <= floor
        /\ \A j \in 1..Len(observations[l]) : observations[l][j].time <= floor => j <= i}

RecordedRoots(floor) ==
    UNION {{observations[l][i].revision :
               i \in {j \in 1..Len(observations[l]) : observations[l][j].time >= floor}
                        \cup Boundary(l, floor)} : l \in Line}

HeadRoots == {heads[l] : l \in {x \in Line : heads[x] # None}}
EventRoots(replay) == {events[i].revision : i \in {j \in 1..Len(events) : j > replay}}
PinRoots == UNION {pins[p] : p \in Pin}

Roots(floor, replay) ==
    HeadRoots \cup PinRoots \cup RecordedRoots(floor) \cup EventRoots(replay)

NoFellows(r) == {}

\* Any member needed for an atomic logical snapshot retains all of its members.
Fellows(r) == IF revisions[r].batch = NoBatch THEN {} ELSE manifests[revisions[r].batch]

NeedsMentions(r) == Revs \cap (revisions[r].content.mentions \cup Fellows(r))

\* What retaining r makes the planner retain: references and fellow batch members.
Needs(r) ==
    Revs \cap (revisions[r].content.required \cup revisions[r].content.mentions
               \cup Fellows(r))

Closed(S) == \A r \in S : Needs(r) \subseteq S

\* The least closed set of revisions that contains R.
Closure(R) == {r \in Revs : \A S \in SUBSET Revs : R \subseteq S /\ Closed(S) => r \in S}

Frontiers == [floor : 0..MaxTime, replay : Nat]

\* Frontiers only advance, and only within what this store has observed.
FrontiersAdvance(p) ==
    /\ policy.floor <= p.floor /\ p.floor <= now
    /\ policy.replay <= p.replay /\ p.replay <= Len(events)

CollectableAtFloor(r, floor) == r \in Present /\ revisions[r].time <= floor

\* Only payloads recorded strictly before the floor are ever erased.
Collectable(r, floor) == r \in Present /\ revisions[r].time < floor

Plan(p) ==
    LET retained == Closure(Roots(p.floor, p.replay)) IN
    [generation |-> policy.generation,
     floor |-> p.floor, replay |-> p.replay,
     retained |-> retained,
     collect |-> {r \in Revs \ retained : Collectable(r, p.floor)}]

\* A root that reaches an erased payload stops the planner (E_RETENTION_UNAVAILABLE).
Plannable(p) == FrontiersAdvance(p) /\ Closure(Roots(p.floor, p.replay)) \subseteq Present

PlanRetention(e, p) ==
    /\ Samples(e)
    /\ policy.generation < MaxGeneration
    /\ Plannable(p)
    /\ plan' = Plan(p)
    /\ UNCHANGED <<revisions, heads, observations, events, manifests, retired,
                   pins, policy, tombstones, now>>

SamePolicy(p) == p.floor = policy.floor /\ p.replay = policy.replay

PlanTrusted == TRUE

\* The preview must still be exactly what the planner computes in this transaction.
PlanCurrent == Plannable([floor |-> plan.floor, replay |-> plan.replay])
               /\ plan = Plan([floor |-> plan.floor, replay |-> plan.replay])

CompactRetention(e) ==
    /\ Samples(e)
    /\ plan # NoPlan
    /\ PlanCurrent
    /\ ~(plan.collect = {} /\ SamePolicy(plan))
    /\ policy.generation < MaxGeneration
    /\ policy' = [floor |-> plan.floor, replay |-> plan.replay,
                  generation |-> plan.generation + 1,
                  epoch |-> IF SamePolicy(plan) THEN policy.epoch ELSE policy.epoch + 1]
    /\ tombstones' = [r \in DOMAIN tombstones \cup plan.collect |->
            IF r \in plan.collect THEN [erased |-> now, generation |-> plan.generation + 1]
            ELSE tombstones[r]]
    /\ plan' = NoPlan    \* its generation is behind from now on: it can never be current again
    /\ UNCHANGED <<revisions, heads, observations, events, manifests, retired, pins, now>>

Expectable == {None} \cup Revs

\* The sizes of a capsule's new part that the bounds leave room for.
Room == {k \in 1..MaxReceived : Len(revisions) + k <= MaxRevisions}

Next ==
    \/ ClockMoves
    \/ \E e \in Engine : Sample(e)
    \/ \E e \in Engine : Reopen(e)
    \/ \E e \in Engine, l \in Line, expected \in Expectable, content \in Payloads(Revs) :
            Commit(e, l, expected, content)
    \/ \E e \in Engine, b \in Batch, order \in Orders :
       \E expected \in [Members(order) -> Expectable],
          content \in [Members(order) -> Payloads(1..(Len(revisions) + Len(order)))] :
            CommitBatch(e, b, order, expected, content)
    \/ \E e \in Engine, k \in Room :
       \E rows \in [1..k -> Incoming(Len(revisions) + k)] : Receive(e, rows)
    \/ \E e \in Engine, l \in Line, r \in Revs, expected \in Expectable :
            Accept(e, l, r, expected)
    \/ \E e \in Engine, p \in Pin, S \in SUBSET Revs : RetainSnapshots(e, p, S)
    \/ \E p \in Pin : ReleaseRetentionRoot(p)
    \/ \E e \in Engine, l \in Line, expected \in Expectable : ReleaseBranch(e, l, expected)
    \/ \E e \in Engine, floor \in 0..MaxTime, replay \in 0..Len(events) :
            PlanRetention(e, [floor |-> floor, replay |-> replay])
    \/ \E e \in Engine : CompactRetention(e)

Spec == Init /\ [][Next]_vars

(***************************************************************************)
(* Reading the past                                                        *)
(***************************************************************************)

EarliestOfTies(l, cut) ==
    {i \in 1..Len(observations[l]) :
        /\ observations[l][i].time <= cut
        /\ \A j \in 1..Len(observations[l]) : observations[l][j].time <= cut =>
              \/ observations[l][j].time < observations[l][i].time
              \/ observations[l][j].time = observations[l][i].time /\ i <= j}

\* ORDER BY recorded_at_ms DESC, rowid DESC LIMIT 1 among the rows at or before cut.
LatestAtOrBefore(l, cut) ==
    {i \in 1..Len(observations[l]) :
        /\ observations[l][i].time <= cut
        /\ \A j \in 1..Len(observations[l]) : observations[l][j].time <= cut =>
              \/ observations[l][j].time < observations[l][i].time
              \/ observations[l][j].time = observations[l][i].time /\ j <= i}

\* revision_as_of: None before the line's first recorded head.
AsOf(l, cut) ==
    IF LatestAtOrBefore(l, cut) = {} THEN None
    ELSE observations[l][CHOOSE i \in LatestAtOrBefore(l, cut) : TRUE].revision

\* observation_at_or_before's check of the row after the selected one.
SuccessorAfterCut(l, cut) ==
    \A i \in LatestAtOrBefore(l, cut) :
        i < Len(observations[l]) => observations[l][i + 1].time > cut

(***************************************************************************)
(* Properties                                                              *)
(***************************************************************************)

\* The head of a line is its last observation, unless the line was retired: the
\* two tables recorded_tip compares never disagree, whatever order commits,
\* batches, acceptances and retirements take.
HeadIsTip ==
    \A l \in Line :
        heads[l] = IF l \in retired \/ observations[l] = <<>> THEN None
                   ELSE observations[l][Len(observations[l])].revision

\* Compare-and-swap loses no update: every write replaced exactly the head its
\* writer named, so each observation is based on the one before it.
NoLostUpdate ==
    \A l \in Line : \A i \in 1..Len(observations[l]) :
        observations[l][i].basis = IF i = 1 THEN None ELSE observations[l][i - 1].revision

\* Recording time never moves backwards within a line, although the host clock
\* may, and although an engine that was reopened remembers no sample.
RecordedMonotone ==
    \A l \in Line : \A i \in 2..Len(observations[l]) :
        observations[l][i - 1].time <= observations[l][i].time

\* Collection never erases what the current frontiers promise: active heads,
\* pins, recorded history from the floor on, and events not yet replayed.
RootsLoad == Roots(policy.floor, policy.replay) \subseteq Present

\* Every cut inside the retained window of a live line can be read: the selection
\* passes its boundary check and the selected revision still has its payload.
AsOfServed ==
    \A l \in Line, cut \in 0..MaxTime :
        heads[l] # None /\ policy.floor <= cut /\ cut <= now =>
            AsOf(l, cut) \in {None} \cup Present /\ SuccessorAfterCut(l, cut)

\* The payload of every head and of every recorded head inside the horizon still
\* finds the revisions its required metadata names.
DependenciesLoad ==
    \A r \in HeadRoots \cup RecordedRoots(policy.floor) :
        revisions[r].content.required \subseteq Present

\* load() accepts the anchor of every erased payload: a missing or inconsistent
\* anchor would turn expired data into corruption (E_INTEGRITY).
AnchorsValid ==
    \A r \in DOMAIN tombstones :
        /\ revisions[r].time < policy.floor
        /\ revisions[r].time <= tombstones[r].erased
        /\ tombstones[r].generation \in 1..policy.generation

\* The payloads of one logical batch are erased together or not at all.
BatchErasedWhole ==
    \A b \in Batch : manifests[b] \subseteq Present \/ manifests[b] \cap Present = {}

\* A subscriber is told of every change: whenever a line's payload differs from
\* the one before, the journal holds an event of that line and revision.
EveryChangeHasAnEvent ==
    \A l \in Line : \A i \in 1..Len(observations[l]) :
        LET r == observations[l][i].revision IN
        (i = 1 \/ revisions[r].content # revisions[observations[l][i - 1].revision].content) =>
            \E k \in 1..Len(events) : events[k] = [revision |-> r, line |-> l]

\* What a line was known to be strictly before its last observation never
\* changes, so a date cut behind the tip is as reproducible as a checkpoint.
AsOfStable ==
    [][\A l \in Line, cut \in 0..MaxTime :
          observations[l] # <<>> /\ cut < TipTime(l) => AsOf(l, cut)' = AsOf(l, cut)]_vars

\* A retired branch identity is never reused: no later head, no later observation.
RetiredForGood ==
    [][\A l \in retired : l \in retired' /\ heads'[l] = None
                          /\ observations'[l] = observations[l]]_vars

\* "To replace an existing branch, send its current revision as expected_head"
\* (docs/SCIENCE_CONCEPTS.md): a payload that differs from the head is always a
\* legal replacement.
CurrentHeadSuffices ==
    \A l \in Line \ retired, content \in Payloads({}) :
        heads[l] # None /\ ~SameAsHead(l, content) => ~IdTaken(l, heads[l], content)

\* "False positives retain storage" (retention.rs): a mention of a revision in a
\* payload can only make the planner keep more, never stop it.
MentionsOnlyRetain ==
    \A floor \in 0..MaxTime, replay \in 0..Len(events) :
        LET p == [floor |-> floor, replay |-> replay] IN FrontiersAdvance(p) => Plannable(p)

(***************************************************************************)
(* Refinement                                                              *)
(***************************************************************************)

\* The register a reader of recorded history sees: the value at a time is what
\* revision_as_of selects among the rows of head_observations.
Register == INSTANCE RecordedRegister WITH
    Value <- 1..MaxRevisions, Nothing <- None, Time <- 0..MaxTime,
    current <- heads,
    known <- [l \in Line |-> [c \in 0..MaxTime |-> AsOf(l, c)]],
    stamp <- [l \in Line |-> IF observations[l] = <<>> THEN 0 ELSE TipTime(l)]

\* The store implements the recorded register: commits, batches, acceptances and
\* forks are writes at the transaction's time, release_branch is a retirement, and
\* no other operation, compaction and received capsules included, is seen by readers.
ImplementsRegister == Register!Spec
=============================================================================
