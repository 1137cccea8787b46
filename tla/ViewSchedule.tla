---------------------------- MODULE ViewSchedule ----------------------------
(***************************************************************************)
(* Durable live views of weave-engine and their schedule, for one owner.   *)
(* A view keeps the result of an expression, the heads it depends on and,  *)
(* once scheduled, a place in a queue.  The host scans the journal for     *)
(* changes of the lines a view subscribed to, and drains the queue one     *)
(* view at a time.  A view whose computation fails is moved to the end of  *)
(* the queue by a second transaction, which a crash may swallow.  When the *)
(* retention policy changes, nothing is scanned or drained until all views *)
(* of the owner are rebuilt together.                                      *)
(*                                                                         *)
(* A result is told by the heads its evaluation read: those of the lines   *)
(* its expression queries and of the live metadata links it found there.   *)
(* Each action is one transaction; a refused request changes nothing.      *)
(***************************************************************************)
EXTENDS Integers, SequencesExt

CONSTANTS
    Line,           \* branches of graphs
    Revision,
    None,           \* no head; no owner registered with the schedule
    Links,          \* the lines the payload of a revision of a line links to live
    View,           \* identifiers of views, in their order
    Ticking,        \* the views with a tick clock; the others are fixed
    Source,         \* the lines a view's expression queries
    Prior,          \* the journal of the store when the tables of the views are created in it
    MaxTick,        \* bound
    MaxEvents,      \* bound: rows of the journal
    MaxEpoch,       \* bound: changes of the retention policy
    MaxNotices      \* bound: notifications a scan may be allowed

ASSUME ViewsAssumption ==
    /\ View \subseteq Nat \ {0} /\ IsFiniteSet(View) /\ Ticking \subseteq View
    /\ {MaxTick, MaxEvents, MaxEpoch, MaxNotices} \subseteq Nat
    /\ None \notin Revision /\ None \notin [sequence : Nat, page : Nat, epoch : Nat]
    /\ Links \in [Line -> [Revision -> SUBSET Line]]
    /\ Source \in [View -> SUBSET Line]
    /\ Prior \in Seq([line : Line, revision : Revision])

VARIABLES
    stored,         \* table revisions: what each line has ever held
    heads,          \* table heads
    events,         \* table events: the lines and their new heads, in order
    epoch,          \* replay epoch of the retention policy; 0 under the default policy
    live,           \* table live_views
    subscribed,     \* table view_dependencies
    enrolled,       \* table view_selection
    owner,          \* tables view_schedule_cursors and retention_view_epochs
    requested,      \* table view_schedules: the tick asked of each scheduled view
    pending,        \* table view_schedules: the pending views by age
    failures        \* views whose failed drain has not been followed by its rotation yet

store == <<stored, heads, events, epoch>>
views == <<live, subscribed, enrolled>>
queue == <<owner, requested, pending, failures>>
vars == <<store, views, queue>>

Scheduled == DOMAIN requested

TypeOK ==
    /\ stored \in [Line -> SUBSET Revision]
    /\ heads \in [Line -> Revision \cup {None}] /\ \A l \in Line : heads[l] \in stored[l] \cup {None}
    /\ events \in Seq([line : Line, revision : Revision])
    /\ epoch \in 0..MaxEpoch
    /\ enrolled \subseteq DOMAIN live /\ DOMAIN live \subseteq View
    /\ \A v \in DOMAIN live :
          /\ live[v].tick \in 0..MaxTick /\ (v \notin Ticking => live[v].tick = 0)
          /\ DOMAIN live[v].reads \subseteq DOMAIN live[v].dependencies
          /\ {l \in Line : <<v, l>> \in subscribed} = DOMAIN live[v].dependencies
    /\ Scheduled \subseteq enrolled /\ requested \in [Scheduled -> 0..MaxTick]
    /\ \A v \in Scheduled \ Ticking : requested[v] = 0
    /\ IF owner = None
       THEN Scheduled = {}
       ELSE /\ owner \in [sequence : 0..Len(events), page : View \cup {0}, epoch : 0..epoch]
            /\ owner.page # 0 => owner.sequence # 0
    /\ IsInjective(pending) /\ ToSet(pending) \subseteq Scheduled
    /\ failures \subseteq Scheduled

LastOf(l) == {i \in DOMAIN Prior :
    Prior[i].line = l /\ \A j \in DOMAIN Prior : j > i => Prior[j].line # l}

Init ==
    /\ events = Prior
    /\ stored = [l \in Line |-> {e.revision : e \in {d \in ToSet(Prior) : d.line = l}}]
    /\ heads = [l \in Line |->
          IF LastOf(l) = {} THEN None ELSE Prior[CHOOSE i \in LastOf(l) : TRUE].revision]
    /\ epoch = 0
    /\ live = <<>> /\ subscribed = {} /\ enrolled = {}
    /\ owner = None /\ requested = <<>> /\ pending = <<>> /\ failures = {}

-----------------------------------------------------------------------------
\* The store below the views

Journal(l, r) == events' = Append(events, [line |-> l, revision |-> r])

Retired(l) == heads[l] = None /\ stored[l] # {}

Commit(l, r) ==
    /\ Len(events) < MaxEvents /\ ~Retired(l) /\ r \notin stored[l]
    /\ stored' = [stored EXCEPT ![l] = @ \cup {r}]
    /\ heads' = [heads EXCEPT ![l] = r]
    /\ Journal(l, r)
    /\ UNCHANGED <<epoch, views, queue>>

\* A logical batch that changes l and repeats the head of k.  The repeated member is stored under
\* a revision of its own, which becomes the head, but only the change is journalled.
CommitBatch(l, r, k, s) ==
    /\ Len(events) < MaxEvents /\ l # k /\ ~Retired(l) /\ heads[k] # None
    /\ r \notin stored[l] /\ s \notin stored[k] /\ Links[k][s] = Links[k][heads[k]]
    /\ stored' = [stored EXCEPT ![l] = @ \cup {r}, ![k] = @ \cup {s}]
    /\ heads' = [heads EXCEPT ![l] = r, ![k] = s]
    /\ Journal(l, r)
    /\ UNCHANGED <<epoch, views, queue>>

\* An earlier revision of the line is accepted back.
Accept(l, r) ==
    /\ Len(events) < MaxEvents /\ heads[l] # None /\ r \in stored[l] \ {heads[l]}
    /\ heads' = [heads EXCEPT ![l] = r]
    /\ Journal(l, r)
    /\ UNCHANGED <<stored, epoch, views, queue>>

ReleaseBranch(l) ==
    /\ heads[l] # None
    /\ heads' = [heads EXCEPT ![l] = None]
    /\ UNCHANGED <<stored, events, epoch, views, queue>>

CompactRetention ==
    /\ epoch < MaxEpoch
    /\ epoch' = epoch + 1
    /\ UNCHANGED <<stored, heads, events, views, queue>>

-----------------------------------------------------------------------------
\* Views

Insert(table, key, row) == [k \in DOMAIN table \cup {key} |-> IF k = key THEN row ELSE table[k]]

HeadsOf(L) == [l \in L |-> heads[l]]
Linked(L) == UNION {Links[l][heads[l]] : l \in {k \in L : heads[k] # None}}

\* A query of a line without a head is unavailable; a live link to one leaves the result partial.
Computable(v) == \A l \in Source[v] : heads[l] # None
Complete(reads) == \A l \in DOMAIN reads : reads[l] # None

ComputeView(v, tick) ==
    LET read == Source[v] \cup Linked(Source[v])
    IN  [tick |-> tick, reads |-> HeadsOf(read), dependencies |-> HeadsOf(read \cup Linked(read))]

Subscriptions(v, view) == {v} \X DOMAIN view.dependencies

\* Each view of V is computed anew at its tick; subscriptions are rewritten with a changed result.
RefreshAll(V, tick) ==
    LET new == [v \in DOMAIN live |-> IF v \in V THEN ComputeView(v, tick[v]) ELSE live[v]]
        changed == {v \in V : new[v].reads # live[v].reads \/ new[v].tick # live[v].tick}
    IN  /\ \A v \in V : Computable(v)
        /\ live' = new
        /\ subscribed' = {s \in subscribed : s[1] \notin changed}
                         \cup UNION {Subscriptions(v, new[v]) : v \in changed}
        /\ UNCHANGED enrolled

Ticks(v) == IF v \in Ticking THEN 0..MaxTick ELSE {0}

RegisterView(v, tick) ==
    /\ v \notin DOMAIN live /\ Computable(v)
    /\ LET view == ComputeView(v, tick)
       IN  /\ live' = Insert(live, v, view)
           /\ subscribed' = subscribed \cup Subscriptions(v, view)
    /\ UNCHANGED <<store, enrolled, queue>>

EnrollIncrementalView(v) ==
    /\ v \in DOMAIN live \ enrolled
    /\ enrolled' = enrolled \cup {v}
    /\ UNCHANGED <<store, live, subscribed, queue>>

RefreshView(v, tick) ==
    /\ v \in DOMAIN live /\ tick >= live[v].tick
    /\ RefreshAll({v}, [w \in {v} |-> tick])
    /\ UNCHANGED <<store, queue>>

PendingTickSatisfied(v) == v \in ToSet(pending) => requested[v] <= live[v].tick

UnmovedSources(v) == \A l \in Source[v] : heads[l] = live[v].dependencies[l]
Unmoved(v) == \A l \in DOMAIN live[v].dependencies : heads[l] = live[v].dependencies[l]

\* What read_view answers of the view as it stands.
ViewCurrent(v) == Complete(live[v].reads) /\ PendingTickSatisfied(v) /\ Unmoved(v)

-----------------------------------------------------------------------------
\* The schedule

Expired == epoch # 0 /\ owner # None /\ owner.epoch # epoch

EnqueueAlways(Q, v) == Append(Q, v)
Enqueue(Q, v) == IF v \in ToSet(Q) THEN Q ELSE Append(Q, v)

EnableViewSchedule(v) ==
    /\ ~Expired /\ v \in enrolled \ Scheduled
    /\ owner' = IF owner # None THEN owner ELSE [sequence |-> Len(events), page |-> 0, epoch |-> epoch]
    /\ requested' = Insert(requested, v, live[v].tick)
    /\ pending' = Enqueue(pending, v)
    /\ UNCHANGED <<store, views, failures>>

RequestViewTick(v, tick) ==
    /\ ~Expired /\ v \in Scheduled \cap Ticking
    /\ tick >= requested[v] /\ tick >= live[v].tick
    /\ requested' = [requested EXCEPT ![v] = tick]
    /\ pending' = Enqueue(pending, v)
    /\ UNCHANGED <<store, views, owner, failures>>

EventAfterPage == owner.sequence + 1
Event == IF owner.page # 0 THEN owner.sequence ELSE owner.sequence + 1
Subscribers == {v \in Scheduled : v > owner.page /\ <<v, events[Event].line>> \in subscribed}
FirstOf(V, n) == {v \in V : Cardinality({w \in V : w < v}) < n}
InOrder(V) == {s \in Bijection(1..Cardinality(V), V) : \A i, j \in DOMAIN s : i < j => s[i] < s[j]}

\* A call that may complete one event and notify n views.  Larger budgets repeat this in one
\* transaction.
ScanViewWork(n) ==
    /\ owner # None /\ ~Expired /\ Event <= Len(events)
    /\ LET notified == FirstOf(Subscribers, n)
       IN  /\ \E arrivals \in InOrder(notified \ ToSet(pending)) : pending' = pending \o arrivals
           /\ \/ /\ notified = Subscribers
                 /\ owner' = [sequence |-> Event, page |-> 0, epoch |-> owner.epoch]
              \/ /\ notified # Subscribers
                 /\ \E last \in notified :
                       /\ \A v \in notified : v <= last
                       /\ owner' = [sequence |-> Event, page |-> last, epoch |-> owner.epoch]
    /\ UNCHANGED <<store, views, requested, failures>>

\* A synchronous refresh may have advanced the tick while the request was queued.
Due(v) == Max({requested[v], live[v].tick})

DrainViewWork(v) ==
    /\ ~Expired /\ pending # <<>> /\ v = Head(pending)
    /\ RefreshAll({v}, [w \in {v} |-> Due(w)])
    /\ requested' = [requested EXCEPT ![v] = Due(v)]
    /\ pending' = Tail(pending)
    /\ UNCHANGED <<store, owner, failures>>

\* Any computation may fail, for want of an input, of budget or of authority.
FailDrain ==
    /\ ~Expired /\ pending # <<>>
    /\ failures' = failures \cup {Head(pending)}
    /\ UNCHANGED <<store, views, owner, requested, pending>>

RotateInPlace(v) ==
    /\ v \in failures
    /\ failures' = failures \ {v}
    /\ UNCHANGED <<store, views, owner, requested, pending>>

RotateFailedView(v) ==
    /\ v \in failures
    /\ failures' = failures \ {v}
    /\ \/ /\ v \notin ToSet(pending)
          /\ UNCHANGED pending
       \/ \E i \in DOMAIN pending :
             /\ pending[i] = v
             /\ pending' = Append(RemoveAt(pending, i), v)
    /\ UNCHANGED <<store, views, owner, requested>>

\* The process ends between the failed drain and its rotation.
Crash ==
    /\ failures # {}
    /\ failures' = {}
    /\ UNCHANGED <<store, views, owner, requested, pending>>

Rebuildable(v) == Computable(v) /\ Complete(ComputeView(v, 0).reads)

RebaseViewSchedule ==
    /\ Scheduled # {} /\ \A v \in Scheduled : Rebuildable(v)
    /\ RefreshAll(Scheduled, [v \in Scheduled |-> Due(v)])
    /\ requested' = [v \in Scheduled |-> Due(v)]
    /\ pending' = <<>>
    /\ owner' = [sequence |-> Len(events), page |-> 0, epoch |-> epoch]
    /\ UNCHANGED <<store, failures>>

-----------------------------------------------------------------------------
Store ==
    \/ \E l, k \in Line, r, s \in Revision : CommitBatch(l, r, k, s)
    \/ \E l \in Line, r \in Revision : Commit(l, r) \/ Accept(l, r)
    \/ \E l \in Line : ReleaseBranch(l)
    \/ CompactRetention

Requests ==
    \E v \in View :
        \/ EnrollIncrementalView(v) \/ EnableViewSchedule(v)
        \/ \E tick \in Ticks(v) : RegisterView(v, tick) \/ RefreshView(v, tick) \/ RequestViewTick(v, tick)

Scan == \E n \in 1..MaxNotices : ScanViewWork(n)
Drain == FailDrain \/ \E v \in View : DrainViewWork(v)

Next ==
    \/ Store \/ Requests \/ Scan \/ Drain
    \/ \E v \in View : RotateFailedView(v)
    \/ Crash \/ RebaseViewSchedule

Spec == Init /\ [][Next]_vars

\* The host drives the schedule: it keeps scanning and draining, and rebuilds when told that its
\* checkpoint expired.  A process does not crash after each failed drain, and a view that can be
\* computed does not fail each time its turn comes.
Driven ==
    /\ WF_vars(Scan) /\ WF_vars(Drain)
    /\ \A v \in View : SF_vars(DrainViewWork(v)) /\ SF_vars(RotateFailedView(v))
    /\ SF_vars(Expired /\ RebaseViewSchedule)

FairSpec == Spec /\ Driven

-----------------------------------------------------------------------------
\* Properties

\* The head of the line was journalled; batch members that repeat their head and retired lines
\* were not (commit_batch, release_branch_for).
Told(l) == \E i \in DOMAIN events :
    /\ events[i] = [line |-> l, revision |-> heads[l]]
    /\ \A j \in DOMAIN events : j > i => events[j].line # l

Moved(v) == {l \in DOMAIN live[v].dependencies : heads[l] # live[v].dependencies[l]}

Ahead(v, l) == \E i \in DOMAIN events :
    /\ events[i].line = l
    /\ i > owner.sequence \/ (i = owner.sequence /\ owner.page # 0 /\ v > owner.page)

\* However scans are paged and interleaved with registrations, refreshes, failures and rebuilds, a
\* scheduled view that is not queued has processed every tick asked of it, and a journalled change
\* of a line it depends on still lies ahead of the scan (scan_view_work, enable_view_schedule).
NoNoticeLost ==
    \A v \in Scheduled \ ToSet(pending) :
        /\ requested[v] <= live[v].tick
        /\ \A l \in Moved(v) : Told(l) => <<v, l>> \in subscribed /\ Ahead(v, l)

\* A stored result that read_view calls current is complete, is what a full recomputation gives,
\* live metadata links included, and answers every tick asked for (view_current).
CurrentIsRecomputed ==
    \A v \in DOMAIN live : ViewCurrent(v) =>
        /\ Computable(v) /\ Rebuildable(v)
        /\ live[v] = ComputeView(v, live[v].tick)
        /\ v \in Scheduled => requested[v] <= live[v].tick

\* One view of the owner that cannot be computed keeps all of them from being rebuilt.
RebuildBlocked == Expired /\ \E v \in Scheduled : ~Rebuildable(v)

OnlyUntoldMoved(v) == \A l \in Moved(v) : ~Told(l)

\* A view fails for good, processes crash and ticks are asked for: every other scheduled view still
\* comes to answer for its ticks and for all changes that were journalled (drain_view_work,
\* rotate_failed_view), unless the rebuild of a changed policy is blocked.
HealthyViewsCatchUp ==
    \A v \in View : []<>(v \in Scheduled /\ Computable(v) /\ ~RebuildBlocked =>
                            requested[v] <= live[v].tick /\ OnlyUntoldMoved(v))

=============================================================================
