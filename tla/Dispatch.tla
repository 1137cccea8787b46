------------------------------ MODULE Dispatch ------------------------------
(***************************************************************************)
(* The scoped dispatcher of weave-engine: installed adapters poll the      *)
(* journal of graph events, one leased delivery at a time, and settle each *)
(* delivery by completing it (graph output, receipt and checkpoint in one  *)
(* transaction), failing it, or cancelling it.  With it the causal depth   *)
(* circuit, the replay window of compacted stores, the state of native     *)
(* projections and the durable outbox of external effects.                 *)
(*                                                                         *)
(* Every operation is one SQLite transaction, hence one step.  A delivery  *)
(* compares the clock with its lease expiry and retry time only; a host    *)
(* clock may jump and a reopened engine forgets its last sample, so each   *)
(* such comparison may go either way, except that a failed delivery's      *)
(* lease (expires = 0) is never current again.                             *)
(***************************************************************************)
EXTENDS Integers, Sequences, FiniteSets

CONSTANTS
    Adapter,        \* adapter identities
    Line,           \* (graph, branch) scopes
    Key,            \* idempotency keys of effect requests
    Lease,          \* lease identities in circulation
    NoLease,        \* no delivery is leased
    Manifest,       \* the manifest pinned under each identity
    MAX_DEPTH, DEFAULT_DEPTH, \* the causal depths of the code, 64 and 16
    MAX_OUTPUT,     \* events one completion may write, 256 in the code
    Page,           \* events read by one scan, 1001 in the code
    MaxEvents,      \* bound: journal length
    MaxPrivate,     \* bound: revisions the installed principal cannot read
    MaxEpoch,       \* bound: changes of the retention policy
    MaxInstalled,   \* bound: adapters ever installed
    MaxReturns      \* bound: events that announce an earlier revision again

Root == "root"   \* written by a principal, not by a handler

ASSUME DispatchAssumption ==
    /\ Root \notin Adapter
    /\ {Page, MaxEvents, MaxPrivate, MaxEpoch, MaxInstalled, MaxReturns, MAX_OUTPUT} \subseteq Nat
    /\ MAX_DEPTH \in Nat \ {0} /\ DEFAULT_DEPTH \in 1..MAX_DEPTH
    /\ Page > 0
    /\ NoLease \notin Lease
    /\ Manifest \in [Adapter -> [subscriptions : SUBSET Line, outputs : SUBSET Line,
                                 projection : BOOLEAN, effects : SUBSET Key,
                                 attempts : Nat \ {0}, backlog : Nat \ {0}]]

VARIABLES
    events,         \* tables events and event_causation: the sequence is the index
    private,        \* revisions the installed principal may not read whole right now
    erased,         \* revisions whose snapshot a compaction erased
    policy,         \* table retention_policy: replay frontier and epoch
    status,         \* dispatch_adapters.state
    checkpoint,     \* dispatch_adapters.checkpoint
    pending,        \* table dispatch_pending: at most one delivery per adapter
    held,           \* what each lease was granted for, in the workers' hands
    receipts,       \* table handler_receipts
    results,        \* handler_receipts.results: the events each completion wrote
    cancelled,      \* table delivery_cancellations
    rebuild,        \* table projection_rebuild_requests
    projection,     \* table retention_adapter_states: the state a projection keeps
    draft,          \* the rebuild inputs a projection's owner has read
    limit,          \* table dispatch_causal_policies
    circuit,        \* table dispatch_circuits
    effects,        \* table effect_intents
    skipped         \* history: deliverable events the scan passed as not readable

journal == <<events, private, erased, policy>>
delivery == <<status, checkpoint, pending, held, receipts, results, cancelled, skipped>>
rebase == <<rebuild, projection, draft>>
causal == <<limit, circuit>>
vars == <<journal, delivery, rebase, causal, effects>>

Events == 1..Len(events)
NoDelivery == [event |-> 0, lease |-> NoLease, attempts |-> 0, status |-> "none"]
NoState == [epoch |-> 0, covers |-> {}, bound |-> FALSE]
NoDraft == [epoch |-> 0, snapshots |-> {}, read |-> FALSE]
NoCircuit == [event |-> 0, limit |-> 0]
NoIntent == [event |-> 0, state |-> "absent"]

\* The revision an event announces is named by the first event that announced it.
Event == [line : Line, revision : 1..MaxEvents, parent : 0..MaxEvents, root : 1..MaxEvents,
          depth : 0..MAX_DEPTH, by : Adapter \cup {Root}]
Lifecycle == {"absent", "installed", "running", "paused", "draining", "removed"}

TypeOK ==
    /\ events \in Seq(Event) /\ Len(events) <= MaxEvents
    /\ \A e \in Events : events[e].revision <= e
    /\ private \subseteq Events /\ erased \subseteq Events
    /\ policy \in [replay : 0..Len(events), epoch : 0..MaxEpoch]
    /\ status \in [Adapter -> Lifecycle]
    /\ checkpoint \in [Adapter -> 0..Len(events)]
    /\ pending \in [Adapter -> [event : 0..Len(events), lease : Lease \cup {NoLease},
                                attempts : Nat,
                                status : {"none", "leased", "retry", "dead_letter"}]]
    /\ \A a \in Adapter : pending[a].attempts <= Manifest[a].attempts
    /\ held \in [Adapter -> [Lease -> 0..Len(events)]]
    /\ receipts \subseteq Adapter \X Events
    /\ results \in [Adapter \X (1..MaxEvents) -> SUBSET (1..MaxEvents)]
    /\ cancelled \subseteq Adapter \X Events
    /\ skipped \subseteq Adapter \X Events
    /\ rebuild \subseteq Adapter
    /\ projection \in [Adapter -> [epoch : 0..MaxEpoch, covers : SUBSET Events, bound : BOOLEAN]]
    /\ draft \in [Adapter -> [epoch : 0..MaxEpoch, snapshots : SUBSET (1..MaxEvents), read : BOOLEAN]]
    /\ limit \in [Adapter -> 1..MAX_DEPTH]
    /\ circuit \in [Adapter -> [event : 0..Len(events), limit : 0..MAX_DEPTH]]
    /\ effects \in [Adapter \X Key ->
                      [event : 0..Len(events),
                       state : {"absent", "pending", "unknown", "confirmed", "failed"}]]

Init ==
    /\ events = <<>> /\ private = {} /\ erased = {}
    /\ policy = [replay |-> 0, epoch |-> 0]
    /\ status = [a \in Adapter |-> "absent"]
    /\ checkpoint = [a \in Adapter |-> 0]
    /\ pending = [a \in Adapter |-> NoDelivery]
    /\ held = [a \in Adapter |-> [l \in Lease |-> 0]]
    /\ receipts = {} /\ cancelled = {} /\ skipped = {}
    /\ results = [d \in Adapter \X (1..MaxEvents) |-> {}]
    /\ rebuild = {}
    /\ projection = [a \in Adapter |-> NoState]
    /\ draft = [a \in Adapter |-> NoDraft]
    /\ limit = [a \in Adapter |-> DEFAULT_DEPTH]
    /\ circuit = [a \in Adapter |-> NoCircuit]
    /\ effects = [i \in Adapter \X Key |-> NoIntent]

(***************************************************************************)
(* The journal the dispatcher reads                                        *)
(***************************************************************************)

Tips == {e \in Events : \A f \in Events : events[f].line = events[e].line => f <= e}
Subscribed(a, e) == events[e].line \in Manifest[a].subscriptions
RevisionsOf(S) == {events[e].revision : e \in S}

\* The occurrence is in scope and its whole snapshot is readable by the principal.
ScopedEvent(a, e) ==
    e \in Events /\ Subscribed(a, e) /\ events[e].revision \notin private \cup erased

RootEvent(l, r) == [line |-> l, revision |-> r, parent |-> 0, root |-> Len(events) + 1,
                    depth |-> 0, by |-> Root]

\* A trusted write outside handler completion is a causal root.
Announce(l, r) ==
    /\ Len(events) < MaxEvents
    /\ events' = Append(events, RootEvent(l, r))
    /\ UNCHANGED <<private, erased, policy, delivery, rebase, causal, effects>>

\* A new revision becomes the head of its line.
Commit(l) == Announce(l, Len(events) + 1)

\* An earlier revision of the line, still loadable, becomes its head again.
Accept(l, r) ==
    /\ r \in RevisionsOf({e \in Events : events[e].line = l}) \ RevisionsOf(Tips)
    /\ r \notin erased
    /\ Cardinality({e \in Events : events[e].revision # e}) < MaxReturns
    /\ Announce(l, r)

\* Object readers, grants or approvals change what the principal can read of r.
ChangeReaders(r) ==
    /\ private' = IF r \in private THEN private \ {r} ELSE private \cup {r}
    /\ Cardinality(private') <= MaxPrivate
    /\ UNCHANGED <<events, erased, policy, delivery, rebase, causal, effects>>

\* Revisions kept readable: heads, events not yet replayed, and this component's rows.
Retained(replay) ==
    RevisionsOf(Events \cap
        (Tips \cup (replay + 1)..Len(events)
              \cup {pending[a].event : a \in Adapter} \cup {circuit[a].event : a \in Adapter}
              \cup {effects[i].event : i \in Adapter \X Key}
              \cup {p[2] : p \in receipts \cup cancelled}))

\* A compaction at the replay frontier: a changed policy starts a new epoch.
Compact(replay, changed, gone) ==
    /\ policy.replay <= replay
    /\ replay # policy.replay => changed
    /\ changed => policy.epoch < MaxEpoch
    /\ gone \subseteq RevisionsOf(Events) \ (Retained(replay) \cup erased)
    /\ changed \/ gone # {}
    /\ erased' = erased \cup gone
    /\ policy' = [replay |-> replay, epoch |-> policy.epoch + (IF changed THEN 1 ELSE 0)]
    /\ UNCHANGED <<events, private, delivery, rebase, causal, effects>>

(***************************************************************************)
(* Installation, lifecycle and causal policy                               *)
(***************************************************************************)

Unresolved(a) == \E k \in Key : effects[<<a, k>>].state \in {"pending", "unknown"}

Install(a) ==
    /\ status[a] = "absent"
    /\ Cardinality({b \in Adapter : status[b] # "absent"}) < MaxInstalled
    /\ status' = [status EXCEPT ![a] = "installed"]
    /\ UNCHANGED <<journal, checkpoint, pending, held, receipts, results, cancelled, skipped,
                   rebase, causal, effects>>

SetAdapterState(a, state) ==
    /\ status[a] \notin {"absent", "removed"}
    /\ state = "removed" => pending[a] = NoDelivery
    /\ status' = [status EXCEPT ![a] = state]
    /\ UNCHANGED <<journal, checkpoint, pending, held, receipts, results, cancelled, skipped,
                   rebase, causal, effects>>

SetCausalPolicy(a, depth) ==
    /\ status[a] \in {"installed", "paused"}
    /\ pending[a] = NoDelivery /\ ~Unresolved(a)
    /\ limit' = [limit EXCEPT ![a] = depth]
    /\ circuit' = [circuit EXCEPT ![a] = NoCircuit]
    /\ UNCHANGED <<journal, delivery, rebase, effects>>

\* The delivery may cause more work: below the depth limit and not suspended.
CausalWork(a, e) == events[e].depth < limit[a] /\ circuit[a] = NoCircuit

(***************************************************************************)
(* Polling                                                                 *)
(***************************************************************************)

ReplayReadyInAnyEpoch(a) == a \notin rebuild /\ (projection[a].bound \/ policy.epoch = 0)

\* Without a delivery in flight, polling needs a replay window with no gap.
ReplayReady(a) ==
    /\ a \notin rebuild
    /\ IF projection[a].bound THEN projection[a].epoch = policy.epoch ELSE policy.epoch = 0

Suspend(a, e) ==
    /\ status' = [status EXCEPT ![a] = "paused"]
    /\ circuit' = IF circuit[a] = NoCircuit
                  THEN [circuit EXCEPT ![a] = [event |-> e, limit |-> limit[a]]]
                  ELSE circuit
    /\ UNCHANGED <<pending, held>>

\* A fresh lease: taking an identity again stands for the end of its old holder.
Grant(a, e, attempts) ==
    /\ \E l \in Lease \ {pending[a].lease} :
          /\ pending' = [pending EXCEPT ![a] = [event |-> e, lease |-> l,
                                                attempts |-> attempts, status |-> "leased"]]
          /\ held' = [held EXCEPT ![a][l] = e]
    /\ UNCHANGED <<status, circuit>>

Deliver(a, e, attempts) == IF CausalWork(a, e) THEN Grant(a, e, attempts) ELSE Suspend(a, e)

ExhaustedLate(a) == pending[a].attempts > Manifest[a].attempts
Exhausted(a) == pending[a].attempts >= Manifest[a].attempts

SameAttempt(a) == pending[a].attempts
NextAttempt(a) == pending[a].attempts + 1

\* The lease ran out, or the retry time came: redeliver, or give up for good.
PollPending(a) ==
    /\ status[a] \in {"running", "draining"}
    /\ pending[a].status \in {"leased", "retry"}
    /\ \/ /\ Exhausted(a)
          /\ pending' = [pending EXCEPT ![a].status = "dead_letter"]
          /\ UNCHANGED <<status, held, circuit>>
       \/ /\ ~Exhausted(a)
          /\ ScopedEvent(a, pending[a].event)
          /\ Deliver(a, pending[a].event, NextAttempt(a))
    /\ UNCHANGED <<journal, checkpoint, receipts, results, cancelled, skipped, rebase, limit, effects>>

\* The last event one scan reads.
ScanEnd(a) ==
    IF checkpoint[a] + Page <= Len(events) THEN checkpoint[a] + Page ELSE Len(events)

Backlog(a) == {e \in (checkpoint[a] + 1)..ScanEnd(a) : ScopedEvent(a, e)}
Found(a, stop) == stop < ScanEnd(a) /\ ScopedEvent(a, stop + 1)

StopsAtAnyVisible(a, stop) ==
    IF Backlog(a) = {} THEN stop = ScanEnd(a) ELSE Found(a, stop)

StaysIfNothingFound(a, stop) ==
    /\ \A e \in (checkpoint[a] + 1)..stop : ~ScopedEvent(a, e)
    /\ Found(a, stop) \/ (Backlog(a) = {} /\ stop = checkpoint[a])

\* A scan passes what is not deliverable and stops in front of the first that is.
StopsAt(a, stop) ==
    /\ \A e \in (checkpoint[a] + 1)..stop : ~ScopedEvent(a, e)
    /\ stop = ScanEnd(a) \/ Found(a, stop)

\* Scan one page; too long a backlog pauses the adapter instead.
PollNext(a) == \E stop \in checkpoint[a]..ScanEnd(a) :
    /\ status[a] = "running" /\ pending[a] = NoDelivery
    /\ ReplayReady(a)
    /\ StopsAt(a, stop)
    /\ IF Cardinality(Backlog(a)) > Manifest[a].backlog
       THEN /\ status' = [status EXCEPT ![a] = "paused"]
            /\ UNCHANGED <<checkpoint, skipped, pending, held, circuit>>
       ELSE /\ checkpoint' = [checkpoint EXCEPT ![a] = stop]
            /\ skipped' = skipped \cup
                  {<<a, e>> : e \in {f \in (checkpoint[a] + 1)..stop :
                                       Subscribed(a, f) /\ events[f].revision \in private \ erased}}
            /\ IF Found(a, stop) THEN Deliver(a, stop + 1, 1)
                                ELSE UNCHANGED <<status, pending, held, circuit>>
    /\ UNCHANGED <<journal, receipts, results, cancelled, rebase, limit, effects>>

Poll(a) == PollPending(a) \/ PollNext(a)

(***************************************************************************)
(* Settling a delivery                                                     *)
(***************************************************************************)

\* The worker's lease is the current one (the comparison with expires is free).
CheckLease(a, e, l) ==
    /\ pending[a].event = e /\ pending[a].lease = l
    /\ pending[a].status = "leased"

ShallowEvent(a, e, l, n) == [line |-> l, revision |-> n, parent |-> e, root |-> events[e].root,
                             depth |-> 1, by |-> a]

\* The event numbered n, written to line l while handling e.
HandlerEvent(a, e, l, n) == [line |-> l, revision |-> n, parent |-> e, root |-> events[e].root,
                             depth |-> events[e].depth + 1, by |-> a]

\* The events the handler's program adds: they follow their parent.
OutputEvents(output) == (Len(events) + 1)..(Len(events) + Len(output))

WithOutput(a, e, output) ==
    events \o [i \in 1..Len(output) |-> HandlerEvent(a, e, output[i], Len(events) + i)]

\* The state a bound projection commits together with the checkpoint.
Folded(a, e) ==
    IF projection[a].bound
    THEN [projection EXCEPT ![a].covers = @ \cup {e}] ELSE projection

WorkerKnowsEvent(a, e, l) == e # 0

\* No receipt yet, and the worker is the current one.
FirstCompletion(a, e, l) == <<a, e>> \notin receipts /\ CheckLease(a, e, l)

SameCheckpoint(a, e) == checkpoint
CheckpointAt(a, e) == [checkpoint EXCEPT ![a] = e]

\* complete_handler and complete_projection_for: a first completion.  A repeated
\* one returns its receipt and changes nothing.
Complete(a, l, output) ==
    LET e == held[a][l] IN
    /\ <<a, e>> \notin cancelled
    /\ status[a] \in {"running", "draining"}
    /\ ScopedEvent(a, e)
    /\ FirstCompletion(a, e, l)
    /\ CausalWork(a, e)
    /\ Len(events) + Len(output) <= MaxEvents
    /\ events' = WithOutput(a, e, output)
    /\ receipts' = receipts \cup {<<a, e>>}
    /\ results' = [results EXCEPT ![<<a, e>>] = OutputEvents(output)]
    /\ checkpoint' = CheckpointAt(a, e)
    /\ projection' = Folded(a, e)
    /\ pending' = [pending EXCEPT ![a] = NoDelivery]
    /\ UNCHANGED <<private, erased, policy, status, held, cancelled, skipped,
                   rebuild, draft, causal, effects>>

FailHandler(a, l) ==
    /\ CheckLease(a, held[a][l], l)
    /\ pending' = [pending EXCEPT ![a].status =
                     IF Exhausted(a) THEN "dead_letter" ELSE "retry"]
    /\ UNCHANGED <<journal, status, checkpoint, held, receipts, results, cancelled, skipped,
                   rebase, causal, effects>>

ReplayDeadLetter(a) ==
    /\ pending[a].status = "dead_letter"
    /\ pending' = [pending EXCEPT ![a].status = "retry", ![a].attempts = 0]
    /\ UNCHANGED <<journal, status, checkpoint, held, receipts, results, cancelled, skipped,
                   rebase, causal, effects>>

ResolvedEffects(a) == ~Unresolved(a)
PureHandler(a) == Manifest[a].effects = {} /\ ~Unresolved(a)

\* The exact occurrence and lease, whatever the lease's expiry and the source's
\* readability; only graph handlers without effect destinations.
CancelDelivery(a, l) ==
    LET e == held[a][l] IN
    /\ PureHandler(a)
    /\ <<a, e>> \notin cancelled \cup receipts
    /\ pending[a].event = e /\ pending[a].lease = l
    /\ cancelled' = cancelled \cup {<<a, e>>}
    /\ checkpoint' = CheckpointAt(a, IF e > checkpoint[a] THEN e ELSE checkpoint[a])
    /\ rebuild' = IF projection[a].bound THEN rebuild \cup {a} ELSE rebuild
    /\ pending' = [pending EXCEPT ![a] = NoDelivery]
    /\ UNCHANGED <<journal, status, held, receipts, results, skipped, projection, draft,
                   causal, effects>>

(***************************************************************************)
(* Rebuilding a projection                                                 *)
(***************************************************************************)

InputTips(a) == {e \in Tips : Subscribed(a, e)}
Inputs(a) == RevisionsOf(InputTips(a))

\* Every subscribed line has a head the principal reads whole.
InputsReadable(a) ==
    /\ Manifest[a].projection /\ status[a] \notin {"absent", "removed"}
    /\ {events[e].line : e \in InputTips(a)} = Manifest[a].subscriptions
    /\ Inputs(a) \cap private = {}

ReadInputs(a) ==
    /\ InputsReadable(a)
    /\ draft' = [draft EXCEPT ![a] =
                    [epoch |-> policy.epoch, snapshots |-> Inputs(a), read |-> TRUE]]
    /\ UNCHANGED <<journal, delivery, rebuild, projection, causal, effects>>

EpochCurrent(a) == draft[a].epoch = policy.epoch
InputsCurrent(a) == draft[a].snapshots = Inputs(a) /\ draft[a].epoch = policy.epoch

\* State rebuilt from snapshots stands for every event up to one that announced them.
Covered(a, snapshots) ==
    {e \in Events : /\ Subscribed(a, e)
                    /\ \E t \in Events : /\ events[t].line = events[e].line /\ e <= t
                                         /\ events[t].revision \in snapshots}

Rebase(a) ==
    /\ draft[a].read /\ InputsReadable(a) /\ InputsCurrent(a)
    /\ pending[a] = NoDelivery /\ ~Unresolved(a)
    /\ projection' = [projection EXCEPT ![a] =
                        [epoch |-> draft[a].epoch, covers |-> Covered(a, draft[a].snapshots),
                         bound |-> TRUE]]
    /\ checkpoint' = [checkpoint EXCEPT ![a] = Len(events)]
    /\ rebuild' = rebuild \ {a}
    /\ UNCHANGED <<journal, status, pending, held, receipts, results, cancelled, skipped, draft,
                   causal, effects>>

(***************************************************************************)
(* External effects                                                        *)
(***************************************************************************)

KeyFree(i) == effects[i].state = "absent"

\* A repeated request returns its intent; a key bound to another event is refused.
RequestEffect(a, l, k) ==
    LET e == held[a][l] IN
    /\ status[a] = "running" /\ ~Manifest[a].projection /\ k \in Manifest[a].effects
    /\ CheckLease(a, e, l)
    /\ ScopedEvent(a, e) /\ CausalWork(a, e)
    /\ KeyFree(<<a, k>>)
    /\ effects' = [effects EXCEPT ![<<a, k>>] = [event |-> e, state |-> "pending"]]
    /\ UNCHANGED <<journal, delivery, rebase, causal>>

\* Unknown is durable before the caller performs any I/O.
BeginEffect(a, k) ==
    /\ status[a] = "running"
    /\ ScopedEvent(a, effects[<<a, k>>].event) /\ CausalWork(a, effects[<<a, k>>].event)
    /\ effects[<<a, k>>].state = "pending"
    /\ effects' = [effects EXCEPT ![<<a, k>>].state = "unknown"]
    /\ UNCHANGED <<journal, delivery, rebase, causal>>

ReconcileAnew(a, k, outcome) ==
    /\ effects[<<a, k>>].state # "absent"
    /\ effects' = [effects EXCEPT ![<<a, k>>].state = outcome]
    /\ UNCHANGED <<journal, delivery, rebase, causal>>

Reconcile(a, k, outcome) ==
    /\ effects[<<a, k>>].state = "unknown"
    /\ effects' = [effects EXCEPT ![<<a, k>>].state = outcome]
    /\ UNCHANGED <<journal, delivery, rebase, causal>>

-----------------------------------------------------------------------------

Outputs(a) == UNION {[1..n -> Manifest[a].outputs] : n \in 0..MAX_OUTPUT}

AdapterStep(a) ==
    \/ Install(a)
    \/ \E s \in {"running", "paused", "draining", "removed"} : SetAdapterState(a, s)
    \/ \E d \in 1..MAX_DEPTH : SetCausalPolicy(a, d)
    \/ Poll(a)
    \/ \E l \in Lease, o \in Outputs(a) : Complete(a, l, o)
    \/ \E l \in Lease : FailHandler(a, l) \/ CancelDelivery(a, l)
    \/ ReplayDeadLetter(a)
    \/ ReadInputs(a) \/ Rebase(a)
    \/ \E k \in Key :
          \/ \E l \in Lease : RequestEffect(a, l, k)
          \/ BeginEffect(a, k)
          \/ \E o \in {"confirmed", "failed"} : Reconcile(a, k, o)

Next ==
    \/ \E l \in Line : Commit(l)
    \/ \E l \in Line, r \in RevisionsOf(Events) : Accept(l, r)
    \/ \E r \in RevisionsOf(Events) : ChangeReaders(r)
    \/ \E replay \in 0..Len(events), changed \in BOOLEAN, gone \in SUBSET RevisionsOf(Events) :
          Compact(replay, changed, gone)
    \/ \E a \in Adapter : AdapterStep(a)

Spec == Init /\ [][Next]_vars

\* Hosts keep calling poll_adapter, and clocks get past expiries and retry times.
FairSpec == Spec /\ \A a \in Adapter : WF_vars(Poll(a))

(***************************************************************************)
(* Safety                                                                  *)
(***************************************************************************)

\* The delivery in flight is unsettled work: ahead of the checkpoint, in scope,
\* not erased, below the depth limit in force, and its adapter neither removed nor
\* suspended by an open circuit.
PendingIsFresh ==
    \A a \in Adapter : pending[a] # NoDelivery =>
        LET e == pending[a].event IN
        /\ checkpoint[a] < e /\ Subscribed(a, e) /\ events[e].revision \notin erased
        /\ <<a, e>> \notin receipts \cup cancelled
        /\ status[a] \notin {"absent", "installed", "removed"}
        /\ CausalWork(a, e)

\* No silent gap: a subscribed event behind the checkpoint was handled, cancelled
\* by the owner, covered by a rebuilt projection, or unreadable when it was passed.
\* An event erased before its adapter reached it may not be passed.
NoSilentGap ==
    \A a \in Adapter : \A e \in 1..checkpoint[a] :
        Subscribed(a, e) => \/ <<a, e>> \in receipts \cup cancelled \cup skipped
                            \/ e \in projection[a].covers

\* A projection's state and its checkpoint move together: between rebuilds the
\* state reflects exactly the readable events up to the checkpoint.
StateMatchesCheckpoint ==
    \A a \in Adapter : projection[a].bound =>
        /\ \A e \in projection[a].covers : e <= checkpoint[a]
        /\ a \notin rebuild =>
             \A e \in 1..checkpoint[a] :
                Subscribed(a, e) => e \in projection[a].covers \/ <<a, e>> \in skipped

\* An occurrence has one outcome per adapter, and its output is written once: the
\* journal holds exactly the events its receipt answers a repeated completion with.
OneOutcome ==
    /\ receipts \cap cancelled = {}
    /\ \A a \in Adapter, e \in 1..MaxEvents :
         results[<<a, e>>] = {i \in Events : events[i].by = a /\ events[i].parent = e}

\* What causal_lineage and causal_circuit verify on every read never fails: the
\* ancestry of each event goes through receipted deliveries up to its root.
LineageHolds ==
    /\ \A i \in Events : events[i].by = Root => events[i].depth = 0 /\ events[i].root = i
    /\ \A i \in Events : events[i].by # Root =>
         LET p == events[i].parent  a == events[i].by IN
         /\ p \in 1..(i - 1)
         /\ events[i].depth = events[p].depth + 1 /\ events[i].root = events[p].root
         /\ Subscribed(a, p) /\ events[i].line \in Manifest[a].outputs
         /\ <<a, p>> \in receipts /\ i \in results[<<a, p>>]
    /\ \A a \in Adapter : circuit[a] # NoCircuit =>
         circuit[a].limit = limit[a] /\ limit[a] <= events[circuit[a].event].depth

\* Every effect belongs to a delivery that is being handled or was completed.
EffectsBelong ==
    \A a \in Adapter, k \in Key : effects[<<a, k>>] # NoIntent =>
        LET e == effects[<<a, k>>].event IN
        <<a, e>> \in receipts \/ pending[a].event = e

(***************************************************************************)
(* Action properties                                                       *)
(***************************************************************************)

\* While its circuit is open an adapter completes nothing and begins no effect.
CircuitStopsWork ==
    [][\A a \in Adapter : circuit[a] # NoCircuit =>
         /\ \A e \in Events : <<a, e>> \in receipts' => <<a, e>> \in receipts
         /\ \A k \in Key : effects'[<<a, k>>].state = "unknown"
                             => effects[<<a, k>>].state = "unknown"]_vars

\* An effect that may have reached its destination is never made dispatchable
\* again, whatever is redelivered, replayed or restarted.
NeverSentTwice ==
    [][\A i \in Adapter \X Key : effects[i].state \in {"unknown", "confirmed", "failed"} =>
         effects'[i].state \notin {"absent", "pending"} /\ effects'[i].event = effects[i].event]_vars

\* The intents of handler adapters are an implementation of the abstract outbox: requested,
\* sent and reported at most once each, several of one delivery together (request_effect,
\* complete_handler_authorized, begin_effect_dispatch, reconcile_effect).
External == INSTANCE Outbox WITH
    Key <- Adapter \X Key, outbox <- [i \in Adapter \X Key |-> effects[i].state]
ImplementsOutbox == External!Spec

(***************************************************************************)
(* Liveness                                                                *)
(***************************************************************************)

\* A delivery does not stay in flight: it settles, or becomes a dead letter, or
\* the owner stopped the adapter or took its read authority away.
DeliverySettles ==
    \A a \in Adapter :
        (pending[a] # NoDelivery) ~> \/ pending[a] = NoDelivery
                                    \/ pending[a].status = "dead_letter"
                                    \/ status[a] \notin {"running", "draining"}
                                    \/ ~ScopedEvent(a, pending[a].event)

\* A running adapter's checkpoint reaches every event, unless a dead letter, an
\* unreadable delivery, a suspension or an expired replay window stops it.
EventsAreReached ==
    \A a \in Adapter : \A e \in 1..MaxEvents :
        (e \in Events) ~> \/ checkpoint[a] >= e
                          \/ status[a] # "running"
                          \/ pending[a].status = "dead_letter"
                          \/ pending[a] # NoDelivery /\ ~ScopedEvent(a, pending[a].event)
                          \/ pending[a] = NoDelivery /\ ~ReplayReady(a)

\* The owner can drain what set_causal_dispatch_policy_for asks to be drained:
\* an adapter behind an open circuit has no intent that only it could dispatch.
SuspendedWorkDrains ==
    \A a \in Adapter, k \in Key :
        circuit[a] # NoCircuit => effects[<<a, k>>].state # "pending"
=============================================================================
