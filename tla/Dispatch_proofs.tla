--------------------------- MODULE Dispatch_proofs --------------------------
(***************************************************************************)
(* Theorems of Dispatch for every value of its constants: type correctness *)
(* first, then the invariant, adapter by adapter, and the safety           *)
(* properties that follow from it.                                         *)
(***************************************************************************)
EXTENDS Dispatch, SequenceTheorems, TLAPS

(***************************************************************************)
(* Type correctness                                                        *)
(***************************************************************************)

\* The tables apart from the journal, in terms of the journal's length n.
Effect(n) == [event : 0..n, state : {"absent", "pending", "unknown", "confirmed", "failed"}]
Pending(n) == [event : 0..n, lease : Lease \cup {NoLease}, attempts : Nat,
               status : {"none", "leased", "retry", "dead_letter"}]

LEMMA ConstantTypes ==
    /\ Page \in Nat \ {0} /\ MaxEvents \in Nat /\ MaxEpoch \in Nat /\ MAX_OUTPUT \in Nat
    /\ MAX_DEPTH \in Nat \ {0} /\ DEFAULT_DEPTH \in 1..MAX_DEPTH
    /\ \A a \in Adapter : /\ Manifest[a].attempts \in Nat \ {0}
                          /\ Manifest[a].outputs \subseteq Line
                          /\ Manifest[a].subscriptions \subseteq Line
  BY DispatchAssumption

LEMMA JournalTypes ==
    ASSUME TypeOK
    PROVE  /\ Len(events) \in 0..MaxEvents /\ Len(events) \in Nat
           /\ \A e \in Events : events[e] \in Event
           /\ \A e \in Events : /\ events[e].depth \in 0..MAX_DEPTH
                                /\ events[e].root \in 1..MaxEvents
                                /\ events[e].revision \in 1..MaxEvents /\ events[e].revision <= e
           /\ RevisionsOf(Events) \subseteq Events
  <1>1. events \in Seq(Event) /\ Len(events) <= MaxEvents
    BY DEF TypeOK
  <1>2. Len(events) \in Nat /\ \A e \in Events : events[e] \in Event
    BY <1>1 DEF Events
  <1>3. \A e \in Events : events[e].revision \in 1..MaxEvents /\ events[e].revision <= e
    BY <1>2 DEF TypeOK, Event
  <1>4. RevisionsOf(Events) \subseteq Events
    BY <1>2, <1>3, ConstantTypes DEF RevisionsOf, Events
  <1> QED  BY <1>1, <1>2, <1>3, <1>4, ConstantTypes DEF Event

LEMMA DeliveryTypes ==
    ASSUME TypeOK, NEW a \in Adapter
    PROVE  /\ pending[a].event \in 0..Len(events) /\ pending[a].attempts \in Nat
           /\ pending[a].attempts <= Manifest[a].attempts
           /\ checkpoint[a] \in 0..Len(events)
           /\ limit[a] \in 1..MAX_DEPTH
           /\ \A l \in Lease : held[a][l] \in 0..Len(events)
  BY DEF TypeOK

THEOREM InitTypeOK == Init => TypeOK
  <1> SUFFICES ASSUME Init PROVE TypeOK
    OBVIOUS
  <1> USE ConstantTypes
  <1>1. events \in Seq(Event) /\ Len(events) = 0 /\ Len(events) <= MaxEvents
    BY DEF Init
  <1>2. policy \in [replay : 0..Len(events), epoch : 0..MaxEpoch]
    BY <1>1 DEF Init
  <1>3. pending \in [Adapter -> Pending(Len(events))]
    BY <1>1 DEF Init, NoDelivery, Pending
  <1>4. \A a \in Adapter : pending[a].attempts <= Manifest[a].attempts
    BY DEF Init, NoDelivery
  <1>5. held \in [Adapter -> [Lease -> 0..Len(events)]]
    BY <1>1 DEF Init
  <1>6. projection \in [Adapter -> [epoch : 0..MaxEpoch, covers : SUBSET Events, bound : BOOLEAN]]
    BY <1>1 DEF Init, NoState
  <1>7. draft \in [Adapter -> [epoch : 0..MaxEpoch, snapshots : SUBSET (1..MaxEvents), read : BOOLEAN]]
    BY <1>1 DEF Init, NoDraft
  <1>8. limit \in [Adapter -> 1..MAX_DEPTH]
    BY DEF Init
  <1>9. circuit \in [Adapter -> [event : 0..Len(events), limit : 0..MAX_DEPTH]]
    BY <1>1 DEF Init, NoCircuit
  <1>10. effects \in [Adapter \X Key -> Effect(Len(events))]
    BY <1>1 DEF Init, NoIntent, Effect
  <1>11. checkpoint \in [Adapter -> 0..Len(events)]
    BY <1>1 DEF Init
  <1>12. /\ private \subseteq Events /\ erased \subseteq Events
         /\ status \in [Adapter -> Lifecycle]
         /\ receipts \subseteq Adapter \X Events /\ cancelled \subseteq Adapter \X Events
         /\ skipped \subseteq Adapter \X Events /\ rebuild \subseteq Adapter
         /\ results \in [Adapter \X (1..MaxEvents) -> SUBSET (1..MaxEvents)]
         /\ \A e \in Events : events[e].revision <= e
    BY <1>1 DEF Init, Lifecycle, Events
  <1> QED
    BY <1>1, <1>2, <1>3, <1>4, <1>5, <1>6, <1>7, <1>8, <1>9, <1>10, <1>11, <1>12
       DEF TypeOK, Pending, Effect

(***************************************************************************)
(* TypeOK, table group by table group                                      *)
(***************************************************************************)

JournalOK ==
    /\ events \in Seq(Event) /\ Len(events) <= MaxEvents
    /\ \A e \in Events : events[e].revision <= e
    /\ private \subseteq Events /\ erased \subseteq Events
    /\ policy \in [replay : 0..Len(events), epoch : 0..MaxEpoch]
PendingOK ==
    /\ pending \in [Adapter -> Pending(Len(events))]
    /\ \A a \in Adapter : pending[a].attempts <= Manifest[a].attempts
    /\ held \in [Adapter -> [Lease -> 0..Len(events)]]
SettledOK ==
    /\ checkpoint \in [Adapter -> 0..Len(events)]
    /\ receipts \subseteq Adapter \X Events
    /\ results \in [Adapter \X (1..MaxEvents) -> SUBSET (1..MaxEvents)]
    /\ cancelled \subseteq Adapter \X Events
    /\ skipped \subseteq Adapter \X Events
RebaseOK ==
    /\ rebuild \subseteq Adapter
    /\ projection \in [Adapter -> [epoch : 0..MaxEpoch, covers : SUBSET Events, bound : BOOLEAN]]
    /\ draft \in [Adapter -> [epoch : 0..MaxEpoch, snapshots : SUBSET (1..MaxEvents), read : BOOLEAN]]
CausalOK ==
    /\ limit \in [Adapter -> 1..MAX_DEPTH]
    /\ circuit \in [Adapter -> [event : 0..Len(events), limit : 0..MAX_DEPTH]]
StatusOK == status \in [Adapter -> Lifecycle]
EffectsOK == effects \in [Adapter \X Key -> Effect(Len(events))]

LEMMA TypeParts ==
    TypeOK <=> /\ JournalOK /\ PendingOK /\ SettledOK /\ RebaseOK /\ CausalOK
               /\ StatusOK /\ EffectsOK
  BY DEF TypeOK, JournalOK, PendingOK, SettledOK, RebaseOK, CausalOK, StatusOK, EffectsOK,
         Pending, Effect

LEMMA TypePartsNext ==
    ASSUME JournalOK', PendingOK', SettledOK', RebaseOK', CausalOK', StatusOK', EffectsOK'
    PROVE  TypeOK'
  BY DEF TypeOK, JournalOK, PendingOK, SettledOK, RebaseOK, CausalOK, StatusOK, EffectsOK,
         Pending, Effect

\* The journal only grows: what named an event before still does.
JournalGrows == Len(events) \in Nat /\ Len(events') \in Nat /\ Len(events) <= Len(events')

LEMMA GrowthKeepsEvents ==
    ASSUME JournalGrows
    PROVE  Events \subseteq Events' /\ 0..Len(events) \subseteq 0..Len(events')
  BY DEF JournalGrows, Events

LEMMA GrowthKeepsPending ==
    ASSUME JournalGrows, PendingOK, UNCHANGED <<pending, held>>
    PROVE  PendingOK'
  <1>1. Pending(Len(events)) \subseteq Pending(Len(events'))
    BY GrowthKeepsEvents DEF Pending
  <1>2. pending' \in [Adapter -> Pending(Len(events'))]
    BY <1>1 DEF PendingOK
  <1>3. held' \in [Adapter -> [Lease -> 0..Len(events')]]
    BY GrowthKeepsEvents DEF PendingOK
  <1> QED  BY <1>2, <1>3 DEF PendingOK, Pending

LEMMA GrowthKeepsSettled ==
    ASSUME JournalGrows, SettledOK, UNCHANGED <<checkpoint, receipts, results, cancelled, skipped>>
    PROVE  SettledOK'
  BY GrowthKeepsEvents DEF SettledOK

LEMMA GrowthKeepsRebase ==
    ASSUME JournalGrows, RebaseOK, UNCHANGED rebase
    PROVE  RebaseOK'
  BY GrowthKeepsEvents DEF RebaseOK, rebase

LEMMA GrowthKeepsCausal ==
    ASSUME JournalGrows, CausalOK, UNCHANGED causal
    PROVE  CausalOK'
  BY GrowthKeepsEvents DEF CausalOK, causal

LEMMA GrowthKeepsEffects ==
    ASSUME JournalGrows, EffectsOK, UNCHANGED effects
    PROVE  EffectsOK'
  <1>1. Effect(Len(events)) \subseteq Effect(Len(events'))
    BY GrowthKeepsEvents DEF Effect
  <1> QED  BY <1>1 DEF EffectsOK

\* A step that leaves the journal alone lets it grow by nothing.
LEMMA JournalKept ==
    ASSUME TypeOK, UNCHANGED journal
    PROVE  /\ JournalOK' /\ JournalGrows
           /\ events' = events /\ private' = private /\ erased' = erased /\ policy' = policy
           /\ Events' = Events
  <1>1. events' = events /\ private' = private /\ erased' = erased /\ policy' = policy
    BY DEF journal
  <1>2. Len(events) \in Nat
    BY JournalTypes
  <1>3. JournalOK
    BY TypeParts
  <1> QED  BY <1>1, <1>2, <1>3 DEF JournalOK, JournalGrows, Events


LEMMA AppendTypes ==
    ASSUME TypeOK, NEW event \in Event, event.revision <= Len(events) + 1,
           Len(events) < MaxEvents,
           events' = Append(events, event), UNCHANGED <<private, erased, policy>>
    PROVE  JournalOK' /\ JournalGrows
  <1>1. JournalOK /\ Len(events) \in Nat
    BY TypeParts, JournalTypes
  <1>2. events' \in Seq(Event) /\ Len(events') = Len(events) + 1
    BY <1>1, AppendProperties DEF JournalOK
  <1>3. JournalGrows
    BY <1>1, <1>2 DEF JournalGrows
  <1>4. Len(events') <= MaxEvents
    BY <1>1, <1>2, ConstantTypes
  <1>5. \A e \in Events' : events'[e].revision <= e
    <2>1. \A e \in Events' : e \in Events \/ e = Len(events) + 1
      BY <1>1, <1>2 DEF Events
    <2>2. events'[Len(events) + 1] = event /\ \A e \in Events : events'[e] = events[e]
      BY <1>1, AppendProperties DEF JournalOK, Events
    <2> QED  BY <1>1, <2>1, <2>2 DEF JournalOK
  <1> QED  BY <1>1, <1>2, <1>3, <1>4, <1>5, GrowthKeepsEvents DEF JournalOK

\* A root event announces a revision of its own, or one announced before.
LEMMA AnnounceTypes ==
    ASSUME TypeOK, NEW l \in Line, NEW r \in 1..(Len(events) + 1), Announce(l, r)
    PROVE  TypeOK'
  <1>1. RootEvent(l, r) \in Event /\ RootEvent(l, r).revision = r
    <2>1. Len(events) + 1 \in 1..MaxEvents /\ r \in 1..MaxEvents
      BY JournalTypes, ConstantTypes DEF Announce
    <2> QED  BY <2>1, ConstantTypes DEF RootEvent, Event
  <1>2. JournalOK' /\ JournalGrows
    BY <1>1, AppendTypes, JournalTypes DEF Announce
  <1> QED
    BY <1>2, TypeParts, TypePartsNext, GrowthKeepsPending, GrowthKeepsSettled, GrowthKeepsRebase,
       GrowthKeepsCausal, GrowthKeepsEffects
       DEF Announce, delivery, StatusOK

\* What the principal writes: a new revision, or an earlier one that is not erased.
LEMMA WritesAnnounce ==
    ASSUME TypeOK, NEW l \in Line,
           Commit(l) \/ \E r \in RevisionsOf(Events) : Accept(l, r)
    PROVE  \E r \in 1..(Len(events) + 1) : Announce(l, r) /\ r \notin erased
  <1>1. Len(events) \in Nat /\ RevisionsOf(Events) \subseteq Events /\ erased \subseteq Events
    BY JournalTypes DEF TypeOK
  <1>2. CASE Commit(l)
    BY <1>1, <1>2 DEF Commit, Events
  <1>3. CASE \E r \in RevisionsOf(Events) : Accept(l, r)
    BY <1>1, <1>3 DEF Accept, Events
  <1> QED  BY <1>2, <1>3

\* Steps of the store that leave every table of the dispatcher alone.
LEMMA OutsideTypes ==
    ASSUME TypeOK, UNCHANGED <<events, delivery, rebase, causal, effects>>, JournalOK'
    PROVE  TypeOK'
  <1>1. JournalGrows
    <2>1. Len(events) \in Nat
      BY JournalTypes
    <2> QED  BY <2>1 DEF JournalGrows
  <1> QED
    BY <1>1, TypeParts, TypePartsNext, GrowthKeepsPending, GrowthKeepsSettled,
       GrowthKeepsRebase, GrowthKeepsCausal, GrowthKeepsEffects
       DEF delivery, StatusOK

LEMMA ChangeReadersTypes ==
    ASSUME TypeOK, NEW r \in RevisionsOf(Events), ChangeReaders(r)
    PROVE  TypeOK'
  <1>1. JournalOK'
    BY TypeParts, JournalTypes DEF ChangeReaders, JournalOK, Events
  <1> QED  BY <1>1, OutsideTypes DEF ChangeReaders

LEMMA CompactTypes ==
    ASSUME TypeOK, NEW replay \in 0..Len(events), NEW changed \in BOOLEAN,
           NEW gone \in SUBSET RevisionsOf(Events), Compact(replay, changed, gone)
    PROVE  TypeOK'
  <1>1. policy' \in [replay : 0..Len(events), epoch : 0..MaxEpoch]
    <2>1. policy.epoch \in 0..MaxEpoch
      BY TypeParts DEF JournalOK
    <2>2. policy.epoch + (IF changed THEN 1 ELSE 0) \in 0..MaxEpoch
      BY <2>1, ConstantTypes DEF Compact
    <2> QED  BY <2>2 DEF Compact
  <1>2. JournalOK'
    BY <1>1, TypeParts, JournalTypes DEF Compact, JournalOK, Events
  <1> QED  BY <1>2, OutsideTypes DEF Compact

(***************************************************************************)
(* Lifecycle and polling                                                   *)
(***************************************************************************)

LEMMA LifecycleTypes ==
    ASSUME TypeOK, NEW a \in Adapter,
           \/ Install(a)
           \/ \E s \in {"running", "paused", "draining", "removed"} : SetAdapterState(a, s)
           \/ \E d \in 1..MAX_DEPTH : SetCausalPolicy(a, d)
    PROVE  TypeOK'
  <1>1. UNCHANGED <<journal, checkpoint, pending, held, receipts, results, cancelled, skipped,
                    rebase, effects>>
    BY DEF Install, SetAdapterState, SetCausalPolicy, delivery
  <1>2. /\ JournalOK' /\ PendingOK' /\ SettledOK' /\ RebaseOK' /\ EffectsOK'
    BY <1>1, JournalKept, TypeParts, GrowthKeepsPending, GrowthKeepsSettled,
       GrowthKeepsRebase, GrowthKeepsEffects
  <1>3. JournalGrows /\ CausalOK /\ StatusOK
    BY <1>1, JournalKept, TypeParts
  <1>4. CASE Install(a)
    <2>1. StatusOK'
      BY <1>3, <1>4 DEF Install, StatusOK, Lifecycle
    <2> QED  BY <1>2, <1>3, <1>4, <2>1, GrowthKeepsCausal, TypePartsNext DEF Install
  <1>5. CASE \E s \in {"running", "paused", "draining", "removed"} : SetAdapterState(a, s)
    <2>1. StatusOK'
      BY <1>3, <1>5 DEF SetAdapterState, StatusOK, Lifecycle
    <2> QED  BY <1>2, <1>3, <1>5, <2>1, GrowthKeepsCausal, TypePartsNext DEF SetAdapterState
  <1>6. CASE \E d \in 1..MAX_DEPTH : SetCausalPolicy(a, d)
    <2>1. limit' \in [Adapter -> 1..MAX_DEPTH]
      BY <1>3, <1>6 DEF SetCausalPolicy, CausalOK
    <2>2. NoCircuit \in [event : 0..Len(events'), limit : 0..MAX_DEPTH]
      BY <1>3, ConstantTypes DEF NoCircuit, JournalGrows
    <2>3. circuit' \in [Adapter -> [event : 0..Len(events'), limit : 0..MAX_DEPTH]]
      <3>1. events' = events
        BY <1>1, JournalKept
      <3> QED  BY <1>3, <1>6, <2>2, <3>1 DEF SetCausalPolicy, CausalOK
    <2>4. StatusOK'
      BY <1>3, <1>6 DEF SetCausalPolicy, delivery, StatusOK
    <2> QED  BY <1>2, <2>1, <2>3, <2>4, TypePartsNext DEF CausalOK
  <1> QED  BY <1>4, <1>5, <1>6

\* What a poll that found an event leaves behind: a lease, or an open circuit.
LEMMA DeliverTypes ==
    ASSUME TypeOK, NEW a \in Adapter, NEW e \in 0..Len(events), NEW attempts \in Nat,
           attempts <= Manifest[a].attempts, Deliver(a, e, attempts),
           UNCHANGED <<journal, limit>>
    PROVE  PendingOK' /\ CausalOK' /\ StatusOK'
  <1>1. PendingOK /\ CausalOK /\ StatusOK /\ Len(events) \in Nat
    BY TypeParts, JournalTypes
  <1>2. events' = events /\ limit' = limit /\ JournalGrows
    BY JournalKept
  <1>3. CASE Grant(a, e, attempts)
    <2>1. PICK l \in Lease :
             /\ pending' = [pending EXCEPT ![a] = [event |-> e, lease |-> l,
                                                  attempts |-> attempts, status |-> "leased"]]
             /\ held' = [held EXCEPT ![a][l] = e]
      BY <1>3 DEF Grant
    <2>2. [event |-> e, lease |-> l, attempts |-> attempts, status |-> "leased"] \in Pending(Len(events))
      BY DEF Pending
    <2>3. pending' \in [Adapter -> Pending(Len(events))]
      BY <1>1, <2>1, <2>2 DEF PendingOK
    <2>4. \A x \in Adapter : pending'[x].attempts <= Manifest[x].attempts
      BY <1>1, <2>1 DEF PendingOK
    <2>5. held' \in [Adapter -> [Lease -> 0..Len(events)]]
      BY <1>1, <2>1 DEF PendingOK
    <2>6. PendingOK'
      BY <1>2, <2>3, <2>4, <2>5 DEF PendingOK, Pending
    <2> QED  BY <1>1, <1>2, <1>3, <2>6, GrowthKeepsCausal DEF Grant, StatusOK, causal
  <1>4. CASE Suspend(a, e)
    <2>1. PendingOK'
      BY <1>1, <1>2, <1>4, GrowthKeepsPending DEF Suspend
    <2>2. StatusOK'
      BY <1>1, <1>4 DEF Suspend, StatusOK, Lifecycle
    <2>3. [event |-> e, limit |-> limit[a]] \in [event : 0..Len(events), limit : 0..MAX_DEPTH]
      BY <1>1, ConstantTypes DEF CausalOK
    <2>4. circuit' \in [Adapter -> [event : 0..Len(events), limit : 0..MAX_DEPTH]]
      BY <1>1, <1>4, <2>3 DEF Suspend, CausalOK
    <2>5. CausalOK'
      BY <1>1, <1>2, <2>4 DEF CausalOK
    <2> QED  BY <2>1, <2>2, <2>5
  <1> QED  BY <1>3, <1>4 DEF Deliver


\* Changing the status of a delivery, and its attempts to fewer, keeps its type.
LEMMA RestatusTypes ==
    ASSUME TypeOK, UNCHANGED <<journal, held>>, NEW a \in Adapter, NEW attempts \in Nat,
           attempts <= Manifest[a].attempts, NEW state \in {"leased", "retry", "dead_letter"},
           pending' = [pending EXCEPT ![a].status = state, ![a].attempts = attempts]
    PROVE  PendingOK'
  <1>1. PendingOK /\ events' = events
    BY TypeParts, JournalKept
  <1>2. pending' \in [Adapter -> Pending(Len(events))]
    <2>1. pending[a] \in Pending(Len(events)) /\ pending \in [Adapter -> Pending(Len(events))]
      BY <1>1 DEF PendingOK
    <2>2. [pending[a] EXCEPT !.status = state, !.attempts = attempts] \in Pending(Len(events))
      BY <2>1 DEF Pending
    <2> QED  BY <2>1, <2>2
  <1>3. \A x \in Adapter : pending'[x].attempts <= Manifest[x].attempts
    BY <1>1 DEF PendingOK, Pending
  <1> QED  BY <1>1, <1>2, <1>3 DEF PendingOK, Pending

LEMMA SameAttempts ==
    ASSUME TypeOK, NEW a \in Adapter, NEW state,
           pending' = [pending EXCEPT ![a].status = state]
    PROVE  pending' = [pending EXCEPT ![a].status = state, ![a].attempts = pending[a].attempts]
  <1>1. pending \in [Adapter -> Pending(Len(events))]
    BY TypeParts DEF PendingOK
  <1> QED  BY <1>1 DEF Pending

LEMMA PollPendingTypes ==
    ASSUME TypeOK, NEW a \in Adapter, PollPending(a)
    PROVE  TypeOK'
  <1>1. UNCHANGED <<journal, checkpoint, receipts, results, cancelled, skipped, rebase, limit, effects>>
    BY DEF PollPending
  <1>2. /\ JournalOK' /\ SettledOK' /\ RebaseOK' /\ EffectsOK' /\ JournalGrows
    BY <1>1, JournalKept, TypeParts, GrowthKeepsSettled, GrowthKeepsRebase, GrowthKeepsEffects
  <1>3. /\ pending[a].event \in 0..Len(events) /\ pending[a].attempts \in Nat
        /\ pending[a].attempts <= Manifest[a].attempts /\ Manifest[a].attempts \in Nat
    BY DeliveryTypes, ConstantTypes
  <1>4. CASE pending' = [pending EXCEPT ![a].status = "dead_letter"] /\ UNCHANGED <<status, held, circuit>>
    <2>1. PendingOK'
      <3>1. PICK n \in Nat : n = pending[a].attempts
        BY <1>3
      <3>2. pending' = [pending EXCEPT ![a].status = "dead_letter", ![a].attempts = n]
        BY <1>4, <3>1, SameAttempts
      <3>3. n <= Manifest[a].attempts /\ UNCHANGED <<journal, held>>
        BY <1>1, <1>3, <1>4, <3>1
      <3> QED  BY <3>2, <3>3, RestatusTypes
    <2>2. StatusOK' /\ CausalOK'
      BY <1>1, <1>2, <1>4, TypeParts, GrowthKeepsCausal DEF StatusOK, causal
    <2> QED  BY <1>2, <2>1, <2>2, TypePartsNext
  <1>5. CASE ~Exhausted(a) /\ Deliver(a, pending[a].event, NextAttempt(a))
    <2>1. PICK e \in 0..Len(events) : e = pending[a].event
      BY <1>3
    <2>2. PICK n \in Nat : n = pending[a].attempts + 1
      BY <1>3
    <2>3. n <= Manifest[a].attempts
      BY <1>3, <1>5, <2>2 DEF Exhausted
    <2>4. Deliver(a, e, n)
      BY <1>5, <2>1, <2>2 DEF NextAttempt, Deliver, Grant, Suspend, CausalWork
    <2>5. PendingOK' /\ CausalOK' /\ StatusOK'
      BY <1>1, <2>3, <2>4, DeliverTypes
    <2> QED  BY <1>2, <2>5, TypePartsNext
  <1> QED  BY <1>4, <1>5 DEF PollPending

LEMMA ScanTypes ==
    ASSUME TypeOK, NEW a \in Adapter
    PROVE  /\ ScanEnd(a) \in 0..Len(events)
           /\ \A stop \in checkpoint[a]..ScanEnd(a) :
                 /\ stop \in 0..Len(events)
                 /\ stop < ScanEnd(a) => stop + 1 \in Events /\ stop + 1 \in 0..Len(events)
                 /\ (checkpoint[a] + 1)..stop \subseteq Events
  <1>1. checkpoint[a] \in 0..Len(events) /\ Len(events) \in Nat /\ Page \in Nat
    BY DeliveryTypes, JournalTypes, ConstantTypes
  <1>2. ScanEnd(a) \in 0..Len(events)
    BY <1>1 DEF ScanEnd
  <1> QED  BY <1>1, <1>2 DEF Events

LEMMA PollNextTypes ==
    ASSUME TypeOK, NEW a \in Adapter, PollNext(a)
    PROVE  TypeOK'
  <1> DEFINE Passed(stop) == {<<a, e>> : e \in {f \in (checkpoint[a] + 1)..stop :
                               Subscribed(a, f) /\ events[f].revision \in private \ erased}}
  <1>1. PICK stop \in checkpoint[a]..ScanEnd(a) :
           IF Cardinality(Backlog(a)) > Manifest[a].backlog
           THEN /\ status' = [status EXCEPT ![a] = "paused"]
                /\ UNCHANGED <<checkpoint, skipped, pending, held, circuit>>
           ELSE /\ checkpoint' = [checkpoint EXCEPT ![a] = stop]
                /\ skipped' = skipped \cup Passed(stop)
                /\ IF Found(a, stop) THEN Deliver(a, stop + 1, 1)
                                    ELSE UNCHANGED <<status, pending, held, circuit>>
    BY DEF PollNext
  <1>2. UNCHANGED <<journal, receipts, results, cancelled, rebase, limit, effects>>
    BY DEF PollNext
  <1>3. /\ JournalOK' /\ RebaseOK' /\ EffectsOK' /\ JournalGrows
        /\ events' = events /\ Events' = Events
    BY <1>2, JournalKept, TypeParts, GrowthKeepsRebase, GrowthKeepsEffects
  <1>4. PendingOK /\ SettledOK /\ CausalOK /\ StatusOK
    BY TypeParts
  <1>5. CASE Cardinality(Backlog(a)) > Manifest[a].backlog
    <2>1. StatusOK'
      BY <1>1, <1>4, <1>5 DEF StatusOK, Lifecycle
    <2>2. PendingOK' /\ SettledOK' /\ CausalOK'
      BY <1>1, <1>2, <1>3, <1>4, <1>5, GrowthKeepsPending, GrowthKeepsSettled, GrowthKeepsCausal
         DEF causal
    <2> QED  BY <1>3, <2>1, <2>2, TypePartsNext
  <1>6. CASE ~(Cardinality(Backlog(a)) > Manifest[a].backlog)
    <2>1. SettledOK'
      <3>1. checkpoint' \in [Adapter -> 0..Len(events)]
        BY <1>1, <1>4, <1>6, ScanTypes DEF SettledOK
      <3>2. Passed(stop) \subseteq Adapter \X Events
        BY ScanTypes
      <3>3. skipped' \subseteq Adapter \X Events
        BY <1>1, <1>4, <1>6, <3>2 DEF SettledOK
      <3> QED  BY <1>2, <1>3, <1>4, <3>1, <3>3 DEF SettledOK
    <2>2. CASE Found(a, stop)
      <3>1. PICK e \in 0..Len(events) : e = stop + 1
        BY <2>2, ScanTypes DEF Found
      <3>2. Deliver(a, e, 1)
        BY <1>1, <1>6, <2>2, <3>1
      <3>3. 1 <= Manifest[a].attempts
        BY ConstantTypes
      <3>4. PendingOK' /\ CausalOK' /\ StatusOK'
        BY <1>2, <3>2, <3>3, DeliverTypes
      <3> QED  BY <1>3, <2>1, <3>4, TypePartsNext
    <2>3. CASE ~Found(a, stop)
      <3>1. UNCHANGED <<status, pending, held, circuit, limit>>
        BY <1>1, <1>2, <1>6, <2>3
      <3>2. PendingOK' /\ CausalOK' /\ StatusOK'
        BY <1>3, <1>4, <3>1, GrowthKeepsPending, GrowthKeepsCausal DEF StatusOK, causal
      <3> QED  BY <1>3, <2>1, <3>2, TypePartsNext
    <2> QED  BY <2>2, <2>3
  <1> QED  BY <1>5, <1>6


(***************************************************************************)
(* Settling                                                                *)
(***************************************************************************)

LEMMA OutputSequence ==
    ASSUME NEW a \in Adapter, NEW output \in Outputs(a)
    PROVE  /\ Len(output) \in Nat
           /\ \A i \in 1..Len(output) : output[i] \in Manifest[a].outputs
  <1>1. PICK n \in 0..MAX_OUTPUT : output \in [1..n -> Manifest[a].outputs]
    BY DEF Outputs
  <1>2. n \in Nat
    BY <1>1, ConstantTypes
  <1>3. Len(output) = n
    BY <1>1, <1>2
  <1> QED  BY <1>1, <1>2, <1>3

\* The journal after a handler's output: what it was, and the new events at its end.
LEMMA OutputAppended ==
    ASSUME TypeOK, NEW a \in Adapter, NEW e \in Events, NEW output \in Outputs(a),
           CausalWork(a, e), Len(events) + Len(output) <= MaxEvents,
           events' = WithOutput(a, e, output)
    PROVE  /\ events' \in Seq(Event) /\ Len(events') = Len(events) + Len(output)
           /\ Len(output) \in Nat /\ Len(events) \in Nat
           /\ \A i \in Events : events'[i] = events[i]
           /\ \A i \in OutputEvents(output) :
                 /\ i \in 1..MaxEvents /\ i \notin Events
                 /\ \E l \in Manifest[a].outputs : events'[i] = HandlerEvent(a, e, l, i)
           /\ Events' = Events \cup OutputEvents(output)
  <1> DEFINE m == Len(events)
             n == Len(output)
             new == [i \in 1..n |-> HandlerEvent(a, e, output[i], m + i)]
  <1>1. /\ m \in Nat /\ n \in Nat /\ m + n <= MaxEvents /\ events \in Seq(Event)
        /\ \A i \in 1..n : output[i] \in Manifest[a].outputs
    BY OutputSequence, JournalTypes DEF TypeOK
  <1>2. \A i \in 1..n : HandlerEvent(a, e, output[i], m + i) \in Event
    <2>1. e \in 0..MaxEvents /\ events[e].root \in 1..MaxEvents /\ events[e].depth \in 0..MAX_DEPTH
      BY JournalTypes, ConstantTypes DEF Events
    <2>2. events[e].depth + 1 \in 0..MAX_DEPTH
      <3>1. limit[a] \in 1..MAX_DEPTH
        BY DeliveryTypes
      <3> QED  BY <2>1, <3>1, ConstantTypes DEF CausalWork
    <2>3. \A i \in 1..n : m + i \in 1..MaxEvents
      BY <1>1, ConstantTypes
    <2>4. Manifest[a].outputs \subseteq Line
      BY ConstantTypes
    <2> QED  BY <1>1, <2>1, <2>2, <2>3, <2>4 DEF HandlerEvent, Event
  <1>3. new \in Seq(Event) /\ Len(new) = n /\ \A i \in 1..n : new[i] = HandlerEvent(a, e, output[i], m + i)
    BY <1>1, <1>2
  <1>4. events' = events \o new
    BY DEF WithOutput
  <1> HIDE DEF new
  <1>5. /\ events' \in Seq(Event) /\ Len(events') = m + n
        /\ \A i \in 1..(m + n) : events'[i] = IF i <= m THEN events[i] ELSE new[i - m]
    <2> HIDE DEF n, Event
    <2>1. /\ events \o new \in Seq(Event)
          /\ Len(events \o new) = Len(events) + Len(new)
          /\ \A i \in 1..(Len(events) + Len(new)) :
                (events \o new)[i] = IF i <= Len(events) THEN events[i] ELSE new[i - Len(events)]
      BY <1>1, <1>3, ConcatProperties
    <2> QED  BY <1>3, <1>4, <2>1
  <1>6. \A i \in Events : events'[i] = events[i]
    <2>1. \A i \in 1..m : i \in 1..(m + n) /\ i <= m
      BY <1>1
    <2> QED  BY <1>5, <2>1 DEF Events
  <1>7. \A i \in OutputEvents(output) :
           /\ i \in 1..MaxEvents /\ i \notin Events
           /\ \E l \in Manifest[a].outputs : events'[i] = HandlerEvent(a, e, l, i)
    <2> SUFFICES ASSUME NEW i \in (m + 1)..(m + n)
                 PROVE  /\ i \in 1..MaxEvents /\ i \notin Events
                        /\ \E l \in Manifest[a].outputs : events'[i] = HandlerEvent(a, e, l, i)
      BY DEF OutputEvents
    <2>1. i - m \in 1..n /\ m + (i - m) = i /\ i \in 1..(m + n) /\ ~(i <= m)
      BY <1>1
    <2>2. events'[i] = HandlerEvent(a, e, output[i - m], i)
      <3>1. events'[i] = new[i - m]
        BY <1>5, <2>1
      <3>2. new[i - m] = HandlerEvent(a, e, output[i - m], m + (i - m))
        BY <1>3, <2>1
      <3> QED  BY <2>1, <3>1, <3>2
    <2>3. i \in 1..MaxEvents /\ i \notin Events
      BY <1>1, <2>1, ConstantTypes DEF Events
    <2> QED  BY <1>1, <2>1, <2>2, <2>3
  <1>8. Events' = Events \cup OutputEvents(output)
    BY <1>1, <1>5 DEF Events, OutputEvents
  <1> QED  BY <1>1, <1>5, <1>6, <1>7, <1>8

LEMMA HandlerFields ==
    ASSUME NEW a, NEW e, NEW l, NEW i, NEW event, event = HandlerEvent(a, e, l, i)
    PROVE  /\ event.line = l /\ event.revision = i /\ event.parent = e /\ event.by = a
           /\ event.root = events[e].root /\ event.depth = events[e].depth + 1
  BY DEF HandlerEvent

LEMMA OutputTypes ==
    ASSUME TypeOK, NEW a \in Adapter, NEW e \in Events, NEW output \in Outputs(a),
           CausalWork(a, e), Len(events) + Len(output) <= MaxEvents,
           events' = WithOutput(a, e, output), UNCHANGED <<private, erased, policy>>
    PROVE  JournalOK' /\ JournalGrows
  <1>1. /\ events' \in Seq(Event) /\ Len(events') = Len(events) + Len(output)
        /\ Len(output) \in Nat /\ Len(events) \in Nat
        /\ \A i \in Events : events'[i] = events[i]
        /\ \A i \in OutputEvents(output) :
              i \in 1..MaxEvents /\ \E l \in Manifest[a].outputs : events'[i] = HandlerEvent(a, e, l, i)
        /\ Events' = Events \cup OutputEvents(output)
    BY OutputAppended
  <1>2. JournalGrows /\ Len(events') <= MaxEvents
    BY <1>1 DEF JournalGrows
  <1>3. JournalOK
    BY TypeParts
  <1>4. \A i \in Events' : events'[i].revision <= i
    <2>1. \A i \in Events : events'[i].revision <= i
      BY <1>1, <1>3 DEF JournalOK
    <2>2. \A i \in OutputEvents(output) : events'[i].revision = i /\ i \in Nat
      BY <1>1, ConstantTypes, HandlerFields
    <2> QED  BY <1>1, <2>1, <2>2
  <1> QED  BY <1>1, <1>2, <1>3, <1>4, GrowthKeepsEvents DEF JournalOK

LEMMA NoDeliveryTypes ==
    ASSUME TypeOK, JournalGrows, NEW a \in Adapter,
           pending' = [pending EXCEPT ![a] = NoDelivery], held' = held
    PROVE  PendingOK'
  <1>1. NoDelivery \in Pending(Len(events')) /\ NoDelivery.attempts = 0
    BY DEF NoDelivery, Pending, JournalGrows
  <1>2. Pending(Len(events)) \subseteq Pending(Len(events'))
    BY GrowthKeepsEvents DEF Pending
  <1>3. pending \in [Adapter -> Pending(Len(events))] /\ held \in [Adapter -> [Lease -> 0..Len(events)]]
        /\ \A x \in Adapter : pending[x].attempts <= Manifest[x].attempts
    BY TypeParts DEF PendingOK
  <1>4. pending' \in [Adapter -> Pending(Len(events'))]
    BY <1>1, <1>2, <1>3
  <1>5. \A x \in Adapter : pending'[x].attempts <= Manifest[x].attempts
    BY <1>1, <1>3, ConstantTypes
  <1>6. held' \in [Adapter -> [Lease -> 0..Len(events')]]
    BY <1>3, GrowthKeepsEvents
  <1> QED  BY <1>4, <1>5, <1>6 DEF PendingOK, Pending

LEMMA CompleteTypes ==
    ASSUME TypeOK, NEW a \in Adapter, NEW l \in Lease, NEW output \in Outputs(a),
           Complete(a, l, output)
    PROVE  TypeOK'
  <1>1. PICK e : e = held[a][l]
    OBVIOUS
  <1>2. /\ ScopedEvent(a, e) /\ CausalWork(a, e) /\ Len(events) + Len(output) <= MaxEvents
        /\ events' = WithOutput(a, e, output)
        /\ receipts' = receipts \cup {<<a, e>>}
        /\ results' = [results EXCEPT ![<<a, e>>] = OutputEvents(output)]
        /\ checkpoint' = CheckpointAt(a, e)
        /\ projection' = Folded(a, e)
        /\ pending' = [pending EXCEPT ![a] = NoDelivery]
        /\ UNCHANGED <<private, erased, policy, status, held, cancelled, skipped,
                       rebuild, draft, causal, effects>>
    BY <1>1 DEF Complete
  <1>3. e \in Events
    BY <1>2 DEF ScopedEvent
  <1>4. JournalOK' /\ JournalGrows
    BY <1>2, <1>3, OutputTypes
  <1>5. e \in Events' /\ e \in 0..Len(events')
    <2>1. e \in Events'
      BY <1>3, <1>4, GrowthKeepsEvents
    <2> QED  BY <2>1 DEF Events
  <1>6. SettledOK /\ RebaseOK
    BY TypeParts
  <1>7. SettledOK'
    <2>1. checkpoint' \in [Adapter -> 0..Len(events')]
      BY <1>2, <1>4, <1>5, <1>6, GrowthKeepsEvents DEF SettledOK, CheckpointAt
    <2>2. receipts' \subseteq Adapter \X Events'
      BY <1>2, <1>4, <1>5, <1>6, GrowthKeepsEvents DEF SettledOK
    <2>3. OutputEvents(output) \subseteq 1..MaxEvents
      BY <1>2, <1>3, OutputAppended
    <2>4. results' \in [Adapter \X (1..MaxEvents) -> SUBSET (1..MaxEvents)]
      BY <1>2, <1>6, <2>3 DEF SettledOK
    <2> QED  BY <1>2, <1>4, <1>6, <2>1, <2>2, <2>4, GrowthKeepsEvents DEF SettledOK
  <1>8. RebaseOK'
    <2>1. projection' \in [Adapter -> [epoch : 0..MaxEpoch, covers : SUBSET Events', bound : BOOLEAN]]
      BY <1>2, <1>4, <1>5, <1>6, GrowthKeepsEvents DEF RebaseOK, Folded
    <2>2. draft \in [Adapter -> [epoch : 0..MaxEpoch, snapshots : SUBSET (1..MaxEvents), read : BOOLEAN]]
      BY <1>4, <1>6, GrowthKeepsEvents DEF RebaseOK
    <2> QED  BY <1>2, <1>6, <2>1, <2>2 DEF RebaseOK
  <1>9. PendingOK'
    BY <1>2, <1>4, NoDeliveryTypes
  <1>10. CausalOK' /\ EffectsOK' /\ StatusOK'
    BY <1>2, <1>4, TypeParts, GrowthKeepsCausal, GrowthKeepsEffects DEF StatusOK
  <1> QED  BY <1>4, <1>7, <1>8, <1>9, <1>10, TypePartsNext

LEMMA FailTypes ==
    ASSUME TypeOK, NEW a \in Adapter,
           (\E l \in Lease : FailHandler(a, l)) \/ ReplayDeadLetter(a)
    PROVE  TypeOK'
  <1>1. UNCHANGED <<journal, status, checkpoint, held, receipts, results, cancelled, skipped,
                    rebase, causal, effects>>
    BY DEF FailHandler, ReplayDeadLetter
  <1>2. /\ pending[a].attempts \in Nat /\ pending[a].attempts <= Manifest[a].attempts
        /\ 0 <= Manifest[a].attempts
    BY DeliveryTypes, ConstantTypes
  <1>3. PendingOK'
    <2>1. CASE \E l \in Lease : FailHandler(a, l)
      <3>1. PICK state \in {"leased", "retry", "dead_letter"} :
               pending' = [pending EXCEPT ![a].status = state]
        BY <2>1 DEF FailHandler
      <3>2. PICK n \in Nat : n = pending[a].attempts
        BY <1>2
      <3>3. pending' = [pending EXCEPT ![a].status = state, ![a].attempts = n]
        BY <3>1, <3>2, SameAttempts
      <3> QED  BY <1>1, <1>2, <3>2, <3>3, RestatusTypes
    <2>2. CASE ReplayDeadLetter(a)
      <3>1. pending' = [pending EXCEPT ![a].status = "retry", ![a].attempts = 0]
        BY <2>2 DEF ReplayDeadLetter
      <3> QED  BY <1>1, <1>2, <3>1, RestatusTypes
    <2> QED  BY <2>1, <2>2
  <1>4. /\ JournalOK' /\ SettledOK' /\ RebaseOK' /\ CausalOK' /\ EffectsOK' /\ StatusOK'
    BY <1>1, JournalKept, TypeParts, GrowthKeepsSettled, GrowthKeepsRebase, GrowthKeepsCausal,
       GrowthKeepsEffects DEF StatusOK
  <1> QED  BY <1>3, <1>4, TypePartsNext

\* What holds of the delivery in flight: it is the next event behind the checkpoint,
\* leased, in scope, kept by compaction, and the adapter may still cause work.
InFlightAt(a) ==
    pending[a] # NoDelivery =>
        /\ pending[a].event \in Events /\ pending[a].event = checkpoint[a] + 1
        /\ events[pending[a].event].revision \notin erased /\ Subscribed(a, pending[a].event)
        /\ CausalWork(a, pending[a].event)
        /\ status[a] \notin {"absent", "installed", "removed"}

InFlight == \A a \in Adapter : InFlightAt(a)

LEMMA LeasedIsInFlight ==
    ASSUME NEW a \in Adapter, pending[a].lease \in Lease
    PROVE  pending[a] # NoDelivery
  BY DispatchAssumption DEF NoDelivery

LEMMA CancelTypes ==
    ASSUME TypeOK, InFlight, NEW a \in Adapter, NEW l \in Lease, CancelDelivery(a, l)
    PROVE  TypeOK'
  <1>1. PICK e : e = held[a][l]
    OBVIOUS
  <1>2. /\ pending[a].event = e /\ pending[a].lease = l
        /\ cancelled' = cancelled \cup {<<a, e>>}
        /\ checkpoint' = CheckpointAt(a, IF e > checkpoint[a] THEN e ELSE checkpoint[a])
        /\ rebuild' = IF projection[a].bound THEN rebuild \cup {a} ELSE rebuild
        /\ pending' = [pending EXCEPT ![a] = NoDelivery]
        /\ UNCHANGED <<journal, status, held, receipts, results, skipped, projection, draft,
                       causal, effects>>
    BY <1>1 DEF CancelDelivery
  <1>3. e \in Events /\ e \in 0..Len(events)
    <2>1. e \in Events
      BY <1>2, LeasedIsInFlight DEF InFlight, InFlightAt
    <2> QED  BY <2>1 DEF Events
  <1>4. SettledOK /\ RebaseOK /\ events' = events /\ Events' = Events /\ JournalOK' /\ JournalGrows
    BY <1>2, TypeParts, JournalKept
  <1>5. SettledOK'
    <2>1. checkpoint' \in [Adapter -> 0..Len(events')]
      BY <1>2, <1>3, <1>4 DEF SettledOK, CheckpointAt
    <2> QED  BY <1>2, <1>3, <1>4, <2>1 DEF SettledOK
  <1>6. RebaseOK'
    BY <1>2, <1>4 DEF RebaseOK
  <1>7. PendingOK'
    BY <1>2, <1>4, NoDeliveryTypes
  <1>8. CausalOK' /\ EffectsOK' /\ StatusOK'
    BY <1>2, <1>4, TypeParts, GrowthKeepsCausal, GrowthKeepsEffects DEF StatusOK
  <1> QED  BY <1>4, <1>5, <1>6, <1>7, <1>8, TypePartsNext

(***************************************************************************)
(* Rebuilding and effects                                                  *)
(***************************************************************************)

LEMMA RebaseTypes ==
    ASSUME TypeOK, NEW a \in Adapter, ReadInputs(a) \/ Rebase(a)
    PROVE  TypeOK'
  <1>1. UNCHANGED <<journal, status, pending, held, receipts, results, cancelled, skipped, causal, effects>>
    BY DEF ReadInputs, Rebase, delivery
  <1>2. /\ JournalOK' /\ PendingOK' /\ CausalOK' /\ EffectsOK' /\ StatusOK' /\ JournalGrows
        /\ events' = events /\ Events' = Events
    BY <1>1, JournalKept, TypeParts, GrowthKeepsPending, GrowthKeepsCausal, GrowthKeepsEffects
       DEF StatusOK
  <1>3. SettledOK /\ RebaseOK /\ policy.epoch \in 0..MaxEpoch /\ Len(events) \in Nat
    BY TypeParts, JournalTypes DEF JournalOK
  <1>4. CASE ReadInputs(a)
    <2>1. [epoch |-> policy.epoch, snapshots |-> Inputs(a), read |-> TRUE] \in
             [epoch : 0..MaxEpoch, snapshots : SUBSET (1..MaxEvents), read : BOOLEAN]
      BY <1>3, JournalTypes DEF Inputs, InputTips, Tips, RevisionsOf
    <2>2. RebaseOK'
      BY <1>2, <1>3, <1>4, <2>1 DEF ReadInputs, RebaseOK
    <2>3. SettledOK'
      BY <1>2, <1>3, <1>4, GrowthKeepsSettled DEF ReadInputs, delivery
    <2> QED  BY <1>2, <2>2, <2>3, TypePartsNext
  <1>5. CASE Rebase(a)
    <2>1. draft[a].epoch \in 0..MaxEpoch
      BY <1>3 DEF RebaseOK
    <2>2. [epoch |-> draft[a].epoch, covers |-> Covered(a, draft[a].snapshots), bound |-> TRUE] \in
             [epoch : 0..MaxEpoch, covers : SUBSET Events, bound : BOOLEAN]
      BY <2>1 DEF Covered
    <2>3. RebaseOK'
      BY <1>2, <1>3, <1>5, <2>2 DEF Rebase, RebaseOK
    <2>4. checkpoint' \in [Adapter -> 0..Len(events)]
      BY <1>3, <1>5 DEF Rebase, SettledOK
    <2>5. SettledOK'
      BY <1>1, <1>2, <1>3, <2>4 DEF SettledOK
    <2> QED  BY <1>2, <2>3, <2>5, TypePartsNext
  <1> QED  BY <1>4, <1>5

LEMMA EffectTypes ==
    ASSUME TypeOK, NEW a \in Adapter, NEW k \in Key,
           \/ \E l \in Lease : RequestEffect(a, l, k)
           \/ BeginEffect(a, k)
           \/ \E o \in {"confirmed", "failed"} : Reconcile(a, k, o)
    PROVE  TypeOK'
  <1>1. UNCHANGED <<journal, delivery, rebase, causal>>
    BY DEF RequestEffect, BeginEffect, Reconcile
  <1>2. /\ JournalOK' /\ PendingOK' /\ SettledOK' /\ RebaseOK' /\ CausalOK' /\ StatusOK'
        /\ events' = events
    BY <1>1, JournalKept, TypeParts, GrowthKeepsPending, GrowthKeepsSettled, GrowthKeepsRebase,
       GrowthKeepsCausal DEF StatusOK, delivery
  <1>3. effects \in [Adapter \X Key -> Effect(Len(events))]
    BY TypeParts DEF EffectsOK
  <1>4. CASE \E l \in Lease : RequestEffect(a, l, k)
    <2>1. PICK l \in Lease : effects' = [effects EXCEPT ![<<a, k>>] =
                                          [event |-> held[a][l], state |-> "pending"]]
      BY <1>4 DEF RequestEffect
    <2>2. [event |-> held[a][l], state |-> "pending"] \in Effect(Len(events))
      BY DeliveryTypes DEF Effect
    <2>3. EffectsOK'
      BY <1>2, <1>3, <2>1, <2>2 DEF EffectsOK
    <2> QED  BY <1>2, <2>3, TypePartsNext
  <1>5. ASSUME NEW state \in {"unknown", "confirmed", "failed"},
               effects' = [effects EXCEPT ![<<a, k>>].state = state]
        PROVE  TypeOK'
    <2>1. EffectsOK'
      BY <1>2, <1>3, <1>5 DEF EffectsOK, Effect
    <2> QED  BY <1>2, <2>1, TypePartsNext
  <1> QED  BY <1>4, <1>5 DEF BeginEffect, Reconcile

LEMMA NextTypeOK == TypeOK /\ InFlight /\ [Next]_vars => TypeOK'
  <1> SUFFICES ASSUME TypeOK, InFlight, [Next]_vars PROVE TypeOK'
    OBVIOUS
  <1>1. ASSUME NEW a \in Adapter, AdapterStep(a) PROVE TypeOK'
    BY <1>1, LifecycleTypes, PollPendingTypes, PollNextTypes, CompleteTypes, FailTypes,
       CancelTypes, RebaseTypes, EffectTypes DEF AdapterStep, Poll
  <1>2. CASE UNCHANGED vars
    <2>1. JournalOK'
      BY <1>2, JournalKept DEF vars
    <2> QED  BY <1>2, <2>1, OutsideTypes DEF vars, journal
  <1>3. ASSUME NEW l \in Line, Commit(l) \/ \E r \in RevisionsOf(Events) : Accept(l, r)
        PROVE  TypeOK'
    BY <1>3, WritesAnnounce, AnnounceTypes
  <1> QED  BY <1>1, <1>2, <1>3, ChangeReadersTypes, CompactTypes DEF Next

(***************************************************************************)
(* What a step may touch                                                   *)
(***************************************************************************)

\* The journal is append-only: what an event says never changes.
JournalKeeps == JournalGrows /\ \A e \in Events : events'[e] = events[e]

LEMMA AppendKeeps ==
    ASSUME TypeOK, NEW event, events' = Append(events, event)
    PROVE  JournalKeeps /\ Len(events') = Len(events) + 1 /\ events'[Len(events) + 1] = event
  <1>1. events \in Seq(Event) /\ Len(events) \in Nat
    BY JournalTypes DEF TypeOK
  <1>2. Len(events') = Len(events) + 1 /\ events'[Len(events) + 1] = event
        /\ \A e \in 1..Len(events) : events'[e] = events[e]
    BY <1>1
  <1> QED  BY <1>1, <1>2 DEF JournalKeeps, JournalGrows, Events

LEMMA UnchangedKeeps ==
    ASSUME TypeOK, events' = events
    PROVE  JournalKeeps
  BY JournalTypes DEF JournalKeeps, JournalGrows

\* What an adapter's step does to the journal: nothing, or a handler's output.
LEMMA AdapterJournal ==
    ASSUME TypeOK, NEW a \in Adapter, AdapterStep(a)
    PROVE  /\ JournalKeeps /\ UNCHANGED <<private, erased, policy>>
           /\ \A i \in Events' : i \in Events \/ events'[i].revision = i
           /\ \/ UNCHANGED <<events, results>>
              \/ \E l \in Lease, output \in Outputs(a) : Complete(a, l, output)
  <1>1. ASSUME NEW l \in Lease, NEW output \in Outputs(a), Complete(a, l, output)
        PROVE  /\ JournalKeeps /\ UNCHANGED <<private, erased, policy>>
               /\ \A i \in Events' : i \in Events \/ events'[i].revision = i
    <2>1. PICK e : e = held[a][l]
      OBVIOUS
    <2>2. /\ e \in Events /\ CausalWork(a, e) /\ Len(events) + Len(output) <= MaxEvents
          /\ events' = WithOutput(a, e, output) /\ UNCHANGED <<private, erased, policy>>
      BY <1>1, <2>1 DEF Complete, ScopedEvent
    <2>3. /\ Len(events') = Len(events) + Len(output)
          /\ Len(output) \in Nat /\ Len(events) \in Nat
          /\ \A i \in Events : events'[i] = events[i]
          /\ \A i \in OutputEvents(output) :
                \E x \in Manifest[a].outputs : events'[i] = HandlerEvent(a, e, x, i)
          /\ Events' = Events \cup OutputEvents(output)
      BY <2>2, OutputAppended
    <2>4. \A i \in OutputEvents(output) : events'[i].revision = i
      BY <2>3, HandlerFields
    <2> QED  BY <2>2, <2>3, <2>4 DEF JournalKeeps, JournalGrows
  <1>2. ASSUME UNCHANGED <<journal, results>>
        PROVE  /\ JournalKeeps /\ UNCHANGED <<private, erased, policy, events, results>>
               /\ \A i \in Events' : i \in Events \/ events'[i].revision = i
    BY <1>2, UnchangedKeeps DEF journal, Events
  <1>3. CASE \/ Install(a) \/ ReplayDeadLetter(a) \/ ReadInputs(a) \/ Rebase(a) \/ Poll(a)
             \/ \E s \in {"running", "paused", "draining", "removed"} : SetAdapterState(a, s)
             \/ \E d \in 1..MAX_DEPTH : SetCausalPolicy(a, d)
    BY <1>2, <1>3 DEF Install, ReplayDeadLetter, ReadInputs, Rebase, Poll, PollPending, PollNext,
                      SetAdapterState, SetCausalPolicy, delivery
  <1>4. CASE \/ \E l \in Lease : FailHandler(a, l) \/ CancelDelivery(a, l)
             \/ \E k \in Key : \/ \E l \in Lease : RequestEffect(a, l, k)
                               \/ BeginEffect(a, k)
                               \/ \E o \in {"confirmed", "failed"} : Reconcile(a, k, o)
    BY <1>2, <1>4 DEF FailHandler, CancelDelivery, RequestEffect, BeginEffect, Reconcile, delivery
  <1> QED  BY <1>1, <1>3, <1>4 DEF AdapterStep

\* The rows of adapter x, as a step of another adapter leaves them.
RowsKept(x) ==
    /\ pending'[x] = pending[x] /\ checkpoint'[x] = checkpoint[x] /\ status'[x] = status[x]
    /\ limit'[x] = limit[x] /\ circuit'[x] = circuit[x]
    /\ projection'[x] = projection[x] /\ draft'[x] = draft[x] /\ (x \in rebuild' <=> x \in rebuild)
    /\ \A e : /\ <<x, e>> \in receipts' <=> <<x, e>> \in receipts
              /\ <<x, e>> \in cancelled' <=> <<x, e>> \in cancelled
              /\ <<x, e>> \in skipped' <=> <<x, e>> \in skipped

LEMMA UnchangedRows ==
    ASSUME UNCHANGED <<delivery, rebase, causal>>, NEW x
    PROVE  RowsKept(x)
  BY DEF RowsKept, delivery, rebase, causal

LEMMA OthersKept ==
    ASSUME TypeOK, NEW a \in Adapter, NEW x \in Adapter, x # a, AdapterStep(a)
    PROVE  RowsKept(x)
  <1>0. /\ \E T : status \in [Adapter -> T]
        /\ \E T : checkpoint \in [Adapter -> T]
        /\ \E T : pending \in [Adapter -> T]
        /\ \E T : projection \in [Adapter -> T]
        /\ \E T : draft \in [Adapter -> T]
        /\ \E T : limit \in [Adapter -> T]
        /\ \E T : circuit \in [Adapter -> T]
    BY DEF TypeOK
  <1>1. ASSUME NEW e, NEW attempts, Deliver(a, e, attempts)
        PROVE  status'[x] = status[x] /\ pending'[x] = pending[x] /\ circuit'[x] = circuit[x]
    BY <1>0, <1>1 DEF Deliver, Grant, Suspend
  <1>2. CASE Install(a)
    BY <1>0, <1>2 DEF Install, RowsKept, rebase, causal
  <1>3. CASE \E s \in {"running", "paused", "draining", "removed"} : SetAdapterState(a, s)
    BY <1>0, <1>3 DEF SetAdapterState, RowsKept, rebase, causal
  <1>4. CASE \E d \in 1..MAX_DEPTH : SetCausalPolicy(a, d)
    BY <1>0, <1>4 DEF SetCausalPolicy, RowsKept, rebase, delivery
  <1>5. CASE PollPending(a)
    <2>1. UNCHANGED <<checkpoint, receipts, cancelled, skipped, rebase, limit>>
      BY <1>5 DEF PollPending
    <2>2. status'[x] = status[x] /\ pending'[x] = pending[x] /\ circuit'[x] = circuit[x]
      BY <1>0, <1>1, <1>5 DEF PollPending
    <2> QED  BY <2>1, <2>2 DEF RowsKept, rebase
  <1>6. CASE PollNext(a)
    <2>1. UNCHANGED <<receipts, cancelled, rebase, limit>>
      BY <1>6 DEF PollNext
    <2>2. /\ status'[x] = status[x] /\ pending'[x] = pending[x] /\ circuit'[x] = circuit[x]
          /\ checkpoint'[x] = checkpoint[x]
      BY <1>0, <1>1, <1>6 DEF PollNext
    <2>3. \A e : <<x, e>> \in skipped' <=> <<x, e>> \in skipped
      BY <1>6 DEF PollNext
    <2> QED  BY <2>1, <2>2, <2>3 DEF RowsKept, rebase
  <1>7. ASSUME NEW l \in Lease, NEW output \in Outputs(a), Complete(a, l, output)
        PROVE  RowsKept(x)
    <2>1. UNCHANGED <<status, cancelled, skipped, rebuild, draft, causal>>
      BY <1>7 DEF Complete
    <2>2. pending'[x] = pending[x] /\ checkpoint'[x] = checkpoint[x]
      BY <1>0, <1>7 DEF Complete, CheckpointAt
    <2>3. projection'[x] = projection[x]
      BY <1>0, <1>7 DEF Complete, Folded
    <2>4. \A e : <<x, e>> \in receipts' <=> <<x, e>> \in receipts
      BY <1>7 DEF Complete
    <2> QED  BY <2>1, <2>2, <2>3, <2>4 DEF RowsKept, causal
  <1>8. ASSUME NEW l \in Lease, FailHandler(a, l)
        PROVE  RowsKept(x)
    BY <1>0, <1>8 DEF FailHandler, RowsKept, rebase, causal
  <1>9. ASSUME NEW l \in Lease, CancelDelivery(a, l)
        PROVE  RowsKept(x)
    <2>1. UNCHANGED <<status, receipts, skipped, projection, draft, causal>>
      BY <1>9 DEF CancelDelivery
    <2>2. pending'[x] = pending[x] /\ checkpoint'[x] = checkpoint[x]
      BY <1>0, <1>9 DEF CancelDelivery, CheckpointAt
    <2>3. x \in rebuild' <=> x \in rebuild
      BY <1>9 DEF CancelDelivery
    <2>4. \A e : <<x, e>> \in cancelled' <=> <<x, e>> \in cancelled
      BY <1>9 DEF CancelDelivery
    <2> QED  BY <2>1, <2>2, <2>3, <2>4 DEF RowsKept, causal
  <1>10. CASE ReplayDeadLetter(a)
    BY <1>0, <1>10 DEF ReplayDeadLetter, RowsKept, rebase, causal
  <1>11. CASE ReadInputs(a)
    BY <1>0, <1>11 DEF ReadInputs, RowsKept, delivery, causal
  <1>12. CASE Rebase(a)
    BY <1>0, <1>12 DEF Rebase, RowsKept, causal
  <1>13. CASE \E k \in Key : \/ \E l \in Lease : RequestEffect(a, l, k)
                             \/ BeginEffect(a, k)
                             \/ \E o \in {"confirmed", "failed"} : Reconcile(a, k, o)
    BY <1>13, UnchangedRows DEF RequestEffect, BeginEffect, Reconcile
  <1> QED
    BY <1>2, <1>3, <1>4, <1>5, <1>6, <1>7, <1>8, <1>9, <1>10, <1>11, <1>12, <1>13
       DEF AdapterStep, Poll


(***************************************************************************)
(* The inductive invariant                                                 *)
(***************************************************************************)

\* A settled occurrence is behind the checkpoint.
SettledAt(a) == \A e \in Events : <<a, e>> \in receipts \cup cancelled => e <= checkpoint[a]

\* The gap and state of one adapter, as NoSilentGap and StateMatchesCheckpoint put them.
GapAt(a) ==
    \A e \in 1..checkpoint[a] :
        Subscribed(a, e) => \/ <<a, e>> \in receipts \cup cancelled \cup skipped
                            \/ e \in projection[a].covers
StateAt(a) ==
    projection[a].bound =>
        /\ \A e \in projection[a].covers : e <= checkpoint[a]
        /\ a \notin rebuild =>
             \A e \in 1..checkpoint[a] :
                Subscribed(a, e) => e \in projection[a].covers \/ <<a, e>> \in skipped

\* A projection of the current epoch has its checkpoint past the replay frontier.
WindowAt(a) ==
    /\ projection[a].epoch <= policy.epoch
    /\ projection[a].bound /\ projection[a].epoch = policy.epoch => policy.replay <= checkpoint[a]
DraftAt(a) == draft[a].epoch <= policy.epoch

\* Compaction erases no revision that an event behind the replay frontier announced.
ErasedInWindow ==
    /\ \A e \in Events : events[e].revision \in erased => e <= policy.replay
    /\ policy.epoch = 0 => policy.replay = 0

ProgressAt(a) == SettledAt(a) /\ GapAt(a) /\ StateAt(a) /\ WindowAt(a)
AdapterAt(a) == InFlightAt(a) /\ ProgressAt(a) /\ DraftAt(a)
DispatchInv == TypeOK /\ ErasedInWindow /\ \A a \in Adapter : AdapterAt(a)

LEMMA InitInv == Init => DispatchInv
  <1> SUFFICES ASSUME Init PROVE DispatchInv
    OBVIOUS
  <1>1. ErasedInWindow
    BY DEF Init, ErasedInWindow, Events
  <1>2. ASSUME NEW a \in Adapter PROVE AdapterAt(a)
    <2>1. /\ pending[a] = NoDelivery /\ checkpoint[a] = 0 /\ projection[a] = NoState
          /\ draft[a] = NoDraft /\ policy.epoch = 0 /\ receipts = {} /\ cancelled = {}
      BY DEF Init
    <2> QED
      BY <2>1 DEF AdapterAt, InFlightAt, ProgressAt, SettledAt, GapAt, StateAt, WindowAt, DraftAt,
                  NoState, NoDraft
  <1> QED  BY <1>1, <1>2, InitTypeOK DEF DispatchInv

(***************************************************************************)
(* Steps that leave an adapter's rows alone                                *)
(***************************************************************************)

LEMMA SameScope ==
    ASSUME JournalKeeps, NEW a, NEW e \in Events
    PROVE  (Subscribed(a, e))' <=> Subscribed(a, e)
  BY DEF JournalKeeps, Subscribed

\* A delivery in flight stays so while its event, the checkpoint, the causal
\* policy and the kept snapshots stay, whatever its lease and attempts become.
LEMMA SameDelivery ==
    ASSUME TypeOK, JournalKeeps, NEW a \in Adapter, InFlightAt(a),
           pending'[a] # NoDelivery => pending[a] # NoDelivery,
           pending'[a].event = pending[a].event, checkpoint'[a] = checkpoint[a],
           limit'[a] = limit[a], circuit'[a] = circuit[a],
           status'[a] \in {status[a], "running", "paused", "draining"},
           pending[a] # NoDelivery => events[pending[a].event].revision \notin erased' \ erased
    PROVE  InFlightAt(a)'
  <1> SUFFICES ASSUME pending'[a] # NoDelivery
               PROVE  /\ pending[a].event \in Events' /\ pending[a].event = checkpoint[a] + 1
                      /\ events'[pending[a].event].revision \notin erased'
                      /\ (Subscribed(a, pending[a].event))'
                      /\ (CausalWork(a, pending[a].event))'
                      /\ status'[a] \notin {"absent", "installed", "removed"}
    BY DEF InFlightAt, Subscribed, CausalWork
  <1>1. PICK e \in Events : e = pending[a].event
    BY DEF InFlightAt
  <1>2. /\ e = checkpoint[a] + 1 /\ events[e].revision \notin erased \cup erased'
        /\ Subscribed(a, e) /\ CausalWork(a, e)
        /\ status[a] \notin {"absent", "installed", "removed"}
    BY <1>1 DEF InFlightAt
  <1>3. e \in Events' /\ e # 0 /\ events'[e] = events[e]
    BY GrowthKeepsEvents DEF JournalKeeps, Events
  <1>4. (Subscribed(a, pending[a].event))' /\ (CausalWork(a, pending[a].event))'
    BY <1>1, <1>2, <1>3 DEF Subscribed, CausalWork
  <1> QED  BY <1>1, <1>2, <1>3, <1>4

\* The rows the progress of adapter a is recorded in, left alone.
ProgressRows(a) ==
    /\ checkpoint'[a] = checkpoint[a] /\ projection'[a] = projection[a]
    /\ a \in rebuild' <=> a \in rebuild
    /\ \A e : /\ <<a, e>> \in receipts' <=> <<a, e>> \in receipts
              /\ <<a, e>> \in cancelled' <=> <<a, e>> \in cancelled
              /\ <<a, e>> \in skipped' <=> <<a, e>> \in skipped

LEMMA CheckpointRange ==
    ASSUME TypeOK, NEW a \in Adapter
    PROVE  checkpoint[a] \in Nat /\ 1..checkpoint[a] \subseteq Events
  <1>1. checkpoint[a] \in 0..Len(events) /\ Len(events) \in Nat
    BY DeliveryTypes, JournalTypes
  <1> QED  BY <1>1 DEF Events

LEMMA SameProgress ==
    ASSUME TypeOK, JournalKeeps, NEW a \in Adapter, ProgressRows(a), policy' = policy, ProgressAt(a)
    PROVE  ProgressAt(a)'
  <1>1. \A e \in 1..checkpoint[a] : (Subscribed(a, e))' <=> Subscribed(a, e)
    BY CheckpointRange, SameScope
  <1>2. SettledAt(a)'
    <2> SUFFICES ASSUME NEW e \in Events', <<a, e>> \in receipts' \cup cancelled'
                 PROVE  e <= checkpoint'[a]
      BY DEF SettledAt
    <2>1. e \in Events
      BY DEF ProgressRows, TypeOK
    <2> QED  BY <2>1 DEF ProgressAt, SettledAt, ProgressRows
  <1>3. GapAt(a)'
    BY <1>1 DEF ProgressAt, GapAt, ProgressRows
  <1>4. StateAt(a)'
    BY <1>1 DEF ProgressAt, StateAt, ProgressRows
  <1>5. WindowAt(a)'
    BY DEF ProgressAt, WindowAt, ProgressRows
  <1> QED  BY <1>2, <1>3, <1>4, <1>5 DEF ProgressAt

\* A step of the journal's other writers, or of another adapter.
LEMMA SameAdapter ==
    ASSUME TypeOK, JournalKeeps, NEW a \in Adapter, RowsKept(a), policy' = policy, erased' = erased,
           AdapterAt(a)
    PROVE  AdapterAt(a)'
  <1>1. ProgressAt(a)'
    BY SameProgress DEF AdapterAt, RowsKept, ProgressRows
  <1>2. InFlightAt(a)'
    BY SameDelivery DEF AdapterAt, RowsKept
  <1>3. DraftAt(a)'
    BY DEF AdapterAt, DraftAt, RowsKept
  <1> QED  BY <1>1, <1>2, <1>3 DEF AdapterAt

LEMMA AnnounceInv ==
    ASSUME DispatchInv, NEW l \in Line, NEW r, Announce(l, r), r \notin erased
    PROVE  ErasedInWindow' /\ \A a \in Adapter : AdapterAt(a)'
  <1>1. /\ TypeOK /\ JournalKeeps /\ Len(events) \in Nat
        /\ Len(events') = Len(events) + 1 /\ events'[Len(events) + 1] = RootEvent(l, r)
    BY AppendKeeps, JournalTypes DEF DispatchInv, Announce
  <1>2. \A a \in Adapter : AdapterAt(a)'
    BY <1>1, SameAdapter, UnchangedRows DEF DispatchInv, Announce
  <1>3. \A e \in Events' : e \in Events \/ (e = Len(events) + 1 /\ events'[e].revision = r)
    BY <1>1 DEF Events, RootEvent
  <1>4. ErasedInWindow'
    BY <1>1, <1>3 DEF Announce, DispatchInv, ErasedInWindow, JournalKeeps
  <1> QED  BY <1>2, <1>4

LEMMA ChangeReadersInv ==
    ASSUME DispatchInv, NEW e, ChangeReaders(e)
    PROVE  ErasedInWindow' /\ \A a \in Adapter : AdapterAt(a)'
  <1>1. TypeOK /\ JournalKeeps
    BY UnchangedKeeps DEF DispatchInv, ChangeReaders
  <1>2. \A a \in Adapter : AdapterAt(a)'
    BY <1>1, SameAdapter, UnchangedRows DEF DispatchInv, ChangeReaders
  <1> QED  BY <1>2 DEF ChangeReaders, DispatchInv, ErasedInWindow, Events

\* A compaction keeps every delivery's source, and a moved frontier begins an
\* epoch no projection is of yet.
LEMMA CompactInv ==
    ASSUME DispatchInv, NEW replay \in 0..Len(events), NEW changed \in BOOLEAN,
           NEW gone \in SUBSET RevisionsOf(Events), Compact(replay, changed, gone)
    PROVE  ErasedInWindow' /\ \A a \in Adapter : AdapterAt(a)'
  <1>1. TypeOK /\ JournalKeeps /\ ErasedInWindow /\ Len(events) \in Nat
    BY UnchangedKeeps, JournalTypes DEF DispatchInv, Compact
  <1>2. /\ policy.replay \in 0..Len(events) /\ policy.epoch \in Nat
        /\ policy' = [replay |-> replay, epoch |-> policy.epoch + (IF changed THEN 1 ELSE 0)]
        /\ erased' = erased \cup gone /\ policy.replay <= replay /\ gone \cap Retained(replay) = {}
        /\ replay # policy.replay => changed
        /\ UNCHANGED <<events, private, delivery, rebase, causal, effects>>
    BY <1>1, ConstantTypes DEF TypeOK, Compact
  <1>3. ErasedInWindow'
    <2>1. \A e \in Events : events[e].revision \in gone => e <= replay
      <3>1. \A e \in (replay + 1)..Len(events) : e \in Events => events[e].revision \in Retained(replay)
        BY DEF Retained, RevisionsOf
      <3> QED  BY <1>1, <1>2, <3>1 DEF Events
    <2>2. \A e \in Events : events[e].revision \in erased' => e <= policy'.replay
      BY <1>1, <1>2, <2>1 DEF ErasedInWindow, Events
    <2>3. policy'.epoch = 0 => policy'.replay = 0
      BY <1>1, <1>2 DEF ErasedInWindow
    <2> QED  BY <1>2, <2>2, <2>3 DEF ErasedInWindow, Events
  <1>4. ASSUME NEW a \in Adapter PROVE AdapterAt(a)'
    <2>1. AdapterAt(a) /\ RowsKept(a)
      BY <1>2, UnchangedRows DEF DispatchInv
    <2>2. pending[a] # NoDelivery => events[pending[a].event].revision \notin gone
      <3>1. pending[a].event \in Events => events[pending[a].event].revision \in Retained(replay)
        BY DEF Retained, RevisionsOf
      <3> QED  BY <1>2, <2>1, <3>1 DEF AdapterAt, InFlightAt
    <2>3. InFlightAt(a)'
      BY <1>1, <1>2, <2>1, <2>2, SameDelivery DEF AdapterAt, RowsKept
    <2>4. projection[a].epoch \in Nat /\ draft[a].epoch \in Nat
      BY <1>1, TypeParts, ConstantTypes DEF RebaseOK
    <2>5. WindowAt(a)' /\ DraftAt(a)'
      BY <1>2, <2>1, <2>4 DEF AdapterAt, ProgressAt, WindowAt, DraftAt, RowsKept
    <2>6. SettledAt(a)' /\ GapAt(a)' /\ StateAt(a)'
      BY <1>2, <2>1
         DEF AdapterAt, ProgressAt, SettledAt, GapAt, StateAt, Events, Subscribed, delivery, rebase
    <2> QED  BY <2>3, <2>5, <2>6 DEF AdapterAt, ProgressAt
  <1> QED  BY <1>3, <1>4

(***************************************************************************)
(* An adapter's own steps                                                  *)
(***************************************************************************)

\* The steps that record no progress: they settle nothing and move no checkpoint.
LEMMA QuietInv ==
    ASSUME DispatchInv, NEW a \in Adapter,
           UNCHANGED <<journal, checkpoint, receipts, cancelled, skipped, rebuild, projection>>,
           InFlightAt(a)', draft'[a] = draft[a] \/ draft'[a].epoch = policy.epoch
    PROVE  AdapterAt(a)'
  <1>1. TypeOK /\ AdapterAt(a) /\ JournalKeeps /\ policy' = policy
    BY UnchangedKeeps DEF DispatchInv, journal
  <1>2. ProgressAt(a)'
    BY <1>1, SameProgress DEF AdapterAt, ProgressRows
  <1>3. DraftAt(a)'
    <2>1. policy.epoch \in Nat
      BY <1>1, TypeParts, ConstantTypes DEF JournalOK
    <2> QED  BY <1>1, <2>1 DEF AdapterAt, DraftAt
  <1> QED  BY <1>2, <1>3 DEF AdapterAt

\* Steps on the delivery in flight that keep its event.
LEMMA QuietDelivery ==
    ASSUME DispatchInv, NEW a \in Adapter,
           UNCHANGED <<journal, checkpoint, receipts, cancelled, skipped, rebuild, projection,
                       limit, circuit>>,
           pending'[a] # NoDelivery => pending[a] # NoDelivery,
           pending'[a].event = pending[a].event,
           status'[a] \in {status[a], "running", "paused", "draining"},
           draft'[a] = draft[a] \/ draft'[a].epoch = policy.epoch
    PROVE  AdapterAt(a)'
  <1>1. TypeOK /\ AdapterAt(a) /\ JournalKeeps /\ erased' = erased
    BY UnchangedKeeps DEF DispatchInv, journal
  <1>2. InFlightAt(a)'
    BY <1>1, SameDelivery DEF AdapterAt
  <1> QED  BY <1>2, QuietInv

\* Steps while nothing is in flight, and after which nothing is.
LEMMA QuietIdle ==
    ASSUME DispatchInv, NEW a \in Adapter,
           UNCHANGED <<journal, checkpoint, receipts, cancelled, skipped, rebase>>,
           pending'[a] = NoDelivery
    PROVE  AdapterAt(a)'
  BY QuietInv DEF InFlightAt, rebase

LEMMA LifecycleInv ==
    ASSUME DispatchInv, NEW a \in Adapter,
           \/ Install(a)
           \/ \E s \in {"running", "paused", "draining", "removed"} : SetAdapterState(a, s)
           \/ \E d \in 1..MAX_DEPTH : SetCausalPolicy(a, d)
    PROVE  AdapterAt(a)'
  <1>1. CASE Install(a)
    <2>1. pending[a] = NoDelivery
      BY <1>1 DEF Install, DispatchInv, AdapterAt, InFlightAt
    <2> QED  BY <1>1, <2>1, QuietIdle DEF Install
  <1>2. ASSUME NEW s \in {"running", "paused", "draining", "removed"}, SetAdapterState(a, s)
        PROVE  AdapterAt(a)'
    <2>1. CASE pending[a] = NoDelivery
      BY <1>2, <2>1, QuietIdle DEF SetAdapterState
    <2>2. CASE pending[a] # NoDelivery
      <3>1. status'[a] \in {"running", "paused", "draining"}
        BY <1>2, <2>2 DEF SetAdapterState, DispatchInv, TypeOK
      <3> QED  BY <1>2, <2>2, <3>1, QuietDelivery DEF SetAdapterState, rebase, causal
    <2> QED  BY <2>1, <2>2
  <1>3. CASE \E d \in 1..MAX_DEPTH : SetCausalPolicy(a, d)
    BY <1>3, QuietIdle DEF SetCausalPolicy, delivery
  <1> QED  BY <1>1, <1>2, <1>3

LEMMA PollPendingInv ==
    ASSUME DispatchInv, NEW a \in Adapter, PollPending(a)
    PROVE  AdapterAt(a)'
  <1>1. /\ UNCHANGED <<journal, checkpoint, receipts, cancelled, skipped, rebase, limit, effects>>
        /\ pending[a].status \in {"leased", "retry"}
    BY DEF PollPending
  <1>2. pending[a] # NoDelivery /\ CausalWork(a, pending[a].event) /\ TypeOK
    BY <1>1 DEF DispatchInv, AdapterAt, InFlightAt, NoDelivery
  <1>3. CASE pending' = [pending EXCEPT ![a].status = "dead_letter"] /\ UNCHANGED <<status, held, circuit>>
    <2>1. pending'[a].event = pending[a].event
      BY <1>2, <1>3 DEF TypeOK
    <2> QED  BY <1>1, <1>2, <1>3, <2>1, QuietDelivery DEF rebase
  <1>4. CASE Deliver(a, pending[a].event, NextAttempt(a))
    <2>1. Grant(a, pending[a].event, NextAttempt(a))
      BY <1>2, <1>4 DEF Deliver
    <2>2. pending'[a].event = pending[a].event /\ UNCHANGED <<status, circuit>>
      BY <1>2, <2>1 DEF Grant, TypeOK
    <2> QED  BY <1>1, <1>2, <2>2, QuietDelivery DEF rebase
  <1> QED  BY <1>3, <1>4 DEF PollPending

LEMMA FailInv ==
    ASSUME DispatchInv, NEW a \in Adapter,
           (\E l \in Lease : FailHandler(a, l)) \/ ReplayDeadLetter(a)
    PROVE  AdapterAt(a)'
  <1>1. UNCHANGED <<journal, status, checkpoint, held, receipts, cancelled, skipped,
                    rebase, causal, effects>>
    BY DEF FailHandler, ReplayDeadLetter
  <1>2. pending[a] # NoDelivery
    BY DEF FailHandler, CheckLease, ReplayDeadLetter, NoDelivery
  <1>3. pending'[a].event = pending[a].event
    BY DEF DispatchInv, TypeOK, FailHandler, ReplayDeadLetter
  <1> QED  BY <1>1, <1>2, <1>3, QuietDelivery DEF rebase, causal

LEMMA ReadInputsInv ==
    ASSUME DispatchInv, NEW a \in Adapter, ReadInputs(a)
    PROVE  AdapterAt(a)'
  <1>1. draft'[a].epoch = policy.epoch
    BY DEF DispatchInv, TypeOK, ReadInputs
  <1> QED  BY <1>1, QuietDelivery DEF ReadInputs, delivery, causal

LEMMA EffectInv ==
    ASSUME DispatchInv, NEW a \in Adapter, UNCHANGED <<journal, delivery, rebase, causal>>
    PROVE  AdapterAt(a)'
  BY QuietDelivery DEF delivery, rebase, causal

\* A scan starts behind every event a compaction may have erased, so what it
\* passes was not in scope or could not be read.
LEMMA PassedIsSkipped ==
    ASSUME DispatchInv, NEW a \in Adapter, ReplayReady(a), NEW e \in Events, checkpoint[a] < e
    PROVE  events[e].revision \notin erased
  <1>0. AdapterAt(a) /\ TypeOK
    BY DEF DispatchInv
  <1>1. policy.replay \in Nat
    <2>1. Len(events) \in Nat /\ JournalOK
      BY <1>0, JournalTypes, TypeParts
    <2> QED  BY <2>1 DEF JournalOK
  <1>2. policy.replay < e
    <2>1. CASE projection[a].bound
      BY <1>0, <1>1, <2>1, CheckpointRange
         DEF ReplayReady, AdapterAt, ProgressAt, WindowAt, Events
    <2>2. CASE ~projection[a].bound
      BY <1>1, <2>2 DEF ReplayReady, DispatchInv, ErasedInWindow, Events
    <2> QED  BY <2>1, <2>2
  <1> QED  BY <1>1, <1>2 DEF DispatchInv, ErasedInWindow, Events

LEMMA PollNextInv ==
    ASSUME DispatchInv, NEW a \in Adapter, PollNext(a)
    PROVE  AdapterAt(a)'
  <1> DEFINE Passed(stop) == {<<a, e>> : e \in {f \in (checkpoint[a] + 1)..stop :
                               Subscribed(a, f) /\ events[f].revision \in private \ erased}}
  <1>1. PICK stop \in checkpoint[a]..ScanEnd(a) :
           /\ status[a] = "running" /\ pending[a] = NoDelivery /\ ReplayReady(a) /\ StopsAt(a, stop)
           /\ IF Cardinality(Backlog(a)) > Manifest[a].backlog
              THEN /\ status' = [status EXCEPT ![a] = "paused"]
                   /\ UNCHANGED <<checkpoint, skipped, pending, held, circuit>>
              ELSE /\ checkpoint' = [checkpoint EXCEPT ![a] = stop]
                   /\ skipped' = skipped \cup Passed(stop)
                   /\ IF Found(a, stop) THEN Deliver(a, stop + 1, 1)
                                       ELSE UNCHANGED <<status, pending, held, circuit>>
    BY DEF PollNext
  <1>2. UNCHANGED <<journal, receipts, cancelled, rebase, limit, effects>>
    BY DEF PollNext
  <1>3. TypeOK /\ AdapterAt(a)
    BY DEF DispatchInv
  <1>4. CASE Cardinality(Backlog(a)) > Manifest[a].backlog
    BY <1>1, <1>2, <1>4, QuietIdle
  <1>5. CASE ~(Cardinality(Backlog(a)) > Manifest[a].backlog)
    <2>1. checkpoint'[a] = stop /\ skipped' = skipped \cup Passed(stop)
      BY <1>1, <1>3, <1>5 DEF TypeOK
    <2>2. /\ checkpoint[a] \in Nat /\ stop \in Nat /\ checkpoint[a] <= stop
          /\ (checkpoint[a] + 1)..stop \subseteq Events /\ 1..checkpoint[a] \subseteq Events
      BY <1>1, <1>3, CheckpointRange, ScanTypes
    <2>3. /\ events' = events /\ policy' = policy /\ erased' = erased
          /\ projection' = projection /\ rebuild' = rebuild /\ draft' = draft
          /\ Events' = Events
      BY <1>2 DEF journal, rebase, Events
    <2>4. \A e \in (checkpoint[a] + 1)..stop : Subscribed(a, e) => <<a, e>> \in skipped'
      <3> SUFFICES ASSUME NEW e \in (checkpoint[a] + 1)..stop, Subscribed(a, e)
                   PROVE  events[e].revision \in private \ erased
        BY <2>1
      <3>1. events[e].revision \notin erased
        BY <1>1, <2>2, PassedIsSkipped
      <3>2. ~ScopedEvent(a, e)
        BY <1>1 DEF StopsAt
      <3> QED  BY <2>2, <3>1, <3>2 DEF ScopedEvent
    <2>5. \A e \in 1..stop : e \in 1..checkpoint[a] \/ e \in (checkpoint[a] + 1)..stop
      BY <2>2
    <2>6. SettledAt(a)'
      BY <1>2, <1>3, <2>1, <2>2, <2>3 DEF AdapterAt, ProgressAt, SettledAt, Events
    <2>7. GapAt(a)'
      BY <1>2, <1>3, <2>1, <2>3, <2>4, <2>5 DEF AdapterAt, ProgressAt, GapAt, Subscribed
    <2>8. StateAt(a)'
      <3>1. projection[a].covers \subseteq Nat
        BY <1>3, TypeParts DEF RebaseOK, Events
      <3>2. \A e \in Nat : e <= checkpoint[a] => e <= stop
        BY <2>2
      <3> QED
        BY <1>3, <2>1, <2>3, <2>4, <2>5, <3>1, <3>2 DEF AdapterAt, ProgressAt, StateAt, Subscribed
    <2>9. WindowAt(a)'
      BY <1>3, <2>1, <2>2, <2>3, JournalTypes DEF AdapterAt, ProgressAt, WindowAt, TypeOK
    <2>10. DraftAt(a)'
      BY <1>3, <2>3 DEF AdapterAt, DraftAt
    <2>11. InFlightAt(a)'
      <3>1. CASE Found(a, stop) /\ CausalWork(a, stop + 1)
        <4>1. Grant(a, stop + 1, 1)
          BY <1>1, <1>5, <3>1 DEF Deliver
        <4>2. pending'[a].event = stop + 1 /\ UNCHANGED <<status, circuit>>
          BY <1>3, <4>1 DEF Grant, TypeOK
        <4>3. ScopedEvent(a, stop + 1)
          BY <3>1 DEF Found
        <4>4. limit' = limit
          BY <1>2
        <4> QED
          BY <1>1, <2>1, <2>3, <3>1, <4>2, <4>3, <4>4
             DEF InFlightAt, ScopedEvent, CausalWork, Subscribed
      <3>2. CASE ~(Found(a, stop) /\ CausalWork(a, stop + 1))
        <4>1. pending'[a] = NoDelivery
          BY <1>1, <1>5, <3>2 DEF Deliver, Suspend
        <4> QED  BY <4>1 DEF InFlightAt
      <3> QED  BY <3>1, <3>2
    <2> QED  BY <2>6, <2>7, <2>8, <2>9, <2>10, <2>11 DEF AdapterAt, ProgressAt
  <1> QED  BY <1>4, <1>5

\* Settling the delivery in flight, by a receipt or by the owner's cancellation:
\* the checkpoint moves over its event, and the projection's state over it too,
\* unless a rebuild is asked for.
LEMMA SettleInv ==
    ASSUME DispatchInv, NEW a \in Adapter, JournalKeeps, policy' = policy,
           NEW e, e = pending[a].event, pending[a] # NoDelivery,
           pending'[a] = NoDelivery, checkpoint'[a] = e,
           receipts' \cup cancelled' = receipts \cup cancelled \cup {<<a, e>>},
           UNCHANGED <<skipped, draft>>,
           projection'[a].bound = projection[a].bound,
           projection'[a].epoch = projection[a].epoch,
           projection[a].covers \subseteq projection'[a].covers,
           projection'[a].covers \subseteq projection[a].covers \cup {e},
           projection[a].bound => e \in projection'[a].covers \/ a \in rebuild',
           a \in rebuild => a \in rebuild'
    PROVE  AdapterAt(a)'
  <1>1. TypeOK /\ AdapterAt(a)
    BY DEF DispatchInv
  <1>2. e \in Events /\ e = checkpoint[a] + 1 /\ checkpoint[a] \in Nat /\ 1..checkpoint[a] \subseteq Events
    BY <1>1, CheckpointRange DEF AdapterAt, InFlightAt
  <1>3. \A f \in 1..e : f \in 1..checkpoint[a] \/ f = e
    BY <1>2
  <1>4. \A f \in 1..checkpoint[a] : (Subscribed(a, f))' <=> Subscribed(a, f)
    BY <1>2, SameScope
  <1>5. SettledAt(a)'
    <2> SUFFICES ASSUME NEW f \in Events', <<a, f>> \in receipts' \cup cancelled'
                 PROVE  f <= e
      BY DEF SettledAt
    <2>1. CASE f = e
      BY <1>2, <2>1 DEF Events
    <2>2. CASE <<a, f>> \in receipts \cup cancelled
      <3>1. f \in Events
        BY <1>1, <2>2, TypeParts DEF SettledOK
      <3> QED  BY <1>1, <1>2, <2>2, <3>1 DEF AdapterAt, ProgressAt, SettledAt, Events
    <2> QED  BY <2>1, <2>2
  <1>6. GapAt(a)'
    <2> SUFFICES ASSUME NEW f \in 1..e, (Subscribed(a, f))'
                 PROVE  \/ <<a, f>> \in receipts' \cup cancelled' \cup skipped'
                        \/ f \in projection'[a].covers
      BY DEF GapAt
    <2> QED  BY <1>1, <1>3, <1>4 DEF AdapterAt, ProgressAt, GapAt
  <1>7. StateAt(a)'
    <2> SUFFICES ASSUME projection'[a].bound
                 PROVE  /\ \A f \in projection'[a].covers : f <= e
                        /\ a \notin rebuild' => \A f \in 1..e :
                              (Subscribed(a, f))' => f \in projection'[a].covers \/ <<a, f>> \in skipped'
      BY DEF StateAt
    <2>1. StateAt(a)
      BY <1>1 DEF AdapterAt, ProgressAt
    <2>2. projection[a].covers \subseteq Nat
      BY <1>1, TypeParts DEF RebaseOK, Events
    <2>3. \A f \in projection'[a].covers : f <= e
      BY <1>2, <2>1, <2>2 DEF StateAt
    <2> QED  BY <1>3, <1>4, <2>1, <2>3 DEF StateAt
  <1>8. WindowAt(a)'
    <2>1. policy.replay \in Nat
      BY <1>1, TypeParts, JournalTypes DEF JournalOK
    <2> QED  BY <1>1, <1>2, <2>1 DEF AdapterAt, ProgressAt, WindowAt
  <1>9. DraftAt(a)' /\ InFlightAt(a)'
    BY <1>1 DEF AdapterAt, DraftAt, InFlightAt
  <1> QED  BY <1>5, <1>6, <1>7, <1>8, <1>9 DEF AdapterAt, ProgressAt

LEMMA CompleteInv ==
    ASSUME DispatchInv, NEW a \in Adapter, NEW l \in Lease, NEW output \in Outputs(a),
           Complete(a, l, output)
    PROVE  AdapterAt(a)'
  <1>1. PICK e : e = held[a][l]
    OBVIOUS
  <1>2. /\ pending[a].event = e /\ pending[a].lease = l /\ policy' = policy
        /\ receipts' = receipts \cup {<<a, e>>} /\ checkpoint' = CheckpointAt(a, e)
        /\ projection' = Folded(a, e) /\ pending' = [pending EXCEPT ![a] = NoDelivery]
        /\ UNCHANGED <<cancelled, skipped, rebuild, draft>>
    BY <1>1 DEF Complete, FirstCompletion, CheckLease
  <1>3. TypeOK /\ pending[a] # NoDelivery
    BY <1>2, LeasedIsInFlight DEF DispatchInv
  <1>4. pending'[a] = NoDelivery /\ checkpoint'[a] = e
    BY <1>2, <1>3 DEF TypeOK, CheckpointAt
  <1>5. /\ projection'[a].bound = projection[a].bound /\ projection'[a].epoch = projection[a].epoch
        /\ projection[a].covers \subseteq projection'[a].covers
        /\ projection'[a].covers \subseteq projection[a].covers \cup {e}
        /\ projection[a].bound => e \in projection'[a].covers
    BY <1>2, <1>3 DEF TypeOK, Folded
  <1>6. JournalKeeps
    BY <1>3, AdapterJournal DEF AdapterStep
  <1> QED  BY <1>2, <1>3, <1>4, <1>5, <1>6, SettleInv

LEMMA CancelInv ==
    ASSUME DispatchInv, NEW a \in Adapter, NEW l \in Lease, CancelDelivery(a, l)
    PROVE  AdapterAt(a)'
  <1>1. PICK e : e = held[a][l]
    OBVIOUS
  <1>2. /\ pending[a].event = e /\ pending[a].lease = l
        /\ cancelled' = cancelled \cup {<<a, e>>}
        /\ checkpoint' = CheckpointAt(a, IF e > checkpoint[a] THEN e ELSE checkpoint[a])
        /\ rebuild' = IF projection[a].bound THEN rebuild \cup {a} ELSE rebuild
        /\ pending' = [pending EXCEPT ![a] = NoDelivery]
        /\ UNCHANGED <<journal, receipts, skipped, projection, draft>>
    BY <1>1 DEF CancelDelivery
  <1>3. TypeOK /\ pending[a] # NoDelivery /\ JournalKeeps
    BY <1>2, LeasedIsInFlight, UnchangedKeeps DEF DispatchInv, journal
  <1>4. e = checkpoint[a] + 1 /\ checkpoint[a] \in Nat
    BY <1>2, <1>3, CheckpointRange DEF DispatchInv, AdapterAt, InFlightAt
  <1>5. pending'[a] = NoDelivery /\ checkpoint'[a] = e /\ policy' = policy
    BY <1>2, <1>3, <1>4 DEF TypeOK, CheckpointAt, journal
  <1> QED  BY <1>2, <1>3, <1>5, SettleInv

\* Inputs on every subscribed line, each at the line's newest event, include
\* every subscribed event.
LEMMA RebaseInv ==
    ASSUME DispatchInv, NEW a \in Adapter, Rebase(a)
    PROVE  AdapterAt(a)'
  <1>1. TypeOK /\ AdapterAt(a) /\ Len(events) \in Nat /\ JournalOK
    BY JournalTypes, TypeParts DEF DispatchInv
  <1>2. /\ InputsReadable(a) /\ draft[a].snapshots = Inputs(a) /\ pending[a] = NoDelivery
        /\ UNCHANGED <<journal, status, pending, held, receipts, cancelled, skipped, draft>>
    BY DEF Rebase, InputsCurrent
  <1>3. /\ projection'[a] = [epoch |-> draft[a].epoch, covers |-> Covered(a, draft[a].snapshots), bound |-> TRUE]
        /\ checkpoint'[a] = Len(events)
    BY <1>1 DEF Rebase, TypeOK
  <1>4. \A e \in Events : Subscribed(a, e) => e \in projection'[a].covers
    <2> SUFFICES ASSUME NEW e \in Events, Subscribed(a, e) PROVE e \in projection'[a].covers
      OBVIOUS
    <2>1. PICK t \in InputTips(a) : events[t].line = events[e].line
      BY <1>2 DEF InputsReadable, Subscribed
    <2>2. e <= t /\ t \in Events /\ events[t].revision \in Inputs(a)
      BY <2>1 DEF InputTips, Tips, Inputs, RevisionsOf
    <2> QED  BY <1>2, <1>3, <2>1, <2>2 DEF Covered
  <1>5. projection'[a].covers \subseteq Events
    BY <1>3 DEF Covered
  <1>6. /\ events' = events /\ policy' = policy /\ Events' = Events
        /\ \A e \in Events : (Subscribed(a, e))' <=> Subscribed(a, e)
    BY <1>2 DEF journal, Events, Subscribed
  <1>7. SettledAt(a)' /\ GapAt(a)' /\ StateAt(a)'
    BY <1>3, <1>4, <1>5, <1>6 DEF SettledAt, GapAt, StateAt, Events
  <1>8. WindowAt(a)' /\ DraftAt(a)'
    <2>1. policy.replay \in 0..Len(events)
      BY <1>1 DEF JournalOK
    <2> QED  BY <1>1, <1>2, <1>3, <1>6, <2>1 DEF AdapterAt, DraftAt, WindowAt
  <1>9. InFlightAt(a)'
    BY <1>2 DEF InFlightAt
  <1> QED  BY <1>7, <1>8, <1>9 DEF AdapterAt, ProgressAt

LEMMA NextInv == DispatchInv /\ [Next]_vars => DispatchInv'
  <1> SUFFICES ASSUME DispatchInv, [Next]_vars PROVE DispatchInv'
    OBVIOUS
  <1>1. TypeOK /\ TypeOK'
    BY NextTypeOK DEF DispatchInv, AdapterAt, InFlight
  <1>2. ASSUME NEW a \in Adapter, AdapterStep(a) PROVE ErasedInWindow' /\ \A x \in Adapter : AdapterAt(x)'
    <2>1. /\ JournalKeeps /\ UNCHANGED <<private, erased, policy>>
          /\ \A i \in Events' : i \in Events \/ events'[i].revision = i
      BY <1>1, <1>2, AdapterJournal
    <2>2. ErasedInWindow'
      <3>1. erased \subseteq Events
        BY <1>1 DEF TypeOK
      <3> QED  BY <2>1, <3>1 DEF DispatchInv, ErasedInWindow, JournalKeeps
    <2>3. AdapterAt(a)'
      <3>1. ASSUME NEW k \in Key, \/ \E l \in Lease : RequestEffect(a, l, k)
                                  \/ BeginEffect(a, k)
                                  \/ \E o \in {"confirmed", "failed"} : Reconcile(a, k, o)
            PROVE  AdapterAt(a)'
        BY <3>1, EffectInv DEF RequestEffect, BeginEffect, Reconcile
      <3> QED
        BY <1>2, <3>1, LifecycleInv, PollPendingInv, PollNextInv, CompleteInv, FailInv, CancelInv,
           ReadInputsInv, RebaseInv DEF AdapterStep, Poll
    <2>4. \A x \in Adapter : x # a => AdapterAt(x)'
      BY <1>1, <1>2, <2>1, OthersKept, SameAdapter DEF DispatchInv
    <2> QED  BY <2>2, <2>3, <2>4
  <1>3. CASE UNCHANGED vars
    <2>1. JournalKeeps /\ erased' = erased /\ policy' = policy
      BY <1>1, <1>3, UnchangedKeeps DEF vars, journal
    <2>2. \A a \in Adapter : AdapterAt(a)'
      BY <1>1, <1>3, <2>1, UnchangedRows, SameAdapter DEF vars, DispatchInv
    <2> QED  BY <1>1, <1>3, <2>1, <2>2 DEF DispatchInv, ErasedInWindow, Events, vars, journal
  <1>4. ASSUME NEW l \in Line, Commit(l) \/ \E r \in RevisionsOf(Events) : Accept(l, r)
        PROVE  ErasedInWindow' /\ \A a \in Adapter : AdapterAt(a)'
    BY <1>1, <1>4, WritesAnnounce, AnnounceInv
  <1> QED  BY <1>1, <1>2, <1>3, <1>4, ChangeReadersInv, CompactInv DEF Next, DispatchInv

LEMMA Invariance == Spec => []DispatchInv
  BY InitInv, NextInv, PTL DEF Spec

(***************************************************************************)
(* The theorems                                                            *)
(***************************************************************************)

\* Every table of the dispatcher keeps its type, whatever the interleaving.
THEOREM TypeCorrect == Spec => []TypeOK
  BY Invariance, PTL DEF DispatchInv

\* The delivery in flight is unsettled work of a live adapter whose causal circuit
\* is closed, below its depth limit, on a source that compaction left in place.
THEOREM FreshDelivery == Spec => []PendingIsFresh
  <1>1. DispatchInv => PendingIsFresh
    <2> SUFFICES ASSUME DispatchInv, NEW a \in Adapter, pending[a] # NoDelivery
                 PROVE  LET e == pending[a].event IN
                        /\ checkpoint[a] < e /\ Subscribed(a, e) /\ events[e].revision \notin erased
                        /\ <<a, e>> \notin receipts \cup cancelled
                        /\ status[a] \notin {"absent", "installed", "removed"}
                        /\ CausalWork(a, e)
      BY DEF PendingIsFresh
    <2>1. InFlightAt(a) /\ SettledAt(a) /\ checkpoint[a] \in Nat
      BY CheckpointRange DEF DispatchInv, AdapterAt, ProgressAt
    <2>2. pending[a].event \in Events /\ pending[a].event = checkpoint[a] + 1
      BY <2>1 DEF InFlightAt
    <2>3. ~(pending[a].event <= checkpoint[a]) /\ checkpoint[a] < pending[a].event
      BY <2>1, <2>2
    <2> QED  BY <2>1, <2>2, <2>3 DEF InFlightAt, SettledAt
  <1> QED  BY <1>1, Invariance, PTL

\* No event is passed in silence: polling, settling, cancelling and rebuilding
\* move a checkpoint only over events they account for.
THEOREM Gapless == Spec => []NoSilentGap
  <1>1. DispatchInv => NoSilentGap
    BY DEF DispatchInv, AdapterAt, ProgressAt, GapAt, NoSilentGap
  <1> QED  BY <1>1, Invariance, PTL

\* A projection's state and checkpoint stay one, through completions,
\* cancellations, compactions and rebuilds in any order.
THEOREM StateIsCurrent == Spec => []StateMatchesCheckpoint
  <1>1. DispatchInv => StateMatchesCheckpoint
    BY DEF DispatchInv, AdapterAt, ProgressAt, StateAt, StateMatchesCheckpoint
  <1> QED  BY <1>1, Invariance, PTL

(***************************************************************************)
(* Effects                                                                 *)
(***************************************************************************)

EffectStep(a, k) ==
    \/ \E l \in Lease : RequestEffect(a, l, k)
    \/ BeginEffect(a, k)
    \/ \E o \in {"confirmed", "failed"} : Reconcile(a, k, o)

\* Only the three operations on effects write intents, one at a time.
LEMMA EffectsChange ==
    ASSUME [Next]_vars
    PROVE  effects' = effects \/ \E a \in Adapter, k \in Key : EffectStep(a, k)
  <1>1. ASSUME NEW a \in Adapter, AdapterStep(a)
        PROVE  effects' = effects \/ \E k \in Key : EffectStep(a, k)
    BY <1>1 DEF AdapterStep, Poll, Install, SetAdapterState, SetCausalPolicy, PollPending, PollNext,
                Complete, FailHandler, ReplayDeadLetter, CancelDelivery, ReadInputs, Rebase, EffectStep
  <1> QED  BY <1>1 DEF Next, vars, Commit, Accept, Announce, ChangeReaders, Compact

\* No redelivery, replay or reconciliation makes an effect dispatchable again.
THEOREM SentOnce == Spec => NeverSentTwice
  <1> DEFINE Kept == \A i \in Adapter \X Key : effects[i].state \in {"unknown", "confirmed", "failed"} =>
                 effects'[i].state \notin {"absent", "pending"} /\ effects'[i].event = effects[i].event
  <1>1. ASSUME TypeOK, NEW a \in Adapter, NEW k \in Key, EffectStep(a, k)
        PROVE  Kept
    <2>1. effects \in [Adapter \X Key -> Effect(Len(events))]
      BY <1>1, TypeParts DEF EffectsOK
    <2>2. CASE \E l \in Lease : RequestEffect(a, l, k)
      BY <2>1, <2>2 DEF RequestEffect, KeyFree
    <2>3. CASE BeginEffect(a, k)
      BY <2>1, <2>3 DEF BeginEffect, Effect
    <2>4. CASE \E o \in {"confirmed", "failed"} : Reconcile(a, k, o)
      <3>1. PICK o \in {"confirmed", "failed"} : effects' = [effects EXCEPT ![<<a, k>>].state = o]
        BY <2>4 DEF Reconcile
      <3>2. \A i \in Adapter \X Key : /\ effects'[i].event = effects[i].event
                                     /\ effects'[i].state \in {effects[i].state, o}
        BY <2>1, <3>1 DEF Effect
      <3> QED  BY <3>2
    <2> QED  BY <1>1, <2>2, <2>3, <2>4 DEF EffectStep
  <1>2. DispatchInv /\ [Next]_vars => [Kept]_vars
    BY <1>1, EffectsChange DEF DispatchInv
  <1> QED  BY <1>2, Invariance, PTL DEF Spec, NeverSentTwice

(***************************************************************************)
(* The abstract outbox                                                     *)
(***************************************************************************)

\* One intent moves from one state to another.
LEMMA IntentMoves ==
    ASSUME TypeOK, NEW i \in Adapter \X Key, NEW before, NEW after, NEW event,
           effects[i].state = before,
           effects' = [effects EXCEPT ![i] = [event |-> event, state |-> after]]
    PROVE  External!Move({i}, before, after)
  <1>1. effects \in [Adapter \X Key -> Effect(Len(events))]
    BY TypeParts DEF EffectsOK
  <1>2. \A j \in Adapter \X Key : effects'[j].state = IF j \in {i} THEN after ELSE effects[j].state
    BY <1>1
  <1> QED  BY <1>2 DEF External!Move

LEMMA EffectMoves ==
    ASSUME TypeOK, NEW a \in Adapter, NEW k \in Key, EffectStep(a, k)
    PROVE  External!Next
  <1> DEFINE i == <<a, k>>
             e == effects[i].event
  <1>0. i \in Adapter \X Key
    OBVIOUS
  <1>1. effects[i] = [event |-> e, state |-> effects[i].state]
    BY TypeParts DEF EffectsOK, Effect
  <1>2. ASSUME NEW s, effects' = [effects EXCEPT ![i].state = s]
        PROVE  effects' = [effects EXCEPT ![i] = [event |-> e, state |-> s]]
    <2> HIDE DEF i, e
    <2>1. [effects[i] EXCEPT !.state = s] = [event |-> e, state |-> s]
      BY <1>1
    <2> QED  BY <1>2, <2>1
  <1> HIDE DEF i, e
  <1>3. ASSUME NEW l \in Lease, RequestEffect(a, l, k) PROVE External!Next
    <2>1. External!Move({i}, "absent", "pending")
      BY <1>0, <1>3, IntentMoves DEF RequestEffect, KeyFree, i
    <2>2. External!Request({i})
      BY <2>1 DEF External!Request
    <2> QED  BY <1>0, <2>2 DEF External!Next
  <1>4. ASSUME BeginEffect(a, k) PROVE External!Next
    <2>1. External!Move({i}, "pending", "unknown")
      BY <1>0, <1>2, <1>4, IntentMoves DEF BeginEffect, i
    <2>2. External!Send(i)
      BY <2>1 DEF External!Send
    <2> QED  BY <1>0, <2>2 DEF External!Next
  <1>5. ASSUME NEW o \in {"confirmed", "failed"}, Reconcile(a, k, o) PROVE External!Next
    <2>1. External!Move({i}, "unknown", o)
      BY <1>0, <1>2, <1>5, IntentMoves DEF Reconcile, i
    <2>2. External!Report(i, o)
      BY <2>1 DEF External!Report
    <2> QED  BY <1>0, <2>2 DEF External!Next
  <1> QED  BY <1>3, <1>4, <1>5 DEF EffectStep

\* Each intent follows the life of the abstract outbox: redelivery, replay, cancellation and
\* compaction never request, send or report an effect a second time (request_effect,
\* begin_effect_dispatch, reconcile_effect).
THEOREM OutboxImplemented == Spec => ImplementsOutbox
  <1>1. Init => External!Init
    BY DEF Init, External!Init, NoIntent
  <1>2. DispatchInv /\ [Next]_vars => [External!Next]_External!vars
    <2>1. ASSUME effects' = effects PROVE UNCHANGED External!vars
      BY <2>1 DEF External!vars
    <2> QED  BY <2>1, EffectsChange, EffectMoves DEF DispatchInv
  <1> QED  BY <1>1, <1>2, Invariance, PTL DEF Spec, ImplementsOutbox, External!Spec

\* An open circuit stops completions and effects of its adapter.
THEOREM CircuitHolds == Spec => CircuitStopsWork
  <1> DEFINE Stopped(a) ==
        circuit[a] # NoCircuit =>
          /\ \A e \in Events : <<a, e>> \in receipts' => <<a, e>> \in receipts
          /\ \A k \in Key : effects'[<<a, k>>].state = "unknown" => effects[<<a, k>>].state = "unknown"
  <1>1. ASSUME TypeOK, [Next]_vars, NEW a \in Adapter, circuit[a] # NoCircuit, NEW e,
               <<a, e>> \in receipts'
        PROVE  <<a, e>> \in receipts
    <2>1. CASE \E l \in Lease, o \in Outputs(a) : Complete(a, l, o)
      BY <1>1, <2>1 DEF Complete, CausalWork
    <2>2. ASSUME NEW b \in Adapter, AdapterStep(b), b # a PROVE <<a, e>> \in receipts
      BY <1>1, <2>2, OthersKept DEF RowsKept
    <2>3. ASSUME AdapterStep(a) PROVE <<a, e>> \in receipts
      BY <1>1, <2>1, <2>3
         DEF AdapterStep, Poll, Install, SetAdapterState, SetCausalPolicy, PollPending, PollNext,
             FailHandler, ReplayDeadLetter, CancelDelivery, ReadInputs, Rebase, RequestEffect,
             BeginEffect, Reconcile, delivery
    <2> QED
      BY <1>1, <2>2, <2>3 DEF Next, vars, Commit, Accept, Announce, ChangeReaders, Compact, delivery
  <1>2. ASSUME TypeOK, [Next]_vars, NEW a \in Adapter, circuit[a] # NoCircuit, NEW k \in Key,
               effects'[<<a, k>>].state = "unknown"
        PROVE  effects[<<a, k>>].state = "unknown"
    <2>1. effects \in [Adapter \X Key -> Effect(Len(events))]
      BY <1>2, TypeParts DEF EffectsOK
    <2>2. ASSUME NEW b \in Adapter, NEW j \in Key, EffectStep(b, j)
          PROVE  effects[<<a, k>>].state = "unknown"
      <3>1. CASE \E l \in Lease : RequestEffect(b, l, j)
        BY <1>2, <2>1, <3>1 DEF RequestEffect
      <3>2. CASE BeginEffect(b, j)
        BY <1>2, <2>1, <3>2 DEF BeginEffect, CausalWork, Effect
      <3>3. CASE \E o \in {"confirmed", "failed"} : Reconcile(b, j, o)
        BY <1>2, <2>1, <3>3 DEF Reconcile, Effect
      <3> QED  BY <2>2, <3>1, <3>2, <3>3 DEF EffectStep
    <2> QED  BY <1>2, <2>2, EffectsChange
  <1>3. DispatchInv /\ [Next]_vars => [\A a \in Adapter : Stopped(a)]_vars
    BY <1>1, <1>2 DEF DispatchInv
  <1> QED  BY <1>3, Invariance, PTL DEF Spec, CircuitStopsWork

(***************************************************************************)
(* Outcomes, lineage and the ownership of effects                          *)
(***************************************************************************)

\* How a step of a leaves the event of its delivery.
LEMMA DeliveryMoves ==
    ASSUME TypeOK, NEW a \in Adapter, AdapterStep(a)
    PROVE  \/ pending'[a].event = pending[a].event
           \/ pending[a] = NoDelivery
           \/ \E l \in Lease, o \in Outputs(a) : Complete(a, l, o)
           \/ \E l \in Lease : CancelDelivery(a, l)
  <1>1. CASE PollPending(a)
    <2>1. ASSUME NEW n, Deliver(a, pending[a].event, n) PROVE pending'[a].event = pending[a].event
      BY <2>1 DEF Deliver, Grant, Suspend, TypeOK
    <2> QED  BY <1>1, <2>1 DEF PollPending, TypeOK
  <1>2. CASE ReplayDeadLetter(a) \/ \E l \in Lease : FailHandler(a, l)
    BY <1>2 DEF ReplayDeadLetter, FailHandler, TypeOK
  <1>3. CASE \/ Install(a) \/ ReadInputs(a) \/ Rebase(a)
             \/ \E s \in {"running", "paused", "draining", "removed"} : SetAdapterState(a, s)
             \/ \E d \in 1..MAX_DEPTH : SetCausalPolicy(a, d)
             \/ \E k \in Key : EffectStep(a, k)
    BY <1>3 DEF Install, ReadInputs, Rebase, SetAdapterState, SetCausalPolicy, EffectStep,
                RequestEffect, BeginEffect, Reconcile, delivery
  <1>4. CASE PollNext(a)
    BY <1>4 DEF PollNext
  <1> QED  BY <1>1, <1>2, <1>3, <1>4 DEF AdapterStep, Poll, EffectStep

\* An intent names a destination of its adapter, and a delivery that is being
\* handled or was completed.
BelongsAt(a) ==
    \A k \in Key : effects[<<a, k>>] # NoIntent =>
        /\ k \in Manifest[a].effects /\ effects[<<a, k>>].event \in Events
        /\ <<a, effects[<<a, k>>].event>> \in receipts \/ pending[a].event = effects[<<a, k>>].event

LEMMA BelongsOwn ==
    ASSUME DispatchInv, NEW a \in Adapter, BelongsAt(a), AdapterStep(a)
    PROVE  BelongsAt(a)'
  <1>1. TypeOK /\ InFlightAt(a) /\ effects \in [Adapter \X Key -> Effect(Len(events))]
    BY TypeParts DEF DispatchInv, AdapterAt, EffectsOK
  <1>2. Events \subseteq Events'
    BY <1>1, AdapterJournal, GrowthKeepsEvents DEF JournalKeeps
  <1>3. CASE effects' = effects
    <2>1. CASE \E l \in Lease, o \in Outputs(a) : Complete(a, l, o)
      <3>1. receipts' = receipts \cup {<<a, pending[a].event>>}
        BY <2>1 DEF Complete, FirstCompletion, CheckLease
      <3> QED  BY <1>2, <1>3, <3>1 DEF BelongsAt
    <2>2. CASE \E l \in Lease : CancelDelivery(a, l)
      <3>1. Manifest[a].effects = {}
        BY <2>2 DEF CancelDelivery, PureHandler
      <3> QED  BY <1>3, <3>1 DEF BelongsAt
    <2>3. receipts \subseteq receipts'
      BY DEF AdapterStep, Poll, Install, SetAdapterState, SetCausalPolicy, PollPending, PollNext,
             Complete, FailHandler, ReplayDeadLetter, CancelDelivery, ReadInputs, Rebase,
             RequestEffect, BeginEffect, Reconcile, delivery
    <2>4. CASE pending'[a].event = pending[a].event
      BY <1>2, <1>3, <2>3, <2>4 DEF BelongsAt
    <2>5. CASE pending[a] = NoDelivery
      <3>1. pending[a].event \notin Events
        BY <2>5 DEF NoDelivery, Events
      <3> QED  BY <1>2, <1>3, <2>3, <3>1 DEF BelongsAt
    <2> QED  BY <1>1, <2>1, <2>2, <2>4, <2>5, DeliveryMoves
  <1>4. ASSUME NEW k \in Key, EffectStep(a, k), UNCHANGED <<journal, delivery>>
        PROVE  BelongsAt(a)'
    <2>1. pending' = pending /\ receipts' = receipts
      BY <1>4 DEF delivery
    <2>2. CASE \E l \in Lease : RequestEffect(a, l, k)
      <3>1. PICK l \in Lease :
               /\ k \in Manifest[a].effects /\ CheckLease(a, held[a][l], l)
               /\ effects' = [effects EXCEPT ![<<a, k>>] = [event |-> held[a][l], state |-> "pending"]]
        BY <2>2 DEF RequestEffect
      <3>2. pending[a].event = held[a][l] /\ pending[a].event \in Events
        BY <1>1, <3>1, LeasedIsInFlight DEF CheckLease, InFlightAt
      <3> QED  BY <1>1, <1>2, <2>1, <3>1, <3>2 DEF BelongsAt
    <2>3. CASE BeginEffect(a, k) \/ \E o \in {"confirmed", "failed"} : Reconcile(a, k, o)
      <3>1. effects[<<a, k>>].state # "absent"
        BY <2>3 DEF BeginEffect, Reconcile
      <3>2. PICK o : effects' = [effects EXCEPT ![<<a, k>>].state = o]
        BY <2>3 DEF BeginEffect, Reconcile
      <3>3. \A j \in Key : /\ effects'[<<a, j>>].event = effects[<<a, j>>].event
                           /\ j = k \/ effects'[<<a, j>>] = effects[<<a, j>>]
        BY <1>1, <3>2 DEF Effect
      <3>4. effects[<<a, k>>] # NoIntent
        BY <3>1 DEF NoIntent
      <3> QED  BY <1>2, <2>1, <3>3, <3>4 DEF BelongsAt
    <2> QED  BY <1>4, <2>2, <2>3 DEF EffectStep
  <1>5. ASSUME NEW k \in Key, EffectStep(a, k) PROVE UNCHANGED <<journal, delivery>>
    BY <1>5 DEF EffectStep, RequestEffect, BeginEffect, Reconcile
  <1>6. effects' = effects \/ \E k \in Key : EffectStep(a, k)
    BY DEF AdapterStep, Poll, Install, SetAdapterState, SetCausalPolicy, PollPending, PollNext,
           Complete, FailHandler, ReplayDeadLetter, CancelDelivery, ReadInputs, Rebase, EffectStep
  <1> QED  BY <1>3, <1>4, <1>5, <1>6

\* Causal ancestry of one event, and the circuit of one adapter.
LineageAt(i) ==
    /\ events[i].by = Root => events[i].depth = 0 /\ events[i].root = i
    /\ events[i].by # Root =>
         LET p == events[i].parent  a == events[i].by IN
         /\ p \in 1..(i - 1)
         /\ events[i].depth = events[p].depth + 1 /\ events[i].root = events[p].root
         /\ Subscribed(a, p) /\ events[i].line \in Manifest[a].outputs
         /\ <<a, p>> \in receipts
CircuitAt(a) ==
    circuit[a] # NoCircuit =>
        /\ circuit[a].event \in Events /\ circuit[a].limit = limit[a]
        /\ limit[a] <= events[circuit[a].event].depth

\* A receipt's results are the handler's events of that delivery, all and only.
OutputOnce ==
    \A a \in Adapter, e \in 1..MaxEvents :
        results[<<a, e>>] = {i \in Events : events[i].by = a /\ events[i].parent = e}

CausalInv ==
    /\ \A i \in Events : LineageAt(i)
    /\ OutputOnce /\ receipts \cap cancelled = {}
    /\ \A a \in Adapter : CircuitAt(a) /\ BelongsAt(a)

\* No step takes a receipt back.
LEMMA ReceiptsGrow == [Next]_vars => receipts \subseteq receipts'
  <1>1. ASSUME NEW a \in Adapter, AdapterStep(a) PROVE receipts \subseteq receipts'
    BY <1>1 DEF delivery, AdapterStep, Poll, Install, SetAdapterState, SetCausalPolicy, PollPending,
                PollNext, Complete, FailHandler, ReplayDeadLetter, CancelDelivery, ReadInputs,
                Rebase, RequestEffect, BeginEffect, Reconcile
  <1> QED  BY <1>1 DEF Next, vars, delivery, Commit, Accept, Announce, ChangeReaders, Compact

LEMMA LineageKept ==
    ASSUME TypeOK, JournalKeeps, receipts \subseteq receipts', NEW i \in Events, LineageAt(i)
    PROVE  LineageAt(i)'
  <1>1. events'[i] = events[i]
    BY DEF JournalKeeps
  <1>2. CASE events[i].by = Root
    BY <1>1, <1>2 DEF LineageAt
  <1>3. CASE events[i].by # Root
    <2>1. PICK p : p = events[i].parent
      OBVIOUS
    <2>2. p \in 1..(i - 1) /\ p \in Events /\ Len(events) \in Nat
      BY <1>3, <2>1, JournalTypes DEF LineageAt, Events
    <2>3. events'[p] = events[p]
      BY <2>2 DEF JournalKeeps
    <2> QED  BY <1>1, <1>3, <2>1, <2>2, <2>3 DEF LineageAt, Subscribed
  <1> QED  BY <1>2, <1>3

\* The journal's writers: a root event, or the output of a first completion.
LEMMA AnnounceCausal ==
    ASSUME DispatchInv, CausalInv, NEW l \in Line, NEW r, Announce(l, r), receipts \subseteq receipts'
    PROVE  (\A i \in Events : LineageAt(i))' /\ OutputOnce'
  <1>1. PICK n : n = Len(events) + 1
    OBVIOUS
  <1>2. /\ JournalKeeps /\ Len(events') = n /\ Len(events) \in Nat /\ TypeOK
        /\ events'[n] = RootEvent(l, r) /\ results' = results
    BY <1>1, AppendKeeps, JournalTypes DEF DispatchInv, Announce, delivery
  <1>3. Events' = Events \cup {n}
    BY <1>1, <1>2 DEF Events
  <1>4. \A i \in Events : LineageAt(i)' /\ events'[i] = events[i]
    BY <1>2, LineageKept DEF CausalInv, JournalKeeps
  <1>5. LineageAt(n)'
    BY <1>1, <1>2 DEF LineageAt, RootEvent
  <1>6. OutputOnce'
    <2>1. \A a \in Adapter : events'[n].by # a
      BY <1>2, DispatchAssumption DEF RootEvent
    <2> QED  BY <1>2, <1>3, <1>4, <2>1 DEF OutputOnce, CausalInv
  <1> QED  BY <1>3, <1>4, <1>5, <1>6

LEMMA CompleteCausal ==
    ASSUME DispatchInv, CausalInv, NEW a \in Adapter, NEW lease \in Lease,
           NEW output \in Outputs(a), Complete(a, lease, output), receipts \subseteq receipts'
    PROVE  (\A i \in Events : LineageAt(i))' /\ OutputOnce'
  <1> DEFINE new == OutputEvents(output)
  <1>1. PICK e : e = held[a][lease]
    OBVIOUS
  <1>2. /\ e \in Events /\ Subscribed(a, e) /\ <<a, e>> \notin receipts /\ CausalWork(a, e)
        /\ <<a, e>> \in receipts' /\ events' = WithOutput(a, e, output)
        /\ Len(events) + Len(output) <= MaxEvents
        /\ results' = [results EXCEPT ![<<a, e>>] = new]
    BY <1>1 DEF Complete, ScopedEvent, FirstCompletion
  <1>3. TypeOK /\ JournalKeeps /\ Len(events) \in Nat /\ a # Root
    BY AdapterJournal, JournalTypes, DispatchAssumption DEF DispatchInv, AdapterStep
  <1>4. \A i \in Events : LineageAt(i)' /\ events'[i] = events[i]
    BY <1>3, LineageKept DEF CausalInv, JournalKeeps
  <1>5. /\ Events' = Events \cup new
        /\ \A i \in new : i \notin Events
        /\ \A i \in new : \E l \in Manifest[a].outputs : events'[i] = HandlerEvent(a, e, l, i)
    BY <1>2, <1>3, OutputAppended
  <1>6. \A i \in new : /\ events'[i].by = a /\ events'[i].parent = e
                       /\ events'[i].line \in Manifest[a].outputs
                       /\ events'[i].root = events[e].root
                       /\ events'[i].depth = events[e].depth + 1
    BY <1>5, HandlerFields
  <1>7. \A i \in new : e \in 1..(i - 1)
    BY <1>2, <1>3 DEF Events, OutputEvents
  <1> HIDE DEF new
  <1>8. \A i \in new : LineageAt(i)'
    <2>1. events'[e] = events[e]
      BY <1>2, <1>4
    <2> QED  BY <1>2, <1>3, <1>6, <1>7, <2>1 DEF LineageAt, Subscribed
  <1>9. OutputOnce'
    <2>1. e \in 1..MaxEvents /\ results \in [Adapter \X (1..MaxEvents) -> SUBSET (1..MaxEvents)]
      <3>1. Len(events) <= MaxEvents /\ MaxEvents \in Nat
        BY <1>3, ConstantTypes DEF TypeOK
      <3> QED  BY <1>2, <1>3, <3>1 DEF TypeOK, Events
    <2>2. \A i \in Events : ~(events[i].by = a /\ events[i].parent = e)
      BY <1>2, <1>3 DEF CausalInv, LineageAt
    <2> SUFFICES ASSUME NEW b \in Adapter, NEW f \in 1..MaxEvents
                 PROVE  results'[<<b, f>>] = {i \in Events' : events'[i].by = b /\ events'[i].parent = f}
      BY DEF OutputOnce
    <2>3. CASE b = a /\ f = e
      <3>1. results'[<<b, f>>] = new
        BY <1>2, <2>1, <2>3
      <3>2. {i \in Events' : events'[i].by = b /\ events'[i].parent = f} = new
        BY <1>4, <1>5, <1>6, <2>2, <2>3
      <3> QED  BY <3>1, <3>2
    <2>4. CASE ~(b = a /\ f = e)
      <3>1. results'[<<b, f>>] = results[<<b, f>>]
        BY <1>2, <2>1, <2>4
      <3>2. results[<<b, f>>] = {i \in Events : events[i].by = b /\ events[i].parent = f}
        BY DEF CausalInv, OutputOnce
      <3> QED  BY <1>4, <1>5, <1>6, <2>4, <3>1, <3>2
    <2> QED  BY <2>3, <2>4
  <1> QED  BY <1>4, <1>5, <1>8, <1>9

\* An open circuit names an event at or over the adapter's limit.
LEMMA CircuitOwn ==
    ASSUME DispatchInv, NEW a \in Adapter, CircuitAt(a), AdapterStep(a)
    PROVE  CircuitAt(a)'
  <1>1. TypeOK /\ InFlightAt(a) /\ JournalKeeps /\ Events \subseteq Events'
    BY AdapterJournal, GrowthKeepsEvents DEF DispatchInv, AdapterAt, JournalKeeps
  <1>2. CASE circuit'[a] = circuit[a] /\ limit'[a] = limit[a]
    BY <1>1, <1>2 DEF CircuitAt, JournalKeeps
  <1>3. ASSUME NEW e \in Events, NEW n, Deliver(a, e, n), UNCHANGED limit
        PROVE  CircuitAt(a)'
    <2>1. CASE CausalWork(a, e)
      BY <1>2, <1>3, <2>1 DEF Deliver, Grant
    <2>2. CASE circuit[a] # NoCircuit
      BY <1>2, <1>3, <2>2 DEF Deliver, Grant, Suspend
    <2>3. CASE circuit[a] = NoCircuit /\ ~(events[e].depth < limit[a])
      <3>1. circuit'[a] = [event |-> e, limit |-> limit[a]]
        BY <1>1, <1>3, <2>3 DEF Deliver, Suspend, CausalWork, TypeOK
      <3>2. events'[e] = events[e] /\ e \in Events'
        BY <1>1 DEF JournalKeeps
      <3>3. limit[a] <= events[e].depth
        BY <1>1, <2>3, JournalTypes, DeliveryTypes, ConstantTypes
      <3> QED  BY <1>3, <3>1, <3>2, <3>3 DEF CircuitAt
    <2> QED  BY <2>1, <2>2, <2>3 DEF CausalWork
  <1>4. CASE PollPending(a)
    <2>1. pending[a] # NoDelivery /\ pending[a].event \in Events
      BY <1>1, <1>4 DEF PollPending, InFlightAt, NoDelivery
    <2>2. PICK e \in Events : e = pending[a].event
      BY <2>1
    <2>3. CASE \E n : Deliver(a, pending[a].event, n)
      <3>1. \E n : Deliver(a, e, n)
        BY <2>2, <2>3
      <3> QED  BY <1>3, <1>4, <3>1 DEF PollPending
    <2>4. CASE UNCHANGED circuit
      BY <1>2, <1>4, <2>4 DEF PollPending
    <2> QED  BY <1>4, <2>3, <2>4 DEF PollPending
  <1>5. CASE PollNext(a)
    <2>1. PICK stop \in checkpoint[a]..ScanEnd(a) :
             UNCHANGED circuit \/ (Found(a, stop) /\ Deliver(a, stop + 1, 1))
      BY <1>5 DEF PollNext
    <2>2. UNCHANGED limit
      BY <1>5 DEF PollNext
    <2>3. CASE Found(a, stop) /\ Deliver(a, stop + 1, 1)
      <3>1. PICK e \in Events : e = stop + 1
        BY <2>3 DEF Found, ScopedEvent
      <3> QED  BY <1>3, <2>2, <2>3, <3>1
    <2> QED  BY <1>2, <2>1, <2>2, <2>3
  <1>6. CASE \E d \in 1..MAX_DEPTH : SetCausalPolicy(a, d)
    BY <1>1, <1>6 DEF SetCausalPolicy, CircuitAt, TypeOK
  <1>7. CASE UNCHANGED causal
    BY <1>2, <1>7 DEF causal
  <1> QED
    BY <1>4, <1>5, <1>6, <1>7
       DEF AdapterStep, Poll, Install, SetAdapterState, Complete, FailHandler, ReplayDeadLetter,
           CancelDelivery, ReadInputs, Rebase, RequestEffect, BeginEffect, Reconcile

\* An occurrence that is receipted or cancelled is neither again.
LEMMA DisjointKept ==
    ASSUME DispatchInv, CausalInv, [Next]_vars
    PROVE  (receipts \cap cancelled = {})'
  <1>1. ASSUME NEW a \in Adapter, NEW l \in Lease, NEW o \in Outputs(a), Complete(a, l, o)
        PROVE  receipts' \cap cancelled' = {}
    BY <1>1 DEF Complete, CausalInv
  <1>2. ASSUME NEW a \in Adapter, NEW l \in Lease, CancelDelivery(a, l)
        PROVE  receipts' \cap cancelled' = {}
    BY <1>2 DEF CancelDelivery, CausalInv
  <1>3. ASSUME UNCHANGED <<receipts, cancelled>> PROVE receipts' \cap cancelled' = {}
    BY <1>3 DEF CausalInv
  <1>4. ASSUME NEW a \in Adapter, AdapterStep(a) PROVE receipts' \cap cancelled' = {}
    BY <1>1, <1>2, <1>3, <1>4
       DEF AdapterStep, Poll, Install, SetAdapterState, SetCausalPolicy, PollPending, PollNext,
           FailHandler, ReplayDeadLetter, ReadInputs, Rebase, RequestEffect, BeginEffect,
           Reconcile, delivery
  <1> QED  BY <1>3, <1>4 DEF Next, vars, delivery, Commit, Accept, Announce, ChangeReaders, Compact

\* Circuits and intents of an adapter whose rows and intents a step leaves alone.
LEMMA CausalRowsKept ==
    ASSUME TypeOK, JournalKeeps, NEW a \in Adapter, RowsKept(a), CircuitAt(a) /\ BelongsAt(a),
           \A k \in Key : effects'[<<a, k>>] = effects[<<a, k>>]
    PROVE  CircuitAt(a)' /\ BelongsAt(a)'
  <1>1. Events \subseteq Events'
    BY GrowthKeepsEvents DEF JournalKeeps
  <1>2. CircuitAt(a)'
    BY <1>1 DEF CircuitAt, RowsKept, JournalKeeps
  <1>3. BelongsAt(a)'
    BY <1>1 DEF BelongsAt, RowsKept
  <1> QED  BY <1>2, <1>3

LEMMA OthersIntents ==
    ASSUME TypeOK, NEW a \in Adapter, NEW x \in Adapter, x # a, AdapterStep(a), NEW k \in Key
    PROVE  effects'[<<x, k>>] = effects[<<x, k>>]
  <1>1. effects \in [Adapter \X Key -> Effect(Len(events))]
    BY TypeParts DEF EffectsOK
  <1>2. ASSUME NEW j \in Key, EffectStep(a, j) PROVE effects'[<<x, k>>] = effects[<<x, k>>]
    BY <1>1, <1>2 DEF EffectStep, RequestEffect, BeginEffect, Reconcile
  <1>3. effects' = effects \/ \E j \in Key : EffectStep(a, j)
    BY DEF AdapterStep, Poll, Install, SetAdapterState, SetCausalPolicy, PollPending, PollNext,
           Complete, FailHandler, ReplayDeadLetter, CancelDelivery, ReadInputs, Rebase, EffectStep
  <1> QED  BY <1>2, <1>3

LEMMA NextCausal == DispatchInv /\ CausalInv /\ [Next]_vars => CausalInv'
  <1> SUFFICES ASSUME DispatchInv, CausalInv, [Next]_vars PROVE CausalInv'
    OBVIOUS
  <1>1. TypeOK /\ receipts \subseteq receipts' /\ (receipts \cap cancelled = {})'
    BY ReceiptsGrow, DisjointKept DEF DispatchInv
  <1>2. ASSUME UNCHANGED <<events, results>>
        PROVE  JournalKeeps /\ (\A i \in Events : LineageAt(i))' /\ OutputOnce'
    <2>1. JournalKeeps /\ Events' = Events
      BY <1>1, <1>2, UnchangedKeeps DEF Events
    <2>2. \A i \in Events : LineageAt(i)'
      BY <1>1, <2>1, LineageKept DEF CausalInv
    <2> QED  BY <1>2, <2>1, <2>2 DEF CausalInv, OutputOnce
  <1>3. ASSUME JournalKeeps, UNCHANGED <<delivery, rebase, causal, effects>>
        PROVE  \A a \in Adapter : CircuitAt(a)' /\ BelongsAt(a)'
    BY <1>1, <1>3, UnchangedRows, CausalRowsKept DEF CausalInv
  <1>4. ASSUME NEW l \in Line, Commit(l) \/ \E r \in RevisionsOf(Events) : Accept(l, r)
        PROVE  CausalInv'
    <2>1. PICK r : Announce(l, r)
      BY <1>1, <1>4, WritesAnnounce
    <2>2. JournalKeeps
      BY <1>1, <2>1, AppendKeeps DEF Announce
    <2> QED  BY <1>1, <1>3, <2>1, <2>2, AnnounceCausal DEF CausalInv, Announce
  <1>5. ASSUME UNCHANGED <<events, delivery, rebase, causal, effects>> PROVE CausalInv'
    BY <1>1, <1>2, <1>3, <1>5 DEF CausalInv, delivery
  <1>6. ASSUME NEW a \in Adapter, AdapterStep(a) PROVE CausalInv'
    <2>1. JournalKeeps /\ (\A i \in Events : LineageAt(i))' /\ OutputOnce'
      <3>1. CASE UNCHANGED <<events, results>>
        BY <1>2, <3>1
      <3>2. CASE \E l \in Lease, o \in Outputs(a) : Complete(a, l, o)
        BY <1>1, <1>6, <3>2, CompleteCausal, AdapterJournal
      <3> QED  BY <1>1, <1>6, <3>1, <3>2, AdapterJournal
    <2>2. CircuitAt(a)' /\ BelongsAt(a)'
      BY <1>6, CircuitOwn, BelongsOwn DEF CausalInv
    <2>3. \A x \in Adapter : x # a => CircuitAt(x)' /\ BelongsAt(x)'
      BY <1>1, <1>6, <2>1, OthersKept, OthersIntents, CausalRowsKept DEF CausalInv
    <2> QED  BY <1>1, <2>1, <2>2, <2>3 DEF CausalInv
  <1> QED  BY <1>4, <1>5, <1>6 DEF Next, vars, journal, ChangeReaders, Compact

LEMMA CausalInvariance == Spec => []CausalInv
  <1>1. Init => CausalInv
    BY DEF Init, CausalInv, OutputOnce, CircuitAt, BelongsAt, Events, NoCircuit, NoIntent
  <1> QED  BY <1>1, NextCausal, Invariance, PTL DEF Spec

\* However often a delivery is granted, redelivered, replayed or settled late, its
\* occurrence has one outcome, and the journal holds exactly the events its receipt names.
THEOREM SettledOnce == Spec => []OneOutcome
  <1>1. CausalInv => OneOutcome
    BY DEF CausalInv, OutputOnce, OneOutcome
  <1> QED  BY <1>1, CausalInvariance, PTL

\* The ancestry checks of causal reads never fail.
THEOREM Ancestry == Spec => []LineageHolds
  <1>1. ASSUME TypeOK, CausalInv, NEW i \in Events, events[i].by # Root
        PROVE  i \in results[<<events[i].by, events[i].parent>>]
    <2>1. events[i].by \in Adapter /\ events[i].parent \in 1..(i - 1)
      BY <1>1, JournalTypes DEF Event, CausalInv, LineageAt
    <2>2. events[i].parent \in 1..MaxEvents
      BY <1>1, <2>1, JournalTypes, ConstantTypes DEF Event, Events
    <2> QED  BY <1>1, <2>1, <2>2 DEF CausalInv, OutputOnce
  <1>2. DispatchInv /\ CausalInv => LineageHolds
    BY <1>1 DEF DispatchInv, CausalInv, LineageAt, CircuitAt, LineageHolds
  <1> QED  BY <1>2, Invariance, CausalInvariance, PTL

\* No effect is left without the delivery it was requested for.
THEOREM EffectsOwned == Spec => []EffectsBelong
  <1>1. CausalInv => EffectsBelong
    BY DEF CausalInv, BelongsAt, EffectsBelong
  <1> QED  BY <1>1, CausalInvariance, PTL
=============================================================================
