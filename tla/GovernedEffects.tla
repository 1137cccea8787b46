-------------------------- MODULE GovernedEffects ---------------------------
(***************************************************************************)
(* The delivery of accepted decisions to adapters, and the external        *)
(* effects a governed grant lets an adapter request from them.  A          *)
(* subscription walks the view's decision events past the ones its owner   *)
(* cannot read, leases one at a time under a contiguous local ordinal, and *)
(* advances when that one is settled: acknowledged by a plain adapter,     *)
(* turned into an intent (or an explicit no-effect receipt) by a governed  *)
(* one.  An intent is dispatched once, under authority checked afresh.     *)
(*                                                                         *)
(* The event of a decision is its position in `decisions'.  A lease is     *)
(* compared with the clock only, which may answer either way, unless it    *)
(* was made void; a stale lease token is refused, so only the current one  *)
(* is presented.                                                           *)
(***************************************************************************)
EXTENDS Governance

CONSTANTS
    Adapter,        \* adapter identities
    Owner,          \* the principal of each manifest
    Limits,         \* max_attempts and max_pending_events of each manifest
    Plans,          \* bound: what hosts may ask of the adapters of one engine, as the
                    \* installations (plain, governed) and lifecycle states of each
    Execution,      \* execution namespaces of one destination
    NoExecution,
    Grant           \* the grant pinned with each manifest: its execution namespace, the
                    \* sources in its scope with its schema and a fixed closure, its
                    \* validity, and whether it replays history

\* The states a host may set.
Requested == {"running", "paused", "draining", "removed"}
Lifecycle == {"absent", "installed"} \cup Requested

ASSUME GrantAssumption ==
    /\ Owner \in [Adapter -> Host]
    /\ Limits \in [Adapter -> [attempts : Nat \ {0}, backlog : Nat \ {0}]]
    /\ Plans \subseteq [Adapter -> SUBSET ({"plain", "governed"} \cup Requested)]
    /\ NoExecution \notin Execution
    /\ Grant \in [Adapter -> [execution : Execution, sources : SUBSET Source,
                              from : Nat, until : Nat, replay : BOOLEAN]]

VARIABLES
    plan,           \* what the hosts of this engine ask of each adapter
    status,         \* dispatch_adapters.state
    subscription,   \* table governance_subscriptions
    pending,        \* table governance_delivery_pending
    acked,          \* table governance_delivery_receipts: the ordinal of each event
    bound,          \* table governed_effect_bindings
    dispositions,   \* table governed_effect_receipts
    intents,        \* tables effect_intents and governed_effect_context
    passed          \* history: events behind the start of a grant, or not readable
                    \* when the scan of a subscription went past them

delivery == <<status, subscription, pending, acked, passed>>
effects == <<bound, dispositions, intents>>
vars == <<governance, delivery, effects, plan>>

Event == 1..MaxDecisions
NoSubscription == [state |-> "none", checkpoint |-> 0, ordinal |-> 0]
NoDelivery == [event |-> 0, ordinal |-> 0, attempts |-> 0, leased |-> FALSE, dead |-> FALSE]
NoBinding == [execution |-> NoExecution, revoked |-> FALSE]

TypeOK ==
    /\ GovernanceTypeOK
    /\ plan \in Plans
    /\ status \in [Adapter -> Lifecycle]
    /\ subscription \in [Adapter -> [state : {"none", "active", "canceled"},
                                     checkpoint : 0..Len(decisions), ordinal : 0..MaxDecisions]]
    /\ pending \in [Adapter -> [event : 0..Len(decisions), ordinal : 0..MaxDecisions,
                                attempts : Nat, leased : BOOLEAN, dead : BOOLEAN]]
    /\ \A a \in Adapter : pending[a].attempts <= Limits[a].attempts
    /\ acked \in [Adapter -> [Event -> 0..MaxDecisions]]
    /\ bound \in [Adapter -> [execution : Execution \cup {NoExecution}, revoked : BOOLEAN]]
    /\ dispositions \in
          [Adapter -> [Event -> {"none", "intent", "policy_change", "superseded"}]]
    /\ intents \in [Adapter -> [Event ->
                     {"absent", "pending", "unknown", "confirmed", "failed", "canceled"}]]
    /\ passed \in [Adapter -> SUBSET Occurrence]

Init ==
    /\ GovernanceInit
    /\ plan \in Plans
    /\ status = [a \in Adapter |-> "absent"]
    /\ subscription = [a \in Adapter |-> NoSubscription]
    /\ pending = [a \in Adapter |-> NoDelivery]
    /\ acked = [a \in Adapter |-> [e \in Event |-> 0]]
    /\ bound = [a \in Adapter |-> NoBinding]
    /\ dispositions = [a \in Adapter |-> [e \in Event |-> "none"]]
    /\ intents = [a \in Adapter |-> [e \in Event |-> "absent"]]
    /\ passed = [a \in Adapter |-> {}]

(***************************************************************************)
(* Installation and lifecycle                                              *)
(***************************************************************************)

Governed(a) == bound[a] # NoBinding

\* The trusted host pins a manifest; no grant is bound to it.
InstallPlain(a) ==
    /\ "plain" \in plan[a]
    /\ status[a] = "absent"
    /\ status' = [status EXCEPT ![a] = "installed"]
    /\ UNCHANGED <<governance, subscription, pending, acked, passed, effects>>

Subscribe(a, t, vis) ==
    /\ ~Governed(a)
    /\ status[a] \notin {"absent", "removed"}
    /\ InspectHead(Owner[a], t, vis)
    /\ subscription[a].state = "none"
    /\ subscription' = [subscription EXCEPT ![a].state = "active"]
    /\ UNCHANGED <<governance, status, pending, acked, passed, effects>>

GrantInForce(a, t) == Grant[a].from <= t /\ t < Grant[a].until

ReservedUntilRevoked(x) ==
    \E a \in Adapter : bound[a].execution = x /\ ~bound[a].revoked

\* An execution namespace is reserved for good, whatever became of its adapter.
Reserved(x) == \E a \in Adapter : bound[a].execution = x

\* Adapter, private subscription, starting point and binding in one transaction.
InstallGoverned(a, t, vis) ==
    LET start == IF Grant[a].replay THEN 0 ELSE Len(decisions)
    IN  /\ "governed" \in plan[a]
        /\ GrantInForce(a, t)
        /\ InspectHead(Owner[a], t, vis)
        /\ ~Governed(a) /\ status[a] = "absent"
        /\ ~Reserved(Grant[a].execution)
        /\ status' = [status EXCEPT ![a] = "installed"]
        /\ subscription' = [subscription EXCEPT ![a] =
                                [state |-> "active", checkpoint |-> start, ordinal |-> 0]]
        /\ bound' = [bound EXCEPT ![a] = [execution |-> Grant[a].execution, revoked |-> FALSE]]
        /\ passed' = [passed EXCEPT ![a] = 1..start]
        /\ UNCHANGED <<governance, pending, acked, dispositions, intents>>

\* Pausing and removing void the lease of the delivery in hand.
SetAdapterState(a, s) ==
    /\ status[a] \notin {"absent", "removed"}
    /\ s = "removed" => pending[a] = NoDelivery
    /\ status' = [status EXCEPT ![a] = s]
    /\ pending' = IF s \in {"paused", "removed"}
                  THEN [pending EXCEPT ![a].leased = FALSE] ELSE pending
    /\ UNCHANGED <<governance, subscription, acked, passed, effects>>

\* The end of a subscription drops the delivery in hand; it cannot be taken up again.
Unsubscribe(a) ==
    /\ subscription' = [subscription EXCEPT ![a].state = "canceled"]
    /\ pending' = [pending EXCEPT ![a] = NoDelivery]

CancelSubscription(a) ==
    /\ status[a] \notin {"absent", "removed"}
    /\ subscription[a].state = "active"
    /\ Unsubscribe(a)
    /\ UNCHANGED <<governance, status, acked, passed, effects>>

Revoke(a) ==
    /\ Governed(a) /\ ~bound[a].revoked
    /\ bound' = [bound EXCEPT ![a].revoked = TRUE]
    /\ Unsubscribe(a)
    /\ UNCHANGED <<governance, status, acked, passed, dispositions, intents>>

(***************************************************************************)
(* Delivery                                                                *)
(***************************************************************************)

Working(a) == status[a] \in {"running", "draining"} /\ subscription[a].state = "active"

GrantActive(a, t) == Governed(a) => ~bound[a].revoked /\ GrantInForce(a, t)

\* The owner of a may be shown event e, at t: its record and the source it selected are open.
EventOpen(a, e, t, vis) ==
    /\ DecisionCurrent(e, Owner[a], t, vis)
    /\ SelectedAt(e) # NoSource => Open(SelectedAt(e), vis)

MayPoll(a, t, vis) ==
    /\ GrantActive(a, t)
    /\ Working(a)
    /\ InspectHead(Owner[a], t, vis)

Overspent(a) == pending[a].attempts > Limits[a].attempts
Spent(a) == pending[a].attempts >= Limits[a].attempts

Dead(letter) == [letter EXCEPT !.dead = TRUE]
Leased(letter) == [letter EXCEPT !.attempts = letter.attempts + 1, !.leased = TRUE]

\* The delivery in hand is leased again, or is dead once its attempts are used up.
PollPending(a, t, vis) ==
    /\ MayPoll(a, t, vis)
    /\ pending[a].event # 0 /\ EventOpen(a, pending[a].event, t, vis)
    /\ ~pending[a].dead
    /\ pending' = [pending EXCEPT ![a] =
            IF Spent(a) THEN Dead(@) ELSE Leased(@)]
    /\ UNCHANGED <<governance, status, subscription, acked, passed, effects>>

Ahead(a) == (subscription[a].checkpoint + 1)..Len(decisions)
FirstOf(E) == CHOOSE e \in E : \A f \in E : e <= f

ScanStart(visible) == IF visible = {} THEN Len(decisions) ELSE FirstOf(visible)

\* Where the scan leaves the checkpoint: before the first readable event, or at the end.
ScanEnd(visible) == IF visible = {} THEN Len(decisions) ELSE FirstOf(visible) - 1

\* The scan passes what is not readable before the first readable event and leases that.
PollNext(a, t, vis) ==
    LET visible == {e \in Ahead(a) : EventOpen(a, e, t, vis)}
        ordinal == subscription[a].ordinal + 1
    IN  /\ MayPoll(a, t, vis)
        /\ pending[a].event = 0 /\ status[a] # "draining"
        /\ Cardinality(visible) <= Limits[a].backlog
        /\ passed' = [passed EXCEPT ![a] = @ \cup {e \in Ahead(a) : \A f \in visible : e < f}]
        /\ IF visible = {}
           THEN /\ subscription' = [subscription EXCEPT ![a].checkpoint = ScanEnd(visible)]
                /\ UNCHANGED pending
           ELSE /\ subscription' = [subscription EXCEPT ![a].checkpoint = ScanEnd(visible),
                                                        ![a].ordinal = ordinal]
                /\ pending' = [pending EXCEPT ![a] =
                        [event |-> FirstOf(visible), ordinal |-> ordinal,
                         attempts |-> 1, leased |-> TRUE, dead |-> FALSE]]
        /\ UNCHANGED <<governance, status, acked, effects>>

Discarded(letter) == NoDelivery

\* A dead letter is given its attempts back, under the ordinal it had.
Revived(letter) == [letter EXCEPT !.dead = FALSE, !.leased = FALSE, !.attempts = 0]

ReplayDeadLetter(a, t, vis) ==
    /\ MayPoll(a, t, vis) /\ status[a] = "running"
    /\ pending[a].dead /\ EventOpen(a, pending[a].event, t, vis)
    /\ pending' = [pending EXCEPT ![a] = Revived(@)]
    /\ UNCHANGED <<governance, status, subscription, acked, passed, effects>>

\* The delivery in hand is receipted and the checkpoint moves to its event.
Settle(a, t, vis) ==
    LET e == pending[a].event
    IN  /\ Working(a)
        /\ e # 0 /\ pending[a].leased /\ ~pending[a].dead
        /\ InspectHead(Owner[a], t, vis) /\ EventOpen(a, e, t, vis)
        /\ acked[a][e] = 0
        /\ acked' = [acked EXCEPT ![a][e] = pending[a].ordinal]
        /\ subscription' = [subscription EXCEPT ![a].checkpoint = e]
        /\ pending' = [pending EXCEPT ![a] = NoDelivery]
        /\ UNCHANGED <<governance, status, passed>>

Acknowledge(a, t, vis) ==
    /\ ~Governed(a)
    /\ Settle(a, t, vis)
    /\ UNCHANGED effects

(***************************************************************************)
(* Governed effects                                                        *)
(***************************************************************************)

\* The accepted request of event e is in the scope of the grant.
InScope(a, e) == decisions[e].source \in Grant[a].sources

\* The publication the head still rests on, through any policy changes since.
Current(e) == decisions[head.decision].publication = e

Disposition(e) ==
    IF ~Publishes(decisions[e].proposal) THEN "policy_change"
    ELSE IF Current(e) THEN "intent" ELSE "superseded"

Enqueue(a, t, vis) ==
    LET e == pending[a].event
    IN  /\ Governed(a) /\ GrantActive(a, t)
        /\ Settle(a, t, vis)
        /\ Publishes(decisions[e].proposal) => InScope(a, e)
        /\ dispositions[a][e] = "none"
        /\ dispositions' = [dispositions EXCEPT ![a][e] = Disposition(e)]
        /\ intents' = IF Disposition(e) = "intent"
                      THEN [intents EXCEPT ![a][e] = "pending"] ELSE intents
        /\ UNCHANGED bound

AuthorizeReadable(a, e, t, vis) ==
    /\ GrantActive(a, t) /\ Working(a)
    /\ InspectHead(Owner[a], t, vis) /\ EventOpen(a, e, t, vis)
    /\ Publishes(decisions[e].proposal) /\ InScope(a, e)

\* The whole authority of a stored intent, checked afresh.
AuthorizeStored(a, e, t, vis) ==
    /\ GrantActive(a, t) /\ Working(a)
    /\ InspectHead(Owner[a], t, vis) /\ EventOpen(a, e, t, vis)
    /\ Publishes(decisions[e].proposal) /\ InScope(a, e)
    /\ Current(e)

SetIntent(a, e, s) ==
    /\ intents' = [intents EXCEPT ![a][e] = s]
    /\ UNCHANGED <<governance, delivery, bound, dispositions>>

Begin(a, e, t, vis) ==
    /\ intents[a][e] = "pending"
    /\ AuthorizeStored(a, e, t, vis)
    /\ SetIntent(a, e, "unknown")

\* Cleanup by the owner, whatever became of the authority to read.
CancelEffect(a, e) == intents[a][e] = "pending" /\ SetIntent(a, e, "canceled")

Reconcile(a, e, outcome) == intents[a][e] = "unknown" /\ SetIntent(a, e, outcome)

PollAny == \E a \in Adapter, t \in Time, vis \in SUBSET Source :
              PollPending(a, t, vis) \/ PollNext(a, t, vis) \/ ReplayDeadLetter(a, t, vis)
SettleAny == \E a \in Adapter, t \in Time, vis \in SUBSET Source :
              Acknowledge(a, t, vis) \/ Enqueue(a, t, vis)
SubscribeAny == \E a \in Adapter, t \in Time, vis \in SUBSET Source :
              Subscribe(a, t, vis) \/ InstallGoverned(a, t, vis)
ManageAny == \E a \in Adapter :
              \/ InstallPlain(a) \/ CancelSubscription(a) \/ Revoke(a)
              \/ \E s \in plan[a] \cap Requested : SetAdapterState(a, s)
EffectAny == \E a \in Adapter, e \in Occurrence :
              \/ CancelEffect(a, e)
              \/ \E outcome \in {"confirmed", "failed"} : Reconcile(a, e, outcome)
              \/ \E t \in Time, vis \in SUBSET Source : Begin(a, e, t, vis)

DeliveryNext == PollAny \/ SettleAny \/ SubscribeAny \/ ManageAny \/ EffectAny

Next ==
    \/ GovernanceNext /\ UNCHANGED <<delivery, effects, plan>>
    \/ DeliveryNext /\ UNCHANGED plan

Spec == Init /\ [][Next]_vars

(***************************************************************************)
(* Properties                                                              *)
(***************************************************************************)

\* The ordinals a subscription has given out are 1, 2, 3, ... in the order of the events:
\* hidden events, retries, dead letters and lost leases leave no gap and no repeat
\* (poll_governance; docs/GOVERNANCE_DELIVERY.md:15).
OrdinalsContiguous == \A a \in Adapter : subscription[a].state = "active" =>
    LET given == {e \in Event : acked[a][e] # 0}
        all == given \cup ({pending[a].event} \ {0})
        ordinal(e) == IF e = pending[a].event THEN pending[a].ordinal ELSE acked[a][e]
    IN  /\ {ordinal(e) : e \in all} = 1..subscription[a].ordinal
        /\ \A e, f \in all : e < f => ordinal(e) < ordinal(f)

\* Behind the checkpoint of a subscription every event was receipted, or was unreadable at
\* the moment the scan passed it: no event a reader could have been given is lost, however
\* policies, leases and lifecycles interleave (poll_governance, acknowledge_governance).
NoEventLost == \A a \in Adapter : \A e \in 1..subscription[a].checkpoint :
    acked[a][e] # 0 \/ e \in passed[a]

\* The world outside is sent accepted publications in the order they were accepted: no
\* attempt begins for a publication older than one already attempted in the view, by any
\* grant (authorize_stored_effect re-reading the head at dispatch).
Attempted(e) == \E a \in Adapter : intents[a][e] \in {"unknown", "confirmed", "failed"}
AttemptsFollowHead ==
    [][\A a \in Adapter, e \in Event :
          intents[a][e] = "pending" /\ intents'[a][e] = "unknown" =>
              \A f \in Event : Attempted(f) => f <= e]_vars

\* Whatever happens to adapters and grants, an effect of an execution namespace follows the
\* life of the abstract outbox: requested once, sent once, never withdrawn after
\* (governed_effect_bindings' unique namespace, begin_governed_effect).
Requesters(x, e) == {a \in Adapter : bound[a].execution = x /\ intents[a][e] # "absent"}
External == INSTANCE Outbox WITH
    Key <- Execution \X Event,
    outbox <- [k \in Execution \X Event |->
                 IF Requesters(k[1], k[2]) = {} THEN "absent"
                 ELSE IF Cardinality(Requesters(k[1], k[2])) > 1 THEN "requested twice"
                 ELSE intents[CHOOSE a \in Adapter : a \in Requesters(k[1], k[2])][k[2]]]
ImplementsOutbox == External!Spec
=============================================================================
