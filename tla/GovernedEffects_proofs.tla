----------------------- MODULE GovernedEffects_proofs -----------------------
(***************************************************************************)
(* Theorems of GovernedEffects for every value of its constants.           *)
(*                                                                         *)
(* Every action of delivery writes the rows of one adapter, so the         *)
(* invariant is a predicate of those rows: Ledger of its subscription,     *)
(* delivery in hand and receipts, Book of its binding and intents.  Two    *)
(* facts relate adapters: an execution namespace has one of them (Apart),  *)
(* and no attempt is ahead of the publication the head rests on (Behind).  *)
(***************************************************************************)
EXTENDS GovernedEffects, Governance_proofs, FiniteSetTheorems

Contiguous(sub, pen, ack) ==
    LET given == {e \in Event : ack[e] # 0}
        all == given \cup ({pen.event} \ {0})
        ordinal(e) == IF e = pen.event THEN pen.ordinal ELSE ack[e]
    IN  /\ {ordinal(e) : e \in all} = 1..sub.ordinal
        /\ \A e, f \in all : e < f => ordinal(e) < ordinal(f)

\* The rows of one adapter when the view has n decisions.
Rows(st, sub, pen, ack, pas, n) ==
    /\ st \in Lifecycle
    /\ sub \in [state : {"none", "active", "canceled"}, checkpoint : 0..n, ordinal : 0..MaxDecisions]
    /\ pen \in [event : 0..n, ordinal : 0..MaxDecisions, attempts : Nat,
                leased : BOOLEAN, dead : BOOLEAN]
    /\ ack \in [Event -> 0..MaxDecisions]
    /\ pas \in SUBSET (1..n)

Ledger(st, sub, pen, ack, pas, n) ==
    /\ Rows(st, sub, pen, ack, pas, n)
    /\ st = "absent" => sub.state = "none"
    /\ sub.state = "none" => /\ sub = NoSubscription /\ pen = NoDelivery
                             /\ \A e \in Event : ack[e] = 0
    /\ pen.event # 0 => /\ sub.state = "active" /\ pen.event = sub.checkpoint + 1
                        /\ pen.ordinal = sub.ordinal /\ pen.ordinal # 0
    /\ sub.state = "active" => /\ \A e \in Event : ack[e] # 0 => e <= sub.checkpoint
                               /\ sub.ordinal <= sub.checkpoint + (IF pen.event = 0 THEN 0 ELSE 1)
                               /\ Contiguous(sub, pen, ack)
    /\ \A e \in 1..sub.checkpoint : ack[e] # 0 \/ e \in pas

LedgerOf(a) ==
    /\ Ledger(status[a], subscription[a], pending[a], acked[a], passed[a], Len(decisions))
    /\ pending[a].attempts <= Limits[a].attempts

\* The binding of one adapter and what it requested.
Book(row, dis, int) ==
    /\ row \in [execution : Execution \cup {NoExecution}, revoked : BOOLEAN]
    /\ dis \in [Event -> {"none", "intent", "policy_change", "superseded"}]
    /\ int \in [Event -> {"absent", "pending", "unknown", "confirmed", "failed", "canceled"}]
    /\ row # NoBinding => row.execution \in Execution
    /\ \A e \in Event : int[e] # "absent" => row # NoBinding /\ dis[e] # "none"

BookOf(a) == Book(bound[a], dispositions[a], intents[a])

Apart == \A a, b \in Adapter : Governed(a) /\ bound[a].execution = bound[b].execution => a = b

Behind ==
    /\ \A d \in Occurrence : decisions[d].publication <= d
    /\ \A e \in Event : Attempted(e) =>
          Occurrence # {} /\ e <= decisions[head.decision].publication

LedgerTables ==
    /\ status = [a \in Adapter |-> status[a]] /\ subscription = [a \in Adapter |-> subscription[a]]
    /\ pending = [a \in Adapter |-> pending[a]] /\ acked = [a \in Adapter |-> acked[a]]
    /\ passed = [a \in Adapter |-> passed[a]]

BookTables ==
    /\ bound = [a \in Adapter |-> bound[a]]
    /\ dispositions = [a \in Adapter |-> dispositions[a]]
    /\ intents = [a \in Adapter |-> intents[a]]

\* A governed adapter was installed, with its subscription, when it was bound.
Enrolled == \A a \in Adapter : Governed(a) => status[a] # "absent"

Ledgers == LedgerTables /\ \A a \in Adapter : LedgerOf(a)
Books == BookTables /\ \A a \in Adapter : BookOf(a)

IInv == GovernanceInv /\ plan \in Plans /\ Ledgers /\ Books /\ Enrolled /\ Apart /\ Behind

(***************************************************************************)
(* The rows of one adapter                                                 *)
(***************************************************************************)

LEMMA Bounds ==
    /\ MaxDecisions \in Nat /\ Event = 1..MaxDecisions
    /\ NoExecution \notin Execution
    /\ \A a \in Adapter : Limits[a].attempts \in Nat \ {0} /\ Limits[a].backlog \in Nat \ {0}
  BY GovernanceAssumption, GrantAssumption DEF Event

\* Decisions accepted meanwhile change nothing about the rows.
LEMMA LedgerGrows ==
    ASSUME NEW st, NEW sub, NEW pen, NEW ack, NEW pas, NEW n \in Nat, NEW m \in Nat, n <= m,
           Ledger(st, sub, pen, ack, pas, n)
    PROVE  Ledger(st, sub, pen, ack, pas, m)
  <1>1. Rows(st, sub, pen, ack, pas, m)
    BY DEF Ledger, Rows
  <1> HIDE DEF Contiguous
  <1> QED  BY <1>1 DEF Ledger

\* A lease, a lost lease, a dead letter and a revived one keep event and ordinal.
LEMMA LedgerLeases ==
    ASSUME NEW st, NEW sub, NEW pen, NEW ack, NEW pas, NEW n \in Nat,
           Ledger(st, sub, pen, ack, pas, n), NEW new \in Lifecycle \ {"absent"}, NEW letter,
           letter \in [event : {pen.event}, ordinal : {pen.ordinal}, attempts : Nat,
                       leased : BOOLEAN, dead : BOOLEAN],
           sub.state # "none" \/ letter = pen
    PROVE  Ledger(new, sub, letter, ack, pas, n)
  <1>1. letter.event = pen.event /\ letter.ordinal = pen.ordinal
    OBVIOUS
  <1>2. Rows(new, sub, letter, ack, pas, n)
    BY <1>1 DEF Ledger, Rows
  <1>3. Contiguous(sub, pen, ack) => Contiguous(sub, letter, ack)
    BY <1>1 DEF Contiguous
  <1> QED  BY <1>1, <1>2, <1>3 DEF Ledger

\* A subscription begins behind the events it does not ask for.
LEMMA LedgerSubscribes ==
    ASSUME NEW st, NEW sub, NEW pen, NEW ack, NEW pas, NEW n \in Nat,
           Ledger(st, sub, pen, ack, pas, n), sub.state = "none",
           NEW new \in Lifecycle \ {"absent"}, NEW start \in 0..n,
           NEW P \in SUBSET (1..n), 1..start \subseteq P
    PROVE  Ledger(new, [state |-> "active", checkpoint |-> start, ordinal |-> 0], pen, ack, P, n)
  <1> DEFINE active == [state |-> "active", checkpoint |-> start, ordinal |-> 0]
  <1>1. /\ active.state = "active" /\ active.checkpoint = start /\ active.ordinal = 0
        /\ pen = NoDelivery /\ pen.event = 0 /\ \A e \in Event : ack[e] = 0
    BY DEF Ledger, NoDelivery
  <1>2. Rows(new, active, pen, ack, P, n)
    <2>1. 0 \in 0..MaxDecisions
      BY Bounds
    <2> QED  BY <1>1, <2>1 DEF Ledger, Rows
  <1> HIDE DEF active
  <1>3. Contiguous(active, pen, ack)
    BY <1>1 DEF Contiguous
  <1> QED  BY <1>1, <1>2, <1>3 DEF Ledger, active

LEMMA LedgerUnsubscribes ==
    ASSUME NEW st, NEW sub, NEW pen, NEW ack, NEW pas, NEW n \in Nat,
           Ledger(st, sub, pen, ack, pas, n), st # "absent"
    PROVE  Ledger(st, [sub EXCEPT !.state = "canceled"], NoDelivery, ack, pas, n)
  <1> DEFINE over == [sub EXCEPT !.state = "canceled"]
  <1>1. /\ over.state = "canceled" /\ over.checkpoint = sub.checkpoint
        /\ NoDelivery.event = 0
    BY DEF Ledger, Rows, NoDelivery
  <1>2. Rows(st, over, NoDelivery, ack, pas, n)
    BY Bounds DEF Ledger, Rows, NoDelivery
  <1> HIDE DEF over
  <1> QED  BY <1>1, <1>2 DEF Ledger, over

\* The scan moves the checkpoint over events it passes, with nothing in hand.
LEMMA LedgerScans ==
    ASSUME NEW st, NEW sub, NEW pen, NEW ack, NEW pas, NEW n \in Nat,
           Ledger(st, sub, pen, ack, pas, n), sub.state = "active", pen.event = 0,
           NEW upto \in sub.checkpoint..n, NEW P \in SUBSET (1..n),
           (sub.checkpoint + 1)..upto \subseteq P
    PROVE  Ledger(st, [sub EXCEPT !.checkpoint = upto], pen, ack, pas \cup P, n)
  <1> DEFINE moved == [sub EXCEPT !.checkpoint = upto]
  <1>1. sub.checkpoint \in 0..n /\ sub.ordinal \in 0..MaxDecisions /\ upto \in 0..n
    BY DEF Ledger, Rows
  <1>2. /\ moved.state = "active" /\ moved.checkpoint = upto /\ moved.ordinal = sub.ordinal
    BY DEF Ledger, Rows
  <1>3. Rows(st, moved, pen, ack, pas \cup P, n)
    BY <1>1, <1>2 DEF Ledger, Rows
  <1> HIDE DEF moved
  <1>4. Contiguous(moved, pen, ack)
    BY <1>2 DEF Ledger, Contiguous
  <1>5. \A e \in 1..upto : ack[e] # 0 \/ e \in pas \cup P
    <2> TAKE e \in 1..upto
    <2>1. e \in 1..sub.checkpoint \/ e \in (sub.checkpoint + 1)..upto
      BY <1>1
    <2> QED  BY <2>1 DEF Ledger
  <1>6. \A e \in Event : ack[e] # 0 => e <= upto
    <2> TAKE e \in Event
    <2>1. ack[e] # 0 => e <= sub.checkpoint
      BY DEF Ledger
    <2> QED  BY <1>1, <2>1, Bounds
  <1>7. moved.ordinal <= moved.checkpoint + (IF pen.event = 0 THEN 0 ELSE 1)
    BY <1>1, <1>2 DEF Ledger
  <1> QED  BY <1>2, <1>3, <1>4, <1>5, <1>6, <1>7 DEF Ledger, moved

\* The event after the checkpoint is taken in hand under the next ordinal.
LEMMA LedgerTakes ==
    ASSUME NEW st, NEW sub, NEW pen, NEW ack, NEW pas, NEW n \in 0..MaxDecisions,
           Ledger(st, sub, pen, ack, pas, n), sub.state = "active", pen.event = 0,
           sub.checkpoint < n
    PROVE  Ledger(st, [sub EXCEPT !.ordinal = @ + 1],
                  [event |-> sub.checkpoint + 1, ordinal |-> sub.ordinal + 1,
                   attempts |-> 1, leased |-> TRUE, dead |-> FALSE], ack, pas, n)
  <1> DEFINE next == [sub EXCEPT !.ordinal = @ + 1]
             letter == [event |-> sub.checkpoint + 1, ordinal |-> sub.ordinal + 1,
                        attempts |-> 1, leased |-> TRUE, dead |-> FALSE]
             first == sub.checkpoint + 1
  <1>1. /\ sub.checkpoint \in 0..n /\ sub.ordinal \in 0..MaxDecisions
        /\ sub.ordinal <= sub.checkpoint /\ n \in 0..MaxDecisions /\ MaxDecisions \in Nat
    BY Bounds DEF Ledger, Rows
  <1>2. /\ next.state = "active" /\ next.checkpoint = sub.checkpoint
        /\ next.ordinal = sub.ordinal + 1 /\ next.ordinal \in 0..MaxDecisions
        /\ letter.event = first /\ letter.ordinal = sub.ordinal + 1
        /\ first \in Event /\ first \in 1..n /\ first # 0
    BY <1>1, Bounds DEF Ledger, Rows
  <1>3. Rows(st, next, letter, ack, pas, n)
    BY <1>1, <1>2 DEF Ledger, Rows
  <1>4. \A e \in Event : ack[e] # 0 => e <= sub.checkpoint /\ e # first
    BY <1>1, Bounds DEF Ledger
  <1>5. \A e \in Event : ack[e] \in 0..MaxDecisions
    BY DEF Ledger, Rows
  <1> HIDE DEF next, letter
  <1>6. Contiguous(next, letter, ack)
    <2> DEFINE given == {e \in Event : ack[e] # 0}
               all == given \cup {first}
               ordinal(e) == IF e = first THEN sub.ordinal + 1 ELSE ack[e]
    <2>1. /\ {ack[e] : e \in given} = 1..sub.ordinal
          /\ \A e, f \in given : e < f => ack[e] < ack[f]
      <3>1. Contiguous(sub, pen, ack) /\ pen.event = 0
        BY DEF Ledger
      <3>2. \A e \in given : e # pen.event
        BY <3>1, Bounds
      <3>3. /\ {IF e = pen.event THEN pen.ordinal ELSE ack[e] : e \in given} = 1..sub.ordinal
            /\ \A e, f \in given : e < f =>
                 (IF e = pen.event THEN pen.ordinal ELSE ack[e])
                 < (IF f = pen.event THEN pen.ordinal ELSE ack[f])
        BY <3>1 DEF Contiguous
      <3> QED  BY <3>2, <3>3
    <2>2. {ordinal(e) : e \in all} = 1..(sub.ordinal + 1)
      <3>1. \A e \in given : ordinal(e) = ack[e]
        BY <1>4
      <3>2. {ordinal(e) : e \in all} = {ack[e] : e \in given} \cup {sub.ordinal + 1}
        BY <3>1
      <3>3. 1..(sub.ordinal + 1) = 1..sub.ordinal \cup {sub.ordinal + 1}
        BY <1>1
      <3> QED  BY <2>1, <3>2, <3>3
    <2>3. \A e, f \in all : e < f => ordinal(e) < ordinal(f)
      <3> SUFFICES ASSUME NEW e \in all, NEW f \in all, e < f PROVE ordinal(e) < ordinal(f)
        OBVIOUS
      <3>1. e \in given
        BY <1>1, <1>4, Bounds
      <3>2. ordinal(e) = ack[e] /\ ack[e] \in 1..sub.ordinal
        BY <1>4, <2>1, <3>1
      <3>3. CASE f = first
        BY <1>1, <3>2, <3>3
      <3>4. CASE f # first
        BY <2>1, <3>1, <3>2, <3>4
      <3> QED  BY <3>3, <3>4
    <2>4. given \cup ({letter.event} \ {0}) = all
      BY <1>2
    <2> HIDE DEF given, all
    <2>5. /\ {IF e = letter.event THEN letter.ordinal ELSE ack[e] : e \in all} = 1..next.ordinal
          /\ \A e, f \in all : e < f =>
                 (IF e = letter.event THEN letter.ordinal ELSE ack[e])
                 < (IF f = letter.event THEN letter.ordinal ELSE ack[f])
      BY <1>2, <2>2, <2>3
    <2> QED  BY <2>4, <2>5 DEF Contiguous, given
  <1> QED  BY <1>1, <1>2, <1>3, <1>4, <1>6 DEF Ledger, next, letter

\* The delivery in hand is receipted under its ordinal, and the checkpoint moves to it.
LEMMA LedgerSettles ==
    ASSUME NEW st, NEW sub, NEW pen, NEW ack, NEW pas, NEW n \in 0..MaxDecisions,
           Ledger(st, sub, pen, ack, pas, n), pen.event # 0
    PROVE  Ledger(st, [sub EXCEPT !.checkpoint = pen.event], NoDelivery,
                  [ack EXCEPT ![pen.event] = pen.ordinal], pas, n)
  <1> DEFINE moved == [sub EXCEPT !.checkpoint = pen.event]
             now == [ack EXCEPT ![pen.event] = pen.ordinal]
             first == pen.event
  <1>1. /\ sub.checkpoint \in 0..n /\ sub.ordinal \in 1..MaxDecisions
        /\ first = sub.checkpoint + 1 /\ first \in 1..n /\ pen.ordinal = sub.ordinal
        /\ sub.ordinal <= first /\ sub.state = "active" /\ n \in 0..MaxDecisions
        /\ first \in Event
    BY Bounds DEF Ledger, Rows
  <1>2. /\ moved.state = "active" /\ moved.checkpoint = first /\ moved.ordinal = sub.ordinal
        /\ NoDelivery.event = 0
    BY <1>1 DEF Ledger, Rows, NoDelivery
  <1>3. \A e \in Event : now[e] = IF e = first THEN sub.ordinal ELSE ack[e]
    BY <1>1 DEF Ledger, Rows
  <1>4. Rows(st, moved, NoDelivery, now, pas, n)
    BY <1>1, <1>2, Bounds DEF Ledger, Rows, NoDelivery
  <1> HIDE DEF moved, now
  <1>5. Contiguous(moved, NoDelivery, now)
    <2> DEFINE all == {e \in Event : ack[e] # 0} \cup ({first} \ {0})
    <2>1. /\ {IF e = first THEN pen.ordinal ELSE ack[e] : e \in all} = 1..sub.ordinal
          /\ \A e, f \in all : e < f =>
                 (IF e = first THEN pen.ordinal ELSE ack[e])
                 < (IF f = first THEN pen.ordinal ELSE ack[f])
      BY <1>1 DEF Ledger, Contiguous
    <2>2. all = {e \in Event : now[e] # 0}
      BY <1>1, <1>3
    <2>3. all \cup ({NoDelivery.event} \ {0}) = all
      BY <1>2
    <2>4. \A e \in all : /\ (IF e = first THEN pen.ordinal ELSE ack[e]) = now[e]
                         /\ (IF e = NoDelivery.event THEN NoDelivery.ordinal ELSE now[e]) = now[e]
      BY <1>1, <1>2, <1>3, Bounds
    <2> HIDE DEF all
    <2>5. /\ {now[e] : e \in all} = 1..sub.ordinal
          /\ \A e, f \in all : e < f => now[e] < now[f]
      BY <2>1, <2>4
    <2>6. /\ {IF e = NoDelivery.event THEN NoDelivery.ordinal ELSE now[e] : e \in all}
             = 1..moved.ordinal
          /\ \A e, f \in all : e < f =>
                 (IF e = NoDelivery.event THEN NoDelivery.ordinal ELSE now[e])
                 < (IF f = NoDelivery.event THEN NoDelivery.ordinal ELSE now[f])
      BY <1>2, <2>4, <2>5
    <2> QED  BY <2>2, <2>3, <2>6 DEF Contiguous
  <1>6. \A e \in 1..first : now[e] # 0 \/ e \in pas
    <2> TAKE e \in 1..first
    <2>1. e \in Event /\ (e = first \/ e \in 1..sub.checkpoint)
      BY <1>1, Bounds
    <2> QED  BY <1>1, <1>3, <2>1 DEF Ledger
  <1>7. \A e \in Event : now[e] # 0 => e <= first
    <2> TAKE e \in Event
    <2>1. ack[e] # 0 => e <= sub.checkpoint
      BY <1>1 DEF Ledger
    <2> QED  BY <1>1, <1>3, <2>1, Bounds
  <1> QED  BY <1>1, <1>2, <1>4, <1>5, <1>6, <1>7 DEF Ledger, moved, now

(***************************************************************************)
(* The actions write the rows of one adapter                               *)
(***************************************************************************)

Writes(a, st, sub, pen, ack, pas) ==
    /\ status' = [status EXCEPT ![a] = st] /\ subscription' = [subscription EXCEPT ![a] = sub]
    /\ pending' = [pending EXCEPT ![a] = pen] /\ acked' = [acked EXCEPT ![a] = ack]
    /\ passed' = [passed EXCEPT ![a] = pas]

LEMMA LedgersKept ==
    ASSUME Ledgers, NEW a \in Adapter, NEW st, NEW sub, NEW pen, NEW ack, NEW pas,
           Writes(a, st, sub, pen, ack, pas), decisions' = decisions,
           Ledger(st, sub, pen, ack, pas, Len(decisions)), pen.attempts <= Limits[a].attempts
    PROVE  Ledgers'
  <1>1. /\ status' = [b \in Adapter |-> IF b = a THEN st ELSE status[b]]
        /\ subscription' = [b \in Adapter |-> IF b = a THEN sub ELSE subscription[b]]
        /\ pending' = [b \in Adapter |-> IF b = a THEN pen ELSE pending[b]]
        /\ acked' = [b \in Adapter |-> IF b = a THEN ack ELSE acked[b]]
        /\ passed' = [b \in Adapter |-> IF b = a THEN pas ELSE passed[b]]
    BY DEF Ledgers, LedgerTables, Writes
  <1>2. LedgerTables'
    BY <1>1 DEF LedgerTables
  <1>3. ASSUME NEW b \in Adapter PROVE LedgerOf(b)'
    <2>1. CASE b = a
      BY <1>1, <2>1 DEF LedgerOf
    <2>2. CASE b # a
      BY <1>1, <2>2 DEF LedgerOf, Ledgers
    <2> QED  BY <2>1, <2>2
  <1> QED  BY <1>2, <1>3 DEF Ledgers

\* What the invariant says of the rows of one adapter.
LEMMA RowsOf ==
    ASSUME GovernanceInv, Ledgers, NEW a \in Adapter
    PROVE  /\ Ledger(status[a], subscription[a], pending[a], acked[a], passed[a], Len(decisions))
           /\ Rows(status[a], subscription[a], pending[a], acked[a], passed[a], Len(decisions))
           /\ pending[a].attempts <= Limits[a].attempts /\ pending[a].attempts \in Nat
           /\ Len(decisions) \in 0..MaxDecisions /\ Len(decisions) \in Nat
           /\ Limits[a].attempts \in Nat \ {0}
           /\ Writes(a, status[a], subscription[a], pending[a], acked[a], passed[a])
              <=> UNCHANGED delivery
  <1>1. Ledger(status[a], subscription[a], pending[a], acked[a], passed[a], Len(decisions))
        /\ pending[a].attempts <= Limits[a].attempts
    BY DEF Ledgers, LedgerOf
  <1>2. Len(decisions) \in 0..MaxDecisions /\ Len(decisions) \in Nat
    BY Types, Bounds DEF GovernanceInv
  <1>3. Writes(a, status[a], subscription[a], pending[a], acked[a], passed[a])
        <=> UNCHANGED delivery
    BY DEF Ledgers, LedgerTables, Writes, delivery
  <1> QED  BY <1>1, <1>2, <1>3, Bounds DEF Ledger, Rows

\* Only the status and the delivery in hand change, and that keeps its event and ordinal.
LEMMA LeaseKeeps ==
    ASSUME GovernanceInv, Ledgers, NEW a \in Adapter, NEW new \in Lifecycle \ {"absent"},
           NEW letter \in [event : {pending[a].event}, ordinal : {pending[a].ordinal},
                           attempts : Nat, leased : BOOLEAN, dead : BOOLEAN],
           letter.attempts <= Limits[a].attempts,
           subscription[a].state # "none" \/ letter = pending[a],
           status' = [status EXCEPT ![a] = new], pending' = [pending EXCEPT ![a] = letter],
           UNCHANGED <<decisions, subscription, acked, passed>>
    PROVE  Ledgers' /\ status' = [status EXCEPT ![a] = new]
  <1>1. Writes(a, new, subscription[a], letter, acked[a], passed[a])
    BY DEF Ledgers, LedgerTables, Writes
  <1>2. Ledger(new, subscription[a], letter, acked[a], passed[a], Len(decisions))
    BY RowsOf, LedgerLeases
  <1> QED  BY <1>1, <1>2, LedgersKept

LEMMA InstallPlainKeeps ==
    ASSUME GovernanceInv, Ledgers, NEW a \in Adapter, InstallPlain(a)
    PROVE  Ledgers'
  <1>1. pending' = [pending EXCEPT ![a] = pending[a]]
    BY DEF InstallPlain, Ledgers, LedgerTables
  <1>2. pending[a] \in [event : {pending[a].event}, ordinal : {pending[a].ordinal},
                        attempts : Nat, leased : BOOLEAN, dead : BOOLEAN]
    BY RowsOf DEF Rows
  <1>3. "installed" \in Lifecycle \ {"absent"}
    BY DEF Lifecycle
  <1>4. /\ status' = [status EXCEPT ![a] = "installed"]
        /\ UNCHANGED <<decisions, subscription, acked, passed>>
    BY DEF InstallPlain, governance
  <1> HIDE DEF InstallPlain
  <1> QED  BY <1>1, <1>2, <1>3, <1>4, RowsOf, LeaseKeeps

LEMMA SetAdapterStateKeeps ==
    ASSUME GovernanceInv, Ledgers, NEW a \in Adapter, NEW s \in Requested, SetAdapterState(a, s)
    PROVE  Ledgers'
  <1> DEFINE letter == IF s \in {"paused", "removed"}
                       THEN [pending[a] EXCEPT !.leased = FALSE] ELSE pending[a]
  <1>1. pending' = [pending EXCEPT ![a] = letter]
    BY DEF SetAdapterState, Ledgers, LedgerTables
  <1>2. /\ letter \in [event : {pending[a].event}, ordinal : {pending[a].ordinal},
                       attempts : Nat, leased : BOOLEAN, dead : BOOLEAN]
        /\ letter.attempts <= Limits[a].attempts
    BY RowsOf DEF Rows
  <1>3. s \in Lifecycle \ {"absent"}
    BY DEF Lifecycle, Requested
  <1>4. /\ status' = [status EXCEPT ![a] = s]
        /\ UNCHANGED <<decisions, subscription, acked, passed>>
    BY DEF SetAdapterState, governance
  <1>5. subscription[a].state # "none" \/ letter = pending[a]
    <2>1. subscription[a].state = "none" => pending[a] = NoDelivery
      BY RowsOf DEF Ledger
    <2>2. /\ pending[a] = NoDelivery => pending[a] = [x \in DOMAIN pending[a] |-> pending[a][x]]
          /\ pending[a] = NoDelivery => pending[a]["leased"] = FALSE
      BY DEF NoDelivery
    <2> QED  BY <2>1, <2>2
  <1> HIDE DEF letter
  <1> QED  BY <1>1, <1>2, <1>3, <1>4, <1>5, LeaseKeeps

LEMMA SubscribeKeeps ==
    ASSUME GovernanceInv, Ledgers, NEW a \in Adapter, NEW t, NEW vis, Subscribe(a, t, vis)
    PROVE  Ledgers'
  <1> DEFINE active == [state |-> "active", checkpoint |-> 0, ordinal |-> 0]
  <1>1. subscription[a] = NoSubscription /\ status[a] \in Lifecycle \ {"absent"}
    BY RowsOf DEF Subscribe, Ledger, Rows
  <1>2. [subscription[a] EXCEPT !.state = "active"] = active
    BY <1>1 DEF NoSubscription
  <1>3. Writes(a, status[a], active, pending[a], acked[a], passed[a])
    BY <1>2 DEF Ledgers, LedgerTables, Writes, Subscribe
  <1>4. passed[a] \in SUBSET (1..Len(decisions)) /\ 1..0 \subseteq passed[a]
        /\ subscription[a].state = "none"
    BY <1>1, RowsOf DEF Rows, NoSubscription
  <1>5. Ledger(status[a], active, pending[a], acked[a], passed[a], Len(decisions))
    BY <1>1, <1>4, RowsOf, LedgerSubscribes
  <1>6. decisions' = decisions
    BY DEF Subscribe, governance
  <1> HIDE DEF active
  <1> QED  BY <1>3, <1>5, <1>6, RowsOf, LedgersKept

LEMMA InstallGovernedKeeps ==
    ASSUME GovernanceInv, Ledgers, NEW a \in Adapter, NEW t, NEW vis, InstallGoverned(a, t, vis)
    PROVE  Ledgers'
  <1> DEFINE start == IF Grant[a].replay THEN 0 ELSE Len(decisions)
             active == [state |-> "active", checkpoint |-> start, ordinal |-> 0]
  <1>1. status[a] = "absent" /\ subscription[a].state = "none"
    BY RowsOf DEF InstallGoverned, Ledger
  <1>2. Writes(a, "installed", active, pending[a], acked[a], 1..start)
    BY DEF Ledgers, LedgerTables, Writes, InstallGoverned
  <1>3. start \in 0..Len(decisions) /\ 1..start \in SUBSET (1..Len(decisions))
    BY RowsOf
  <1>4. "installed" \in Lifecycle \ {"absent"}
    BY DEF Lifecycle
  <1> HIDE DEF start
  <1>5. Ledger("installed", active, pending[a], acked[a], 1..start, Len(decisions))
    BY <1>1, <1>3, <1>4, RowsOf, LedgerSubscribes
  <1>6. decisions' = decisions
    BY DEF InstallGoverned, governance
  <1> HIDE DEF active
  <1> QED  BY <1>2, <1>5, <1>6, RowsOf, LedgersKept

LEMMA UnsubscribeKeeps ==
    ASSUME GovernanceInv, Ledgers, NEW a \in Adapter, status[a] # "absent", Unsubscribe(a),
           UNCHANGED <<decisions, status, acked, passed>>
    PROVE  Ledgers'
  <1> DEFINE over == [subscription[a] EXCEPT !.state = "canceled"]
  <1>1. Writes(a, status[a], over, NoDelivery, acked[a], passed[a])
    BY DEF Ledgers, LedgerTables, Writes, Unsubscribe
  <1>2. Ledger(status[a], over, NoDelivery, acked[a], passed[a], Len(decisions))
    BY RowsOf, LedgerUnsubscribes
  <1>3. NoDelivery.attempts <= Limits[a].attempts
    BY RowsOf DEF NoDelivery
  <1> HIDE DEF over
  <1> QED  BY <1>1, <1>2, <1>3, LedgersKept

Kept(pen) == [event : {pen.event}, ordinal : {pen.ordinal}, attempts : Nat,
              leased : BOOLEAN, dead : BOOLEAN]

\* What a dead, leased or revived delivery keeps of the one it was.
LEMMA LetterForms ==
    ASSUME NEW n, NEW pen \in [event : 0..n, ordinal : 0..MaxDecisions, attempts : Nat,
                               leased : BOOLEAN, dead : BOOLEAN]
    PROVE  /\ Dead(pen) \in Kept(pen) /\ Dead(pen).attempts = pen.attempts
           /\ Leased(pen) \in Kept(pen) /\ Leased(pen).attempts = pen.attempts + 1
           /\ Revived(pen) \in Kept(pen) /\ Revived(pen).attempts = 0
  <1> DEFINE next == pen.attempts + 1
             none == 0
  <1>1. next \in Nat /\ none \in Nat
    OBVIOUS
  <1>2. Leased(pen) = [pen EXCEPT !.attempts = next, !.leased = TRUE]
    BY DEF Leased
  <1>3. Dead(pen) = [pen EXCEPT !.dead = TRUE]
    BY DEF Dead
  <1>4. Revived(pen) = [pen EXCEPT !.dead = FALSE, !.leased = FALSE, !.attempts = none]
    BY DEF Revived
  <1> HIDE DEF next, none
  <1>5. Leased(pen) \in Kept(pen) /\ Leased(pen).attempts = next
    BY <1>1, <1>2 DEF Kept
  <1>6. Dead(pen) \in Kept(pen) /\ Dead(pen).attempts = pen.attempts
    BY <1>3 DEF Kept
  <1>7. Revived(pen) \in Kept(pen) /\ Revived(pen).attempts = none
    BY <1>1, <1>4 DEF Kept
  <1> QED  BY <1>5, <1>6, <1>7 DEF next, none

LEMMA PollPendingKeeps ==
    ASSUME GovernanceInv, Ledgers, NEW a \in Adapter, NEW t, NEW vis, PollPending(a, t, vis)
    PROVE  Ledgers'
  <1> DEFINE letter == IF Spent(a) THEN Dead(pending[a]) ELSE Leased(pending[a])
  <1>1. pending' = [pending EXCEPT ![a] = letter]
    BY DEF PollPending
  <1>2. /\ letter \in [event : {pending[a].event}, ordinal : {pending[a].ordinal},
                       attempts : Nat, leased : BOOLEAN, dead : BOOLEAN]
        /\ letter.attempts <= Limits[a].attempts
    <2>1. pending[a].attempts \in Nat /\ Limits[a].attempts \in Nat
          /\ pending[a].attempts <= Limits[a].attempts
      BY RowsOf
    <2>2. ~Spent(a) => pending[a].attempts + 1 <= Limits[a].attempts
      BY <2>1 DEF Spent
    <2>3. /\ Dead(pending[a]) \in Kept(pending[a]) /\ Leased(pending[a]) \in Kept(pending[a])
          /\ Dead(pending[a]).attempts = pending[a].attempts
          /\ Leased(pending[a]).attempts = pending[a].attempts + 1
      BY RowsOf, LetterForms DEF Rows
    <2>4. letter \in Kept(pending[a]) /\ letter.attempts <= Limits[a].attempts
      BY <2>1, <2>2, <2>3
    <2> QED  BY <2>4 DEF Kept
  <1>3. /\ status[a] \in Lifecycle \ {"absent"} /\ subscription[a].state # "none"
        /\ status' = [status EXCEPT ![a] = status[a]]
        /\ UNCHANGED <<decisions, subscription, acked, passed>>
    BY DEF PollPending, MayPoll, Working, governance, Lifecycle, Requested, Ledgers, LedgerTables
  <1> HIDE DEF letter
  <1> QED  BY <1>1, <1>2, <1>3, LeaseKeeps

LEMMA ReplayKeeps ==
    ASSUME GovernanceInv, Ledgers, NEW a \in Adapter, NEW t, NEW vis, ReplayDeadLetter(a, t, vis)
    PROVE  Ledgers'
  <1> DEFINE letter == Revived(pending[a])
  <1>1. pending' = [pending EXCEPT ![a] = letter]
    BY DEF ReplayDeadLetter
  <1>2. /\ letter \in [event : {pending[a].event}, ordinal : {pending[a].ordinal},
                       attempts : Nat, leased : BOOLEAN, dead : BOOLEAN]
        /\ letter.attempts <= Limits[a].attempts
    <2>1. letter \in Kept(pending[a]) /\ letter.attempts = 0 /\ 0 <= Limits[a].attempts
      BY RowsOf, LetterForms DEF Rows
    <2> QED  BY <2>1 DEF Kept
  <1>3. /\ status[a] \in Lifecycle \ {"absent"} /\ subscription[a].state # "none"
        /\ status' = [status EXCEPT ![a] = status[a]]
        /\ UNCHANGED <<decisions, subscription, acked, passed>>
    BY DEF ReplayDeadLetter, MayPoll, Working, governance, Lifecycle, Requested, Ledgers, LedgerTables
  <1> HIDE DEF letter
  <1> QED  BY <1>1, <1>2, <1>3, LeaseKeeps

LEMMA FirstIsLeast ==
    ASSUME NEW E \in SUBSET Nat, E # {}
    PROVE  FirstOf(E) \in E /\ \A f \in E : FirstOf(E) <= f
  <1>1. \E e \in E : \A f \in E : e <= f
    BY LeastNat
  <1> QED  BY <1>1 DEF FirstOf

LEMMA PollNextKeeps ==
    ASSUME GovernanceInv, Ledgers, NEW a \in Adapter, NEW t, NEW vis, PollNext(a, t, vis)
    PROVE  Ledgers'
  <1> DEFINE visible == {e \in Ahead(a) : EventOpen(a, e, t, vis)}
             P == {e \in Ahead(a) : \A f \in visible : e < f}
             sub == subscription[a]
             n == Len(decisions)
             upto == ScanEnd(visible)
             scanned == [sub EXCEPT !.checkpoint = upto]
  <1>1. /\ passed' = [passed EXCEPT ![a] = passed[a] \cup P]
        /\ pending[a].event = 0 /\ sub.state = "active"
        /\ UNCHANGED <<decisions, status, acked>>
    BY DEF PollNext, MayPoll, Working, governance
  <1>2. /\ sub.checkpoint \in 0..n /\ n \in Nat /\ visible \in SUBSET Nat
        /\ Ahead(a) = (sub.checkpoint + 1)..n /\ P \in SUBSET (1..n)
    BY RowsOf DEF Rows, Ahead
  <1>3. visible # {} => /\ FirstOf(visible) \in (sub.checkpoint + 1)..n
                        /\ \A f \in visible : FirstOf(visible) <= f
    <2>1. \A f \in visible : f \in (sub.checkpoint + 1)..n
      BY <1>2
    <2> HIDE DEF visible
    <2> QED  BY <1>2, <2>1, FirstIsLeast
  <1>4. upto \in sub.checkpoint..n /\ (visible # {} => upto + 1 = FirstOf(visible) /\ upto < n)
    <2>1. CASE visible = {}
      <3>1. upto = n
        BY <2>1 DEF ScanEnd
      <3> QED  BY <1>2, <2>1, <3>1
    <2>2. CASE visible # {}
      <3>1. upto = FirstOf(visible) - 1
        BY <2>2 DEF ScanEnd
      <3> HIDE DEF visible, upto
      <3> QED  BY <1>2, <1>3, <2>2, <3>1
    <2> QED  BY <2>1, <2>2
  <1>5. (sub.checkpoint + 1)..upto \subseteq P
    <2> SUFFICES ASSUME NEW e \in (sub.checkpoint + 1)..upto PROVE e \in P
      OBVIOUS
    <2>1. e \in Ahead(a)
      BY <1>2, <1>4
    <2>2. ASSUME NEW f \in visible PROVE e < f
      <3>1. FirstOf(visible) <= f /\ upto + 1 = FirstOf(visible) /\ f \in Nat
        BY <1>2, <1>3, <1>4, <2>2
      <3> HIDE DEF visible
      <3> QED  BY <1>2, <1>4, <3>1
    <2> QED  BY <2>1, <2>2
  <1> HIDE DEF upto
  <1>6. Ledger(status[a], scanned, pending[a], acked[a], passed[a] \cup P, n)
    <2> HIDE DEF visible, P
    <2> QED  BY <1>1, <1>2, <1>4, <1>5, RowsOf, LedgerScans
  <1>7. CASE visible = {}
    <2>1. Writes(a, status[a], scanned, pending[a], acked[a], passed[a] \cup P)
      BY <1>1, <1>7 DEF PollNext, Ledgers, LedgerTables, Writes, upto
    <2> HIDE DEF visible, P, scanned
    <2> QED  BY <1>1, <1>6, <2>1, RowsOf, LedgersKept
  <1>8. CASE visible # {}
    <2> DEFINE first == scanned.checkpoint + 1
               letter == [event |-> first, ordinal |-> scanned.ordinal + 1,
                          attempts |-> 1, leased |-> TRUE, dead |-> FALSE]
               next == [scanned EXCEPT !.ordinal = @ + 1]
    <2>1. /\ scanned.state = "active" /\ scanned.checkpoint = upto
          /\ scanned.ordinal = sub.ordinal /\ scanned.checkpoint < n
          /\ first = FirstOf(visible)
      BY <1>1, <1>4, <1>8, RowsOf DEF Rows
    <2>2. Ledger(status[a], next, letter, acked[a], passed[a] \cup P, n)
      <3> HIDE DEF scanned, visible, P
      <3>1. n \in 0..MaxDecisions /\ pending[a].event = 0
        BY <1>1, RowsOf
      <3> HIDE DEF n
      <3> QED  BY <1>6, <2>1, <3>1, LedgerTakes
    <2>3. next = [sub EXCEPT !.checkpoint = upto, !.ordinal = sub.ordinal + 1]
      BY RowsOf DEF Rows
    <2>4. letter = [event |-> FirstOf(visible), ordinal |-> sub.ordinal + 1,
                    attempts |-> 1, leased |-> TRUE, dead |-> FALSE]
      BY <2>1
    <2>5. Writes(a, status[a], next, letter, acked[a], passed[a] \cup P)
      <3>1. /\ subscription' = [subscription EXCEPT ![a] =
                   [sub EXCEPT !.checkpoint = upto, !.ordinal = sub.ordinal + 1]]
            /\ pending' = [pending EXCEPT ![a] =
                   [event |-> FirstOf(visible), ordinal |-> sub.ordinal + 1,
                    attempts |-> 1, leased |-> TRUE, dead |-> FALSE]]
        BY <1>8 DEF PollNext, upto
      <3> HIDE DEF next, letter, visible, P
      <3> QED  BY <1>1, <2>3, <2>4, <3>1 DEF Writes, Ledgers, LedgerTables
    <2>6. letter.attempts <= Limits[a].attempts
      BY RowsOf
    <2> HIDE DEF next, letter, visible, P
    <2> QED  BY <1>1, <2>2, <2>5, <2>6, LedgersKept
  <1> QED  BY <1>7, <1>8

LEMMA SettleKeeps ==
    ASSUME GovernanceInv, Ledgers, NEW a \in Adapter, NEW t, NEW vis, Settle(a, t, vis)
    PROVE  Ledgers'
  <1> DEFINE e == pending[a].event
             sub == [subscription[a] EXCEPT !.checkpoint = e]
             ack == [acked[a] EXCEPT ![e] = pending[a].ordinal]
  <1>1. Writes(a, status[a], sub, NoDelivery, ack, passed[a]) /\ e # 0 /\ decisions' = decisions
    BY DEF Settle, Writes, Ledgers, LedgerTables, governance
  <1>2. Ledger(status[a], sub, NoDelivery, ack, passed[a], Len(decisions))
    BY <1>1, RowsOf, LedgerSettles
  <1>3. NoDelivery.attempts <= Limits[a].attempts
    BY RowsOf DEF NoDelivery
  <1> HIDE DEF sub, ack
  <1> QED  BY <1>1, <1>2, <1>3, LedgersKept

LEMMA DeliveryKeepsLedgers ==
    ASSUME IInv, DeliveryNext
    PROVE  Ledgers' /\ UNCHANGED governance
  <1>1. GovernanceInv /\ Ledgers
    BY DEF IInv
  <1>2. ASSUME UNCHANGED <<governance, delivery>> PROVE Ledgers' /\ UNCHANGED governance
    <2>1. /\ status' = status /\ subscription' = subscription /\ pending' = pending
          /\ acked' = acked /\ passed' = passed /\ decisions' = decisions
      BY <1>2 DEF delivery, governance
    <2> QED  BY <1>1, <1>2, <2>1 DEF Ledgers, LedgerTables, LedgerOf
  <1>3. CASE PollAny
    <2>1. PICK a \in Adapter, t \in Time, vis \in SUBSET Source :
             PollPending(a, t, vis) \/ PollNext(a, t, vis) \/ ReplayDeadLetter(a, t, vis)
      BY <1>3 DEF PollAny
    <2>2. UNCHANGED governance
      BY <2>1 DEF PollPending, PollNext, ReplayDeadLetter
    <2> QED  BY <1>1, <2>1, <2>2, PollPendingKeeps, PollNextKeeps, ReplayKeeps
  <1>4. CASE SettleAny
    <2>1. PICK a \in Adapter, t \in Time, vis \in SUBSET Source :
             Acknowledge(a, t, vis) \/ Enqueue(a, t, vis)
      BY <1>4 DEF SettleAny
    <2>2. Settle(a, t, vis)
      BY <2>1 DEF Acknowledge, Enqueue
    <2>3. UNCHANGED governance
      BY <2>2 DEF Settle
    <2> QED  BY <1>1, <2>2, <2>3, SettleKeeps
  <1>5. CASE SubscribeAny
    <2>1. PICK a \in Adapter, t \in Time, vis \in SUBSET Source :
             Subscribe(a, t, vis) \/ InstallGoverned(a, t, vis)
      BY <1>5 DEF SubscribeAny
    <2>2. UNCHANGED governance
      BY <2>1 DEF Subscribe, InstallGoverned
    <2> QED  BY <1>1, <2>1, <2>2, SubscribeKeeps, InstallGovernedKeeps
  <1>6. CASE ManageAny
    <2>1. PICK a \in Adapter : \/ InstallPlain(a) \/ CancelSubscription(a) \/ Revoke(a)
                               \/ \E s \in plan[a] \cap Requested : SetAdapterState(a, s)
      BY <1>6 DEF ManageAny
    <2>2. CASE InstallPlain(a)
      BY <1>1, <2>2, InstallPlainKeeps DEF InstallPlain
    <2>3. CASE CancelSubscription(a)
      <3>1. /\ status[a] # "absent" /\ Unsubscribe(a) /\ UNCHANGED governance
            /\ UNCHANGED <<decisions, status, acked, passed>>
        BY <2>3 DEF CancelSubscription, governance
      <3> QED  BY <1>1, <3>1, UnsubscribeKeeps
    <2>4. CASE Revoke(a)
      <3>1. /\ status[a] # "absent" /\ Unsubscribe(a) /\ UNCHANGED governance
            /\ UNCHANGED <<decisions, status, acked, passed>>
        BY <2>4 DEF Revoke, governance, IInv, Enrolled
      <3> QED  BY <1>1, <3>1, UnsubscribeKeeps
    <2>5. ASSUME NEW s \in Requested, SetAdapterState(a, s)
          PROVE  Ledgers' /\ UNCHANGED governance
      <3>1. UNCHANGED governance
        BY <2>5 DEF SetAdapterState
      <3> QED  BY <1>1, <2>5, <3>1, SetAdapterStateKeeps
    <2> QED  BY <2>1, <2>2, <2>3, <2>4, <2>5
  <1>7. CASE EffectAny
    <2>1. UNCHANGED <<governance, delivery>>
      BY <1>7 DEF EffectAny, CancelEffect, Reconcile, Begin, SetIntent
    <2> QED  BY <1>2, <2>1
  <1> QED  BY <1>3, <1>4, <1>5, <1>6, <1>7 DEF DeliveryNext

(***************************************************************************)
(* What the actions do to bindings and intents                             *)
(***************************************************************************)

Binds(a) ==
    /\ ~Governed(a) /\ ~Reserved(Grant[a].execution)
    /\ bound' = [bound EXCEPT ![a] = [execution |-> Grant[a].execution, revoked |-> FALSE]]
    /\ status' = [status EXCEPT ![a] = "installed"]
    /\ UNCHANGED <<dispositions, intents>>

Revokes(a) ==
    /\ Governed(a)
    /\ bound' = [bound EXCEPT ![a].revoked = TRUE]
    /\ UNCHANGED <<status, dispositions, intents>>

Disposes(a, e) ==
    /\ Governed(a) /\ dispositions[a][e] = "none"
    /\ dispositions' = [dispositions EXCEPT ![a][e] = Disposition(e)]
    /\ \/ intents' = intents
       \/ intents' = [intents EXCEPT ![a][e] = "pending"]
    /\ UNCHANGED <<status, bound>>

Lives == {<<"pending", "unknown">>, <<"pending", "canceled">>,
          <<"unknown", "confirmed">>, <<"unknown", "failed">>}

Moves(a, e, after) ==
    /\ <<intents[a][e], after>> \in Lives
    /\ intents[a][e] = "pending" /\ after = "unknown" => Current(e)
    /\ intents' = [intents EXCEPT ![a][e] = after]
    /\ UNCHANGED <<status, bound, dispositions>>

EffectStep ==
    \/ UNCHANGED effects /\ \A b \in Adapter : status[b] # "absent" => status'[b] # "absent"
    \/ \E a \in Adapter : Binds(a) \/ Revokes(a)
    \/ \E a \in Adapter, e \in Occurrence : Disposes(a, e)
    \/ \E a \in Adapter, e \in Occurrence, after \in {"unknown", "canceled", "confirmed", "failed"} :
          Moves(a, e, after)

LEMMA EffectMoves ==
    ASSUME IInv, DeliveryNext
    PROVE  EffectStep
  <1>1. status = [a \in Adapter |-> status[a]]
    BY DEF IInv, Ledgers, LedgerTables
  <1>2. ASSUME UNCHANGED <<effects, status>> PROVE EffectStep
    BY <1>2 DEF EffectStep
  <1>3. CASE PollAny
    <2>1. UNCHANGED <<effects, status>>
      BY <1>3 DEF PollAny, PollPending, PollNext, ReplayDeadLetter
    <2> QED  BY <1>2, <2>1
  <1>4. CASE SettleAny
    <2>1. PICK a \in Adapter, t \in Time, vis \in SUBSET Source :
             Acknowledge(a, t, vis) \/ Enqueue(a, t, vis)
      BY <1>4 DEF SettleAny
    <2>2. CASE Acknowledge(a, t, vis)
      <3>1. UNCHANGED <<effects, status>>
        BY <2>2 DEF Acknowledge, Settle
      <3> QED  BY <1>2, <3>1
    <2>3. CASE Enqueue(a, t, vis)
      <3> DEFINE e == pending[a].event
      <3>1. e \in Occurrence
        <4>1. e \in 0..Len(decisions) /\ Len(decisions) \in Nat
          BY RowsOf DEF IInv, Rows
        <4>2. e # 0
          BY <2>3 DEF Enqueue, Settle
        <4> QED  BY <4>1, <4>2 DEF Occurrence
      <3>2. Disposes(a, e)
        BY <2>3 DEF Enqueue, Settle, Disposes
      <3> QED  BY <3>1, <3>2 DEF EffectStep
    <2> QED  BY <2>1, <2>2, <2>3
  <1>5. CASE SubscribeAny
    <2>1. PICK a \in Adapter, t \in Time, vis \in SUBSET Source :
             Subscribe(a, t, vis) \/ InstallGoverned(a, t, vis)
      BY <1>5 DEF SubscribeAny
    <2>2. CASE Subscribe(a, t, vis)
      <3>1. UNCHANGED <<effects, status>>
        BY <2>2 DEF Subscribe
      <3> QED  BY <1>2, <3>1
    <2>3. CASE InstallGoverned(a, t, vis)
      <3>1. Binds(a)
        BY <2>3 DEF InstallGoverned, Binds
      <3> QED  BY <3>1 DEF EffectStep
    <2> QED  BY <2>1, <2>2, <2>3
  <1>6. CASE ManageAny
    <2>1. PICK a \in Adapter : \/ InstallPlain(a) \/ CancelSubscription(a) \/ Revoke(a)
                               \/ \E s \in plan[a] \cap Requested : SetAdapterState(a, s)
      BY <1>6 DEF ManageAny
    <2>2. ASSUME NEW s, s # "absent", status' = [status EXCEPT ![a] = s], UNCHANGED effects
          PROVE  EffectStep
      <3>1. \A b \in Adapter : status'[b] = IF b = a THEN s ELSE status[b]
        BY <1>1, <2>2
      <3> QED  BY <2>2, <3>1 DEF EffectStep
    <2>3. CASE InstallPlain(a)
      BY <2>2, <2>3 DEF InstallPlain
    <2>4. CASE CancelSubscription(a)
      <3>1. UNCHANGED <<effects, status>>
        BY <2>4 DEF CancelSubscription
      <3> QED  BY <1>2, <3>1
    <2>5. CASE Revoke(a)
      <3>1. Revokes(a)
        BY <2>5 DEF Revoke, Revokes
      <3> QED  BY <3>1 DEF EffectStep
    <2>6. CASE \E s \in plan[a] \cap Requested : SetAdapterState(a, s)
      <3>1. PICK s \in plan[a] \cap Requested : SetAdapterState(a, s)
        BY <2>6
      <3>2. s # "absent"
        BY DEF Requested
      <3> QED  BY <2>2, <3>1, <3>2 DEF SetAdapterState
    <2> QED  BY <2>1, <2>3, <2>4, <2>5, <2>6
  <1>7. CASE EffectAny
    <2>1. PICK a \in Adapter, e \in Occurrence :
              \/ CancelEffect(a, e)
              \/ \E outcome \in {"confirmed", "failed"} : Reconcile(a, e, outcome)
              \/ \E t \in Time, vis \in SUBSET Source : Begin(a, e, t, vis)
      BY <1>7 DEF EffectAny
    <2>2. CASE CancelEffect(a, e)
      <3>1. Moves(a, e, "canceled")
        BY <2>2 DEF CancelEffect, SetIntent, Moves, Lives, delivery
      <3> QED  BY <3>1 DEF EffectStep
    <2>3. ASSUME NEW outcome \in {"confirmed", "failed"}, Reconcile(a, e, outcome)
          PROVE  EffectStep
      <3>1. Moves(a, e, outcome)
        BY <2>3 DEF Reconcile, SetIntent, Moves, Lives, delivery
      <3> QED  BY <3>1 DEF EffectStep
    <2>4. ASSUME NEW t \in Time, NEW vis \in SUBSET Source, Begin(a, e, t, vis)
          PROVE  EffectStep
      <3>1. Moves(a, e, "unknown")
        BY <2>4 DEF Begin, AuthorizeStored, SetIntent, Moves, Lives, delivery
      <3> QED  BY <3>1 DEF EffectStep
    <2> QED  BY <2>1, <2>2, <2>3, <2>4
  <1> QED  BY <1>3, <1>4, <1>5, <1>6, <1>7 DEF DeliveryNext

LEMMA OccurrenceIsEvent ==
    ASSUME GovernanceInv
    PROVE  Occurrence \subseteq Event
  BY Types, Bounds DEF GovernanceInv, Occurrence

LEMMA BooksFollow ==
    ASSUME IInv, EffectStep
    PROVE  Books'
  <1>1. /\ bound = [a \in Adapter |-> bound[a]]
        /\ dispositions = [a \in Adapter |-> dispositions[a]]
        /\ intents = [a \in Adapter |-> intents[a]]
        /\ \A a \in Adapter : BookOf(a)
    BY DEF IInv, Books, BookTables
  <1>2. ASSUME UNCHANGED effects PROVE Books'
    BY <1>1, <1>2 DEF Books, BookTables, BookOf, effects
  <1>3. ASSUME NEW a \in Adapter, Binds(a) PROVE Books'
    <2> DEFINE row == [execution |-> Grant[a].execution, revoked |-> FALSE]
    <2>1. row.execution \in Execution /\ row # NoBinding
          /\ row \in [execution : Execution \cup {NoExecution}, revoked : BOOLEAN]
      BY GrantAssumption DEF NoBinding
    <2> HIDE DEF row
    <2>2. bound' = [b \in Adapter |-> IF b = a THEN row ELSE bound[b]]
      BY <1>1, <1>3 DEF Binds, row
    <2>3. dispositions' = dispositions /\ intents' = intents
      BY <1>3 DEF Binds
    <2>4. ASSUME NEW b \in Adapter PROVE BookOf(b)'
      BY <1>1, <2>1, <2>2, <2>3 DEF BookOf, Book
    <2> QED  BY <1>1, <2>2, <2>3, <2>4 DEF Books, BookTables
  <1>4. ASSUME NEW a \in Adapter, Revokes(a) PROVE Books'
    <2> DEFINE row == [bound[a] EXCEPT !.revoked = TRUE]
    <2>1. row.execution \in Execution /\ row # NoBinding
          /\ row \in [execution : Execution \cup {NoExecution}, revoked : BOOLEAN]
      <3>1. /\ bound[a] \in [execution : Execution \cup {NoExecution}, revoked : BOOLEAN]
            /\ bound[a].execution \in Execution
        BY <1>1, <1>4 DEF Revokes, Governed, BookOf, Book
      <3>2. /\ row \in [execution : Execution \cup {NoExecution}, revoked : BOOLEAN]
            /\ row.execution = bound[a].execution
        BY <3>1
      <3>3. NoBinding.execution \notin Execution
        BY Bounds DEF NoBinding
      <3> HIDE DEF row
      <3> QED  BY <3>1, <3>2, <3>3
    <2>2. bound' = [b \in Adapter |-> IF b = a THEN row ELSE bound[b]]
      BY <1>1, <1>4 DEF Revokes
    <2> HIDE DEF row
    <2>3. dispositions' = dispositions /\ intents' = intents
      BY <1>4 DEF Revokes
    <2>4. ASSUME NEW b \in Adapter PROVE BookOf(b)'
      BY <1>1, <2>1, <2>2, <2>3 DEF BookOf, Book
    <2> QED  BY <1>1, <2>2, <2>3, <2>4 DEF Books, BookTables
  <1>5. ASSUME NEW a \in Adapter, NEW e \in Occurrence, Disposes(a, e) PROVE Books'
    <2> DEFINE dis == [dispositions[a] EXCEPT ![e] = Disposition(e)]
               int == intents'[a]
    <2>1. e \in Event
      BY OccurrenceIsEvent DEF IInv
    <2>2. /\ dispositions' = [b \in Adapter |-> IF b = a THEN dis ELSE dispositions[b]]
          /\ bound' = bound
          /\ \/ intents' = intents
             \/ intents' = [b \in Adapter |-> IF b = a THEN [intents[a] EXCEPT ![e] = "pending"]
                                              ELSE intents[b]]
      BY <1>1, <1>5 DEF Disposes
    <2>3. int = intents[a] \/ int = [intents[a] EXCEPT ![e] = "pending"]
      BY <2>2
    <2>4. Disposition(e) \in {"intent", "policy_change", "superseded"}
      BY DEF Disposition
    <2>5. Book(bound[a], dis, int)
      <3>1. Book(bound[a], dispositions[a], intents[a]) /\ bound[a] # NoBinding
        BY <1>1, <1>5 DEF BookOf, Disposes, Governed
      <3>2. /\ dis \in [Event -> {"none", "intent", "policy_change", "superseded"}]
            /\ \A f \in Event : dis[f] = IF f = e THEN Disposition(e) ELSE dispositions[a][f]
        BY <2>1, <2>4, <3>1 DEF Book
      <3>3. /\ int \in [Event -> {"absent", "pending", "unknown", "confirmed", "failed", "canceled"}]
            /\ \A f \in Event : f # e => int[f] = intents[a][f]
        BY <2>1, <2>3, <3>1 DEF Book
      <3> HIDE DEF dis, int
      <3> QED  BY <2>4, <3>1, <3>2, <3>3 DEF Book
    <2> HIDE DEF dis, int
    <2>6. \A b \in Adapter : intents'[b] = IF b = a THEN int ELSE intents[b]
      BY <2>2 DEF int
    <2>7. ASSUME NEW b \in Adapter PROVE BookOf(b)'
      BY <1>1, <2>2, <2>5, <2>6 DEF BookOf
    <2> QED  BY <1>1, <2>2, <2>7 DEF Books, BookTables
  <1>6. ASSUME NEW a \in Adapter, NEW e \in Occurrence,
               NEW after \in {"unknown", "canceled", "confirmed", "failed"}, Moves(a, e, after)
        PROVE  Books'
    <2> DEFINE int == [intents[a] EXCEPT ![e] = after]
    <2>1. e \in Event
      BY OccurrenceIsEvent DEF IInv
    <2>2. /\ intents' = [b \in Adapter |-> IF b = a THEN int ELSE intents[b]]
          /\ bound' = bound /\ dispositions' = dispositions
          /\ intents[a][e] # "absent"
      BY <1>1, <1>6 DEF Moves, Lives
    <2>3. Book(bound[a], dispositions[a], int)
      <3>1. Book(bound[a], dispositions[a], intents[a])
        BY <1>1 DEF BookOf
      <3>2. /\ int \in [Event -> {"absent", "pending", "unknown", "confirmed", "failed", "canceled"}]
            /\ \A f \in Event : f # e => int[f] = intents[a][f]
        BY <2>1, <3>1 DEF Book
      <3> HIDE DEF int
      <3> QED  BY <2>1, <2>2, <3>1, <3>2 DEF Book
    <2> HIDE DEF int
    <2>4. ASSUME NEW b \in Adapter PROVE BookOf(b)'
      BY <1>1, <2>2, <2>3 DEF BookOf
    <2> QED  BY <1>1, <2>2, <2>4 DEF Books, BookTables
  <1> QED  BY <1>2, <1>3, <1>4, <1>5, <1>6 DEF EffectStep

\* An execution namespace is reserved for good when a grant is bound.
LEMMA BindingsFollow ==
    ASSUME IInv, EffectStep
    PROVE  Enrolled' /\ Apart'
  <1>1. /\ bound = [a \in Adapter |-> bound[a]] /\ status = [a \in Adapter |-> status[a]]
        /\ Enrolled /\ Apart
    BY DEF IInv, Books, BookTables, Ledgers, LedgerTables
  <1>2. ASSUME bound' = bound, \A b \in Adapter : status[b] # "absent" => status'[b] # "absent"
        PROVE  Enrolled' /\ Apart'
    BY <1>1, <1>2 DEF Enrolled, Apart, Governed
  <1>3. ASSUME NEW a \in Adapter, Binds(a) PROVE Enrolled' /\ Apart'
    <2> DEFINE row == [execution |-> Grant[a].execution, revoked |-> FALSE]
    <2>1. /\ bound' = [b \in Adapter |-> IF b = a THEN row ELSE bound[b]]
          /\ status' = [b \in Adapter |-> IF b = a THEN "installed" ELSE status[b]]
      BY <1>1, <1>3 DEF Binds
    <2>2. row.execution = Grant[a].execution
      OBVIOUS
    <2>3. \A b \in Adapter : bound[b].execution # Grant[a].execution
      BY <1>3 DEF Binds, Reserved
    <2> HIDE DEF row
    <2>4. Enrolled'
      BY <1>1, <2>1 DEF Enrolled, Governed
    <2>5. ASSUME NEW b \in Adapter, NEW c \in Adapter,
                 bound'[b] # NoBinding, bound'[b].execution = bound'[c].execution
          PROVE  b = c
      <3>1. CASE b # a /\ c # a
        BY <1>1, <2>1, <2>5, <3>1 DEF Apart, Governed
      <3>2. CASE b = a \/ c = a
        BY <2>1, <2>2, <2>3, <2>5, <3>2
      <3> QED  BY <3>1, <3>2
    <2> QED  BY <2>4, <2>5 DEF Apart, Governed
  <1>4. ASSUME NEW a \in Adapter, Revokes(a) PROVE Enrolled' /\ Apart'
    <2> DEFINE row == [bound[a] EXCEPT !.revoked = TRUE]
    <2>1. bound' = [b \in Adapter |-> IF b = a THEN row ELSE bound[b]] /\ status' = status
          /\ Governed(a)
      BY <1>1, <1>4 DEF Revokes
    <2>2. row.execution = bound[a].execution
      BY DEF IInv, Books, BookOf, Book
    <2> HIDE DEF row
    <2>3. Enrolled'
      BY <1>1, <2>1 DEF Enrolled, Governed
    <2>4. \A b \in Adapter : bound'[b].execution = bound[b].execution
      BY <2>1, <2>2
    <2>5. \A b \in Adapter : bound'[b] # NoBinding => Governed(b)
      BY <2>1 DEF Governed
    <2> QED  BY <1>1, <2>3, <2>4, <2>5 DEF Apart, Governed
  <1>5. ASSUME NEW a \in Adapter, NEW e \in Occurrence, Disposes(a, e) PROVE Enrolled' /\ Apart'
    BY <1>2, <1>5 DEF Disposes
  <1>6. ASSUME NEW a \in Adapter, NEW e \in Occurrence, NEW after, Moves(a, e, after)
        PROVE  Enrolled' /\ Apart'
    BY <1>2, <1>6 DEF Moves
  <1> QED  BY <1>2, <1>3, <1>4, <1>5, <1>6 DEF EffectStep, effects

\* An attempt is for the publication the head rests on.
LEMMA AttemptsFollow ==
    ASSUME IInv, EffectStep, UNCHANGED governance
    PROVE  Behind'
  <1>1. decisions' = decisions /\ head' = head /\ Occurrence' = Occurrence /\ Behind
    BY DEF governance, Occurrence, IInv
  <1>2. intents = [a \in Adapter |-> intents[a]] /\ \A a \in Adapter : BookOf(a)
    BY DEF IInv, Books, BookTables
  <1>3. ASSUME \A f \in Event : Attempted(f)' => Attempted(f) PROVE Behind'
    BY <1>1, <1>3 DEF Behind
  <1>4. ASSUME intents' = intents PROVE Behind'
    BY <1>3, <1>4 DEF Attempted
  <1>5. ASSUME NEW a \in Adapter, NEW e \in Occurrence, Disposes(a, e) PROVE Behind'
    <2>1. intents' = intents \/ intents' = [intents EXCEPT ![a][e] = "pending"]
      BY <1>5 DEF Disposes
    <2>2. CASE intents' = [intents EXCEPT ![a][e] = "pending"]
      <3> SUFFICES ASSUME NEW f \in Event, Attempted(f)' PROVE Attempted(f)
        BY <1>3
      <3>1. PICK b \in Adapter : intents'[b][f] \in {"unknown", "confirmed", "failed"}
        BY DEF Attempted
      <3>2. intents'[b][f] = IF b = a /\ f = e THEN "pending" ELSE intents[b][f]
        BY <1>2, <2>2 DEF BookOf, Book
      <3> QED  BY <3>1, <3>2 DEF Attempted
    <2> QED  BY <1>4, <2>1, <2>2
  <1>6. ASSUME NEW a \in Adapter, NEW e \in Occurrence,
               NEW after \in {"unknown", "canceled", "confirmed", "failed"}, Moves(a, e, after)
        PROVE  Behind'
    <2>1. ASSUME NEW f \in Event, Attempted(f)'
          PROVE  Attempted(f) \/ (f = e /\ after = "unknown" /\ intents[a][e] = "pending")
      <3>1. PICK b \in Adapter : intents'[b][f] \in {"unknown", "confirmed", "failed"}
        BY <2>1 DEF Attempted
      <3>2. intents'[b][f] = IF b = a /\ f = e THEN after ELSE intents[b][f]
        BY <1>2, <1>6 DEF BookOf, Book, Moves
      <3>3. CASE b = a /\ f = e
        BY <1>6, <3>1, <3>2, <3>3 DEF Attempted, Moves, Lives
      <3>4. CASE ~(b = a /\ f = e)
        BY <3>1, <3>2, <3>4 DEF Attempted
      <3> QED  BY <3>3, <3>4
    <2>2. after = "unknown" /\ intents[a][e] = "pending" => decisions[head.decision].publication = e
      BY <1>6 DEF Moves, Current
    <2>3. e \in Nat /\ e <= e
      BY DEF Occurrence
    <2> QED  BY <1>1, <2>1, <2>2, <2>3 DEF Behind
  <1> QED  BY <1>4, <1>5, <1>6 DEF EffectStep, effects, Binds, Revokes

(***************************************************************************)
(* Decisions accepted meanwhile                                            *)
(***************************************************************************)

LEMMA HeadMoves ==
    ASSUME GovernanceInv, GovernanceNext
    PROVE  \/ decisions' = decisions /\ head'.decision = head.decision
           \/ \E q \in Proposal, t \in Time :
                /\ decisions' = Append(decisions, Accepted(q, t))
                /\ head'.decision = Len(decisions) + 1
                /\ Accepted(q, t) \in Decision
                /\ Accepted(q, t).publication =
                     IF Publishes(q) THEN Len(decisions) + 1
                     ELSE IF Len(decisions) = 0 THEN 0 ELSE decisions[Len(decisions)].publication
  <1>1. CASE \E p \in Policy : InstallRoot(p)
    <2>1. PICK p \in Policy : InstallRoot(p)
      BY <1>1
    <2>2. head = NoHead /\ head' = [NoHead EXCEPT !.policy = p] /\ decisions' = decisions
      BY <2>1 DEF InstallRoot
    <2>3. [NoHead EXCEPT !.policy = p].decision = NoHead.decision
      BY DEF NoHead
    <2> QED  BY <2>2, <2>3
  <1>2. CASE ProposeAny
    <2>1. PICK q \in Proposal, h \in Host, deadline \in Deadline, t \in Time, vis \in SUBSET Source :
             \/ \E s \in Source : Propose(q, h, s, NoPolicy, deadline, t, vis)
             \/ \E p \in Policy : Propose(q, h, NoSource, p, deadline, t, vis)
      BY <1>2 DEF ProposeAny
    <2>2. UNCHANGED <<head, decisions>>
      BY <2>1 DEF Propose
    <2> QED  BY <2>2
  <1>3. CASE ApproveAny
    <2>1. UNCHANGED <<head, decisions>>
      BY <1>3 DEF ApproveAny, Approve
    <2> QED  BY <2>1
  <1>4. CASE AcceptAny
    <2>1. PICK q \in Proposal, h \in Host, t \in Time, vis \in SUBSET Source : Accept(q, h, t, vis)
      BY <1>4 DEF AcceptAny
    <2>2. /\ decisions' = Append(decisions, Accepted(q, t))
          /\ head' = [policy |-> Accepted(q, t).next, decision |-> Len(decisions) + 1,
                      source |-> IF Publishes(q) THEN proposals[q].source ELSE head.source]
          /\ proposals[q].expected = Len(decisions)
      BY <2>1, AcceptWrites
    <2>3. Accepted(q, t) \in Decision
      BY <2>1, AcceptedTypes
    <2>4. Accepted(q, t).publication =
                     IF Publishes(q) THEN Len(decisions) + 1
                     ELSE IF Len(decisions) = 0 THEN 0 ELSE decisions[Len(decisions)].publication
      BY <2>2 DEF Accepted, Exposure
    <2>5. head'.decision = Len(decisions) + 1
      BY <2>2
    <2> QED  BY <2>2, <2>3, <2>4, <2>5
  <1> QED  BY <1>1, <1>2, <1>3, <1>4 DEF GovernanceNext

LEMMA DecisionsGrow ==
    ASSUME IInv, GovernanceNext, UNCHANGED <<delivery, effects>>
    PROVE  Ledgers' /\ Behind'
  <1> DEFINE n == Len(decisions)
  <1>1. /\ GovernanceInv /\ n \in Nat /\ decisions \in Seq(Decision)
        /\ Occurrence = 1..n /\ head.decision = n
        /\ \A d \in Occurrence : decisions[d].publication \in Nat
    <2>1. GovernanceInv
      BY DEF IInv
    <2>2. \A d \in Occurrence : decisions[d].publication \in 0..MaxDecisions
      BY <2>1, Types DEF GovernanceInv, Decision
    <2> QED  BY <2>1, <2>2, Types, Bounds DEF GovernanceInv, Chained, Occurrence
  <1>2. /\ status' = status /\ subscription' = subscription /\ pending' = pending
        /\ acked' = acked /\ passed' = passed /\ intents' = intents
    BY DEF delivery, effects
  <1>3. ASSUME NEW m \in Nat, n <= m, Len(decisions)' = m PROVE Ledgers'
    <2>1. LedgerTables' /\ \A a \in Adapter : LedgerOf(a)
      BY <1>2 DEF IInv, Ledgers, LedgerTables
    <2>2. ASSUME NEW a \in Adapter PROVE LedgerOf(a)'
      <3>1. Ledger(status[a], subscription[a], pending[a], acked[a], passed[a], m)
        BY <1>1, <1>3, <2>1, LedgerGrows DEF LedgerOf
      <3> QED  BY <1>2, <1>3, <2>1, <3>1 DEF LedgerOf
    <2> QED  BY <2>1, <2>2 DEF Ledgers
  <1>4. \A e \in Event : Attempted(e)' <=> Attempted(e)
    BY <1>2 DEF Attempted
  <1>5. Behind
    BY DEF IInv
  <1>6. CASE decisions' = decisions /\ head'.decision = head.decision
    <2>1. Behind'
      BY <1>4, <1>5, <1>6 DEF Behind, Occurrence
    <2> QED  BY <1>1, <1>3, <1>6, <2>1
  <1>7. ASSUME NEW q \in Proposal, NEW t \in Time,
               decisions' = Append(decisions, Accepted(q, t)),
               head'.decision = n + 1,
               Accepted(q, t) \in Decision,
               Accepted(q, t).publication =
                  IF Publishes(q) THEN n + 1
                  ELSE IF n = 0 THEN 0 ELSE decisions[n].publication
        PROVE  Ledgers' /\ Behind'
    <2> DEFINE new == Accepted(q, t)
    <2> HIDE DEF new
    <2>1. /\ Len(decisions') = n + 1 /\ decisions'[n + 1] = new
          /\ \A d \in 1..n : decisions'[d] = decisions[d]
      <3>1. new \in Decision /\ decisions' = Append(decisions, new)
        BY <1>7 DEF new
      <3> QED  BY <1>1, <3>1
    <2>2. Occurrence' = 1..(n + 1)
      BY <2>1 DEF Occurrence
    <2>3. new.publication <= n + 1 /\ (n # 0 => decisions[n].publication <= new.publication)
          /\ new.publication \in Nat
      <3>1. n # 0 => decisions[n].publication <= n /\ decisions[n].publication \in Nat
        BY <1>1, <1>5 DEF Behind
      <3> QED  BY <1>1, <1>7, <3>1 DEF new
    <2>4. \A d \in Occurrence' : decisions'[d].publication <= d
      <3> TAKE d \in Occurrence'
      <3>1. CASE d = n + 1
        BY <2>1, <2>3, <3>1
      <3>2. CASE d # n + 1
        <4>1. d \in 1..n
          BY <1>1, <2>2, <3>2
        <4> QED  BY <1>1, <1>5, <2>1, <4>1 DEF Behind
      <3> QED  BY <3>1, <3>2
    <2>5. \A e \in Event : Attempted(e) => e <= decisions'[head'.decision].publication
      <3> TAKE e \in Event
      <3> HAVE Attempted(e)
      <3>1. n # 0 /\ e <= decisions[n].publication /\ decisions[n].publication \in Nat
        BY <1>1, <1>5 DEF Behind
      <3>2. decisions'[head'.decision].publication = new.publication
        BY <1>7, <2>1
      <3> QED  BY <2>3, <3>1, <3>2, Bounds
    <2>6. Occurrence' # {}
      BY <1>1, <2>2
    <2>7. Behind'
      BY <1>4, <2>4, <2>5, <2>6 DEF Behind
    <2> QED  BY <1>1, <1>3, <2>1, <2>7
  <1> QED  BY <1>1, <1>6, <1>7, HeadMoves

LEMMA Starts == Init => IInv
  <1> SUFFICES ASSUME Init PROVE IInv
    OBVIOUS
  <1>1. GovernanceInv /\ Occurrence = {} /\ Len(decisions) = 0
    BY Inits DEF Init, GovernanceInit, Occurrence
  <1>2. Ledgers
    <2>1. ASSUME NEW a \in Adapter PROVE LedgerOf(a)
      <3> DEFINE none == [e \in Event |-> 0]
      <3>1. /\ status[a] = "absent" /\ subscription[a] = NoSubscription
            /\ pending[a] = NoDelivery /\ acked[a] = none /\ passed[a] = {}
        BY DEF Init
      <3>2. Rows("absent", NoSubscription, NoDelivery, none, {}, 0)
        BY Bounds DEF Rows, Lifecycle, NoSubscription, NoDelivery
      <3>3. Ledger("absent", NoSubscription, NoDelivery, none, {}, 0)
        BY <3>2, Bounds DEF Ledger, NoSubscription, NoDelivery
      <3>4. NoDelivery.attempts <= Limits[a].attempts
        BY Bounds DEF NoDelivery
      <3> HIDE DEF none
      <3> QED  BY <1>1, <3>1, <3>3, <3>4 DEF LedgerOf
    <2> QED  BY <2>1 DEF Init, Ledgers, LedgerTables
  <1>3. Books
    <2>1. ASSUME NEW a \in Adapter PROVE BookOf(a)
      <3>1. /\ bound[a] = NoBinding /\ dispositions[a] = [e \in Event |-> "none"]
            /\ intents[a] = [e \in Event |-> "absent"]
        BY DEF Init
      <3>2. NoBinding \in [execution : Execution \cup {NoExecution}, revoked : BOOLEAN]
        BY DEF NoBinding
      <3> QED  BY <3>1, <3>2 DEF BookOf, Book
    <2> QED  BY <2>1 DEF Init, Books, BookTables
  <1>4. \A a \in Adapter : ~Governed(a) /\ \A e \in Event : intents[a][e] = "absent"
    BY DEF Init, Governed
  <1> QED  BY <1>1, <1>2, <1>3, <1>4 DEF IInv, Init, Enrolled, Apart, Behind, Attempted

LEMMA StepKeeps == IInv /\ [Next]_vars => IInv'
  <1> SUFFICES ASSUME IInv, [Next]_vars PROVE IInv'
    OBVIOUS
  <1>1. CASE GovernanceNext /\ UNCHANGED <<delivery, effects, plan>>
    <2>1. GovernanceInv'
      BY <1>1, GovernanceStep DEF IInv
    <2>2. Ledgers' /\ Behind'
      BY <1>1, DecisionsGrow
    <2>3. bound' = bound /\ dispositions' = dispositions /\ intents' = intents /\ status' = status
      BY <1>1 DEF effects, delivery
    <2>4. Books'
      BY <2>3 DEF IInv, Books, BookTables, BookOf
    <2>5. Enrolled' /\ Apart'
      BY <2>3 DEF IInv, Enrolled, Apart, Governed
    <2> QED  BY <1>1, <2>1, <2>2, <2>4, <2>5 DEF IInv
  <1>2. CASE DeliveryNext /\ UNCHANGED plan
    <2>1. Ledgers' /\ UNCHANGED governance
      BY <1>2, DeliveryKeepsLedgers
    <2>2. GovernanceInv'
      BY <2>1, GovernanceStep DEF IInv
    <2>3. EffectStep
      BY <1>2, EffectMoves
    <2>4. Books' /\ Enrolled' /\ Apart' /\ Behind'
      BY <2>1, <2>3, BooksFollow, BindingsFollow, AttemptsFollow
    <2> QED  BY <1>2, <2>1, <2>2, <2>4 DEF IInv
  <1>3. CASE UNCHANGED vars
    <2>1. UNCHANGED governance
      BY <1>3 DEF vars
    <2>2. GovernanceInv'
      BY <2>1, GovernanceStep DEF IInv
    <2>3. /\ status' = status /\ subscription' = subscription /\ pending' = pending
          /\ acked' = acked /\ passed' = passed /\ bound' = bound /\ plan' = plan
          /\ dispositions' = dispositions /\ intents' = intents
          /\ decisions' = decisions /\ head' = head
      BY <1>3 DEF vars, delivery, effects, governance
    <2>4. Ledgers'
      BY <2>3 DEF IInv, Ledgers, LedgerTables, LedgerOf
    <2>5. Books' /\ Enrolled' /\ Apart'
      BY <2>3 DEF IInv, Books, BookTables, BookOf, Enrolled, Apart, Governed
    <2>6. Behind'
      BY <2>3 DEF IInv, Behind, Attempted, Occurrence
    <2> QED  BY <2>2, <2>3, <2>4, <2>5, <2>6 DEF IInv
  <1> QED  BY <1>1, <1>2, <1>3 DEF Next

(***************************************************************************)
(* What follows from the invariant                                         *)
(***************************************************************************)

LEMMA Always == Spec => []IInv
  BY Starts, StepKeeps, PTL DEF Spec

\* Every table keeps its type: no delivery is attempted more often than the manifest allows,
\* and subscriptions, deliveries and receipts name decisions that exist (poll_governance).
THEOREM EffectsTyped == Spec => []TypeOK
  <1>1. IInv => TypeOK
    <2> SUFFICES ASSUME IInv PROVE TypeOK
      OBVIOUS
    <2>1. \A a \in Adapter :
             /\ Rows(status[a], subscription[a], pending[a], acked[a], passed[a], Len(decisions))
             /\ pending[a].attempts <= Limits[a].attempts
      BY RowsOf DEF IInv
    <2>2. LedgerTables /\ BookTables /\ plan \in Plans /\ \A a \in Adapter : BookOf(a)
      BY DEF IInv, Ledgers, Books
    <2>3. \A a \in Adapter : passed[a] \in SUBSET Occurrence
      BY <2>1 DEF Rows, Occurrence
    <2>4. status \in [Adapter -> Lifecycle] /\ passed \in [Adapter -> SUBSET Occurrence]
          /\ acked \in [Adapter -> [Event -> 0..MaxDecisions]]
      BY <2>1, <2>2, <2>3 DEF Rows, LedgerTables
    <2>5. /\ subscription \in [Adapter -> [state : {"none", "active", "canceled"},
                                     checkpoint : 0..Len(decisions), ordinal : 0..MaxDecisions]]
          /\ pending \in [Adapter -> [event : 0..Len(decisions), ordinal : 0..MaxDecisions,
                                attempts : Nat, leased : BOOLEAN, dead : BOOLEAN]]
      BY <2>1, <2>2 DEF Rows, LedgerTables
    <2>6. /\ bound \in [Adapter -> [execution : Execution \cup {NoExecution}, revoked : BOOLEAN]]
          /\ dispositions \in
               [Adapter -> [Event -> {"none", "intent", "policy_change", "superseded"}]]
          /\ intents \in [Adapter -> [Event ->
                     {"absent", "pending", "unknown", "confirmed", "failed", "canceled"}]]
      BY <2>2 DEF BookTables, BookOf, Book
    <2>7. GovernanceTypeOK
      BY DEF IInv, GovernanceInv
    <2> QED  BY <2>1, <2>2, <2>4, <2>5, <2>6, <2>7 DEF TypeOK
  <1> QED  BY <1>1, Always, PTL

\* The ordinals of a subscription are 1, 2, 3, ... in the order of the events, through hidden
\* events, lost leases, dead letters and replays (poll_governance, acknowledge_governance).
THEOREM OrdinalsHold == Spec => []OrdinalsContiguous
  <1>1. IInv => OrdinalsContiguous
    BY DEF IInv, Ledgers, LedgerOf, Ledger, Contiguous, OrdinalsContiguous
  <1> QED  BY <1>1, Always, PTL

\* Behind a checkpoint every event was receipted or unreadable when the scan passed it
\* (poll_governance, acknowledge_governance).
THEOREM NothingLost == Spec => []NoEventLost
  <1>1. IInv => NoEventLost
    BY DEF IInv, Ledgers, LedgerOf, Ledger, NoEventLost
  <1> QED  BY <1>1, Always, PTL

\* No attempt begins for a publication older than one already attempted: a dispatch re-reads
\* the head, and the publication the head rests on only moves forward
\* (authorize_stored_effect, accept_governance).
THEOREM AttemptsOrdered == Spec => AttemptsFollowHead
  <1> DEFINE A == \A a \in Adapter, e \in Event :
                     intents[a][e] = "pending" /\ intents'[a][e] = "unknown" =>
                        \A f \in Event : Attempted(f) => f <= e
  <1>1. IInv /\ [Next]_vars => [A]_vars
    <2> SUFFICES ASSUME IInv, Next,
                        NEW a \in Adapter, NEW e \in Event,
                        intents[a][e] = "pending", intents'[a][e] = "unknown",
                        NEW f \in Event, Attempted(f)
                 PROVE  f <= e
      OBVIOUS
    <2>1. intents' # intents
      OBVIOUS
    <2>2. EffectStep
      <3>1. DeliveryNext
        BY <2>1 DEF Next, effects
      <3> QED  BY <3>1, EffectMoves
    <2>3. BookOf(a) /\ intents = [b \in Adapter |-> intents[b]]
      BY DEF IInv, Books, BookTables
    <2>4. \E c \in Adapter, d \in Occurrence, after \in {"unknown", "canceled", "confirmed", "failed"} :
             Moves(c, d, after)
      <3>1. ASSUME NEW c \in Adapter, NEW d \in Occurrence, Disposes(c, d) PROVE FALSE
        <4>1. \/ intents' = intents
              \/ intents' = [intents EXCEPT ![c][d] = "pending"]
          BY <3>1 DEF Disposes
        <4>2. CASE intents' = [intents EXCEPT ![c][d] = "pending"]
          <5>1. intents'[a][e] = IF a = c /\ e = d THEN "pending" ELSE intents[a][e]
            BY <2>3, <4>2 DEF BookOf, Book
          <5> QED  BY <5>1
        <4> QED  BY <2>1, <4>1, <4>2
      <3> QED  BY <2>1, <2>2, <3>1 DEF EffectStep, effects, Binds, Revokes
    <2>5. PICK c \in Adapter, d \in Occurrence, after \in {"unknown", "canceled", "confirmed", "failed"} :
             Moves(c, d, after)
      BY <2>4
    <2>6. a = c /\ e = d /\ after = "unknown"
      <3>1. intents'[a][e] = IF a = c /\ e = d THEN after ELSE intents[a][e]
        BY <2>3, <2>5 DEF BookOf, Book, Moves
      <3> QED  BY <3>1
    <2>7. decisions[head.decision].publication = e
      BY <2>5, <2>6 DEF Moves, Current
    <2> QED  BY <2>7 DEF IInv, Behind
  <1> HIDE DEF A
  <1>2. Spec => [][A]_vars
    BY <1>1, Always, PTL DEF Spec
  <1> QED  BY <1>2 DEF AttemptsFollowHead, A

(***************************************************************************)
(* The world outside sees an outbox                                        *)
(***************************************************************************)

Askers(row, int, x, e) == {a \in Adapter : row[a].execution = x /\ int[a][e] # "absent"}
Asker(row, int, x, e) == CHOOSE a \in Adapter : a \in Askers(row, int, x, e)
AskedOf(row, int, x, e) ==
    IF Askers(row, int, x, e) = {} THEN "absent"
    ELSE IF Cardinality(Askers(row, int, x, e)) > 1 THEN "requested twice"
    ELSE int[Asker(row, int, x, e)][e]

\* What the world outside is asked for, read from bindings and intents.
Asked(row, int) == [k \in Execution \X Event |-> AskedOf(row, int, k[1], k[2])]

\* Where every execution namespace has one adapter, it is the intents of that one.
LEMMA AskedByOne ==
    ASSUME NEW row, NEW int, NEW x \in Execution, NEW e \in Event,
           \A a, b \in Adapter : row[a].execution = x /\ row[b].execution = x => a = b
    PROVE  /\ \A a \in Adapter : row[a].execution = x => Asked(row, int)[<<x, e>>] = int[a][e]
           /\ (\A a \in Adapter : row[a].execution # x) => Asked(row, int)[<<x, e>>] = "absent"
  <1> DEFINE R == Askers(row, int, x, e)
  <1>1. Asked(row, int)[<<x, e>>] = AskedOf(row, int, x, e)
    <2>1. <<x, e>> \in Execution \X Event /\ <<x, e>>[1] = x /\ <<x, e>>[2] = e
      OBVIOUS
    <2> QED  BY <2>1 DEF Asked
  <1>2. ASSUME NEW a \in Adapter, row[a].execution = x
        PROVE  Asked(row, int)[<<x, e>>] = int[a][e]
    <2>1. CASE int[a][e] = "absent"
      <3>1. R = {}
        BY <1>2, <2>1 DEF Askers
      <3> QED  BY <1>1, <2>1, <3>1 DEF AskedOf
    <2>2. CASE int[a][e] # "absent"
      <3>1. R = {a}
        BY <1>2, <2>2 DEF Askers
      <3>2. ~(Cardinality(R) > 1) /\ R # {}
        BY <3>1, FS_Singleton
      <3>3. Asker(row, int, x, e) = a
        BY <3>1 DEF Asker
      <3> QED  BY <1>1, <3>2, <3>3 DEF AskedOf
    <2> QED  BY <2>1, <2>2
  <1>3. ASSUME \A a \in Adapter : row[a].execution # x
        PROVE  Asked(row, int)[<<x, e>>] = "absent"
    <2>1. R = {}
      BY <1>3 DEF Askers
    <2> QED  BY <1>1, <2>1 DEF AskedOf
  <1> QED  BY <1>2, <1>3

\* The abstract steps, on what is asked for.
LEMMA OutboxMeans ==
    ASSUME NEW K, NEW before, NEW after
    PROVE  External!Move(K, before, after) <=>
              /\ \A k \in K : Asked(bound, intents)[k] = before
              /\ Asked(bound, intents)' = [k \in Execution \X Event |->
                                              IF k \in K THEN after ELSE Asked(bound, intents)[k]]
  BY DEF External!Move, Asked, AskedOf, Askers, Asker, Requesters

LEMMA OutboxStarts == Init => External!Init
  <1> SUFFICES ASSUME Init PROVE External!Init
    OBVIOUS
  <1>1. \A x, e : e \in Event => Requesters(x, e) = {}
    BY DEF Init, Requesters
  <1> QED  BY <1>1 DEF External!Init

\* One namespace, one adapter, now and after the step.
LEMMA OneEach ==
    ASSUME Apart, NEW x \in Execution, NEW a \in Adapter, NEW b \in Adapter,
           bound[a].execution = x, bound[b].execution = x
    PROVE  a = b
  <1>1. Governed(a)
    BY Bounds DEF Governed, NoBinding
  <1> QED  BY <1>1 DEF Apart

\* A change of one intent is a step of its effect.
LEMMA OneIntentMoves ==
    ASSUME IInv, NEW a \in Adapter, Governed(a), NEW e \in Event, NEW after,
           intents' = [intents EXCEPT ![a][e] = after], bound' = bound
    PROVE  /\ <<bound[a].execution, e>> \in Execution \X Event
           /\ External!Move({<<bound[a].execution, e>>}, intents[a][e], after)
  <1> DEFINE x == bound[a].execution
             old == Asked(bound, intents)
             now == Asked(bound, intents')
  <1>0. ASSUME NEW y \in Execution, NEW b \in Adapter, NEW c \in Adapter,
               bound[b].execution = y /\ bound[c].execution = y
        PROVE  b = c
    BY <1>0, OneEach DEF IInv
  <1>1. x \in Execution /\ \A b \in Adapter : BookOf(b)
    BY DEF IInv, Books, BookOf, Book, Governed
  <1>2. \A b \in Adapter : \A f \in Event :
           intents'[b][f] = IF b = a /\ f = e THEN after ELSE intents[b][f]
    BY <1>1 DEF IInv, Books, BookTables, BookOf, Book
  <1>9. ASSUME NEW y \in Execution, NEW f \in Event, NEW b \in Adapter, bound[b].execution = y
        PROVE  old[<<y, f>>] = intents[b][f] /\ now[<<y, f>>] = intents'[b][f]
    <2>1. \A c, d \in Adapter : bound[c].execution = y /\ bound[d].execution = y => c = d
      BY <1>0
    <2>2. ASSUME NEW int
          PROVE  \A c \in Adapter : bound[c].execution = y => Asked(bound, int)[<<y, f>>] = int[c][f]
      BY <2>1, AskedByOne
    <2>3. old[<<y, f>>] = intents[b][f]
      BY <1>9, <2>2
    <2>4. now[<<y, f>>] = intents'[b][f]
      BY <1>9, <2>2
    <2> QED  BY <2>3, <2>4
  <1>3. old[<<x, e>>] = intents[a][e] /\ now[<<x, e>>] = after
    <2>1. old[<<x, e>>] = intents[a][e] /\ now[<<x, e>>] = intents'[a][e]
      BY <1>1, <1>9
    <2> QED  BY <1>2, <2>1
  <1>4. ASSUME NEW y \in Execution, NEW f \in Event, ~(y = x /\ f = e)
        PROVE  now[<<y, f>>] = old[<<y, f>>]
    <2>1. CASE \E b \in Adapter : bound[b].execution = y
      <3>1. PICK b \in Adapter : bound[b].execution = y
        BY <2>1
      <3>2. old[<<y, f>>] = intents[b][f] /\ now[<<y, f>>] = intents'[b][f]
        BY <1>9, <3>1
      <3>3. ~(b = a /\ f = e)
        BY <1>4, <3>1
      <3> QED  BY <1>2, <3>2, <3>3
    <2>2. CASE \A b \in Adapter : bound[b].execution # y
      <3>1. /\ Asked(bound, intents)[<<y, f>>] = "absent"
            /\ Asked(bound, intents')[<<y, f>>] = "absent"
        BY <1>0, <2>2, AskedByOne
      <3> QED  BY <3>1
    <2> QED  BY <2>1, <2>2
  <1>5. now = [k \in Execution \X Event |-> IF k \in {<<x, e>>} THEN after ELSE old[k]]
    <2>1. \A k \in Execution \X Event :
             now[k] = IF k \in {<<x, e>>} THEN after ELSE old[k]
      <3> TAKE k \in Execution \X Event
      <3>1. PICK y \in Execution, f \in Event : k = <<y, f>>
        OBVIOUS
      <3> HIDE DEF now, old, x
      <3> QED  BY <1>3, <1>4, <3>1
    <2>2. now = [k \in Execution \X Event |-> now[k]]
      BY DEF Asked
    <2> HIDE DEF now, old, x
    <2> QED  BY <2>1, <2>2
  <1>6. Asked(bound, intents)' = now
    OBVIOUS
  <1> HIDE DEF x, now, old
  <1>7. \A k \in {<<x, e>>} : old[k] = intents[a][e]
    BY <1>3
  <1>8. External!Move({<<x, e>>}, intents[a][e], after)
    BY <1>5, <1>6, <1>7, OutboxMeans DEF old
  <1> QED  BY <1>1, <1>8 DEF x

\* Nothing is asked for anew when a grant is bound or revoked.
LEMMA BindingIsQuiet ==
    ASSUME IInv, Apart', NEW a \in Adapter, Binds(a) \/ Revokes(a)
    PROVE  Asked(bound', intents) = Asked(bound, intents)
  <1>1. /\ \A b \in Adapter : BookOf(b)
        /\ bound = [b \in Adapter |-> bound[b]]
    BY DEF IInv, Books, BookTables
  <1>2. ASSUME NEW x \in Execution, NEW b \in Adapter, NEW c \in Adapter,
               bound[b].execution = x /\ bound[c].execution = x
        PROVE  b = c
    BY <1>2, OneEach DEF IInv
  <1>3. ASSUME NEW x \in Execution, NEW b \in Adapter, NEW c \in Adapter,
               bound'[b].execution = x /\ bound'[c].execution = x
        PROVE  b = c
    <2>1. bound'[b] # NoBinding
      BY <1>3, Bounds DEF NoBinding
    <2> QED  BY <1>3, <2>1 DEF Apart, Governed
  <1>4. ASSUME NEW b \in Adapter, bound'[b].execution # bound[b].execution
        PROVE  b = a /\ Binds(a) /\ bound'[a].execution = Grant[a].execution
    <2>1. CASE Binds(a)
      <3>1. bound' = [c \in Adapter |->
                         IF c = a THEN [execution |-> Grant[a].execution, revoked |-> FALSE]
                         ELSE bound[c]]
        BY <1>1, <2>1 DEF Binds
      <3> QED  BY <1>4, <2>1, <3>1
    <2>2. CASE Revokes(a)
      <3>1. bound' = [c \in Adapter |-> IF c = a THEN [bound[a] EXCEPT !.revoked = TRUE]
                                        ELSE bound[c]]
        BY <1>1, <2>2 DEF Revokes
      <3>2. [bound[a] EXCEPT !.revoked = TRUE].execution = bound[a].execution
        BY <1>1 DEF BookOf, Book
      <3> QED  BY <1>4, <3>1, <3>2
    <2> QED  BY <2>1, <2>2
  <1>5. ASSUME NEW row, NEW x \in Execution, NEW e \in Event,
               \A b, c \in Adapter : row[b].execution = x /\ row[c].execution = x => b = c
        PROVE  /\ \A b \in Adapter :
                     row[b].execution = x => Asked(row, intents)[<<x, e>>] = intents[b][e]
               /\ (\A b \in Adapter : row[b].execution # x) =>
                     Asked(row, intents)[<<x, e>>] = "absent"
    BY <1>5, AskedByOne
  <1>6. ASSUME NEW x \in Execution, NEW e \in Event
        PROVE  Asked(bound', intents)[<<x, e>>] = Asked(bound, intents)[<<x, e>>]
    <2>1. /\ \A b, c \in Adapter : bound[b].execution = x /\ bound[c].execution = x => b = c
          /\ \A b, c \in Adapter : bound'[b].execution = x /\ bound'[c].execution = x => b = c
      BY <1>2, <1>3
    <2>2. /\ \A b \in Adapter :
                bound[b].execution = x => Asked(bound, intents)[<<x, e>>] = intents[b][e]
          /\ (\A b \in Adapter : bound[b].execution # x) =>
                Asked(bound, intents)[<<x, e>>] = "absent"
      BY <1>5, <2>1
    <2>3. /\ \A b \in Adapter :
                bound'[b].execution = x => Asked(bound', intents)[<<x, e>>] = intents[b][e]
          /\ (\A b \in Adapter : bound'[b].execution # x) =>
                Asked(bound', intents)[<<x, e>>] = "absent"
      BY <1>5, <2>1
    <2>4. CASE \A b \in Adapter : bound'[b].execution = x <=> bound[b].execution = x
      BY <2>2, <2>3, <2>4
    <2>5. CASE \E b \in Adapter : ~(bound'[b].execution = x <=> bound[b].execution = x)
      <3>1. /\ Binds(a) /\ bound'[a].execution = Grant[a].execution
            /\ ~(bound'[a].execution = x <=> bound[a].execution = x)
        BY <1>4, <2>5
      <3>2. bound[a].execution \notin Execution /\ intents[a][e] = "absent"
            /\ \A b \in Adapter : bound[b].execution # Grant[a].execution
        BY <1>1, <3>1, Bounds DEF Binds, Governed, Reserved, NoBinding, BookOf, Book
      <3>3. bound'[a].execution = x /\ Grant[a].execution = x
        BY <3>1, <3>2
      <3>4. Asked(bound', intents)[<<x, e>>] = "absent"
        BY <2>3, <3>2, <3>3
      <3>5. Asked(bound, intents)[<<x, e>>] = "absent"
        BY <2>2, <3>2, <3>3
      <3> QED  BY <3>4, <3>5
    <2> QED  BY <2>4, <2>5
  <1>7. /\ Asked(bound', intents) = [k \in Execution \X Event |-> Asked(bound', intents)[k]]
        /\ Asked(bound, intents) = [k \in Execution \X Event |-> Asked(bound, intents)[k]]
    BY DEF Asked
  <1>8. \A k \in Execution \X Event : Asked(bound', intents)[k] = Asked(bound, intents)[k]
    BY <1>6
  <1> QED  BY <1>7, <1>8

LEMMA Quiet ==
    ASSUME Asked(bound', intents') = Asked(bound, intents)
    PROVE  UNCHANGED External!vars
  BY DEF External!vars, Asked, AskedOf, Askers, Asker, Requesters

LEMMA OutboxStep ==
    ASSUME IInv, IInv', [Next]_vars
    PROVE  [External!Next]_External!vars
  <1>1. ASSUME UNCHANGED effects PROVE UNCHANGED External!vars
    <2>1. bound' = bound /\ intents' = intents
      BY <1>1 DEF effects
    <2> QED  BY <2>1, Quiet
  <1>2. CASE GovernanceNext /\ UNCHANGED <<delivery, effects, plan>>
    BY <1>1, <1>2
  <1>3. CASE UNCHANGED vars
    BY <1>1, <1>3 DEF vars
  <1>4. CASE DeliveryNext
    <2>1. EffectStep
      BY <1>4, EffectMoves
    <2>2. ASSUME NEW a \in Adapter, Binds(a) \/ Revokes(a) PROVE UNCHANGED External!vars
      <3>1. Asked(bound', intents) = Asked(bound, intents) /\ intents' = intents
        BY <2>2, BindingIsQuiet DEF IInv, Binds, Revokes
      <3> QED  BY <3>1, Quiet
    <2>3. ASSUME NEW a \in Adapter, NEW e \in Occurrence, Disposes(a, e)
          PROVE  [External!Next]_External!vars
      <3>1. CASE intents' = intents
        BY <2>3, <3>1, Quiet DEF Disposes
      <3>2. CASE intents' = [intents EXCEPT ![a][e] = "pending"]
        <4>1. e \in Event /\ BookOf(a) /\ Governed(a)
          BY <2>3, OccurrenceIsEvent DEF IInv, Books, Disposes
        <4>2. intents[a][e] = "absent"
          BY <2>3, <4>1 DEF BookOf, Book, Disposes
        <4> DEFINE K == {<<bound[a].execution, e>>}
        <4>3. External!Move(K, "absent", "pending") /\ K \in SUBSET (Execution \X Event)
          BY <2>3, <3>2, <4>1, <4>2, OneIntentMoves DEF Disposes
        <4> HIDE DEF K
        <4>4. PICK L \in SUBSET (Execution \X Event) : External!Move(L, "absent", "pending")
          BY <4>3
        <4>5. External!Request(L)
          BY <4>4 DEF External!Request
        <4> QED  BY <4>5 DEF External!Next
      <3>3. intents' = intents \/ intents' = [intents EXCEPT ![a][e] = "pending"]
        BY <2>3 DEF Disposes
      <3> QED  BY <3>1, <3>2, <3>3
    <2>4. ASSUME NEW a \in Adapter, NEW e \in Occurrence,
                 NEW after \in {"unknown", "canceled", "confirmed", "failed"}, Moves(a, e, after)
          PROVE  External!Next
      <3> DEFINE k == <<bound[a].execution, e>>
      <3>1. e \in Event /\ BookOf(a)
        BY OccurrenceIsEvent DEF IInv, Books
      <3>2. Governed(a) /\ <<intents[a][e], after>> \in Lives
        BY <2>4, <3>1 DEF BookOf, Book, Moves, Lives, Governed
      <3>3. External!Move({k}, intents[a][e], after) /\ k \in Execution \X Event
        BY <2>4, <3>1, <3>2, OneIntentMoves DEF Moves
      <3> HIDE DEF k
      <3>4. CASE intents[a][e] = "pending" /\ after = "unknown"
        BY <3>3, <3>4 DEF External!Next, External!Send
      <3>5. CASE intents[a][e] = "pending" /\ after = "canceled"
        BY <3>3, <3>5 DEF External!Next, External!Withdraw
      <3>6. CASE intents[a][e] = "unknown" /\ after \in {"confirmed", "failed"}
        BY <3>3, <3>6 DEF External!Next, External!Report
      <3> QED  BY <3>2, <3>4, <3>5, <3>6 DEF Lives
    <2>5. \/ UNCHANGED effects
          \/ \E a \in Adapter : Binds(a) \/ Revokes(a)
          \/ \E a \in Adapter, e \in Occurrence : Disposes(a, e)
          \/ \E a \in Adapter, e \in Occurrence,
                after \in {"unknown", "canceled", "confirmed", "failed"} : Moves(a, e, after)
      BY <2>1 DEF EffectStep
    <2> QED  BY <1>1, <2>2, <2>3, <2>4, <2>5
  <1> QED  BY <1>2, <1>3, <1>4 DEF Next

\* An effect of an execution namespace is requested once, sent once and never withdrawn
\* after, whatever becomes of adapters, grants and the head meanwhile
\* (governed_effect_bindings, begin_governed_effect, reconcile_governed_effect).
THEOREM OutboxImplemented == Spec => ImplementsOutbox
  <1>1. IInv /\ IInv' /\ [Next]_vars => [External!Next]_External!vars
    BY OutboxStep
  <1> QED  BY <1>1, OutboxStarts, Always, PTL DEF Spec, ImplementsOutbox, External!Spec
=============================================================================
