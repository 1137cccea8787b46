------------------------------- MODULE Outbox -------------------------------
(***************************************************************************)
(* What the durable outboxes of weave-engine promise the world outside: an *)
(* effect identified by an idempotency key is requested at most once, its  *)
(* dispatch is authorized at most once, and once authorized it is unknown  *)
(* until somebody reports what became of it.  It is never sent again,      *)
(* never withdrawn after it was sent, and a report is final.               *)
(*                                                                         *)
(* Dispatch implements it with the intents of handler adapters,            *)
(* GovernedEffects with those of governed grants.                          *)
(***************************************************************************)
CONSTANT Key        \* idempotency keys

VARIABLE outbox     \* the state of the effect each key names

States == {"absent", "pending", "unknown", "confirmed", "failed", "canceled"}

Init == outbox = [k \in Key |-> "absent"]

\* The effects of K move from one state to another together, in one transaction.
Move(K, before, after) ==
    /\ \A k \in K : outbox[k] = before
    /\ outbox' = [k \in Key |-> IF k \in K THEN after ELSE outbox[k]]

Request(K) == Move(K, "absent", "pending")
Withdraw(k) == Move({k}, "pending", "canceled")
Send(k) == Move({k}, "pending", "unknown")
Report(k, outcome) == Move({k}, "unknown", outcome)

Next ==
    \/ \E K \in SUBSET Key : Request(K)
    \/ \E k \in Key : \/ Withdraw(k)
                      \/ Send(k)
                      \/ \E outcome \in {"confirmed", "failed"} : Report(k, outcome)

vars == <<outbox>>

Spec == Init /\ [][Next]_vars
=============================================================================
